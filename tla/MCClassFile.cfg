SPECIFICATION Spec
CONSTANTS
    UnitName = "u"
    Routines <- MCRoutines
    Variables <- MCVariables
    Records <- MCRecords
    MaxUses = 3
    UserConstants <- MCConstants
INVARIANTS
    PoolComplete
    
    WellFormed
    TypeOK
\* A class file is made once.
CHECK_DEADLOCK FALSE
