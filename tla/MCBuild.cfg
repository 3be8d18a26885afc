SPECIFICATION Spec
CONSTANTS
    A = A
    P = P
    L = L
    Units = {A}
    Program = P
    Libraries = {L}
    Uses <- MCUses
    Public <- MCPublic
    Private <- MCPrivate
    Mistakes <- MCMistakes
    Detects = {P}
    MaxVersion = 1
    MaxRecord = 5
    ErrorLimit = 1
INVARIANTS
    TypeOK
    BuiltAgree
    
    StatusTells
\* The IDE need not start another run.
CHECK_DEADLOCK FALSE
