SPECIFICATION Spec
CONSTANTS
    f = f
    x = x
    run = run
    int = int
    Void = Void
    Names = {f, x, run}
    Protected = {run}
    Params <- MCParams
    Results = {int}
    MaxDeclarations = 4
INVARIANTS
    TypeOK
    CallsLink
    MethodsMatch
    
    SlotsApart
\* A program is declared once.
CHECK_DEADLOCK FALSE
