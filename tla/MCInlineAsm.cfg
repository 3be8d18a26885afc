SPECIFICATION Spec
CONSTANTS
    Instructions <- MCInstructions
    Numbers = {250, 300}
    Names <- MCNames
    Before = {0, 3}
    MaxContents = 3
    MaxBodies = 2
    MaxBreaks = 1
INVARIANTS Assembled
CHECK_DEADLOCK FALSE
