SPECIFICATION Spec
CONSTANTS
    Routines <- MCRoutines
    Canvases = {"NORMAL", "FULL_NOKIA"}
    MaxCalls = 2
INVARIANTS TypeOK NeverStuck LeavesResult ArgumentsKept ArgumentsInOrder 
CHECK_DEADLOCK FALSE
