SPECIFICATION Spec
CONSTANTS
    Methods <- MCMethods
    MaxSteps = 50
INVARIANT NoCrash
