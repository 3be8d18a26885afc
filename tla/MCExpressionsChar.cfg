SPECIFICATION Spec
CONSTANTS
    Kinds = {"integer", "real", "boolean", "char", "string", "command"}
    Targets = {"real", "string"}
    Operators = {"*", "/", "div", "and", "+", "-", "or", "=", "<"}
    Unused <- Booleans
    Functions <- MCFunctions
    Arrays <- MCArrays
    MaxOperands = 2
    Signed = {1}
INVARIANT Accepted
