SPECIFICATION Spec
CONSTANTS
    Kinds = {"integer", "real", "boolean", "char", "string", "command"}
    Targets = {"real", "string"}
    Operators = {"*", "/", "div", "and", "+", "-", "or", "=", "<"}
    Unused <- MCUnused
    Functions <- MCFunctions
    Arrays <- MCArrays
    MaxOperands = 3
    Signed = {1}
INVARIANTS TypeOK Accepted NothingRefused  OperandsKept
