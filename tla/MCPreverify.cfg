SPECIFICATION Spec
CONSTANTS
    Methods <- MCMethods
    MaxSteps = 50
INVARIANTS TypeOK Described DeviceAccepts SameBehaviour
PROPERTY ComesToAnEnd
