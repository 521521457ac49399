SPECIFICATION Spec
CONSTANTS
    Var = {"x", "y"}
    Value = {"own", "other"}
    Definitions <- Both
    NDefs = 2
INVARIANTS RequestPriority ResponsePriority
PROPERTY SetVariableLasts
