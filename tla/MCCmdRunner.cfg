SPECIFICATION Spec
CONSTANTS
    MaxLines = 4
    Capacity = 2
INVARIANTS Verdict
PROPERTIES Returns
