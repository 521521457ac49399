SPECIFICATION Spec
CONSTANTS
    Caller = {"c1", "c2", "c3"}
    File = {"api.protoset"}
INVARIANTS NoConnectionLost OneSource AllClosed
