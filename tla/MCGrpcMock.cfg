SPECIFICATION Spec
CONSTANTS
    Mock = {"users", "pay"}
    Method = {"/U/Get", "/U/Put"}
    Payload = {"p1", "p2"}
    NTests = 4
    GrpcMocks <- MCGrpcMocks
    MaxCalls = 2
INVARIANTS ErrorsAreMismatches OwnDefinition
