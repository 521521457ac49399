SPECIFICATION Spec
CONSTANTS
    Worlds <- MCWorlds
    Requests <- MCRequests
    Database = {1, 2, 3, 4}
    MaxDepth = 5
INVARIANTS RedisLoadedExactly RefusedForCause
