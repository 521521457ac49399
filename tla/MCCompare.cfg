SPECIFICATION Spec
CONSTANTS
    Inputs <- MCInputs
    MaxInt = 4
INVARIANTS
    NoErrorMeansMatch
    MatchIsFound
CHECK_DEADLOCK FALSE
