SPECIFICATION Spec
CONSTANTS
    Inputs <- MCInputs
    Answers <- MCAnswers
    Databases = {"one", "two"}
    Words = {"", "one", "two", "other", "q", "q1", "q2", "q3", "q4", "q5", "q6"}
INVARIANTS
    PassMeansMet
    NoFalseAlarm
    ErrorsPointAtQuery
CHECK_DEADLOCK FALSE
