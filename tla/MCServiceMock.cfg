SPECIFICATION FairSpec
CONSTANTS
    Service <- MCService
    Request <- MCRequest
    Def <- MCDef
    Tree <- MCTree
    Default <- MCDefault
    NTests = 2
    Mocks <- MCMocks
    Malformed = {"p2"}
    MaxRequests = 3
INVARIANTS SequenceInOrder CallsCountWindow OffendersReported MismatchFailsTest
           DefinitionsOfTheTest NoCarryOver
PROPERTIES RunEnds
