SPECIFICATION Spec
CONSTANTS
    Cases <- MCCases
    Cases1 <- MCCases1
    URIs = {"/a", "/b"}
    MaxCases = 2
INVARIANTS StepsFinished ErrorsShown FailuresJustified AttachmentsOnDisk SuiteTellsAll
