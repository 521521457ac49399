SPECIFICATION Spec
CONSTANTS
    NTests = 3
    NCheckers = 2
    Allure = {"none", "v1", "v2"}
INVARIANTS FocusRespected GreenIsEarned ReportComplete
PROPERTIES KeepsPromise
