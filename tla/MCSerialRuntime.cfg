CONSTANTS
    DryRun = FALSE
    Strict = TRUE
    FailFast = TRUE
    BeforeTestRunHooks <- MCBeforeTestRunHooks
    AfterTestRunHooks <- MCAfterTestRunHooks
    OnCoordinator <- MCOnCoordinator
    NumCases = 5
SPECIFICATION Spec
INVARIANTS
    NothingExecutesAfterFailure
    VerdictAfterEveryHook
PROPERTIES
    KeepsRunContract
