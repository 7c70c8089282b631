CONSTANTS
    DryRun = FALSE
    Strict = FALSE
    FailFast = FALSE
    BeforeTestRunHooks <- MCBeforeTestRunHooks
    AfterTestRunHooks <- MCAfterTestRunHooks
    OnCoordinator <- MCOnCoordinator
    NumCases = 2
    CanAssign <- MCCanAssign
    NumWorkers = 2
    MaxLosses = 1
CHECK_DEADLOCK FALSE
SPECIFICATION FairSpec
PROPERTIES
    LossEndsRun
