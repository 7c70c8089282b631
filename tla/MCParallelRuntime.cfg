CONSTANTS
    DryRun = FALSE
    Strict = TRUE
    FailFast = TRUE
    BeforeTestRunHooks <- MCBeforeTestRunHooks
    AfterTestRunHooks <- MCAfterTestRunHooks
    OnCoordinator <- MCOnCoordinator
    NumCases = 4
    CanAssign <- MCCanAssign
    NumWorkers = 3
    MaxLosses = 1
SPECIFICATION FairSpec
CHECK_DEADLOCK FALSE
INVARIANTS
    IInv
    OneCommandPerWorker
    EveryCaseAccountedFor
    OpenPhaseHasWork
    NoRefusedPairTogether
    RunHooksBracketCases
PROPERTIES
    FailFastDrains
    KeepsRunContract
    HeardLossFailsRun
    RunReturns
