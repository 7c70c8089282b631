CONSTANTS
    DryRun = FALSE
    Strict = TRUE
    Shapes <- MCShapes
    Retries <- MCRetries
    FailFast = TRUE
    NumBeforeStepHooks = 1
    NumAfterStepHooks = 1
SPECIFICATION FairSpec
INVARIANTS
    NoStepAfterUnpassed
    SkippedStillJudged
    EveryAttemptIsWhole
    FinalStatusJudged
PROPERTIES
    RetryAsAnnounced
    Finishes
