CONSTANTS
    DryRun = FALSE
    Strict = TRUE
    Shapes <- MCTwoSteps
    Retries <- MCNoRetries
    FailFast = TRUE
    NumBeforeStepHooks = 1
    NumAfterStepHooks = 1
SPECIFICATION Spec
INVARIANT AfterHookToldError
