CONSTANTS
    DryRun = FALSE
    Strict = TRUE
    Shapes <- MCNoSteps
    Retries <- MCNoRetries
    FailFast = TRUE
    NumBeforeStepHooks = 0
    NumAfterStepHooks = 0
SPECIFICATION Spec
INVARIANT AfterHooksRunEvenWithoutSteps
