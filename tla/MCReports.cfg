CONSTANTS
    DryRun = FALSE
    Strict = TRUE
    Documents <- MCDocuments
    Pickles <- MCPickles
    StepDefinitions <- MCStepDefinitions
    GenerateExpressions <- MCGenerateExpressions
    MaxShown = 3
    Took <- MCTook
    Thrown <- MCThrown
    PrintAttachments = TRUE
    FramesOf <- MCFramesOf
    CauseOf <- MCCauseOf
    NoCause = NoCause
    MaxCauseDepth = 2
    FilterStackTraces = TRUE
    Attaching <- MCAttaching
    Glob <- MCGlob
    DirectoryOf <- MCDirectoryOf
    DefaultPaths <- MCDefaultPaths
    TestCases <- MCTestCases
    TestStepsOf <- MCTestStepsOf
    StepStatuses <- MCStepStatuses
    MaxAttempts = 2
    MaxRunning = 2
SPECIFICATION Spec
INVARIANTS
    SummaryMatchesVerdict
    ReportTellsWhatHappened
    ErrorsAreTold
    ArgumentsComeThrough
    UsesAreCounted
    SnippetsFit
    RerunRoundTrip
