CONSTANTS
    a = a
    b = b
    TestRun = TestRun
    TestCases = {a, b}
    NumCalls = 3
    Plans <- MCPlans
    Timed <- MCTimed
    GapAfter <- MCGapAfter
    Transforming = {2}
    Streaming = {1, 2}
    Writing = {1}
SPECIFICATION FairSpec
INVARIANTS
    PassedByOwnAnswer
PROPERTIES
    ListensWhileAwaited
    AttachedWhileOpen
    WorldsKeptApart
    TimedCallReturns
