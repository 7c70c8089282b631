------------------------------- MODULE Executor -------------------------------
(***************************************************************************)
(* The unit-of-work executor of the main thread                            *)
(* (src/src/runtime/executor.ts): runs BeforeAll hooks in the order they   *)
(* were defined and AfterAll hooks in the reverse order, every one of them *)
(* even after one has failed, and decides whether a finished test case     *)
(* counts as a failure.                                                    *)
(***************************************************************************)
EXTENDS Statuses

CONSTANTS
    FailFast,             \* options.failFast
    BeforeTestRunHooks,   \* supportCodeLibrary.beforeTestRunHookDefinitions
    AfterTestRunHooks,    \* supportCodeLibrary.afterTestRunHookDefinitions
    OnCoordinator         \* the hooks defined with on: HookTarget.COORDINATOR

(* A hook is the number of its definition, so a smaller one was defined    *)
(* earlier, and the part of a loop that is left is a set.                  *)
ASSUME ExecutorAssumption ==
    /\ FailFast \in BOOLEAN
    /\ BeforeTestRunHooks \subseteq Nat
    /\ AfterTestRunHooks \subseteq Nat

VARIABLES
    hooksLeft,   \* the hooks of the current loop that have not finished
    hooksOk      \* `success` of the current loop

executorVars == <<hooksLeft, hooksOk>>

ExecutorTypeOK ==
    /\ hooksLeft \subseteq (BeforeTestRunHooks \cup AfterTestRunHooks)
    /\ hooksOk \in BOOLEAN

ExecutorInit == hooksLeft = {} /\ hooksOk = TRUE

(* runBeforeAllHooks or runAfterAllHooks enters its loop over hooks.       *)
BeginHooks(hooks) == hooksLeft' = hooks /\ hooksOk' = TRUE

(* runTestRunHook: skipped in a dry run, otherwise user code that passes   *)
(* or fails; a failure does not leave the loop.                            *)
\* Wrong variant: the loop is left at the first failure.
RunTestRunHook_StopsAtFailure(h) ==
    \E status \in IF DryRun THEN {"SKIPPED"} ELSE {"PASSED", "FAILED"} :
        /\ hooksOk' = (hooksOk /\ status # "FAILED")
        /\ hooksLeft' = IF status = "FAILED" THEN {} ELSE hooksLeft \ {h}

RunTestRunHook(h) ==
    /\ \E status \in IF DryRun THEN {"SKIPPED"} ELSE {"PASSED", "FAILED"} :
           hooksOk' = (hooksOk /\ status # "FAILED")
    /\ hooksLeft' = hooksLeft \ {h}

RunBeforeAllHook ==
    \E h \in hooksLeft : (\A g \in hooksLeft : h <= g) /\ RunTestRunHook(h)

RunAfterAllHook ==
    \E h \in hooksLeft : (\A g \in hooksLeft : g <= h) /\ RunTestRunHook(h)

(* runTestCase: `skip`, and the successes that may be returned for it.     *)
\* Wrong variant: fail fast is not looked at.
Skips_DryRunOnly(failing) == DryRun

Skips(failing) == DryRun \/ (FailFast /\ failing)

TestCaseSuccesses(failing) ==
    { ~ShouldCauseFailure(s) : s \in FinalStatuses(Skips(failing)) }

(* The same for the whole loop of test run hooks a worker executes.        *)
HookLoopSuccesses(hooks) ==
    IF DryRun \/ hooks = {} THEN {TRUE} ELSE BOOLEAN
=============================================================================
