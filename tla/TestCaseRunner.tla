---------------------------- MODULE TestCaseRunner ----------------------------
(***************************************************************************)
(* One test case, from its first attempt to its final status               *)
(* (src/src/runtime/test_case_runner.ts): the steps and hooks of each      *)
(* attempt in order, step hooks around each step, what is skipped after a  *)
(* result that is not a pass, what After hooks are told, and retries.      *)
(* User code is nondeterministic: an action is what happens up to the next *)
(* await of a hook or a step.                                              *)
(***************************************************************************)
EXTENDS Statuses, Sequences

CONSTANTS
    Shapes,                \* the sequences of test steps a test case may have
    Retries,               \* the values retriesForPickle may return
    FailFast,              \* options.failFast
    NumBeforeStepHooks,    \* getBeforeStepHookDefinitions().length
    NumAfterStepHooks      \* getAfterStepHookDefinitions().length

(* A test step is a Before or an After hook, or a pickle step with no, one *)
(* or several step definitions.                                            *)
Hooks == {"before", "after"}
PickleSteps == {"undefined", "defined", "ambiguous"}

(* assembleTestCases puts After hooks behind the steps of the pickle. *)
ASSUME TestCaseRunnerAssumption ==
    /\ Shapes \subseteq Seq(Hooks \cup PickleSteps)
    /\ \A shape \in Shapes : \A i, j \in DOMAIN shape :
           shape[i] = "after" /\ shape[j] \in PickleSteps => j < i
    /\ Retries \subseteq Nat
    /\ FailFast \in BOOLEAN
    /\ NumBeforeStepHooks \in Nat
    /\ NumAfterStepHooks \in Nat

VARIABLES
    testSteps,          \* testCase.testSteps, fixed from the start
    skip,               \* the constructor's skip, fixed from the start
    maxAttempts,        \* 1 + retries, fixed from the start
    pc,                 \* what the runner does next or awaits
    attempt,            \* the attempt's number, from 0
    testStepResults,    \* statuses of the finished test steps of the attempt
    didWeRunStepsYet,   \* a pickle step of the attempt has finished
    error,              \* `error` of runAttempt holds what a step threw
    hookParameter,      \* what the current hook is told of result and error
    stepHooksRun,       \* runStep: the step hooks of the current list that have run
    stepResults,        \* runStep: statuses of the step and its step hooks
    stepError           \* runStep: the step's own code threw

VARIABLES
    bodyRan,            \* the test steps of the attempt whose own code ran
    threw,              \* the pickle steps of the attempt whose own code threw
    failedStepHooks,    \* the step hooks of the attempt that failed: <<test step, list>>
    told,               \* what the After hooks of the attempt were told when they started
    lastFinished        \* willBeRetried of the last testCaseFinished

configVars == <<testSteps, skip, maxAttempts>>

stepVars == <<stepHooksRun, stepResults, stepError>>

historyVars == <<bodyRan, threw, failedStepHooks, told, lastFinished>>

vars ==
    <<configVars, pc, attempt, testStepResults, didWeRunStepsYet, error, hookParameter,
      stepVars, historyVars>>

-----------------------------------------------------------------------------
(* The test step being run is the first without a result. *)
Current == Len(testStepResults) + 1

ResultsSoFar == {testStepResults[i] : i \in DOMAIN testStepResults}

(* getWorstStepResult *)
WorstSoFar ==
    IF testStepResults = << >> THEN (IF skip THEN "SKIPPED" ELSE "PASSED")
    ELSE Worst(ResultsSoFar)

IsSkippingSteps == WorstSoFar # "PASSED"

IsExplicitlySkipped == ~skip /\ WorstSoFar = "SKIPPED"

ShouldSkipHook(isBeforeHook) == skip \/ (IsSkippingSteps /\ isBeforeHook)

\* Wrong variant: one attempt too few.
MoreAttemptsRemaining_OneLess == attempt + 2 < maxAttempts

MoreAttemptsRemaining == attempt + 1 < maxAttempts

WillBeRetried == WorstSoFar = "FAILED" /\ MoreAttemptsRemaining

(* What StepRunner.run makes of a call of user code.                       *)
UserCodeStatuses == {"PASSED", "FAILED", "SKIPPED", "PENDING"}

Untold == [told |-> FALSE, result |-> "UNKNOWN", error |-> FALSE, willBeRetried |-> FALSE]

TypeOK ==
    /\ testSteps \in Shapes
    /\ skip \in BOOLEAN
    /\ maxAttempts \in Nat \ {0}
    /\ pc \in {"attempt", "testStep", "hook", "beforeStepHooks", "step", "afterStepHooks", "done"}
    /\ attempt \in 0 .. maxAttempts - 1
    /\ testStepResults \in Seq(Status)
    /\ Len(testStepResults) <= Len(testSteps)
    /\ didWeRunStepsYet \in BOOLEAN
    /\ error \in BOOLEAN
    /\ hookParameter \in
         [told : BOOLEAN, result : Status, error : BOOLEAN, willBeRetried : BOOLEAN]
    /\ stepHooksRun \in Nat
    /\ stepResults \subseteq Status
    /\ stepError \in BOOLEAN
    /\ bodyRan \subseteq DOMAIN testSteps
    /\ threw \subseteq bodyRan
    /\ failedStepHooks \subseteq (DOMAIN testSteps) \X {"beforeStepHooks", "afterStepHooks"}
    /\ told \subseteq [hook : DOMAIN testSteps, result : Status, willBeRetried : BOOLEAN]
    /\ lastFinished \in BOOLEAN

(* Executor.runTestCase makes the runner; a skipped test case has no retry. *)
Init ==
    /\ testSteps \in Shapes
    /\ \E failing \in BOOLEAN : skip = (DryRun \/ (FailFast /\ failing))
    /\ \E retries \in Retries : maxAttempts = 1 + (IF skip THEN 0 ELSE retries)
    /\ pc = "attempt"
    /\ attempt = 0
    /\ testStepResults = << >>
    /\ didWeRunStepsYet = FALSE
    /\ error = FALSE
    /\ hookParameter = Untold
    /\ stepHooksRun = 0
    /\ stepResults = {}
    /\ stepError = FALSE
    /\ bodyRan = {}
    /\ threw = {}
    /\ failedStepHooks = {}
    /\ told = {}
    /\ lastFinished = FALSE

-----------------------------------------------------------------------------
(* runAttempt announces the attempt. *)
StartAttempt ==
    /\ pc = "attempt"
    /\ pc' = "testStep"
    /\ didWeRunStepsYet' = FALSE
    /\ error' = FALSE
    /\ bodyRan' = {} /\ threw' = {} /\ failedStepHooks' = {} /\ told' = {}
    /\ UNCHANGED <<configVars, attempt, testStepResults, hookParameter, stepVars, lastFinished>>

(* The end of aroundTestStep. *)
FinishTestStep(status) ==
    /\ testStepResults' = Append(testStepResults, status)
    /\ pc' = "testStep"

(* A hook is a Before hook to the runner until a step has run.             *)
\* Wrong variants: the attempts left are not looked at; no hook hears of a
\* retry.
HookArgument_AnyAttempt ==
    IF didWeRunStepsYet
    THEN [told |-> TRUE, result |-> WorstSoFar, error |-> error,
          willBeRetried |-> WorstSoFar = "FAILED"]
    ELSE Untold

HookArgument_NoRetry ==
    IF didWeRunStepsYet
    THEN [told |-> TRUE, result |-> WorstSoFar, error |-> error, willBeRetried |-> FALSE]
    ELSE Untold

HookArgument ==
    IF didWeRunStepsYet
    THEN [told |-> TRUE, result |-> WorstSoFar, error |-> error, willBeRetried |-> WillBeRetried]
    ELSE Untold

(* What is remembered of it: nothing of a hook that was told nothing.      *)
ToldNow ==
    IF HookArgument.told
    THEN {[hook |-> Current, result |-> HookArgument.result,
           willBeRetried |-> HookArgument.willBeRetried]}
    ELSE {}

StartHook ==
    /\ pc = "testStep" /\ Current \in DOMAIN testSteps /\ testSteps[Current] \in Hooks
    /\ IF ShouldSkipHook(~didWeRunStepsYet)
       THEN /\ FinishTestStep("SKIPPED")
            /\ UNCHANGED <<hookParameter, told>>
       ELSE /\ hookParameter' = HookArgument
            /\ told' = told \cup ToldNow
            /\ pc' = "hook"
            /\ UNCHANGED testStepResults
    /\ UNCHANGED <<configVars, attempt, didWeRunStepsYet, error, stepVars>>
    /\ UNCHANGED <<bodyRan, threw, failedStepHooks, lastFinished>>

HookEnds ==
    /\ pc = "hook"
    /\ \E status \in UserCodeStatuses : FinishTestStep(status)
    /\ hookParameter' = Untold
    /\ bodyRan' = bodyRan \cup {Current}
    /\ UNCHANGED <<configVars, attempt, didWeRunStepsYet, error, stepVars>>
    /\ UNCHANGED <<threw, failedStepHooks, told, lastFinished>>

(* What runStep returns at once, without running anything: "" if it has to *)
(* run the step.                                                           *)
\* Wrong variants: skipping is decided before looking for definitions; a step
\* runs after one that did not pass.
ImmediateStatus_SkipFirst(kind) ==
    IF IsSkippingSteps THEN "SKIPPED"
    ELSE IF kind = "undefined" THEN "UNDEFINED"
    ELSE IF kind = "ambiguous" THEN "AMBIGUOUS"
    ELSE ""

ImmediateStatus_NeverSkips(kind) ==
    IF IsExplicitlySkipped THEN "SKIPPED"
    ELSE IF kind = "undefined" THEN "UNDEFINED"
    ELSE IF kind = "ambiguous" THEN "AMBIGUOUS"
    ELSE ""

ImmediateStatus(kind) ==
    IF IsExplicitlySkipped THEN "SKIPPED"
    ELSE IF kind = "undefined" THEN "UNDEFINED"
    ELSE IF kind = "ambiguous" THEN "AMBIGUOUS"
    ELSE IF IsSkippingSteps THEN "SKIPPED"
    ELSE ""

(* The pickle step of this iteration has finished with or without error.   *)
PickleStepReturns(status, stepThrew) ==
    /\ FinishTestStep(status)
    /\ didWeRunStepsYet' = TRUE
    /\ error' = stepThrew

StartPickleStep ==
    /\ pc = "testStep" /\ Current \in DOMAIN testSteps /\ testSteps[Current] \in PickleSteps
    /\ LET status == ImmediateStatus(testSteps[Current])
       IN  IF status # ""
           THEN PickleStepReturns(status, FALSE)
           ELSE /\ pc' = "beforeStepHooks"
                /\ UNCHANGED <<testStepResults, didWeRunStepsYet, error>>
    /\ UNCHANGED <<configVars, attempt, hookParameter, stepVars, historyVars>>

(* runStepHooks: every hook of the list runs, whatever the others did.     *)
RunStepHook ==
    /\ \/ pc = "beforeStepHooks" /\ stepHooksRun < NumBeforeStepHooks
       \/ pc = "afterStepHooks" /\ stepHooksRun < NumAfterStepHooks
    /\ \E status \in UserCodeStatuses :
           /\ stepResults' = stepResults \cup {status}
           /\ failedStepHooks' =
                  failedStepHooks \cup (IF status = "FAILED" THEN {<<Current, pc>>} ELSE {})
    /\ stepHooksRun' = stepHooksRun + 1
    /\ UNCHANGED <<configVars, pc, attempt, testStepResults, didWeRunStepsYet, error>>
    /\ UNCHANGED <<hookParameter, stepError, bodyRan, threw, told, lastFinished>>

(* A failed before-step hook keeps the step from running; one that is      *)
(* skipped or pending does not.                                            *)
\* Wrong variant: the results of the before-step hooks are not looked at.
BeforeStepHooksDone_Always ==
    /\ pc = "beforeStepHooks" /\ stepHooksRun = NumBeforeStepHooks
    /\ pc' = "step"
    /\ stepHooksRun' = 0
    /\ UNCHANGED <<configVars, attempt, testStepResults, didWeRunStepsYet, error>>
    /\ UNCHANGED <<hookParameter, stepResults, stepError, historyVars>>

BeforeStepHooksDone ==
    /\ pc = "beforeStepHooks" /\ stepHooksRun = NumBeforeStepHooks
    /\ pc' = IF Worst(stepResults) # "FAILED" THEN "step" ELSE "afterStepHooks"
    /\ stepHooksRun' = 0
    /\ UNCHANGED <<configVars, attempt, testStepResults, didWeRunStepsYet, error>>
    /\ UNCHANGED <<hookParameter, stepResults, stepError, historyVars>>

StepEnds ==
    /\ pc = "step"
    /\ \E status \in UserCodeStatuses :
           /\ stepResults' = stepResults \cup {status}
           /\ stepError' = (status = "FAILED")
           /\ threw' = IF status = "FAILED" THEN threw \cup {Current} ELSE threw
    /\ bodyRan' = bodyRan \cup {Current}
    /\ pc' = "afterStepHooks"
    /\ UNCHANGED <<configVars, attempt, testStepResults, didWeRunStepsYet, error>>
    /\ UNCHANGED <<hookParameter, stepHooksRun, failedStepHooks, told, lastFinished>>

AfterStepHooksDone ==
    /\ pc = "afterStepHooks" /\ stepHooksRun = NumAfterStepHooks
    /\ PickleStepReturns(Worst(stepResults), stepError)
    /\ stepHooksRun' = 0 /\ stepResults' = {} /\ stepError' = FALSE
    /\ UNCHANGED <<configVars, attempt, hookParameter, historyVars>>

(* The attempt is over; run() stops or resets the progress and goes on.    *)
\* Wrong variant: the results of the failed attempt are kept.
ResetTestProgressData_KeepsResults == UNCHANGED testStepResults

ResetTestProgressData == testStepResults' = << >>

\* Wrong variant: the attempt is not counted.
FinishAttempt_Uncounted ==
    /\ pc = "testStep" /\ Current \notin DOMAIN testSteps
    /\ lastFinished' = WillBeRetried
    /\ IF WillBeRetried
       THEN ResetTestProgressData /\ pc' = "attempt"
       ELSE pc' = "done" /\ UNCHANGED testStepResults
    /\ UNCHANGED <<configVars, attempt, didWeRunStepsYet, error, hookParameter, stepVars>>
    /\ UNCHANGED <<bodyRan, threw, failedStepHooks, told>>

FinishAttempt ==
    /\ pc = "testStep" /\ Current \notin DOMAIN testSteps
    /\ lastFinished' = WillBeRetried
    /\ IF WillBeRetried
       THEN /\ ResetTestProgressData
            /\ attempt' = attempt + 1
            /\ pc' = "attempt"
       ELSE /\ pc' = "done"
            /\ UNCHANGED <<attempt, testStepResults>>
    /\ UNCHANGED <<configVars, didWeRunStepsYet, error, hookParameter, stepVars>>
    /\ UNCHANGED <<bodyRan, threw, failedStepHooks, told>>

Done == pc = "done" /\ UNCHANGED vars

Step ==
    \/ StartAttempt
    \/ StartHook
    \/ HookEnds
    \/ StartPickleStep
    \/ RunStepHook
    \/ BeforeStepHooksDone
    \/ StepEnds
    \/ AfterStepHooksDone
    \/ FinishAttempt

Next == Step \/ Done

Spec == Init /\ [][Next]_vars

(* User code ends, by its timeout if not otherwise.                        *)
FairSpec == Spec /\ WF_vars(Step)

-----------------------------------------------------------------------------
(* Properties. *)

(* The last test step of the attempt has finished. *)
AttemptOver == pc \in {"testStep", "done"} /\ Len(testStepResults) = Len(testSteps)

HasPickleStep == \E i \in DOMAIN testSteps : testSteps[i] \in PickleSteps

(* The code of a step only runs when every hook and every step before it   *)
(* in the attempt has passed and none of its own BeforeStep hooks has      *)
(* failed: one of these that is skipped or pending lets it run             *)
(* (test_case_runner.ts:362). And a step with a failed step hook has       *)
(* failed, whatever its code and its other hooks did, so that nothing      *)
(* behind it runs.                                                         *)
NoStepAfterUnpassed ==
    /\ \A i \in bodyRan : testSteps[i] = "defined" =>
           /\ \A j \in DOMAIN testStepResults : j < i => testStepResults[j] = "PASSED"
           /\ <<i, "beforeStepHooks">> \notin failedStepHooks
    /\ \A failed \in failedStepHooks : failed[1] \in DOMAIN testStepResults =>
           testStepResults[failed[1]] = "FAILED"

(* A skipped test case (a dry run, or fail fast) executes no user code at  *)
(* all (docs/dry_run.md), and still tells what is undefined: steps without *)
(* or with several definitions are reported as such there and after a      *)
(* failure, and only an explicit skip hides them.                          *)
SkippedStillJudged ==
    /\ skip => bodyRan = {} /\ pc \in {"attempt", "testStep", "done"}
    /\ \A i \in DOMAIN testStepResults :
           testSteps[i] \in {"undefined", "ambiguous"} =>
               \/ testStepResults[i] \in {"UNDEFINED", "AMBIGUOUS"}
               \/ ~skip /\ \E j \in 1 .. i - 1 : testStepResults[j] = "SKIPPED"

(* Every attempt of a test case that is not skipped starts over and ends   *)
(* in order: nothing of a failed attempt keeps the first hook of the next  *)
(* from running (docs/retry.md), and however the attempt goes its After    *)
(* hooks run, provided that it has a step.                                 *)
EveryAttemptIsWhole ==
    AttemptOver /\ ~skip =>
        \A i \in DOMAIN testSteps :
            \/ testSteps[i] = "before" /\ i = 1
            \/ testSteps[i] = "after" /\ HasPickleStep
               => i \in bodyRan

(* What an After hook is told of a retry is what happens, and so is what   *)
(* testCaseFinished says. There is one exception: a hook that is told of   *)
(* no retry while nothing has failed may see one after all, if it fails    *)
(* itself or a hook behind it does.                                        *)
RetryAsAnnounced ==
    [][ /\ pc # "attempt" /\ pc' = "attempt" =>
            /\ lastFinished' /\ attempt' = attempt + 1
            /\ \A hook \in told :
                   \/ hook.willBeRetried
                   \/ /\ hook.result # "FAILED"
                      /\ \E j \in hook.hook .. Len(testStepResults) :
                             testStepResults[j] = "FAILED"
        /\ pc # "done" /\ pc' = "done" =>
            ~lastFinished' /\ \A hook \in told : ~hook.willBeRetried ]_vars

(* The final status is one the executor knows how to judge, and a test     *)
(* case only ends as FAILED when no attempt is left.                       *)
FinalStatusJudged ==
    pc = "done" =>
        /\ WorstSoFar \in FinalStatuses(skip)
        /\ WorstSoFar = "FAILED" => attempt = maxAttempts - 1

(* Whatever fails, however often, the test case comes to its end.          *)
Finishes == <>(pc = "done")

(* CHANGELOG.md 12.0.0: "Add original `error` to `After` and `AfterStep`   *)
(* hook parameters" - a hook told of a failure that a step threw is given  *)
(* the error.                                                              *)
AfterHookToldError ==
    pc = "hook" /\ hookParameter.result = "FAILED" /\ threw # {} => hookParameter.error

(* docs/support_files/api_reference.md: After "Defines a hook which is run *)
(* after each scenario" - one without steps included.                      *)
AfterHooksRunEvenWithoutSteps ==
    AttemptOver /\ ~skip =>
        \A i \in DOMAIN testSteps : testSteps[i] = "after" => i \in bodyRan
=============================================================================
