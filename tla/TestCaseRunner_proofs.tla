------------------------- MODULE TestCaseRunner_proofs -------------------------
(***************************************************************************)
(* Safety of TestCaseRunner, for every test case, any number of retries    *)
(* and any number of step hooks.                                           *)
(***************************************************************************)
EXTENDS TestCaseRunner, TLAPS

StepPcs == {"beforeStepHooks", "step", "afterStepHooks"}

(* What the program counter says of the test step being run.               *)
WhereItIs ==
    /\ pc = "attempt" => testStepResults = << >>
    /\ pc = "hook" => ~skip /\ Current \in DOMAIN testSteps /\ testSteps[Current] \in Hooks
    /\ pc \in StepPcs =>
           /\ ~skip
           /\ Current \in DOMAIN testSteps /\ testSteps[Current] = "defined"
           /\ \A j \in DOMAIN testStepResults : testStepResults[j] = "PASSED"
    /\ stepResults \subseteq UserCodeStatuses
    /\ pc = "afterStepHooks" => stepResults # {}

(* No result is UNKNOWN, and a skipped test case has no pass in it.        *)
ResultsAreJudged ==
    \A j \in DOMAIN testStepResults : testStepResults[j] \in FinalStatuses(skip)

(* Only code of the test steps up to the present one has run, and of those *)
(* that are over the ones that had to run have.                            *)
WhatHasRun ==
    pc # "attempt" =>
        /\ bodyRan \subseteq DOMAIN testStepResults
                               \cup (IF pc = "afterStepHooks" THEN {Current} ELSE {})
        /\ \A j \in DOMAIN testStepResults : testSteps[j] \in PickleSteps => didWeRunStepsYet
        /\ ~skip => \A j \in DOMAIN testStepResults :
               \/ testSteps[j] = "before" /\ j = 1
               \/ testSteps[j] = "after" /\ HasPickleStep
               => j \in bodyRan

(* A step hook that failed has made a finished step fail, or is among the  *)
(* results of the step being run, whose code then does not run.            *)
FailuresKept ==
    /\ pc # "attempt" => \A failed \in failedStepHooks :
           \/ failed[1] \in DOMAIN testStepResults
           \/ pc \in StepPcs /\ failed[1] = Current /\ "FAILED" \in stepResults
    /\ pc = "step" => "FAILED" \notin stepResults

(* A retry that was announced to a hook is still to come; one that was not *)
(* comes only from a failure since; and none is left when the test case is *)
(* done.                                                                   *)
RetryIsKept ==
    /\ pc # "attempt" => \A hook \in told :
           /\ hook.hook <= Current
           /\ hook.willBeRetried => WillBeRetried
           /\ hook.result = "FAILED" /\ MoreAttemptsRemaining => hook.willBeRetried
           /\ WillBeRetried /\ ~hook.willBeRetried =>
                  \E j \in hook.hook .. Len(testStepResults) : testStepResults[j] = "FAILED"
    /\ pc = "done" => ~WillBeRetried

(* The attempts after the first are those testCaseFinished announced.      *)
AttemptsCounted == pc = "attempt" => (attempt > 0 <=> lastFinished)

(* The parts of NoStepAfterUnpassed.                                       *)
StepsBehindPasses ==
    \A i \in bodyRan : testSteps[i] = "defined" =>
        \A j \in DOMAIN testStepResults : j < i => testStepResults[j] = "PASSED"

HooksHoldStepsBack ==
    \A i \in bodyRan : testSteps[i] = "defined" => <<i, "beforeStepHooks">> \notin failedStepHooks

HooksFailSteps ==
    \A failed \in failedStepHooks : failed[1] \in DOMAIN testStepResults =>
        testStepResults[failed[1]] = "FAILED"

IInv ==
    /\ TypeOK
    /\ WhereItIs
    /\ ResultsAreJudged
    /\ WhatHasRun
    /\ FailuresKept
    /\ RetryIsKept
    /\ AttemptsCounted
    /\ NoStepAfterUnpassed
    /\ SkippedStillJudged

-----------------------------------------------------------------------------
(* The worst of some results is one of them, and none is worse.            *)
LEMMA WorstIsWorst ==
    ASSUME NEW results \in SUBSET Status, results # {}
    PROVE  Worst(results) \in results /\ \A t \in results : Ordinal[t] <= Ordinal[Worst(results)]
  <1> USE DEF Ordinal, Status
  <1>1. \E s \in results : \A t \in results : Ordinal[t] <= Ordinal[s]
    <2>1. CASE "FAILED" \in results
      BY <2>1
    <2>2. CASE "FAILED" \notin results /\ "AMBIGUOUS" \in results
      BY <2>2
    <2>3. CASE results \cap {"FAILED", "AMBIGUOUS"} = {} /\ "UNDEFINED" \in results
      BY <2>3
    <2>4. CASE results \cap {"FAILED", "AMBIGUOUS", "UNDEFINED"} = {} /\ "PENDING" \in results
      BY <2>4
    <2>5. CASE results \subseteq {"UNKNOWN", "PASSED", "SKIPPED"}
      BY <2>5
    <2>6. QED
      BY <2>1, <2>2, <2>3, <2>4, <2>5
  <1>2. QED
    BY <1>1 DEF Worst

(* What the worst result so far says of the single results.                *)
LEMMA WorstSoFarIsAResult ==
    ASSUME testStepResults \in Seq(Status), testStepResults # << >>
    PROVE  /\ \E j \in DOMAIN testStepResults : testStepResults[j] = WorstSoFar
           /\ \A j \in DOMAIN testStepResults : Ordinal[testStepResults[j]] <= Ordinal[WorstSoFar]
  <1>1. ResultsSoFar \subseteq Status /\ ResultsSoFar # {}
    <2>1. 1 \in DOMAIN testStepResults
      OBVIOUS
    <2>2. QED
      BY <2>1 DEF ResultsSoFar
  <1>2. WorstSoFar = Worst(ResultsSoFar)
    BY DEF WorstSoFar
  <1>3. WorstSoFar \in ResultsSoFar /\ \A t \in ResultsSoFar : Ordinal[t] <= Ordinal[WorstSoFar]
    BY <1>1, <1>2, WorstIsWorst
  <1>4. \A j \in DOMAIN testStepResults : testStepResults[j] \in ResultsSoFar
    BY DEF ResultsSoFar
  <1>5. \E j \in DOMAIN testStepResults : testStepResults[j] = WorstSoFar
    BY <1>3 DEF ResultsSoFar
  <1>6. QED
    BY <1>3, <1>4, <1>5

(* The verdict of an attempt so far is a status, so the result of the      *)
(* attempt can be judged.                                                  *)
LEMMA WorstSoFarType ==
    ASSUME testStepResults \in Seq(Status), skip \in BOOLEAN
    PROVE  WorstSoFar \in Status
  BY WorstSoFarIsAResult DEF WorstSoFar, Status

(* A step runs only if every result before it is a pass.                   *)
LEMMA NotSkipping ==
    ASSUME IInv, ~IsSkippingSteps
    PROVE  ~skip /\ \A j \in DOMAIN testStepResults : testStepResults[j] = "PASSED"
  <1> USE DEF IInv, TypeOK
  <1>1. WorstSoFar = "PASSED"
    BY DEF IsSkippingSteps
  <1>2. CASE testStepResults = << >>
    BY <1>1, <1>2 DEF WorstSoFar
  <1>3. CASE testStepResults # << >>
    <2>1. PICK i \in DOMAIN testStepResults : testStepResults[i] = "PASSED"
      BY <1>1, <1>3, WorstSoFarIsAResult
    <2>2. ~skip
      BY <2>1 DEF ResultsAreJudged, FinalStatuses
    <2>3. ASSUME NEW j \in DOMAIN testStepResults PROVE testStepResults[j] = "PASSED"
      <3>1. Ordinal[testStepResults[j]] <= Ordinal["PASSED"]
        BY <1>1, <1>3, WorstSoFarIsAResult
      <3>2. testStepResults[j] \in Status \ {"UNKNOWN"}
        BY <2>2 DEF ResultsAreJudged, FinalStatuses
      <3>3. QED
        BY <3>1, <3>2 DEF Ordinal, Status
    <2>4. QED
      BY <2>2, <2>3
  <1>4. QED
    BY <1>2, <1>3

(* One more result leaves a failure the worst one.                         *)
LEMMA FailureStays ==
    ASSUME TypeOK, NEW status \in Status, FinishTestStep(status), WillBeRetried,
           UNCHANGED <<attempt, configVars>>
    PROVE  WillBeRetried'
  <1> USE DEF TypeOK, FinishTestStep, configVars
  <1>1. testStepResults' \in Seq(Status) /\ testStepResults' # << >>
    OBVIOUS
  <1>2. \E i \in DOMAIN testStepResults' : testStepResults'[i] = "FAILED"
    <2>1. testStepResults # << >>
      BY DEF WillBeRetried, WorstSoFar
    <2>2. PICK i \in DOMAIN testStepResults : testStepResults[i] = "FAILED"
      BY <2>1, WorstSoFarIsAResult DEF WillBeRetried
    <2>3. i \in DOMAIN testStepResults' /\ testStepResults'[i] = testStepResults[i]
      OBVIOUS
    <2>4. QED
      BY <2>2, <2>3
  <1>3. ResultsSoFar' \in SUBSET Status /\ "FAILED" \in ResultsSoFar'
    BY <1>1, <1>2 DEF ResultsSoFar
  <1>4. WorstSoFar' = Worst(ResultsSoFar')
    BY <1>1 DEF WorstSoFar
  <1>5. ASSUME NEW results \in SUBSET Status, "FAILED" \in results
        PROVE  Worst(results) = "FAILED"
    <2>1. Worst(results) \in Status /\ Ordinal["FAILED"] <= Ordinal[Worst(results)]
      BY <1>5, WorstIsWorst
    <2>2. QED
      BY <2>1 DEF Ordinal, Status
  <1>6. WorstSoFar' = "FAILED"
    BY <1>3, <1>4, <1>5
  <1>7. QED
    BY <1>6 DEF WillBeRetried, MoreAttemptsRemaining

-----------------------------------------------------------------------------
(* The invariant holds before the first attempt.                           *)
LEMMA InitIInv == Init => IInv
  <1> SUFFICES ASSUME Init PROVE IInv
    OBVIOUS
  <1> USE TestCaseRunnerAssumption, StatusOptionsAssumption DEF Init
  <1>1. maxAttempts \in Nat \ {0} /\ skip \in BOOLEAN
    OBVIOUS
  <1>2. TypeOK
    <2>1. testSteps \in Seq(Hooks \cup PickleSteps)
      OBVIOUS
    <2>2. Len(<< >>) <= Len(testSteps) /\ testStepResults \in Seq(Status)
      BY <2>1
    <2>3. hookParameter \in
            [told : BOOLEAN, result : Status, error : BOOLEAN, willBeRetried : BOOLEAN]
      BY DEF Untold, Status
    <2>4. attempt \in 0 .. maxAttempts - 1 /\ stepHooksRun \in Nat
      BY <1>1
    <2>5. Len(testStepResults) <= Len(testSteps)
      BY <2>2
    <2>6. QED
      BY <1>1, <2>2, <2>3, <2>4, <2>5 DEF TypeOK
  <1>3. WhereItIs /\ ResultsAreJudged /\ WhatHasRun /\ FailuresKept /\ RetryIsKept
    BY DEF WhereItIs, ResultsAreJudged, WhatHasRun, FailuresKept, RetryIsKept, StepPcs
  <1>4. NoStepAfterUnpassed /\ SkippedStillJudged /\ AttemptsCounted
    BY DEF NoStepAfterUnpassed, SkippedStillJudged, AttemptsCounted
  <1>5. QED
    BY <1>2, <1>3, <1>4 DEF IInv

(* A finished test step adds its result behind the others.                 *)
LEMMA OneResultMore ==
    ASSUME TypeOK, NEW status \in Status, FinishTestStep(status)
    PROVE  /\ testStepResults' \in Seq(Status)
           /\ Len(testStepResults') = Current
           /\ DOMAIN testStepResults' = DOMAIN testStepResults \cup {Current}
           /\ testStepResults'[Current] = status
           /\ \A j \in DOMAIN testStepResults :
                  j < Current /\ testStepResults'[j] = testStepResults[j]
           /\ Current \in Nat \ {0} /\ DOMAIN testStepResults = 1 .. Current - 1
           /\ testStepResults' # << >>
  BY DEF TypeOK, FinishTestStep, Current

(* What the step hooks and the step make together is judged.               *)
LEMMA StepIsJudged ==
    ASSUME IInv, pc = "afterStepHooks"
    PROVE  Worst(stepResults) \in UserCodeStatuses
  <1>1. stepResults \in SUBSET Status /\ stepResults # {} /\ stepResults \subseteq UserCodeStatuses
    BY DEF IInv, TypeOK, WhereItIs
  <1>2. QED
    BY <1>1, WorstIsWorst

(* What runStep returns at once.                                           *)
LEMMA ReturnedAtOnce ==
    ASSUME IInv, NEW kind \in PickleSteps
    PROVE  /\ ImmediateStatus(kind) # "" =>
                  ImmediateStatus(kind) \in {"SKIPPED", "UNDEFINED", "AMBIGUOUS"}
           /\ ImmediateStatus(kind) = "" =>
                  kind = "defined" /\ ~skip
                  /\ \A j \in DOMAIN testStepResults : testStepResults[j] = "PASSED"
           /\ ImmediateStatus(kind) = "SKIPPED" /\ kind # "defined" =>
                  ~skip /\ \E j \in DOMAIN testStepResults : testStepResults[j] = "SKIPPED"
  <1> USE DEF ImmediateStatus, PickleSteps
  <1>1. IsExplicitlySkipped =>
            ~skip /\ \E j \in DOMAIN testStepResults : testStepResults[j] = "SKIPPED"
    <2> SUFFICES ASSUME IsExplicitlySkipped
                 PROVE  ~skip /\ \E j \in DOMAIN testStepResults : testStepResults[j] = "SKIPPED"
      OBVIOUS
    <2>1. ~skip /\ WorstSoFar = "SKIPPED" /\ testStepResults # << >>
      BY DEF IsExplicitlySkipped, WorstSoFar
    <2>2. QED
      BY <2>1, WorstSoFarIsAResult DEF IInv, TypeOK
  <1>2. QED
    BY <1>1, NotSkipping

(* The results of the attempt stay, are given up, or become one more.      *)
LEMMA ResultsGrow ==
    ASSUME IInv, [Next]_vars
    PROVE  \/ UNCHANGED testStepResults
           \/ testStepResults' = << >> /\ pc' = "attempt"
           \/ \E status \in FinalStatuses(skip) :
                  FinishTestStep(status) /\ Current \in DOMAIN testSteps /\ UNCHANGED attempt
  <1> USE DEF IInv, TypeOK
  <1>1. CASE StartHook
    BY <1>1 DEF StartHook, FinalStatuses, Status
  <1>2. CASE HookEnds
    BY <1>2 DEF HookEnds, FinalStatuses, Status, UserCodeStatuses, WhereItIs
  <1>3. CASE StartPickleStep
    BY <1>3, ReturnedAtOnce DEF StartPickleStep, PickleStepReturns, FinalStatuses, Status
  <1>4. CASE AfterStepHooksDone
    BY <1>4, StepIsJudged DEF AfterStepHooksDone, PickleStepReturns, FinalStatuses, Status,
       UserCodeStatuses, WhereItIs, StepPcs
  <1>5. CASE FinishAttempt
    BY <1>5 DEF FinishAttempt, ResetTestProgressData
  <1>6. CASE StartAttempt \/ RunStepHook \/ BeforeStepHooksDone \/ StepEnds
    BY <1>6 DEF StartAttempt, RunStepHook, BeforeStepHooksDone, StepEnds
  <1>7. CASE UNCHANGED vars
    BY <1>7 DEF vars
  <1>8. QED
    BY <1>1, <1>2, <1>3, <1>4, <1>5, <1>6, <1>7 DEF Next, Step, Done

(* The test case and its configuration are fixed.                          *)
LEMMA Fixed ==
    ASSUME [Next]_vars
    PROVE  UNCHANGED <<testSteps, skip, maxAttempts>>
  BY DEF Next, Step, Done, vars, configVars, StartAttempt, StartHook, HookEnds, StartPickleStep,
     RunStepHook, BeforeStepHooksDone, StepEnds, AfterStepHooksDone, FinishAttempt

(* Every step keeps every variable in its type.                            *)
LEMMA TypeStep ==
    ASSUME IInv, [Next]_vars
    PROVE  TypeOK'
  <1> USE DEF IInv
  <1>1. testStepResults' \in Seq(Status) /\ Len(testStepResults') <= Len(testSteps')
    <2>1. testSteps \in Seq(Hooks \cup PickleSteps)
      BY TestCaseRunnerAssumption DEF TypeOK
    <2>2. CASE \E status \in FinalStatuses(skip) :
                  FinishTestStep(status) /\ Current \in DOMAIN testSteps
      <3>1. PICK status \in FinalStatuses(skip) :
                FinishTestStep(status) /\ Current \in DOMAIN testSteps
        BY <2>2
      <3>2. status \in Status
        BY DEF FinalStatuses, Status
      <3>3. QED
        BY <2>1, <3>1, <3>2, OneResultMore, Fixed
    <2>3. CASE UNCHANGED testStepResults
      BY <2>3, Fixed DEF TypeOK
    <2>4. CASE testStepResults' = << >>
      <3>1. Len(<< >>) <= Len(testSteps) /\ << >> \in Seq(Status)
        BY <2>1
      <3>2. QED
        BY <2>4, <3>1, Fixed
    <2>5. QED
      BY <2>2, <2>3, <2>4, ResultsGrow
  <1>2. hookParameter' \in
          [told : BOOLEAN, result : Status, error : BOOLEAN, willBeRetried : BOOLEAN]
    <2>1. HookArgument \in
            [told : BOOLEAN, result : Status, error : BOOLEAN, willBeRetried : BOOLEAN]
      BY WorstSoFarType DEF HookArgument, Untold, TypeOK, Status, WillBeRetried
    <2>2. Untold \in [told : BOOLEAN, result : Status, error : BOOLEAN, willBeRetried : BOOLEAN]
      BY DEF Untold, Status
    <2>3. hookParameter' \in {hookParameter, Untold, HookArgument}
      BY DEF Next, Step, Done, vars, configVars, StartAttempt, StartHook, HookEnds,
         StartPickleStep, RunStepHook, BeforeStepHooksDone, StepEnds, AfterStepHooksDone,
         FinishAttempt
    <2>4. QED
      BY <2>1, <2>2, <2>3 DEF TypeOK
  <1>3. bodyRan' \subseteq DOMAIN testSteps /\ threw' \subseteq bodyRan'
    BY DEF TypeOK, WhereItIs, StepPcs, Next, Step, Done, vars, historyVars, StartAttempt,
       StartHook, HookEnds, StartPickleStep, RunStepHook, BeforeStepHooksDone, StepEnds,
       AfterStepHooksDone, FinishAttempt
  <1>4. /\ pc' \in {"attempt", "testStep", "hook", "beforeStepHooks", "step", "afterStepHooks", "done"}
        /\ attempt' \in 0 .. maxAttempts - 1
    <2> USE DEF TypeOK
    <2>1. CASE FinishAttempt
      BY <2>1 DEF FinishAttempt, WillBeRetried, MoreAttemptsRemaining
    <2>2. CASE StartPickleStep
      BY <2>2 DEF StartPickleStep, PickleStepReturns, FinishTestStep
    <2>3. CASE AfterStepHooksDone
      BY <2>3 DEF AfterStepHooksDone, PickleStepReturns, FinishTestStep
    <2>4. CASE StartHook \/ HookEnds
      BY <2>4 DEF StartHook, HookEnds, FinishTestStep
    <2>5. CASE StartAttempt \/ RunStepHook \/ BeforeStepHooksDone \/ StepEnds \/ UNCHANGED vars
      BY <2>5 DEF StartAttempt, RunStepHook, BeforeStepHooksDone, StepEnds, vars
    <2>6. QED
      BY <2>1, <2>2, <2>3, <2>4, <2>5 DEF Next, Step, Done
  <1>5. didWeRunStepsYet' \in BOOLEAN /\ error' \in BOOLEAN
    <2> USE DEF TypeOK
    <2>1. CASE StartAttempt
      BY <2>1 DEF StartAttempt
    <2>2. CASE StartPickleStep
      BY <2>2 DEF StartPickleStep, PickleStepReturns
    <2>3. CASE AfterStepHooksDone
      BY <2>3 DEF AfterStepHooksDone, PickleStepReturns
    <2>4. CASE UNCHANGED <<didWeRunStepsYet, error>>
      BY <2>4
    <2>5. QED
      BY <2>1, <2>2, <2>3, <2>4 DEF Next, Step, Done, vars, StartHook, HookEnds, RunStepHook,
         BeforeStepHooksDone, StepEnds, FinishAttempt
  <1>6. stepHooksRun' \in Nat /\ stepResults' \subseteq Status /\ stepError' \in BOOLEAN
    <2>1. UserCodeStatuses \subseteq Status
      BY DEF UserCodeStatuses, Status
    <2>2. /\ stepHooksRun' \in {stepHooksRun, stepHooksRun + 1, 0}
          /\ \/ stepResults' \in {stepResults, {}}
             \/ \E status \in UserCodeStatuses : stepResults' = stepResults \cup {status}
      BY DEF Next, Step, Done, vars, stepVars, StartAttempt, StartHook, HookEnds,
         StartPickleStep, RunStepHook, BeforeStepHooksDone, StepEnds, AfterStepHooksDone,
         FinishAttempt
    <2>3. stepError' \in BOOLEAN
      <3>1. CASE StepEnds
        BY <3>1 DEF StepEnds
      <3>2. CASE ~StepEnds
        BY <3>2 DEF TypeOK, Next, Step, Done, vars, stepVars, StartAttempt, StartHook, HookEnds,
           StartPickleStep, RunStepHook, BeforeStepHooksDone, AfterStepHooksDone, FinishAttempt
      <3>3. QED
        BY <3>1, <3>2
    <2>4. QED
      BY <2>1, <2>2, <2>3 DEF TypeOK
  <1>7. /\ failedStepHooks' \subseteq (DOMAIN testSteps) \X {"beforeStepHooks", "afterStepHooks"}
        /\ told' \subseteq [hook : DOMAIN testSteps, result : Status, willBeRetried : BOOLEAN]
        /\ lastFinished' \in BOOLEAN
    <2> USE DEF TypeOK
    <2>1. CASE StartHook
      <3>1. WorstSoFar \in Status /\ WillBeRetried \in BOOLEAN
        BY WorstSoFarType DEF WillBeRetried
      <3>2. ToldNow \subseteq [hook : DOMAIN testSteps, result : Status, willBeRetried : BOOLEAN]
        <4>1. Current \in DOMAIN testSteps
          BY <2>1 DEF StartHook
        <4>2. CASE didWeRunStepsYet
          BY <3>1, <4>1, <4>2 DEF ToldNow, HookArgument
        <4>3. CASE ~didWeRunStepsYet
          BY <4>3 DEF ToldNow, HookArgument, Untold
        <4>4. QED
          BY <4>2, <4>3
      <3>3. QED
        BY <2>1, <3>2 DEF StartHook
    <2>2. CASE RunStepHook
      BY <2>2 DEF RunStepHook, WhereItIs, StepPcs
    <2>3. CASE FinishAttempt
      BY <2>3 DEF FinishAttempt, WillBeRetried
    <2>4. CASE StartAttempt
      BY <2>4 DEF StartAttempt
    <2>5. CASE UNCHANGED <<failedStepHooks, told, lastFinished>>
      BY <2>5
    <2>6. QED
      BY <2>1, <2>2, <2>3, <2>4, <2>5 DEF Next, Step, Done, vars, historyVars, HookEnds,
         StartPickleStep, BeforeStepHooksDone, StepEnds, AfterStepHooksDone
  <1>8. QED
    BY <1>1, <1>2, <1>3, <1>4, <1>5, <1>6, <1>7, Fixed DEF TypeOK

-----------------------------------------------------------------------------
(* Every other conjunct is preserved. *)

(* Every operation of the runner leaves it at a test step of the kind its  *)
(* next operation is for.                                                  *)
LEMMA WhereItIsStep ==
    ASSUME IInv, [Next]_vars
    PROVE  WhereItIs'
  <1> USE DEF IInv, WhereItIs, StepPcs, Current
  <1> UNCHANGED <<testSteps, skip, maxAttempts>>
    BY Fixed
  <1>1. CASE StartAttempt
    BY <1>1 DEF StartAttempt, stepVars
  <1>2. CASE StartHook
    BY <1>2 DEF StartHook, FinishTestStep, stepVars, ShouldSkipHook
  <1>3. CASE HookEnds
    BY <1>3 DEF HookEnds, FinishTestStep, stepVars
  <1>4. CASE StartPickleStep
    BY <1>4, ReturnedAtOnce DEF StartPickleStep, PickleStepReturns, FinishTestStep, stepVars
  <1>5. CASE RunStepHook
    BY <1>5 DEF RunStepHook
  <1>6. CASE BeforeStepHooksDone
    BY <1>6 DEF BeforeStepHooksDone, Worst
  <1>7. CASE StepEnds
    BY <1>7 DEF StepEnds
  <1>8. CASE AfterStepHooksDone
    BY <1>8 DEF AfterStepHooksDone, PickleStepReturns, FinishTestStep
  <1>9. CASE FinishAttempt
    BY <1>9 DEF FinishAttempt, ResetTestProgressData, stepVars
  <1>10. CASE UNCHANGED vars
    BY <1>10 DEF vars, stepVars
  <1>11. QED
    BY <1>1, <1>2, <1>3, <1>4, <1>5, <1>6, <1>7, <1>8, <1>9, <1>10 DEF Next, Step, Done

(* Each result an operation stores is one the runner gives to a test step  *)
(* of that kind.                                                           *)
LEMMA ResultsAreJudgedStep ==
    ASSUME IInv, [Next]_vars
    PROVE  ResultsAreJudged'
  <1> USE DEF IInv, ResultsAreJudged
  <1> FinalStatuses(skip)' = FinalStatuses(skip) /\ FinalStatuses(skip) \subseteq Status
    BY Fixed DEF FinalStatuses, Status
  <1>1. CASE \E status \in FinalStatuses(skip) : FinishTestStep(status)
    BY <1>1, OneResultMore
  <1>2. CASE UNCHANGED testStepResults \/ testStepResults' = << >>
    BY <1>2
  <1>3. QED
    BY <1>1, <1>2, ResultsGrow

(* When a test step is over its place in bodyRan is settled.               *)
LEMMA WhatHasRunStep ==
    ASSUME IInv, [Next]_vars
    PROVE  WhatHasRun'
  <1> USE DEF IInv, WhatHasRun
  <1> UNCHANGED <<testSteps, skip, maxAttempts>> /\ UNCHANGED HasPickleStep
    BY Fixed DEF HasPickleStep
  <1>1. CASE StartAttempt
    BY <1>1 DEF StartAttempt, WhereItIs
  <1>2. CASE StartHook
    <2> /\ UNCHANGED <<bodyRan, didWeRunStepsYet>> /\ pc = "testStep"
        /\ Current \in DOMAIN testSteps /\ testSteps[Current] \in Hooks
      BY <1>2 DEF StartHook
    <2>1. CASE ~ShouldSkipHook(~didWeRunStepsYet)
      BY <1>2, <2>1 DEF StartHook
    <2>2. CASE ShouldSkipHook(~didWeRunStepsYet)
      <3>1. FinishTestStep("SKIPPED") /\ "SKIPPED" \in Status
        BY <1>2, <2>2 DEF StartHook, Status
      <3>2. ~skip => Current # 1 /\ ~didWeRunStepsYet
        <4>1. ~skip => IsSkippingSteps /\ ~didWeRunStepsYet
          BY <2>2 DEF ShouldSkipHook
        <4>2. ~skip /\ testStepResults = << >> => ~IsSkippingSteps
          BY DEF IsSkippingSteps, WorstSoFar
        <4>3. Current = 1 => testStepResults = << >>
          BY DEF Current, TypeOK
        <4>4. QED
          BY <4>1, <4>2, <4>3
      <3>3. ~skip /\ testSteps[Current] = "after" => ~HasPickleStep
        <4> SUFFICES ASSUME ~skip, testSteps[Current] = "after",
                            NEW i \in DOMAIN testSteps, testSteps[i] \in PickleSteps
                     PROVE  FALSE
          BY DEF HasPickleStep
        <4>1. i < Current /\ i \in Nat \ {0}
          BY TestCaseRunnerAssumption DEF TypeOK
        <4>2. i \in DOMAIN testStepResults
          BY <4>1, <3>1, OneResultMore
        <4>3. QED
          BY <4>2, <3>2
      <3>4. pc' = "testStep"
        BY <3>1 DEF FinishTestStep
      <3>5. testSteps[Current] \notin PickleSteps
        BY DEF Hooks, PickleSteps
      <3>6. QED
        BY <3>1, <3>2, <3>3, <3>4, <3>5, OneResultMore
    <2>3. QED
      BY <2>1, <2>2
  <1>3. CASE HookEnds
    <2>1. PICK status \in Status : FinishTestStep(status)
      BY <1>3 DEF HookEnds, UserCodeStatuses, Status
    <2>2. pc = "hook" /\ pc' = "testStep" /\ testSteps[Current] \notin PickleSteps
      BY <1>3, <2>1 DEF HookEnds, FinishTestStep, WhereItIs, Hooks, PickleSteps
    <2>3. bodyRan' = bodyRan \cup {Current} /\ UNCHANGED didWeRunStepsYet
      BY <1>3 DEF HookEnds
    <2>4. QED
      BY <2>1, <2>2, <2>3, OneResultMore
  <1>4. CASE /\ StartPickleStep \/ AfterStepHooksDone
             /\ \E status \in Status, stepThrew \in BOOLEAN : PickleStepReturns(status, stepThrew)
    <2>1. PICK status \in Status : FinishTestStep(status) /\ didWeRunStepsYet'
      BY <1>4 DEF PickleStepReturns
    <2>2. /\ pc # "attempt" /\ pc' = "testStep" /\ UNCHANGED bodyRan
          /\ testSteps[Current] \in PickleSteps
      BY <1>4, <2>1 DEF StartPickleStep, AfterStepHooksDone, FinishTestStep, historyVars, WhereItIs,
         StepPcs, PickleSteps
    <2>3. testSteps[Current] \notin {"before", "after"}
      BY <2>2 DEF PickleSteps
    <2>4. QED
      BY <2>1, <2>2, <2>3, OneResultMore
  <1>5. CASE StartPickleStep /\ UNCHANGED testStepResults
    BY <1>5 DEF StartPickleStep, historyVars, PickleStepReturns, FinishTestStep
  <1>6. CASE RunStepHook \/ BeforeStepHooksDone
    BY <1>6 DEF RunStepHook, BeforeStepHooksDone, historyVars, Current
  <1>7. CASE StepEnds
    BY <1>7 DEF StepEnds, Current
  <1>8. CASE FinishAttempt
    BY <1>8 DEF FinishAttempt
  <1>9. CASE UNCHANGED vars
    BY <1>9 DEF vars, historyVars, Current
  <1>10. StartPickleStep =>
             \/ \E status \in Status, stepThrew \in BOOLEAN : PickleStepReturns(status, stepThrew)
             \/ UNCHANGED testStepResults
    BY ZenonT(60), ReturnedAtOnce DEF StartPickleStep, Status
  <1>11. AfterStepHooksDone =>
             \E status \in Status, stepThrew \in BOOLEAN : PickleStepReturns(status, stepThrew)
    BY StepIsJudged DEF AfterStepHooksDone, UserCodeStatuses, Status, TypeOK
  <1>12. QED
    BY <1>1, <1>2, <1>3, <1>4, <1>5, <1>6, <1>7, <1>8, <1>9, <1>10, <1>11 DEF Next, Step, Done

(* While no result is added nothing changes about the worst one.           *)
LEMMA SameWorst ==
    ASSUME UNCHANGED <<testStepResults, attempt, skip, maxAttempts>>
    PROVE  UNCHANGED <<WorstSoFar, WillBeRetried>>
  BY DEF WorstSoFar, ResultsSoFar, WillBeRetried, MoreAttemptsRemaining

(* A retry that was not to come and now is comes from the new result.      *)
LEMMA RetryByNewFailure ==
    ASSUME TypeOK, NEW status \in Status, FinishTestStep(status), ~WillBeRetried,
           UNCHANGED <<attempt, configVars>>, WillBeRetried'
    PROVE  status = "FAILED"
  <1> USE DEF TypeOK, configVars
  <1>1. WorstSoFar # "FAILED" /\ WorstSoFar' = "FAILED"
    BY DEF WillBeRetried, MoreAttemptsRemaining
  <1>2. testStepResults' \in Seq(Status) /\ testStepResults' # << >>
    BY OneResultMore
  <1>3. PICK j \in DOMAIN testStepResults' : testStepResults'[j] = "FAILED"
    <2>1. WorstSoFar' = Worst(ResultsSoFar') /\ ResultsSoFar' \in SUBSET Status
      BY <1>2 DEF WorstSoFar, ResultsSoFar
    <2>2. ResultsSoFar' # {}
      BY OneResultMore DEF ResultsSoFar
    <2>3. "FAILED" \in ResultsSoFar'
      BY <1>1, <2>1, <2>2, WorstIsWorst
    <2>4. QED
      BY <2>3 DEF ResultsSoFar
  <1>4. ASSUME NEW i \in DOMAIN testStepResults PROVE testStepResults[i] # "FAILED"
    <2>1. testStepResults # << >> /\ testStepResults[i] \in Status /\ WorstSoFar \in Status
      BY WorstSoFarType
    <2>2. Ordinal[testStepResults[i]] <= Ordinal[WorstSoFar]
      BY <2>1, WorstSoFarIsAResult
    <2>3. QED
      BY <1>1, <2>1, <2>2 DEF Ordinal, Status
  <1>5. QED
    BY <1>3, <1>4, OneResultMore

(* What a hook was told is still so when another result is added, and an   *)
(* attempt that will be retried is not the last.                           *)
LEMMA RetryIsKeptStep ==
    ASSUME IInv, [Next]_vars
    PROVE  RetryIsKept'
  <1> USE DEF IInv, RetryIsKept
  <1> UNCHANGED <<testSteps, skip, maxAttempts>> /\ UNCHANGED configVars
    BY Fixed DEF configVars
  <1>1. CASE StartAttempt
    BY <1>1 DEF StartAttempt
  <1>2. CASE StartHook /\ UNCHANGED testStepResults
    <2>1. pc = "testStep" /\ pc' # "done" /\ UNCHANGED attempt
      BY <1>2 DEF StartHook, FinishTestStep
    <2>2. UNCHANGED <<WillBeRetried, MoreAttemptsRemaining, Current>>
      BY <1>2, <2>1, SameWorst DEF MoreAttemptsRemaining, Current
    <2>3. ASSUME NEW hook \in told' \ told
          PROVE  /\ hook.hook = Current /\ hook.result = WorstSoFar
                 /\ hook.willBeRetried <=> WillBeRetried
      <3>1. hook \in ToldNow
        BY <1>2, <2>3 DEF StartHook
      <3>2. didWeRunStepsYet
        BY <3>1 DEF ToldNow, HookArgument, Untold
      <3>3. hook = [hook |-> Current, result |-> WorstSoFar, willBeRetried |-> WillBeRetried]
        BY <3>1, <3>2 DEF ToldNow, HookArgument
      <3>4. QED
        BY <3>3
    <2>4. Current \in Nat
      BY DEF Current, TypeOK
    <2>5. ASSUME NEW hook \in told' \ told
          PROVE  /\ hook.hook <= Current
                 /\ hook.willBeRetried => WillBeRetried
                 /\ hook.result = "FAILED" /\ MoreAttemptsRemaining => hook.willBeRetried
                 /\ ~(WillBeRetried /\ ~hook.willBeRetried)
      BY <2>3, <2>4 DEF WillBeRetried
    <2>6. QED
      BY <1>2, <2>1, <2>2, <2>5
  <1>3. CASE /\ \E status \in FinalStatuses(skip) : FinishTestStep(status)
             /\ UNCHANGED <<attempt, told>> /\ pc # "attempt"
    <2>1. PICK status \in FinalStatuses(skip) : FinishTestStep(status)
      BY <1>3
    <2>2. status \in Status /\ pc' = "testStep"
      BY <2>1 DEF FinalStatuses, Status, FinishTestStep
    <2>3. UNCHANGED MoreAttemptsRemaining
      BY <1>3 DEF MoreAttemptsRemaining
    <2>4. Len(testStepResults') = Current /\ Current' = Current + 1 /\ Current \in Nat
      BY <2>1, <2>2, OneResultMore DEF Current
    <2>5. ASSUME NEW hook \in told
          PROVE  /\ hook.hook <= Current'
                 /\ hook.willBeRetried => WillBeRetried'
                 /\ hook.result = "FAILED" /\ MoreAttemptsRemaining' => hook.willBeRetried
                 /\ WillBeRetried' /\ ~hook.willBeRetried =>
                        \E j \in hook.hook .. Len(testStepResults') : testStepResults'[j] = "FAILED"
      <3>1. hook.hook \in Nat \ {0} /\ hook.hook <= Current
        <4>1. hook.hook \in DOMAIN testSteps /\ testSteps \in Seq(Hooks \cup PickleSteps)
          BY TestCaseRunnerAssumption DEF TypeOK
        <4>2. QED
          BY <1>3, <4>1
      <3>2. hook.willBeRetried => WillBeRetried'
        BY <1>3, <2>1, <2>2, FailureStays
      <3>3. ASSUME WillBeRetried', ~hook.willBeRetried
            PROVE  \E j \in hook.hook .. Len(testStepResults') : testStepResults'[j] = "FAILED"
        <4>1. CASE WillBeRetried
          <5>1. PICK j \in hook.hook .. Len(testStepResults) : testStepResults[j] = "FAILED"
            BY <1>3, <3>3, <4>1
          <5>2. j \in hook.hook .. Len(testStepResults') /\ j \in DOMAIN testStepResults
            BY <2>4, <3>1, <5>1 DEF Current, TypeOK
          <5>3. QED
            BY <2>1, <2>2, <5>1, <5>2, OneResultMore
        <4>2. CASE ~WillBeRetried
          <5>1. testStepResults'[Current] = "FAILED"
            BY <1>3, <2>1, <2>2, <3>3, <4>2, RetryByNewFailure, OneResultMore
          <5>2. QED
            BY <2>4, <3>1, <5>1
        <4>3. QED
          BY <4>1, <4>2
      <3>4. QED
        BY <1>3, <2>3, <2>4, <3>1, <3>2, <3>3
    <2>6. QED
      BY <1>3, <2>2, <2>5
  <1>4. CASE /\ UNCHANGED <<testStepResults, attempt, told>>
             /\ pc # "attempt" /\ (pc' = "done" => ~WillBeRetried)
    BY <1>4, SameWorst DEF MoreAttemptsRemaining, Current
  <1>5. CASE FinishAttempt
    BY <1>5, SameWorst DEF FinishAttempt, MoreAttemptsRemaining, Current
  <1>6. CASE UNCHANGED vars
    BY <1>6, SameWorst DEF vars, historyVars, MoreAttemptsRemaining, Current
  <1>7. StartHook =>
            UNCHANGED testStepResults \/ (UNCHANGED <<attempt, told>> /\ pc # "attempt")
    BY DEF StartHook
  <1>8. HookEnds \/ StartPickleStep \/ AfterStepHooksDone \/ RunStepHook \/ BeforeStepHooksDone
          \/ StepEnds =>
            UNCHANGED <<attempt, told>> /\ pc # "attempt" /\ pc' # "done" /\ pc' # "attempt"
    BY DEF HookEnds, StartPickleStep, AfterStepHooksDone, RunStepHook, BeforeStepHooksDone,
       StepEnds, FinishTestStep, PickleStepReturns, historyVars
  <1>9. StartHook => pc' # "attempt"
    BY DEF StartHook, FinishTestStep
  <1>10. QED
    BY <1>1, <1>2, <1>3, <1>4, <1>5, <1>6, <1>7, <1>8, <1>9, ResultsGrow DEF Next, Step, Done

(* A failed step hook is remembered with the step it belongs to until the  *)
(* step has its result.                                                    *)
LEMMA FailuresKeptStep ==
    ASSUME IInv, [Next]_vars
    PROVE  FailuresKept'
  <1> USE DEF IInv, FailuresKept
  <1> UNCHANGED <<testSteps, skip, maxAttempts>>
    BY Fixed
  <1>1. CASE StartAttempt
    BY <1>1 DEF StartAttempt
  <1>2. CASE /\ \E status \in FinalStatuses(skip) : FinishTestStep(status)
             /\ UNCHANGED failedStepHooks /\ pc # "attempt"
    <2>1. PICK status \in FinalStatuses(skip) : FinishTestStep(status)
      BY <1>2
    <2>2. status \in Status /\ pc' = "testStep"
      BY <2>1 DEF FinalStatuses, Status, FinishTestStep
    <2>3. QED
      BY <1>2, <2>1, <2>2, OneResultMore
  <1>3. CASE /\ UNCHANGED <<failedStepHooks, testStepResults, stepResults>>
             /\ pc \notin StepPcs \cup {"attempt"} /\ pc' # "step"
    BY <1>3
  <1>4. CASE StartPickleStep /\ UNCHANGED testStepResults
    BY <1>4 DEF StartPickleStep, PickleStepReturns, FinishTestStep, historyVars, StepPcs
  <1>5. CASE RunStepHook
    BY <1>5 DEF RunStepHook, Current, StepPcs
  <1>6. CASE BeforeStepHooksDone
    <2>1. "FAILED" \in stepResults => Worst(stepResults) = "FAILED"
      <3> SUFFICES ASSUME "FAILED" \in stepResults PROVE Worst(stepResults) = "FAILED"
        OBVIOUS
      <3>1. Worst(stepResults) \in Status /\ Ordinal["FAILED"] <= Ordinal[Worst(stepResults)]
        BY WorstIsWorst DEF TypeOK
      <3>2. QED
        BY <3>1 DEF Ordinal, Status
    <2>2. QED
      BY <1>6, <2>1 DEF BeforeStepHooksDone, historyVars, Current, StepPcs
  <1>7. CASE StepEnds
    BY <1>7 DEF StepEnds, Current, StepPcs
  <1>8. CASE FinishAttempt
    BY <1>8 DEF FinishAttempt, StepPcs
  <1>9. CASE UNCHANGED vars
    BY <1>9 DEF vars, historyVars, stepVars, Current
  <1>10. StartHook \/ HookEnds =>
             \/ \E status \in FinalStatuses(skip) : FinishTestStep(status)
             \/ UNCHANGED testStepResults
    BY ResultsGrow DEF StartHook, HookEnds, FinishTestStep
  <1>11. StartHook \/ HookEnds =>
             /\ UNCHANGED <<failedStepHooks, stepResults>>
             /\ pc \notin StepPcs \cup {"attempt"} /\ pc' # "step"
    BY DEF StartHook, HookEnds, FinishTestStep, StepPcs, stepVars
  <1>12. StartPickleStep \/ AfterStepHooksDone =>
             /\ \/ \E status \in FinalStatuses(skip) : FinishTestStep(status)
                \/ StartPickleStep /\ UNCHANGED testStepResults
             /\ UNCHANGED failedStepHooks /\ pc # "attempt"
    <2>1. StartPickleStep \/ AfterStepHooksDone => UNCHANGED failedStepHooks /\ pc # "attempt"
      BY DEF StartPickleStep, AfterStepHooksDone, historyVars
    <2>2. StartPickleStep \/ AfterStepHooksDone => pc' # "attempt"
      BY DEF StartPickleStep, AfterStepHooksDone, PickleStepReturns, FinishTestStep
    <2>3. AfterStepHooksDone => ~UNCHANGED testStepResults
      BY StepIsJudged, OneResultMore DEF AfterStepHooksDone, PickleStepReturns, UserCodeStatuses,
         Status
    <2>4. QED
      BY <2>1, <2>2, <2>3, ResultsGrow
  <1>13. QED
    BY <1>1, <1>2, <1>3, <1>4, <1>5, <1>6, <1>7, <1>8, <1>9, <1>10, <1>11, <1>12
    DEF Next, Step, Done

(* No operation runs a pickle step behind a result that is not a pass: a   *)
(* body is only run at the current step, and what has a result keeps it.   *)
LEMMA StepsBehindPassesStep ==
    ASSUME IInv, [Next]_vars
    PROVE  StepsBehindPasses'
  <1>0. StepsBehindPasses
    BY DEF IInv, NoStepAfterUnpassed, StepsBehindPasses
  <1> USE <1>0 DEF IInv, StepsBehindPasses
  <1> UNCHANGED <<testSteps, skip, maxAttempts>>
    BY Fixed
  <1>1. CASE UNCHANGED <<bodyRan, testStepResults>>
    BY <1>1
  <1>2. CASE testStepResults' = << >>
    BY <1>2
  <1>3. CASE StepEnds
    BY <1>3 DEF StepEnds, WhereItIs, StepPcs
  <1>4. CASE /\ \E status \in FinalStatuses(skip) : FinishTestStep(status)
             /\ bodyRan' \subseteq bodyRan \cup {Current} /\ pc # "attempt"
             /\ Current \in bodyRan' \ bodyRan => testSteps[Current] # "defined"
    <2>1. PICK status \in FinalStatuses(skip) : FinishTestStep(status)
      BY <1>4
    <2>2. status \in Status
      BY DEF FinalStatuses, Status
    <2>3. \A i \in bodyRan' : i <= Current
      BY <1>4, <2>1, <2>2, OneResultMore DEF WhatHasRun
    <2>4. SUFFICES ASSUME NEW i \in bodyRan', testSteps[i] = "defined",
                          NEW j \in DOMAIN testStepResults', j < i
                   PROVE  testStepResults'[j] = "PASSED"
      OBVIOUS
    <2>5. i \in bodyRan /\ i <= Current
      BY <1>4, <2>3, <2>4
    <2>6. i \in Nat
      BY <1>4, <2>1, <2>2, <2>5, OneResultMore DEF WhatHasRun
    <2>7. j \in DOMAIN testStepResults
      BY <2>1, <2>2, <2>4, <2>5, <2>6, OneResultMore
    <2>8. QED
      BY <2>1, <2>2, <2>4, <2>5, <2>7, OneResultMore
  <1>5. StartAttempt => testStepResults' = << >>
    BY DEF StartAttempt, WhereItIs
  <1>6. HookEnds => /\ bodyRan' \subseteq bodyRan \cup {Current} /\ pc # "attempt"
                    /\ testSteps[Current] # "defined" /\ pc' # "attempt"
    BY DEF HookEnds, WhereItIs, Hooks, FinishTestStep
  <1>7. StartHook \/ StartPickleStep \/ AfterStepHooksDone \/ RunStepHook \/ BeforeStepHooksDone
          \/ FinishAttempt => UNCHANGED bodyRan /\ pc # "attempt"
    BY DEF StartHook, StartPickleStep, AfterStepHooksDone, RunStepHook, BeforeStepHooksDone,
       FinishAttempt, historyVars
  <1>8. HookEnds => ~UNCHANGED testStepResults
    BY OneResultMore DEF HookEnds, UserCodeStatuses, Status
  <1>9. UNCHANGED vars => UNCHANGED <<bodyRan, testStepResults>>
    BY DEF vars, historyVars
  <1>10. QED
    BY <1>1, <1>2, <1>3, <1>4, <1>5, <1>6, <1>7, <1>8, <1>9, ResultsGrow DEF Next, Step, Done

(* A step whose code has run has no failed BeforeStep hook: its code runs  *)
(* after all of them, and they do not run again.                           *)
LEMMA HooksHoldStepsBackStep ==
    ASSUME IInv, [Next]_vars
    PROVE  HooksHoldStepsBack'
  <1>0. HooksHoldStepsBack
    BY DEF IInv, NoStepAfterUnpassed, HooksHoldStepsBack
  <1> USE <1>0 DEF IInv, HooksHoldStepsBack
  <1> UNCHANGED testSteps
    BY Fixed
  <1>1. CASE StartAttempt
    BY <1>1 DEF StartAttempt
  <1>2. CASE HookEnds
    BY <1>2 DEF HookEnds, WhereItIs, Hooks
  <1>3. CASE RunStepHook
    <2>1. Current \notin DOMAIN testStepResults
      BY DEF Current, TypeOK
    <2>2. pc = "beforeStepHooks" => Current \notin bodyRan
      BY <2>1 DEF WhatHasRun
    <2>3. QED
      BY <1>3, <2>2 DEF RunStepHook
  <1>4. CASE StepEnds
    <2>1. <<Current, "beforeStepHooks">> \notin failedStepHooks
      <3>1. Current \notin DOMAIN testStepResults /\ pc = "step"
        BY <1>4 DEF Current, TypeOK, StepEnds
      <3>2. QED
        BY <3>1 DEF FailuresKept
    <2>2. QED
      BY <1>4, <2>1 DEF StepEnds
  <1>5. CASE UNCHANGED <<bodyRan, failedStepHooks>>
    BY <1>5
  <1>6. QED
    BY <1>1, <1>2, <1>3, <1>4, <1>5 DEF Next, Step, Done, vars, historyVars, StartHook,
       StartPickleStep, BeforeStepHooksDone, AfterStepHooksDone, FinishAttempt

(* The step whose step hook failed gets the worst of all their results.    *)
LEMMA HooksFailStepsStep ==
    ASSUME IInv, [Next]_vars
    PROVE  HooksFailSteps'
  <1>0. HooksFailSteps
    BY DEF IInv, NoStepAfterUnpassed, HooksFailSteps
  <1> USE <1>0 DEF IInv, HooksFailSteps
  <1>1. CASE RunStepHook
    <2>1. Current \notin DOMAIN testStepResults
      BY DEF Current, TypeOK
    <2>2. QED
      BY <1>1, <2>1 DEF RunStepHook
  <1>2. CASE AfterStepHooksDone
    <2>1. PICK status \in Status : FinishTestStep(status) /\ status = Worst(stepResults)
      BY <1>2, StepIsJudged DEF AfterStepHooksDone, PickleStepReturns, UserCodeStatuses, Status
    <2>2. "FAILED" \in stepResults => status = "FAILED"
      <3> SUFFICES ASSUME "FAILED" \in stepResults PROVE Worst(stepResults) = "FAILED"
        BY <2>1
      <3>1. Worst(stepResults) \in Status /\ Ordinal["FAILED"] <= Ordinal[Worst(stepResults)]
        BY WorstIsWorst DEF TypeOK
      <3>2. QED
        BY <3>1 DEF Ordinal, Status
    <2>3. UNCHANGED failedStepHooks /\ pc = "afterStepHooks"
      BY <1>2 DEF AfterStepHooksDone, historyVars
    <2>4. ASSUME NEW failed \in failedStepHooks, failed[1] \in DOMAIN testStepResults'
          PROVE  testStepResults'[failed[1]] = "FAILED"
      <3>1. CASE failed[1] \in DOMAIN testStepResults
        BY <2>1, <3>1, OneResultMore
      <3>2. CASE failed[1] \notin DOMAIN testStepResults
        BY <2>1, <2>2, <2>3, <3>2, OneResultMore DEF FailuresKept
      <3>3. QED
        BY <3>1, <3>2
    <2>5. QED
      BY <2>3, <2>4
  <1>3. CASE /\ \E status \in FinalStatuses(skip) : FinishTestStep(status)
             /\ UNCHANGED failedStepHooks /\ pc \notin StepPcs \cup {"attempt"}
    <2>1. PICK status \in FinalStatuses(skip) : FinishTestStep(status)
      BY <1>3
    <2>2. status \in Status
      BY DEF FinalStatuses, Status
    <2>3. QED
      BY <1>3, <2>1, <2>2, OneResultMore DEF FailuresKept
  <1>4. CASE testStepResults' = << >>
    BY <1>4
  <1>5. CASE UNCHANGED <<failedStepHooks, testStepResults>>
    BY <1>5
  <1>6. StartAttempt => testStepResults' = << >>
    BY DEF StartAttempt, WhereItIs
  <1>7. StartHook \/ HookEnds \/ StartPickleStep =>
            UNCHANGED failedStepHooks /\ pc \notin StepPcs \cup {"attempt"}
    BY DEF StartHook, HookEnds, StartPickleStep, historyVars, StepPcs
  <1>8. BeforeStepHooksDone \/ StepEnds \/ UNCHANGED vars =>
            UNCHANGED <<failedStepHooks, testStepResults>>
    BY DEF BeforeStepHooksDone, StepEnds, vars, historyVars
  <1>9. FinishAttempt => testStepResults' = << >> \/ UNCHANGED <<failedStepHooks, testStepResults>>
    BY DEF FinishAttempt, ResetTestProgressData
  <1>10. QED
    BY <1>1, <1>2, <1>3, <1>4, <1>5, <1>6, <1>7, <1>8, <1>9, ResultsGrow DEF Next, Step, Done

LEMMA NoStepAfterUnpassedStep ==
    ASSUME IInv, [Next]_vars
    PROVE  NoStepAfterUnpassed'
  <1>1. (StepsBehindPasses /\ HooksHoldStepsBack /\ HooksFailSteps)'
    BY StepsBehindPassesStep, HooksHoldStepsBackStep, HooksFailStepsStep
  <1>2. QED
    BY <1>1 DEF NoStepAfterUnpassed, StepsBehindPasses, HooksHoldStepsBack, HooksFailSteps

(* A test case that is skipped executes nothing, and its undefined and     *)
(* ambiguous steps get their results all the same.                         *)
LEMMA SkippedStillJudgedStep ==
    ASSUME IInv, [Next]_vars
    PROVE  SkippedStillJudged'
  <1> USE DEF IInv
  <1> UNCHANGED <<testSteps, skip, maxAttempts>>
    BY Fixed
  <1>1. skip => bodyRan' = {} /\ pc' \in {"attempt", "testStep", "done"}
    <2> USE DEF SkippedStillJudged, WhereItIs, StepPcs
    <2>1. CASE StartHook
      BY <2>1 DEF StartHook, FinishTestStep, ShouldSkipHook
    <2>2. CASE StartPickleStep
      BY <2>2, ReturnedAtOnce DEF StartPickleStep, PickleStepReturns, FinishTestStep, historyVars
    <2>3. CASE StartAttempt \/ FinishAttempt \/ UNCHANGED vars
      BY <2>3 DEF StartAttempt, FinishAttempt, vars, historyVars
    <2>4. CASE HookEnds \/ RunStepHook \/ BeforeStepHooksDone \/ StepEnds \/ AfterStepHooksDone
      BY <2>4 DEF HookEnds, RunStepHook, BeforeStepHooksDone, StepEnds, AfterStepHooksDone
    <2>5. QED
      BY <2>1, <2>2, <2>3, <2>4 DEF Next, Step, Done
  <1>2. \A i \in DOMAIN testStepResults' :
            testSteps[i] \in {"undefined", "ambiguous"} =>
                \/ testStepResults'[i] \in {"UNDEFINED", "AMBIGUOUS"}
                \/ ~skip /\ \E j \in 1 .. i - 1 : testStepResults'[j] = "SKIPPED"
    <2>1. CASE UNCHANGED testStepResults
      BY <2>1 DEF SkippedStillJudged
    <2>2. CASE testStepResults' = << >>
      BY <2>2
    <2>3. CASE \E status \in FinalStatuses(skip) : FinishTestStep(status)
      <3>1. PICK status \in FinalStatuses(skip) : FinishTestStep(status)
        BY <2>3
      <3>2. status \in Status
        BY DEF FinalStatuses, Status
      <3>3. ASSUME NEW i \in DOMAIN testStepResults, testSteps[i] \in {"undefined", "ambiguous"}
            PROVE  \/ testStepResults'[i] \in {"UNDEFINED", "AMBIGUOUS"}
                   \/ ~skip /\ \E j \in 1 .. i - 1 : testStepResults'[j] = "SKIPPED"
        BY <3>1, <3>2, <3>3, OneResultMore DEF SkippedStillJudged
      <3>4. ASSUME testSteps[Current] \in {"undefined", "ambiguous"}
            PROVE  \/ status \in {"UNDEFINED", "AMBIGUOUS"}
                   \/ ~skip /\ \E j \in 1 .. Current - 1 : testStepResults'[j] = "SKIPPED"
        <4>1. StartPickleStep
          <5>1. ~HookEnds /\ ~StartHook /\ ~AfterStepHooksDone
            BY <3>4 DEF HookEnds, StartHook, AfterStepHooksDone, WhereItIs, StepPcs, Hooks
          <5>2. ~UNCHANGED testStepResults /\ testStepResults' # << >>
            BY <3>1, <3>2, OneResultMore
          <5>3. QED
            BY <5>1, <5>2 DEF WhereItIs, Next, Step, Done, vars, StartAttempt, RunStepHook,
               BeforeStepHooksDone, StepEnds, FinishAttempt, ResetTestProgressData
        <4>2. testSteps[Current] \in PickleSteps /\ testSteps[Current] # "defined"
          BY <3>4 DEF PickleSteps
        <4>3. FinishTestStep(ImmediateStatus(testSteps[Current]))
          BY <4>1, <4>2, ReturnedAtOnce DEF StartPickleStep, PickleStepReturns
        <4>4. status = ImmediateStatus(testSteps[Current])
          <5>1. ImmediateStatus(testSteps[Current]) \in Status
            BY <4>1, <4>2, ReturnedAtOnce DEF Status
          <5>2. QED
            BY <3>1, <3>2, <4>3, <5>1, OneResultMore
        <4>5. QED
          BY <3>1, <3>2, <4>2, <4>4, ReturnedAtOnce, OneResultMore
      <3>5. QED
        BY <3>1, <3>2, <3>3, <3>4, OneResultMore
    <2>4. QED
      BY <2>1, <2>2, <2>3, ResultsGrow
  <1>3. QED
    BY <1>1, <1>2 DEF SkippedStillJudged

(* Only the end of an attempt announces that it will be retried, and the   *)
(* next attempt starts exactly if it has been announced.                   *)
LEMMA AttemptsCountedStep ==
    ASSUME IInv, [Next]_vars
    PROVE  AttemptsCounted'
  <1> USE DEF IInv, AttemptsCounted
  <1>1. CASE FinishAttempt
    BY <1>1 DEF FinishAttempt, TypeOK
  <1>2. CASE UNCHANGED vars
    BY <1>2 DEF vars, historyVars
  <1>3. CASE ~FinishAttempt /\ Step
    BY <1>3 DEF Step, StartAttempt, StartHook, HookEnds, StartPickleStep, RunStepHook,
       BeforeStepHooksDone, StepEnds, AfterStepHooksDone, FinishTestStep, PickleStepReturns
  <1>4. QED
    BY <1>1, <1>2, <1>3 DEF Next, Done

(* An attempt only ends in FinishAttempt, which says what the worst result *)
(* decides; a hook told otherwise was told before the failure.             *)
LEMMA AttemptEndsAsAnnounced ==
    ASSUME IInv, [Next]_vars
    PROVE  /\ pc # "attempt" /\ pc' = "attempt" =>
                  /\ lastFinished' /\ attempt' = attempt + 1
                  /\ \A hook \in told :
                         \/ hook.willBeRetried
                         \/ /\ hook.result # "FAILED"
                            /\ \E j \in hook.hook .. Len(testStepResults) :
                                   testStepResults[j] = "FAILED"
           /\ pc # "done" /\ pc' = "done" =>
                  ~lastFinished' /\ \A hook \in told : ~hook.willBeRetried
  <1>1. CASE FinishAttempt
    BY <1>1 DEF FinishAttempt, IInv, RetryIsKept, WillBeRetried
  <1>2. CASE UNCHANGED vars
    BY <1>2 DEF vars
  <1>3. CASE ~FinishAttempt /\ Step
    BY <1>3 DEF Step, StartAttempt, StartHook, HookEnds, StartPickleStep, RunStepHook,
       BeforeStepHooksDone, StepEnds, AfterStepHooksDone, FinishTestStep, PickleStepReturns
  <1>4. QED
    BY <1>1, <1>2, <1>3 DEF Next, Done

-----------------------------------------------------------------------------
(* Theorems. *)

(* The invariant is one: it holds whatever hooks and steps do.             *)
THEOREM Invariance == Spec => []IInv
  <1>1. IInv /\ [Next]_vars => IInv'
    BY TypeStep, WhereItIsStep, ResultsAreJudgedStep, WhatHasRunStep, FailuresKeptStep,
       RetryIsKeptStep, AttemptsCountedStep, NoStepAfterUnpassedStep, SkippedStillJudgedStep
    DEF IInv
  <1>2. QED
    BY <1>1, InitIInv, PTL DEF Spec

(* Every variable of a test case stays in its type.                        *)
THEOREM TypeCorrectness == Spec => []TypeOK
  <1>1. IInv => TypeOK
    BY DEF IInv
  <1>2. QED
    BY <1>1, Invariance, PTL

(* runStep and runStepHooks: the code of a step only runs behind passes,   *)
(* never behind a failed BeforeStep hook of its own, and any failed step   *)
(* hook makes the step a failed one.                                       *)
THEOREM StepsRunBehindPasses == Spec => []NoStepAfterUnpassed
  <1>1. IInv => NoStepAfterUnpassed
    BY DEF IInv
  <1>2. QED
    BY <1>1, Invariance, PTL

(* A dry run and a test case skipped by fail fast execute no user code but *)
(* report undefined and ambiguous steps (docs/dry_run.md).                 *)
THEOREM SkippingExecutesNothing == Spec => []SkippedStillJudged
  <1>1. IInv => SkippedStillJudged
    BY DEF IInv
  <1>2. QED
    BY <1>1, Invariance, PTL

(* Each attempt begins afresh with its first Before hook, and its After    *)
(* hooks run however it goes.                                              *)
THEOREM AttemptsAreWhole == Spec => []EveryAttemptIsWhole
  <1>1. IInv => EveryAttemptIsWhole
    <2> SUFFICES ASSUME IInv, AttemptOver, ~skip,
                        NEW i \in DOMAIN testSteps,
                        \/ testSteps[i] = "before" /\ i = 1
                        \/ testSteps[i] = "after" /\ HasPickleStep
                 PROVE  i \in bodyRan
      BY DEF EveryAttemptIsWhole
    <2>1. testSteps \in Seq(Hooks \cup PickleSteps)
      BY TestCaseRunnerAssumption DEF IInv, TypeOK
    <2>2. i \in DOMAIN testStepResults
      BY <2>1 DEF AttemptOver, IInv, TypeOK
    <2>3. QED
      BY <2>2 DEF AttemptOver, IInv, WhatHasRun
  <1>2. QED
    BY <1>1, Invariance, PTL

(* runAttempt: a retry that After hooks are told of takes place, and one   *)
(* they are not told of only takes place when a test step that had not     *)
(* finished by then has failed.                                            *)
THEOREM RetriesAreAnnounced == Spec => RetryAsAnnounced
  <1>1. IInv /\ [Next]_vars =>
            [/\ pc # "attempt" /\ pc' = "attempt" =>
                   /\ lastFinished' /\ attempt' = attempt + 1
                   /\ \A hook \in told :
                          \/ hook.willBeRetried
                          \/ /\ hook.result # "FAILED"
                             /\ \E j \in hook.hook .. Len(testStepResults) :
                                    testStepResults[j] = "FAILED"
             /\ pc # "done" /\ pc' = "done" =>
                   ~lastFinished' /\ \A hook \in told : ~hook.willBeRetried ]_vars
    BY AttemptEndsAsAnnounced
  <1>2. QED
    BY <1>1, Invariance, PTL DEF Spec, RetryAsAnnounced

(* What a test case ends with is one of FinalStatuses, on which the models *)
(* of the runtimes rest; and it has used its attempts when it has failed.  *)
THEOREM EndsJudged == Spec => []FinalStatusJudged
  <1>1. IInv => FinalStatusJudged
    <2> SUFFICES ASSUME IInv, pc = "done"
                 PROVE  /\ WorstSoFar \in FinalStatuses(skip)
                        /\ WorstSoFar = "FAILED" => attempt = maxAttempts - 1
      BY DEF FinalStatusJudged
    <2> USE DEF IInv, TypeOK
    <2>1. WorstSoFar \in FinalStatuses(skip)
      <3>1. CASE testStepResults = << >>
        BY <3>1 DEF WorstSoFar, FinalStatuses, Status
      <3>2. CASE testStepResults # << >>
        BY <3>2, WorstSoFarIsAResult DEF ResultsAreJudged
      <3>3. QED
        BY <3>1, <3>2
    <2>2. ASSUME WorstSoFar = "FAILED" PROVE attempt = maxAttempts - 1
      <3>1. ~(attempt + 1 < maxAttempts)
        BY <2>2 DEF RetryIsKept, WillBeRetried, MoreAttemptsRemaining
      <3>2. QED
        BY <3>1
    <2>3. QED
      BY <2>1, <2>2
  <1>2. QED
    BY <1>1, Invariance, PTL
=============================================================================
