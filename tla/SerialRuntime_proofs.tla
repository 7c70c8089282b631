-------------------------- MODULE SerialRuntime_proofs --------------------------
(***************************************************************************)
(* Safety of the serial runtime, and that it implements TestRun, for every *)
(* number of test cases and every set of hooks.                            *)
(***************************************************************************)
EXTENDS SerialRuntime, TLAPS

(* What is still to be run by the loop over hooks that has been entered.   *)
HooksInOrder ==
    /\ entered => stage \in {"beforeAllHooks", "afterAllHooks"}
    /\ entered /\ stage = "beforeAllHooks" => BeforeTestRunHooks \subseteq hooksRun \cup hooksLeft
    /\ stage \in {"testCases", "afterAllHooks"} => BeforeTestRunHooks \subseteq hooksRun
    /\ entered /\ stage = "afterAllHooks" => AfterTestRunHooks \subseteq hooksRun \cup hooksLeft
    /\ result \in {"success", "failure"} => hooksRun = AllHooks

(* The test cases before caseNo are over, those behind it have not begun.  *)
CasesInOrder ==
    /\ stage \in {"setup", "beforeAllHooks"} => \A t \in TestCases : reported[t] = "no"
    /\ \A t \in TestCases :
           /\ t < caseNo => reported[t] \in {"passed", "failed"}
           /\ t = caseNo => reported[t] \in {"no", "started"}
           /\ t > caseNo => reported[t] = "no"
           /\ reported[t] = "failed" => failing
    /\ \A u \in executed : u <= caseNo

(* What the coordinator remembers of a phase is what happened in it.       *)
SuccessIsSeen ==
    /\ result # "none" <=> stage \in {"teardown", "returned"}
    /\ successByPhase["testCases"] => \A t \in TestCases : reported[t] = "passed"
    /\ result = "success" => successByPhase["testCases"]

IInv ==
    /\ TypeOK
    /\ HooksInOrder
    /\ CasesInOrder
    /\ SuccessIsSeen
    /\ NothingExecutesAfterFailure

-----------------------------------------------------------------------------
(* The invariant holds before anything has happened.                       *)
LEMMA InitIInv == Init => IInv
  <1> SUFFICES ASSUME Init PROVE IInv
    OBVIOUS
  <1> USE SerialAssumption DEF Init, CoordinatorInit, ExecutorInit
  <1>1. TypeOK
    <2>1. CoordinatorTypeOK /\ ExecutorTypeOK
      BY DEF CoordinatorTypeOK, ExecutorTypeOK, Stages, Phases, Results
    <2>2. caseNo \in 1 .. NumCases + 1
      OBVIOUS
    <2>3. QED
      BY <2>1, <2>2 DEF TypeOK
  <1>2. HooksInOrder
    BY DEF HooksInOrder
  <1>3. CasesInOrder /\ NothingExecutesAfterFailure
    BY DEF CasesInOrder, NothingExecutesAfterFailure, TestCases
  <1>4. SuccessIsSeen
    BY DEF SuccessIsSeen, Phases
  <1>5. QED
    BY <1>1, <1>2, <1>3, <1>4 DEF IInv

(* The hook at turn is the one that runs.                                  *)
LEMMA OneHookAtTurn ==
    ASSUME TypeOK, RunHook
    PROVE  \E h \in hooksLeft : HookAtTurn = {h} /\ hooksLeft' = hooksLeft \ {h}
  <1> USE DEF RunHook, RunTestRunHook, HookAtTurn
  <1>1. hooksLeft \subseteq Nat
    BY ExecutorAssumption DEF TypeOK, ExecutorTypeOK
  <1>2. CASE stage = "beforeAllHooks"
    <2>1. PICK h \in hooksLeft : (\A g \in hooksLeft : h <= g) /\ hooksLeft' = hooksLeft \ {h}
      BY <1>2 DEF RunBeforeAllHook
    <2>2. \A g \in hooksLeft : (\A x \in hooksLeft : g <= x) => g = h
      BY <1>1, <2>1
    <2>3. HookAtTurn = {h}
      BY <1>2, <2>1, <2>2
    <2>4. QED
      BY <2>1, <2>3
  <1>3. CASE stage = "afterAllHooks"
    <2>1. PICK h \in hooksLeft : (\A g \in hooksLeft : g <= h) /\ hooksLeft' = hooksLeft \ {h}
      BY <1>3 DEF RunAfterAllHook
    <2>2. \A g \in hooksLeft : (\A x \in hooksLeft : x <= g) => g = h
      BY <1>1, <2>1
    <2>3. HookAtTurn = {h}
      BY <1>3, <2>1, <2>2
    <2>4. QED
      BY <2>1, <2>3
  <1>4. QED
    BY <1>2, <1>3

(* Every step keeps every variable in its type.                            *)
LEMMA TypeStep ==
    ASSUME TypeOK, [Next]_vars
    PROVE  TypeOK'
  <1> USE SerialAssumption
      DEF TypeOK, CoordinatorTypeOK, ExecutorTypeOK, Stages, Phases, Results, coordinatorVars,
          executorVars, serialVars
  <1>1. CASE Setup
    BY <1>1 DEF Setup, SetupSettled
  <1>2. CASE EnterHooks
    BY <1>2 DEF EnterHooks, BeginHooks
  <1>3. CASE RunHook
    <2>1. HookAtTurn \subseteq AllHooks /\ hooksLeft' \subseteq hooksLeft
      BY <1>3, OneHookAtTurn DEF AllHooks
    <2>2. hooksOk' \in BOOLEAN
      BY <1>3 DEF RunHook, RunBeforeAllHook, RunAfterAllHook, RunTestRunHook
    <2>3. QED
      BY <1>3, <2>1, <2>2 DEF RunHook
  <1>4. CASE LeaveHooks
    BY <1>4 DEF LeaveHooks, BeforeAllHooksSettled, AfterAllHooksSettled
  <1>5. CASE StartCase
    BY <1>5 DEF StartCase, TestCases
  <1>6. CASE FinishCase
    <2>1. caseNo' \in 1 .. NumCases + 1
      BY <1>6 DEF FinishCase, TestCases
    <2>2. failing' \in BOOLEAN /\ reported' \in [TestCases -> {"no", "started", "passed", "failed"}]
      BY <1>6 DEF FinishCase
    <2>3. QED
      BY <1>6, <2>1, <2>2 DEF FinishCase
  <1>7. CASE LeaveCases
    BY <1>7 DEF LeaveCases, TestCasesSettled
  <1>8. CASE WorldThrows
    BY <1>8 DEF WorldThrows, Caught
  <1>9. CASE Teardown
    BY <1>9 DEF Teardown, TeardownSettled
  <1>10. CASE UNCHANGED vars
    BY <1>10 DEF vars
  <1>11. QED
    BY <1>1, <1>2, <1>3, <1>4, <1>5, <1>6, <1>7, <1>8, <1>9, <1>10 DEF Next, Step, Returned

-----------------------------------------------------------------------------
(* Every conjunct is preserved. *)

(* A hook leaves its loop by running, and a loop is left when it is empty. *)
LEMMA HooksInOrderStep ==
    ASSUME IInv, [Next]_vars
    PROVE  HooksInOrder'
  <1> USE DEF IInv, TypeOK, HooksInOrder, SuccessIsSeen, coordinatorVars, executorVars, serialVars
  <1>1. CASE Setup
    BY <1>1 DEF Setup, SetupSettled
  <1>2. CASE EnterHooks
    BY <1>2 DEF EnterHooks, BeginHooks
  <1>3. CASE RunHook
    <2>1. hooksLeft \subseteq hooksRun' \cup hooksLeft' /\ hooksRun \subseteq hooksRun'
      BY <1>3, OneHookAtTurn DEF RunHook
    <2>2. UNCHANGED <<stage, result, entered>> /\ entered
      BY <1>3 DEF RunHook
    <2>3. result \notin {"success", "failure"}
      BY <2>2
    <2>4. QED
      BY <2>1, <2>2, <2>3
  <1>4. CASE LeaveHooks
    <2>1. CASE BeforeAllHooksSettled(hooksOk)
      BY <1>4, <2>1 DEF LeaveHooks, BeforeAllHooksSettled
    <2>2. CASE AfterAllHooksSettled(hooksOk)
      BY <1>4, <2>2 DEF LeaveHooks, AfterAllHooksSettled, AllHooks
    <2>3. QED
      BY <1>4, <2>1, <2>2 DEF LeaveHooks
  <1>5. CASE StartCase \/ FinishCase
    BY <1>5 DEF StartCase, FinishCase
  <1>6. CASE LeaveCases
    BY <1>6 DEF LeaveCases, TestCasesSettled
  <1>7. CASE WorldThrows
    BY <1>7 DEF WorldThrows, Caught
  <1>8. CASE Teardown
    BY <1>8 DEF Teardown, TeardownSettled
  <1>9. CASE UNCHANGED vars
    BY <1>9 DEF vars
  <1>10. QED
    BY <1>1, <1>2, <1>3, <1>4, <1>5, <1>6, <1>7, <1>8, <1>9 DEF Next, Step, Returned

(* Only the test case at caseNo changes, and it passes caseNo when over.   *)
LEMMA CasesInOrderStep ==
    ASSUME IInv, [Next]_vars
    PROVE  CasesInOrder'
  <1> USE DEF IInv, TypeOK, CasesInOrder, coordinatorVars, executorVars, serialVars
  <1>1. CASE UNCHANGED <<reported, executed, caseNo, failing>> /\ stage' \notin {"setup", "beforeAllHooks"}
    BY <1>1
  <1>2. CASE UNCHANGED <<reported, executed, caseNo, failing>> /\ stage \in {"setup", "beforeAllHooks"}
    BY <1>2
  <1>3. CASE StartCase
    BY <1>3 DEF StartCase, TestCases
  <1>4. CASE FinishCase
    <2>1. PICK success \in BOOLEAN :
              /\ reported' = [reported EXCEPT ![caseNo] = IF success THEN "passed" ELSE "failed"]
              /\ failing' = (failing \/ ~success)
      BY <1>4 DEF FinishCase, TestCaseSuccesses, ShouldCauseFailure
    <2>2. caseNo \in TestCases /\ caseNo' = caseNo + 1 /\ UNCHANGED <<stage, executed>>
          /\ stage = "testCases"
      BY <1>4 DEF FinishCase, TestCases
    <2>3. ASSUME NEW t \in TestCases
          PROVE  /\ t < caseNo' => reported'[t] \in {"passed", "failed"}
                 /\ t = caseNo' => reported'[t] \in {"no", "started"}
                 /\ t > caseNo' => reported'[t] = "no"
                 /\ reported'[t] = "failed" => failing'
      <3>1. CASE t = caseNo
        <4>1. reported'[t] = IF success THEN "passed" ELSE "failed"
          BY <2>1, <3>1
        <4>2. t < caseNo' /\ ~(t = caseNo') /\ ~(t > caseNo')
          BY <2>2, <3>1 DEF TestCases
        <4>3. QED
          BY <2>1, <4>1, <4>2
      <3>2. CASE t # caseNo
        <4>1. reported'[t] = reported[t]
          BY <2>1, <3>2
        <4>2. t < caseNo' => t < caseNo
          BY <2>2, <3>2 DEF TestCases
        <4>3. t = caseNo' \/ t > caseNo' => t > caseNo
          BY <2>2 DEF TestCases
        <4>4. QED
          BY <2>1, <4>1, <4>2, <4>3
      <3>3. QED
        BY <3>1, <3>2
    <2>4. \A u \in executed' : u <= caseNo'
      BY <2>2 DEF TestCases
    <2>5. stage' = "testCases"
      BY <2>2
    <2>6. QED
      BY <2>3, <2>4, <2>5
  <1>5. QED
    BY <1>1, <1>2, <1>3, <1>4
    DEF Next, Step, Returned, vars, Setup, SetupSettled, EnterHooks, RunHook, LeaveHooks,
        BeforeAllHooksSettled, AfterAllHooksSettled, LeaveCases, TestCasesSettled, WorldThrows,
        Caught, Teardown, TeardownSettled

(* The phase of test cases succeeds when all of them were seen to pass.    *)
LEMMA SuccessIsSeenStep ==
    ASSUME IInv, [Next]_vars
    PROVE  SuccessIsSeen'
  <1> USE DEF IInv, TypeOK, CoordinatorTypeOK, Phases, Stages, SuccessIsSeen, coordinatorVars, executorVars, serialVars
  <1>1. CASE UNCHANGED <<coordinatorVars, reported>>
    BY <1>1
  <1>2. CASE Setup \/ WorldThrows \/ Teardown
    BY <1>2 DEF Setup, SetupSettled, WorldThrows, Caught, Teardown, TeardownSettled
  <1>3. CASE LeaveHooks
    <2>1. CASE BeforeAllHooksSettled(hooksOk)
      BY <1>3, <2>1 DEF LeaveHooks, BeforeAllHooksSettled
    <2>2. CASE AfterAllHooksSettled(hooksOk)
      BY <1>3, <2>2 DEF LeaveHooks, AfterAllHooksSettled
    <2>3. QED
      BY <1>3, <2>1, <2>2 DEF LeaveHooks
  <1>4. CASE StartCase \/ FinishCase
    <2>1. PICK t \in TestCases : t = caseNo /\ reported[t] \notin {"passed", "failed"}
      BY <1>4 DEF StartCase, FinishCase
    <2>2. ~successByPhase["testCases"]
      BY <2>1
    <2>3. QED
      BY <1>4, <2>2 DEF StartCase, FinishCase
  <1>5. CASE LeaveCases
    <2>1. \A t \in TestCases : t < caseNo
      BY <1>5, SerialAssumption DEF LeaveCases, TestCases
    <2>2. ~failing => \A t \in TestCases : reported[t] = "passed"
      BY <2>1 DEF CasesInOrder
    <2>3. QED
      BY <1>5, <2>2 DEF LeaveCases, TestCasesSettled
  <1>6. QED
    BY <1>1, <1>2, <1>3, <1>4, <1>5 DEF Next, Step, Returned, vars, EnterHooks, RunHook

(* A case that starts after a failure is skipped, and one that fails is    *)
(* the last that was started.                                              *)
LEMMA NothingExecutesStep ==
    ASSUME IInv, [Next]_vars
    PROVE  NothingExecutesAfterFailure'
  <1> USE DEF IInv, TypeOK, CasesInOrder, NothingExecutesAfterFailure
  <1>1. CASE UNCHANGED <<reported, executed>>
    BY <1>1
  <1>2. CASE StartCase
    <2>1. CASE FailFast /\ failing
      BY <1>2, <2>1 DEF StartCase, Skips
    <2>2. CASE ~failing
      <3>1. \A t \in TestCases : reported'[t] # "failed"
        BY <1>2, <2>2 DEF StartCase
      <3>2. QED
        BY <3>1
    <2>3. QED
      BY <2>1, <2>2, <1>1
  <1>3. CASE FinishCase
    <2>1. \A t \in TestCases : t # caseNo => reported'[t] = reported[t]
      BY <1>3 DEF FinishCase
    <2>2. QED
      BY <1>3, <2>1 DEF FinishCase
  <1>4. QED
    BY <1>1, <1>2, <1>3
    DEF Next, Step, Returned, vars, serialVars, Setup, EnterHooks, RunHook, LeaveHooks, LeaveCases,
        WorldThrows, Teardown

-----------------------------------------------------------------------------
(* Theorems. *)

(* The invariant holds in every reachable state: where the run is, which   *)
(* hooks and cases are behind it and what it knows of them go together     *)
(* (serial/adapter.ts, executor.ts, coordinator.ts).                       *)
THEOREM Invariance == Spec => []IInv
  <1>1. IInv /\ [Next]_vars => IInv'
    BY TypeStep, HooksInOrderStep, CasesInOrderStep, SuccessIsSeenStep, NothingExecutesStep DEF IInv
  <1>2. QED
    BY InitIInv, <1>1, PTL DEF Spec

(* The serial runtime stays in its types.                                  *)
THEOREM TypeCorrectness == Spec => []TypeOK
  <1>1. IInv => TypeOK
    BY DEF IInv
  <1>2. QED
    BY <1>1, Invariance, PTL

(* Fail fast: no user code of a test case runs after one that failed, with *)
(* any number of cases (InProcessAdapter.runTestCases passes `failing`).   *)
THEOREM FailFastHolds == Spec => []NothingExecutesAfterFailure
  <1>1. IInv => NothingExecutesAfterFailure
    BY DEF IInv
  <1>2. QED
    BY <1>1, Invariance, PTL

(* A verdict is only reached when every hook has run, and success needs    *)
(* every test case to have passed (Coordinator.run).                       *)
THEOREM VerdictIsEarned == Spec => []VerdictAfterEveryHook
  <1>1. IInv => VerdictAfterEveryHook
    BY DEF IInv, HooksInOrder, SuccessIsSeen, VerdictAfterEveryHook
  <1>2. QED
    BY <1>1, Invariance, PTL

-----------------------------------------------------------------------------
(* The contract of a run. *)

(* The stages of the coordinator are the periods of a run.                 *)
LEMMA StepKeepsContract ==
    ASSUME IInv, [Next]_vars
    PROVE  [Run!TestRunNext]_(Run!testRunVars)
  <1> USE DEF Run!testRunVars, coordinatorVars, executorVars, serialVars
  <1>1. CASE UNCHANGED <<stage, result, reported>>
    BY <1>1 DEF Period
  <1>2. CASE Setup
    BY <1>2 DEF Setup, SetupSettled, Period
  <1>3. CASE LeaveHooks
    <2>1. CASE BeforeAllHooksSettled(hooksOk)
      <3>1. Run!OpenCases \/ Run!SkipCases
        BY <1>3, <2>1 DEF LeaveHooks, BeforeAllHooksSettled, Period, Run!OpenCases, Run!SkipCases
      <3>2. QED
        BY <3>1 DEF Run!TestRunNext
    <2>2. CASE AfterAllHooksSettled(hooksOk)
      <3>1. PICK v \in {"success", "failure"} : result' = v
        BY <2>2 DEF AfterAllHooksSettled
      <3>2. v = "success" => \A t \in TestCases : reported[t] = "passed"
        <4>1. v = "success" => successByPhase'["testCases"]
          BY <2>2, <3>1 DEF AfterAllHooksSettled, Phases
        <4>2. successByPhase'["testCases"] = successByPhase["testCases"]
          BY <2>2 DEF AfterAllHooksSettled, IInv, TypeOK, CoordinatorTypeOK, Phases
        <4>3. QED
          BY <4>1, <4>2 DEF IInv, SuccessIsSeen
      <3>3. Run!Conclude(v)
        BY <1>3, <2>2, <3>1, <3>2 DEF LeaveHooks, AfterAllHooksSettled, Period, Run!Conclude
      <3>4. QED
        BY <3>3 DEF Run!TestRunNext
    <2>3. QED
      BY <1>3, <2>1, <2>2 DEF LeaveHooks
  <1>4. CASE StartCase
    <2>1. caseNo \in TestCases /\ Run!CaseStarted(caseNo)
      BY <1>4 DEF StartCase, Period, Run!CaseStarted, Run!Announcing
    <2>2. QED
      BY <2>1 DEF Run!TestRunNext
  <1>5. CASE FinishCase
    <2>1. PICK outcome \in {"passed", "failed"} : reported' = [reported EXCEPT ![caseNo] = outcome]
      BY <1>5 DEF FinishCase
    <2>2. caseNo \in TestCases /\ Run!CaseFinished(caseNo, outcome)
      BY <1>5, <2>1 DEF FinishCase, Period, Run!CaseFinished, Run!Announcing
    <2>3. QED
      BY <2>1, <2>2 DEF Run!TestRunNext, Run!Outcomes
  <1>6. CASE LeaveCases
    <2>1. \A t \in TestCases : t < caseNo
      BY <1>6, SerialAssumption DEF LeaveCases, TestCases, IInv, TypeOK
    <2>2. \A t \in TestCases : reported[t] \in Run!Outcomes
      BY <2>1 DEF IInv, CasesInOrder, Run!Outcomes
    <2>3. Run!CloseCases
      BY <1>6, <2>2 DEF LeaveCases, TestCasesSettled, Period, Run!CloseCases
    <2>4. QED
      BY <2>3 DEF Run!TestRunNext
  <1>7. CASE WorldThrows
    <2>1. Run!Abort
      BY <1>7 DEF WorldThrows, Caught, Period, Run!Abort
    <2>2. QED
      BY <2>1 DEF Run!TestRunNext
  <1>8. CASE Teardown
    <2>1. Run!End
      BY <1>8 DEF Teardown, TeardownSettled, Period, Run!End
    <2>2. QED
      BY <2>1 DEF Run!TestRunNext
  <1>9. QED
    BY <1>1, <1>2, <1>3, <1>4, <1>5, <1>6, <1>7, <1>8
    DEF Next, Step, Returned, vars, EnterHooks, RunHook

(* A serial run keeps the contract of TestRun towards its listeners: cases *)
(* are announced between the hooks, once each, none after the run has      *)
(* returned, and success only when all passed (serial/adapter.ts).         *)
THEOREM ImplementsTestRun == Spec => KeepsRunContract
  <1>1. Init => Run!TestRunInit
    BY DEF Init, CoordinatorInit, Run!TestRunInit, Period
  <1>2. IInv /\ [Next]_vars => [Run!TestRunNext]_(Run!testRunVars)
    BY StepKeepsContract
  <1>3. QED
    BY <1>1, <1>2, Invariance, PTL DEF Spec, KeepsRunContract, Run!TestRunSpec
=============================================================================
