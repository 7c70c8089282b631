---------------------------- MODULE SerialRuntime ----------------------------
(***************************************************************************)
(* A run on the main thread alone: the coordinator with the                *)
(* InProcessAdapter (src/src/runtime/serial/adapter.ts).  Setup and        *)
(* teardown do nothing; hooks and test cases run one after another.        *)
(***************************************************************************)
EXTENDS Coordinator, Executor

CONSTANT NumCases

ASSUME SerialAssumption == NumCases \in Nat

TestCases == 1 .. NumCases

VARIABLES
    entered,    \* the adapter's method has been entered for this stage
    caseNo,     \* the test case that is running or the next one
    failing,    \* runTestCases: a test case has failed
    reported,   \* what the envelopes say of each test case
    executed,   \* the test cases whose user code was not skipped
    hooksRun    \* the test run hooks that have run

serialVars == <<entered, caseNo, failing, reported, executed, hooksRun>>

vars == <<coordinatorVars, executorVars, serialVars>>

AllHooks == BeforeTestRunHooks \cup AfterTestRunHooks

TypeOK ==
    /\ CoordinatorTypeOK
    /\ ExecutorTypeOK
    /\ entered \in BOOLEAN
    /\ caseNo \in 1 .. NumCases + 1
    /\ failing \in BOOLEAN
    /\ reported \in [TestCases -> {"no", "started", "passed", "failed"}]
    /\ executed \subseteq TestCases
    /\ hooksRun \subseteq AllHooks

Init ==
    /\ CoordinatorInit
    /\ ExecutorInit
    /\ entered = FALSE
    /\ caseNo = 1
    /\ failing = FALSE
    /\ reported = [t \in TestCases |-> "no"]
    /\ executed = {}
    /\ hooksRun = {}

Setup == SetupSettled /\ UNCHANGED <<executorVars, serialVars>>

EnterHooks ==
    /\ ~entered /\ stage \in {"beforeAllHooks", "afterAllHooks"}
    /\ BeginHooks(IF stage = "beforeAllHooks" THEN BeforeTestRunHooks ELSE AfterTestRunHooks)
    /\ entered' = TRUE
    /\ UNCHANGED <<coordinatorVars, caseNo, failing, reported, executed, hooksRun>>

(* The hook whose turn it is: the first defined, or the last. *)
HookAtTurn ==
    {h \in hooksLeft :
        \A g \in hooksLeft : IF stage = "beforeAllHooks" THEN h <= g ELSE g <= h}

RunHook ==
    /\ entered
    /\ \/ stage = "beforeAllHooks" /\ RunBeforeAllHook
       \/ stage = "afterAllHooks" /\ RunAfterAllHook
    /\ hooksRun' = hooksRun \cup HookAtTurn
    /\ UNCHANGED <<coordinatorVars, entered, caseNo, failing, reported, executed>>

LeaveHooks ==
    /\ entered /\ hooksLeft = {}
    /\ BeforeAllHooksSettled(hooksOk) \/ AfterAllHooksSettled(hooksOk)
    /\ entered' = FALSE
    /\ UNCHANGED <<executorVars, caseNo, failing, reported, executed, hooksRun>>

(* The loop of runTestCases. *)
StartCase ==
    /\ stage = "testCases" /\ caseNo \in TestCases /\ reported[caseNo] = "no"
    /\ reported' = [reported EXCEPT ![caseNo] = "started"]
    /\ executed' = IF Skips(failing) THEN executed ELSE executed \cup {caseNo}
    /\ UNCHANGED <<coordinatorVars, executorVars, entered, caseNo, failing, hooksRun>>

\* Wrong variant: the last test case decides.
FinishCase_LastDecides ==
    /\ stage = "testCases" /\ caseNo \in TestCases /\ reported[caseNo] = "started"
    /\ \E success \in TestCaseSuccesses(failing) :
           /\ reported' = [reported EXCEPT ![caseNo] = IF success THEN "passed" ELSE "failed"]
           /\ failing' = ~success
    /\ caseNo' = caseNo + 1
    /\ UNCHANGED <<coordinatorVars, executorVars, entered, executed, hooksRun>>

FinishCase ==
    /\ stage = "testCases" /\ caseNo \in TestCases /\ reported[caseNo] = "started"
    /\ \E success \in TestCaseSuccesses(failing) :
           /\ reported' = [reported EXCEPT ![caseNo] = IF success THEN "passed" ELSE "failed"]
           /\ failing' = (failing \/ ~success)
    /\ caseNo' = caseNo + 1
    /\ UNCHANGED <<coordinatorVars, executorVars, entered, executed, hooksRun>>

LeaveCases ==
    /\ caseNo \notin TestCases
    /\ TestCasesSettled(~failing)
    /\ UNCHANGED <<executorVars, serialVars>>

(* The World constructor is user code outside any step: when it throws, at *)
(* the start of a case or before a retry, the run is over.                 *)
WorldThrows ==
    /\ stage = "testCases" /\ caseNo \in TestCases
    /\ Caught
    /\ UNCHANGED <<executorVars, serialVars>>

Teardown == TeardownSettled /\ UNCHANGED <<executorVars, serialVars>>

Returned == stage = "returned" /\ UNCHANGED vars

Step ==
    \/ Setup
    \/ EnterHooks
    \/ RunHook
    \/ LeaveHooks
    \/ StartCase
    \/ FinishCase
    \/ LeaveCases
    \/ WorldThrows
    \/ Teardown

Next == Step \/ Returned

Spec == Init /\ [][Next]_vars

-----------------------------------------------------------------------------
(* Properties. *)

(* Under fail fast no test case runs user code after one that failed, and  *)
(* what is reported failed later could only be found undefined or          *)
(* ambiguous.                                                              *)
NothingExecutesAfterFailure ==
    FailFast =>
        \A t \in TestCases : reported[t] = "failed" =>
            \A u \in executed : u <= t

(* A verdict other than an exception is only reached when every BeforeAll  *)
(* and every AfterAll hook has run, failed ones and failed cases           *)
(* notwithstanding; success needs every phase to have succeeded.           *)
VerdictAfterEveryHook ==
    result \in {"success", "failure"} =>
        /\ hooksRun = AllHooks
        /\ result = "success" => \A t \in TestCases : reported[t] = "passed"

(* The serial run keeps the same promise to its listeners as the parallel. *)
Period ==
    CASE stage \in {"setup", "beforeAllHooks"} -> "before"
      [] stage = "testCases" -> "cases"
      [] stage = "afterAllHooks" -> "after"
      [] stage = "teardown" -> "closing"
      [] stage = "returned" -> "ended"

Run == INSTANCE TestRun WITH period <- Period, verdict <- result

KeepsRunContract == Run!TestRunSpec
=============================================================================
