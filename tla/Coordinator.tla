----------------------------- MODULE Coordinator -----------------------------
(***************************************************************************)
(* The coordinator of a test run (src/src/runtime/coordinator.ts): one     *)
(* async function that awaits the phases of a runtime adapter in order,    *)
(* keeps the outcome of each, and always tears the adapter down.  Each     *)
(* action is what happens between two awaits; the serial and the parallel  *)
(* runtime conjoin them with the steps of their adapter.                   *)
(***************************************************************************)
EXTENDS Naturals

VARIABLES
    stage,            \* what run() is awaiting
    successByPhase,   \* the outcome of each phase so far
    result            \* what run() is going to return

coordinatorVars == <<stage, successByPhase, result>>

Phases == {"beforeAllHooks", "testCases", "afterAllHooks"}

Stages == {"setup", "beforeAllHooks", "testCases", "afterAllHooks", "teardown", "returned"}

Results == {"none", "success", "failure", "exception"}

CoordinatorTypeOK ==
    /\ stage \in Stages
    /\ successByPhase \in [Phases -> BOOLEAN]
    /\ result \in Results

CoordinatorInit ==
    /\ stage = "setup"
    /\ successByPhase = [p \in Phases |-> FALSE]
    /\ result = "none"

SetupSettled ==
    /\ stage = "setup"
    /\ stage' = "beforeAllHooks"
    /\ UNCHANGED <<successByPhase, result>>

(* A failed BeforeAll hook skips the test cases but not the AfterAll hooks. *)
BeforeAllHooksSettled(ok) ==
    /\ stage = "beforeAllHooks"
    /\ successByPhase' = [successByPhase EXCEPT !["beforeAllHooks"] = ok]
    /\ stage' = IF ok THEN "testCases" ELSE "afterAllHooks"
    /\ UNCHANGED result

TestCasesSettled(ok) ==
    /\ stage = "testCases"
    /\ successByPhase' = [successByPhase EXCEPT !["testCases"] = ok]
    /\ stage' = "afterAllHooks"
    /\ UNCHANGED result

AfterAllHooksSettled(ok) ==
    /\ stage = "afterAllHooks"
    /\ successByPhase' = [successByPhase EXCEPT !["afterAllHooks"] = ok]
    /\ result' = IF \A p \in Phases : successByPhase'[p] THEN "success" ELSE "failure"
    /\ stage' = "teardown"

(* A rejection of the awaited phase: the remaining phases are skipped. *)
\* Wrong variant: the exception is not returned.
Caught_Swallowed ==
    /\ stage \notin {"teardown", "returned"}
    /\ result' = "failure"
    /\ stage' = "teardown"
    /\ UNCHANGED successByPhase

Caught ==
    /\ stage \notin {"teardown", "returned"}
    /\ result' = "exception"
    /\ stage' = "teardown"
    /\ UNCHANGED successByPhase

TeardownSettled ==
    /\ stage = "teardown"
    /\ stage' = "returned"
    /\ UNCHANGED <<successByPhase, result>>
=============================================================================
