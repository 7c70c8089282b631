------------------------------ MODULE Statuses ------------------------------
(***************************************************************************)
(* The result statuses of test steps and test cases, how a list of results *)
(* is reduced to its worst one, and which worst status fails the run.      *)
(* The order is the one @cucumber/messages gives TestStepResultStatus; the *)
(* verdict is shouldCauseFailure in src/src/runtime/helpers.ts.            *)
(***************************************************************************)
EXTENDS Naturals

CONSTANTS
    DryRun,    \* options.dryRun
    Strict     \* options.strict

ASSUME StatusOptionsAssumption == DryRun \in BOOLEAN /\ Strict \in BOOLEAN

Status == {"UNKNOWN", "PASSED", "SKIPPED", "PENDING", "UNDEFINED", "AMBIGUOUS", "FAILED"}

(* The severity order of @cucumber/messages. *)
Ordinal ==
    [ s \in Status |->
        CASE s = "UNKNOWN"   -> 0
          [] s = "PASSED"    -> 1
          [] s = "SKIPPED"   -> 2
          [] s = "PENDING"   -> 3
          [] s = "UNDEFINED" -> 4
          [] s = "AMBIGUOUS" -> 5
          [] s = "FAILED"    -> 6 ]

(* getWorstTestStepResult: the most severe status of a collection of       *)
(* results, UNKNOWN when there is none.                                    *)
Worst(results) ==
    IF results = {} THEN "UNKNOWN"
    ELSE CHOOSE s \in results : \A t \in results : Ordinal[t] <= Ordinal[s]

FailureStatuses ==
    {"AMBIGUOUS", "FAILED", "UNDEFINED"} \cup (IF Strict THEN {"PENDING"} ELSE {})

(* What a test case can end with: TestCaseRunner shows that this is so, and *)
(* the runtimes take the outcome of a test case from it.  A test case that  *)
(* is skipped still finds undefined and ambiguous steps.                    *)
FinalStatuses(skip) ==
    IF skip THEN {"SKIPPED", "UNDEFINED", "AMBIGUOUS"} ELSE Status \ {"UNKNOWN"}

ShouldCauseFailure(status) == ~DryRun /\ status \in FailureStatuses
=============================================================================
