------------------------------- MODULE TestRun -------------------------------
(***************************************************************************)
(* What a run promises to whoever listens to it (a formatter, the process  *)
(* that reads its exit code), whatever adapter does the work: test cases   *)
(* are only announced between the BeforeAll and the AfterAll hooks, each   *)
(* starts and finishes at most once, none is left open unless the run was  *)
(* aborted, success is only ever reported when every test case was seen    *)
(* to pass, and once the run has returned nothing more is announced.       *)
(***************************************************************************)
CONSTANT TestCases

VARIABLES
    period,     \* "before", "cases", "after", "closing", "ended"
    reported,   \* what has been announced of each test case
    verdict     \* "none", "success", "failure", "exception"

testRunVars == <<period, reported, verdict>>

Outcomes == {"passed", "failed"}

TestRunInit ==
    /\ period = "before"
    /\ reported = [t \in TestCases |-> "no"]
    /\ verdict = "none"

OpenCases ==
    /\ period = "before"
    /\ period' = "cases"
    /\ UNCHANGED <<reported, verdict>>

(* A BeforeAll hook failed: no test case is announced. *)
SkipCases ==
    /\ period = "before"
    /\ period' = "after"
    /\ UNCHANGED <<reported, verdict>>

(* After an abort, cases already handed out may still report. *)
Announcing == period = "cases" \/ (period = "closing" /\ verdict = "exception")

CaseStarted(t) ==
    /\ Announcing
    /\ reported[t] = "no"
    /\ reported' = [reported EXCEPT ![t] = "started"]
    /\ UNCHANGED <<period, verdict>>

CaseFinished(t, outcome) ==
    /\ Announcing
    /\ reported[t] = "started"
    /\ reported' = [reported EXCEPT ![t] = outcome]
    /\ UNCHANGED <<period, verdict>>

CloseCases ==
    /\ period = "cases"
    /\ \A t \in TestCases : reported[t] \in Outcomes
    /\ period' = "after"
    /\ UNCHANGED <<reported, verdict>>

Conclude(v) ==
    /\ period = "after"
    /\ v = "success" => \A t \in TestCases : reported[t] = "passed"
    /\ verdict' = v
    /\ period' = "closing"
    /\ UNCHANGED reported

Abort ==
    /\ period \in {"before", "cases", "after"}
    /\ verdict' = "exception"
    /\ period' = "closing"
    /\ UNCHANGED reported

End ==
    /\ period = "closing"
    /\ period' = "ended"
    /\ UNCHANGED <<reported, verdict>>

TestRunNext ==
    \/ OpenCases
    \/ SkipCases
    \/ \E t \in TestCases : CaseStarted(t)
    \/ \E t \in TestCases, outcome \in Outcomes : CaseFinished(t, outcome)
    \/ CloseCases
    \/ \E v \in {"success", "failure"} : Conclude(v)
    \/ Abort
    \/ End

TestRunSpec == TestRunInit /\ [][TestRunNext]_testRunVars
=============================================================================
