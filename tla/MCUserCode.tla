------------------------------ MODULE MCUserCode ------------------------------
(***************************************************************************)
(* An instance of UserCode for TLC.                                        *)
(***************************************************************************)
EXTENDS UserCode

CONSTANTS a, b   \* two test cases

Attempt(case, n) == [case |-> case, attempt |-> n]

(* Two attempts at a test case and one at the next, or a hook of the run   *)
(* and two steps of a test case.                                           *)
MCPlans ==
    {<<Attempt(a, 1), Attempt(a, 2), Attempt(b, 1)>>, <<TestRun, Attempt(a, 1), Attempt(a, 1)>>}

(* The last call has its timeout switched off. *)
MCTimed == {1, 2}

(* The thread is a worker. *)
MCGapAfter == {1, 2}
=============================================================================
