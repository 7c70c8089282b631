-------------------------- MODULE MCParallelRuntime --------------------------
(***************************************************************************)
(* Instances of ParallelRuntime for TLC.                                   *)
(***************************************************************************)
EXTENDS ParallelInvariant, ParallelAssignment

(* A coordinator hook and a worker hook of each kind. *)
MCBeforeTestRunHooks == {1, 2}
MCAfterTestRunHooks == {3, 4}
MCOnCoordinator == {2, 3}

(* Cases 1 and 2 share an exclusive tag, and case 4 is never let run.      *)
MCTagsOf == [t \in TestCases |-> IF t \in {1, 2} THEN {"@exclusive"} ELSE {}]

MCAtMostOnePerTag == AtMostOnePicklePerTag(TestCases, MCTagsOf, {"@exclusive"})

MCCanAssign ==
    [ask \in TestCases \X SUBSET TestCases |-> MCAtMostOnePerTag[ask] /\ ask[1] # 4]
=============================================================================
