--------------------------- MODULE MCTestCaseRunner ---------------------------
(***************************************************************************)
(* Instances of TestCaseRunner for TLC.                                    *)
(***************************************************************************)
EXTENDS TestCaseRunner

(* Up to two Before hooks; no step, one or two of every kind, or two that  *)
(* have a definition before one of any kind; one or two After hooks.       *)
MCShapes ==
    { befores \o steps \o afters :
        befores \in {<< >>, <<"before">>, <<"before", "before">>},
        steps \in UNION {[1 .. n -> PickleSteps] : n \in 0 .. 2}
                    \cup {<<"defined", "defined", kind>> : kind \in PickleSteps},
        afters \in {<<"after">>, <<"after", "after">>} }

MCRetries == {0, 1, 2}

(* A step that throws is followed by another one and by an After hook. *)
MCTwoSteps == {<<"defined", "defined", "after">>}

(* A scenario without steps, with a Before and an After hook. *)
MCNoSteps == {<<"before", "after">>}

MCNoRetries == {0}
=============================================================================
