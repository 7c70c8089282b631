-------------------------- MODULE ParallelAssignment --------------------------
(***************************************************************************)
(* The assignment rules a user may pass to setParallelCanAssign: the       *)
(* helper of src/src/support_code_library_builder/                         *)
(* parallel_can_assign_helpers.ts, as a function of the test case in       *)
(* question and the set of those in progress.                              *)
(***************************************************************************)

HasTag(tagsOf, t, tag) == tag \in tagsOf[t]

AtMostOnePicklePerTag(cases, tagsOf, tagNames) ==
    [ ask \in cases \X SUBSET cases |->
        \A tag \in tagNames :
            \/ ~HasTag(tagsOf, ask[1], tag)
            \/ \A p \in ask[2] : ~HasTag(tagsOf, p, tag) ]
=============================================================================
