------------------------------ MODULE ObjectTrees ------------------------------
(***************************************************************************)
(* Objects of options, and how they are merged: in depth, as the packages  *)
(* lodash.merge and lodash.mergewith do it.                                *)
(*                                                                         *)
(* An object is a function from the paths of keys to what is there: an     *)
(* object or an array, whose own keys (the indices "0", "1", ... of an     *)
(* array) are longer paths, or a scalar (not null).  A list is an array    *)
(* that is taken as a whole, with its items.                               *)
(***************************************************************************)
EXTENDS Naturals, SequencesExt

Object == [is |-> "object"]

Array == [is |-> "array"]

Scalar(v) == [is |-> "scalar", of |-> v]

List(items) == [is |-> "list", items |-> items]

(* The paths of what a path leads through.                                 *)
Above(path) == {SubSeq(path, 1, n) : n \in 1 .. Len(path) - 1}

IsTree(tree) ==
    \A path \in DOMAIN tree :
        /\ path \in Seq(STRING) /\ path # <<>>
        /\ \A above \in Above(path) : above \in DOMAIN tree /\ tree[above] \in {Object, Array}

(* What is said at a path, and all there is from it on, if it is there.    *)
Said(tree, path) == IF path \in DOMAIN tree THEN <<tree[path]>> ELSE <<>>

Part(tree, path) ==
    IF path \notin DOMAIN tree THEN <<>>
    ELSE LET below == {p \in DOMAIN tree : IsPrefix(path, p)}
         IN <<[rest \in {SubSeq(p, Len(path) + 1, Len(p)) : p \in below} |-> tree[path \o rest]]>>

-----------------------------------------------------------------------------
(* Two functions merged, what both of them have by Both.                   *)
MergeBy(Both(_, _, _), old, new) ==
    [key \in DOMAIN old \cup DOMAIN new |->
        IF key \notin DOMAIN new THEN old[key]
        ELSE IF key \notin DOMAIN old THEN new[key]
        ELSE Both(key, old[key], new[key])]

Latter(key, old, new) == new

(* An object is merged into what there is, be that an array; lists are     *)
(* merged by index; anything else replaces what there is.                  *)
MergeNodes(key, old, new) ==
    IF new = Object /\ old \in {Object, Array} THEN old
    ELSE IF old.is = "list" /\ new.is = "list" THEN List(MergeBy(Latter, old.items, new.items))
    ELSE new

(* What is in an object or an array that is merged into, not replaced.     *)
\* Wrong variant: of a key that both have all is taken from the later object.
Keeps_Shallow(old, new, path) == Above(path) \cap DOMAIN new = {}

Keeps(old, new, path) ==
    \A above \in Above(path) : above \in DOMAIN new => new[above] \in {Object, old[above]}

MergeTrees(Nodes(_, _, _), old, new) ==
    [path \in {p \in DOMAIN old : Keeps(old, new, p)} \cup DOMAIN new |->
        IF path \notin DOMAIN new THEN old[path]
        ELSE IF path \notin DOMAIN old \/ ~Keeps(old, new, path) THEN new[path]
        ELSE Nodes(Last(path), old[path], new[path])]
=============================================================================
