----------------------------- MODULE Subsequences -----------------------------
(***************************************************************************)
(* What Array.prototype.filter and sort keep of a sequence and how they    *)
(* arrange it, by the positions of the elements.                           *)
(***************************************************************************)
EXTENDS Naturals, FiniteSets

(* How many of a finite set of positions come no later than i.             *)
Rank(positions, i) == Cardinality({j \in positions : j <= i})

(* A finite set of positions as a sequence, the first one first.           *)
InOrder(positions) ==
    [k \in 1 .. Cardinality(positions) |-> CHOOSE i \in positions : Rank(positions, i) = k]

(* The elements of s at these positions, in the order of s.                *)
Keep(s, positions) == [k \in DOMAIN InOrder(positions) |-> s[InOrder(positions)[k]]]

(* Each element once, where it comes first.                                *)
Distinct(s) == Keep(s, {i \in DOMAIN s : s[i] \notin {s[j] : j \in 1 .. i - 1}})

(* The place an element has among all when they are sorted by their keys,  *)
(* equal ones in the order they were in.                                   *)
SortedPlace(keys, i) ==
    Cardinality({j \in DOMAIN keys : keys[j] < keys[i] \/ (keys[j] = keys[i] /\ j <= i)})

(* The positions of a sequence of keys, the one with the least key first.  *)
SortedPositions(keys) ==
    [k \in DOMAIN keys |-> CHOOSE i \in DOMAIN keys : SortedPlace(keys, i) = k]

(* The elements of s, arranged by the keys they have.                      *)
SortBy(s, keys) == [k \in DOMAIN s |-> s[SortedPositions(keys)[k]]]
=============================================================================
