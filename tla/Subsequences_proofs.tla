------------------------- MODULE Subsequences_proofs -------------------------
(***************************************************************************)
(* Lemmas about what is kept of a sequence, how it is sorted, and what     *)
(* sequences are put together, for any sequence and any keys; and those on *)
(* functions defined by recursion that they need.                          *)
(***************************************************************************)
EXTENDS Subsequences, SequencesExt, FiniteSetTheorems, TLAPS

(* A set of positions of a sequence has a rank for each of them, one after  *)
(* the other.                                                              *)
LEMMA RankType ==
    ASSUME NEW n \in Nat, NEW P \in SUBSET (1 .. n)
    PROVE  /\ IsFiniteSet(P) /\ Cardinality(P) \in Nat
           /\ \A i \in 1 .. n : /\ IsFiniteSet({j \in P : j <= i})
                                /\ Rank(P, i) \in 0 .. Cardinality(P)
           /\ \A i \in P : Rank(P, i) \in 1 .. Cardinality(P)
  <1>0. P \subseteq Int
    OBVIOUS
  <1>1. IsFiniteSet(P) /\ Cardinality(P) \in Nat
    BY FS_Interval, FS_Subset, FS_CardinalityType, 1 \in Int, n \in Int
  <1>2. ASSUME NEW i \in 1 .. n
        PROVE  IsFiniteSet({j \in P : j <= i}) /\ Rank(P, i) \in 0 .. Cardinality(P)
    <2>1. {j \in P : j <= i} \subseteq P
      OBVIOUS
    <2>2. QED
      BY <1>1, <2>1, FS_Subset, FS_CardinalityType DEF Rank
  <1>3. ASSUME NEW i \in P
        PROVE  Rank(P, i) # 0
    <2>1. i \in {j \in P : j <= i}
      OBVIOUS
    <2>2. QED
      BY <1>2, <2>1, FS_EmptySet DEF Rank
  <1>4. ASSUME NEW i \in P
        PROVE  Rank(P, i) \in 1 .. Cardinality(P)
    <2>1. i \in 1 .. n
      OBVIOUS
    <2>2. Rank(P, i) \in 0 .. Cardinality(P) /\ Rank(P, i) # 0
      BY <1>2, <1>3, <2>1
    <2>3. QED
      BY <1>1, <2>2
  <1>5. QED
    BY <1>1, <1>2, <1>4

(* A position that comes later has a greater rank.                        *)
LEMMA RankGrows ==
    ASSUME NEW n \in Nat, NEW P \in SUBSET (1 .. n), NEW i \in P, NEW j \in P, i < j
    PROVE  Rank(P, i) < Rank(P, j)
  <1>1. {k \in P : k <= i} \subseteq {k \in P : k <= j}
    <2>1. ASSUME NEW k \in P, k <= i
          PROVE  k <= j
      <3>1. i \in Int /\ j \in Int /\ k \in Int
        OBVIOUS
      <3>2. QED
        BY <2>1, <3>1
    <2>2. QED
      BY <2>1
  <1>2. j \in {k \in P : k <= j} /\ j \notin {k \in P : k <= i}
    OBVIOUS
  <1>3. IsFiniteSet({k \in P : k <= j})
    BY RankType
  <1>4. Cardinality({k \in P : k <= i}) < Cardinality({k \in P : k <= j})
    <2>1. /\ IsFiniteSet({k \in P : k <= i})
          /\ Cardinality({k \in P : k <= i}) <= Cardinality({k \in P : k <= j})
          /\ Cardinality({k \in P : k <= i}) # Cardinality({k \in P : k <= j})
      BY <1>1, <1>2, <1>3, FS_Subset
    <2>2. QED
      BY <1>3, <2>1, FS_CardinalityType
  <1>5. QED
    BY <1>4 DEF Rank

(* There are no gaps between ranks.                                       *)
LEMMA EveryRank ==
    ASSUME NEW n \in Nat, NEW P \in SUBSET (1 .. n), NEW k \in 1 .. Cardinality(P)
    PROVE  \E i \in P : Rank(P, i) = k
  <1> DEFINE Ranks == {Rank(P, i) : i \in P}
             r == [i \in P |-> Rank(P, i)]
  <1>1. IsFiniteSet(P) /\ Cardinality(P) \in Nat /\ \A i \in P : Rank(P, i) \in 1 .. Cardinality(P)
    BY RankType
  <1>2. r \in Bijection(P, Ranks)
    <2>1. r \in [P -> Ranks]
      OBVIOUS
    <2>2. ASSUME NEW i \in P, NEW j \in P, i # j
          PROVE  r[i] # r[j]
      <3>1. i < j \/ j < i
        <4>1. i \in Int /\ j \in Int
          OBVIOUS
        <4>2. QED
          BY <2>2, <4>1
      <3>2. Rank(P, i) \in Int /\ Rank(P, j) \in Int
        BY <1>1
      <3>3. QED
        BY <3>1, <3>2, RankGrows
    <2>3. QED
      BY <2>1, <2>2 DEF Bijection, Injection, Surjection, IsInjective
  <1>3. Cardinality(Ranks) = Cardinality(P)
    BY <1>1, <1>2, FS_Bijection DEF ExistsBijection
  <1>4. Ranks \subseteq 1 .. Cardinality(P)
    BY <1>1
  <1>5. IsFiniteSet(1 .. Cardinality(P)) /\ Cardinality(1 .. Cardinality(P)) = Cardinality(P)
    BY <1>1, FS_Interval, 1 \in Int
  <1>6. Ranks = 1 .. Cardinality(P)
    BY <1>3, <1>4, <1>5, FS_Subset
  <1>7. QED
    BY <1>6

(* The positions in order are all of them, each once, and go up.           *)
LEMMA InOrderIsOrdered ==
    ASSUME NEW n \in Nat, NEW P \in SUBSET (1 .. n)
    PROVE  /\ Cardinality(P) \in Nat /\ DOMAIN InOrder(P) = 1 .. Cardinality(P)
           /\ \A k \in DOMAIN InOrder(P) : InOrder(P)[k] \in P
           /\ \A i \in P : \E k \in DOMAIN InOrder(P) : InOrder(P)[k] = i
           /\ \A k, l \in DOMAIN InOrder(P) : k < l => InOrder(P)[k] < InOrder(P)[l]
           /\ \A k, l \in DOMAIN InOrder(P) : InOrder(P)[k] = InOrder(P)[l] => k = l
  <1> DEFINE N == Cardinality(P)
             at(k) == InOrder(P)[k]
  <1>0. P \subseteq Int
    OBVIOUS
  <1>1. N \in Nat /\ \A i \in P : Rank(P, i) \in 1 .. N
    BY RankType
  <1>2. DOMAIN InOrder(P) = 1 .. N
    BY DEF InOrder
  <1>3. ASSUME NEW k \in 1 .. N
        PROVE  at(k) \in P /\ Rank(P, at(k)) = k
    <2>1. \E i \in P : Rank(P, i) = k
      BY EveryRank
    <2>2. at(k) = CHOOSE i \in P : Rank(P, i) = k
      BY DEF InOrder
    <2>3. QED
      BY <2>1, <2>2
  <1>4. ASSUME NEW i \in P, NEW j \in P, Rank(P, i) <= Rank(P, j)
        PROVE  i <= j
    <2>1. CASE j < i
      <3>1. Rank(P, j) < Rank(P, i)
        BY <2>1, RankGrows
      <3>2. Rank(P, i) \in Int /\ Rank(P, j) \in Int
        BY <1>1
      <3>3. QED
        BY <1>4, <3>1, <3>2
    <2>2. i \in Int /\ j \in Int
      BY <1>0
    <2>3. QED
      BY <2>1, <2>2
  <1>5. ASSUME NEW i \in P
        PROVE  \E k \in 1 .. N : at(k) = i
    <2>1. Rank(P, i) \in 1 .. N
      BY <1>1
    <2>2. at(Rank(P, i)) \in P /\ Rank(P, at(Rank(P, i))) = Rank(P, i)
      BY <1>3, <2>1
    <2>3. at(Rank(P, i)) <= i /\ i <= at(Rank(P, i))
      <3>1. Rank(P, i) \in Int /\ Rank(P, at(Rank(P, i))) <= Rank(P, i) /\ Rank(P, i) <= Rank(P, at(Rank(P, i)))
        BY <2>1, <2>2
      <3> HIDE DEF at
      <3>2. QED
        BY <1>4, <2>2, <3>1
    <2>4. i \in Int /\ at(Rank(P, i)) \in Int
      BY <1>0, <2>2
    <2>5. QED
      BY <2>1, <2>3, <2>4
  <1>6. \A k, l \in 1 .. N : at(k) = at(l) => k = l
    BY <1>3
  <1>7. ASSUME NEW k \in 1 .. N, NEW l \in 1 .. N, k < l
        PROVE  at(k) < at(l)
    <2>1. at(k) \in P /\ at(l) \in P /\ Rank(P, at(k)) = k /\ Rank(P, at(l)) = l
      BY <1>3
    <2>2. at(k) <= at(l)
      <3>1. k <= l
        BY <1>1, <1>7
      <3> HIDE DEF at
      <3>2. QED
        BY <1>4, <2>1, <3>1
    <2>3. at(k) # at(l)
      BY <1>1, <1>7, <2>1
    <2>4. at(k) \in Int /\ at(l) \in Int
      BY <1>0, <2>1
    <2>5. QED
      BY <2>2, <2>3, <2>4
  <1>8. QED
    BY <1>1, <1>2, <1>3, <1>5, <1>6, <1>7

(* Positions have a first and a last one.                                  *)
LEMMA FirstAndLast ==
    ASSUME NEW n \in Nat, NEW S \in SUBSET (1 .. n), S # {}
    PROVE  /\ Min(S) \in S /\ \A i \in S : Min(S) <= i
           /\ Max(S) \in S /\ \A i \in S : Max(S) >= i
  <1> DEFINE at(k) == InOrder(S)[k]
             c == Cardinality(S)
  <1>1. /\ c \in Nat /\ DOMAIN InOrder(S) = 1 .. c
        /\ \A k \in DOMAIN InOrder(S) : InOrder(S)[k] \in S
        /\ \A i \in S : \E k \in DOMAIN InOrder(S) : InOrder(S)[k] = i
        /\ \A k, l \in DOMAIN InOrder(S) : k < l => InOrder(S)[k] < InOrder(S)[l]
    BY InOrderIsOrdered
  <1>2. \A i \in S : i \in Int
    OBVIOUS
  <1> HIDE DEF c
  <1>3. /\ \A k \in 1 .. c : at(k) \in S /\ at(k) \in Int
        /\ \A i \in S : \E k \in 1 .. c : at(k) = i
        /\ \A k, l \in 1 .. c : k < l => at(k) < at(l)
    BY <1>1, <1>2
  <1> HIDE DEF at
  <1>4. 1 \in 1 .. c /\ c \in 1 .. c
    <2>1. PICK i \in S : TRUE
      OBVIOUS
    <2>2. PICK k \in 1 .. c : at(k) = i
      BY <1>3
    <2>3. QED
      BY <1>1, <2>2
  <1>5. ASSUME NEW i \in S
        PROVE  at(1) <= i /\ at(c) >= i
    <2>1. PICK k \in 1 .. c : at(k) = i
      BY <1>3
    <2>2. (k = 1 \/ 1 < k) /\ (k = c \/ k < c)
      BY <1>1
    <2>3. QED
      BY <1>3, <1>4, <2>1, <2>2
  <1>6. at(1) \in S /\ at(c) \in S
    BY <1>3, <1>4
  <1>7. QED
    BY <1>5, <1>6 DEF Min, Max

(* Nothing comes before the first of all positions or between two of them. *)
LEMMA InOrderOfAll ==
    ASSUME NEW n \in Nat
    PROVE  DOMAIN InOrder(1 .. n) = 1 .. n /\ \A k \in 1 .. n : InOrder(1 .. n)[k] = k
  <1>1. Cardinality(1 .. n) = n
    BY FS_Interval, 1 \in Int
  <1>2. ASSUME NEW k \in 1 .. n
        PROVE  Rank(1 .. n, k) = k
    <2>1. {j \in 1 .. n : j <= k} = 1 .. k
      OBVIOUS
    <2>2. Cardinality(1 .. k) = k
      BY FS_Interval, 1 \in Int, k \in Int
    <2>3. QED
      BY <2>1, <2>2 DEF Rank
  <1>3. ASSUME NEW k \in 1 .. n
        PROVE  InOrder(1 .. n)[k] = k
    <2>1. InOrder(1 .. n)[k] = CHOOSE i \in 1 .. n : Rank(1 .. n, i) = k
      BY <1>1 DEF InOrder
    <2>2. QED
      BY <1>2, <2>1
  <1>4. QED
    BY <1>1, <1>3 DEF InOrder

(* The first of two elements in the sorted sequence: that with the less    *)
(* key, and of equal keys the first.                                       *)
Precedes(keys, i, j) == keys[i] < keys[j] \/ (keys[i] = keys[j] /\ i < j)

(* Sorting arranges all positions, each once, by their keys.               *)
LEMMA SortingArranges ==
    ASSUME NEW n \in Nat, NEW keys \in [1 .. n -> Nat]
    PROVE  /\ DOMAIN SortedPositions(keys) = 1 .. n
           /\ \A k \in 1 .. n : SortedPositions(keys)[k] \in 1 .. n
           /\ \A i \in 1 .. n : \E k \in 1 .. n : SortedPositions(keys)[k] = i
           /\ \A k, l \in 1 .. n :
                  k < l => Precedes(keys, SortedPositions(keys)[k], SortedPositions(keys)[l])
  <1> DEFINE UpTo(i) == {j \in 1 .. n : keys[j] < keys[i] \/ (keys[j] = keys[i] /\ j <= i)}
             place == [i \in 1 .. n |-> Cardinality(UpTo(i))]
             at(k) == SortedPositions(keys)[k]
             Places == {place[i] : i \in 1 .. n}
  <1>1. IsFiniteSet(1 .. n) /\ Cardinality(1 .. n) = n
    BY FS_Interval, 1 \in Int, n \in Int
  <1>2. ASSUME NEW i \in 1 .. n
        PROVE  IsFiniteSet(UpTo(i)) /\ place[i] = Cardinality(UpTo(i)) /\ place[i] \in 1 .. n
    <2>1. UpTo(i) \subseteq 1 .. n /\ i \in UpTo(i)
      OBVIOUS
    <2>2. IsFiniteSet(UpTo(i)) /\ Cardinality(UpTo(i)) \in 0 .. n
      BY <1>1, <2>1, FS_Subset, FS_CardinalityType
    <2>3. Cardinality(UpTo(i)) # 0
      BY <2>1, <2>2, FS_EmptySet
    <2>4. QED
      BY <2>2, <2>3
  <1>3. ASSUME NEW i \in 1 .. n, NEW j \in 1 .. n, Precedes(keys, i, j)
        PROVE  place[i] < place[j]
    <2>1. UpTo(i) \subseteq UpTo(j)
      <3>1. ASSUME NEW l \in UpTo(i)
            PROVE  l \in UpTo(j)
        <4>1. /\ l \in 1 .. n /\ keys[i] \in Int /\ keys[j] \in Int /\ keys[l] \in Int
              /\ keys[l] < keys[i] \/ (keys[l] = keys[i] /\ l <= i)
              /\ keys[i] < keys[j] \/ (keys[i] = keys[j] /\ i < j)
          BY <1>3 DEF Precedes
        <4>2. QED
          BY <4>1
      <3>2. QED
        BY <3>1
    <2>2. j \in UpTo(j) /\ j \notin UpTo(i)
      <3>1. keys[i] \in Int /\ keys[j] \in Int
        OBVIOUS
      <3>2. QED
        BY <1>3, <3>1 DEF Precedes
    <2>3. Cardinality(UpTo(i)) <= Cardinality(UpTo(j)) /\ Cardinality(UpTo(i)) # Cardinality(UpTo(j))
      BY <1>2, <2>1, <2>2, FS_Subset
    <2>4. place[i] = Cardinality(UpTo(i)) /\ place[j] = Cardinality(UpTo(j))
      BY <1>2
    <2>5. place[i] \in Int /\ place[j] \in Int
      <3>1. place[i] \in 1 .. n /\ place[j] \in 1 .. n
        BY <1>2
      <3> HIDE DEF place
      <3>2. QED
        BY <3>1
    <2> HIDE DEF place, UpTo
    <2>6. QED
      BY <2>3, <2>4, <2>5
  <1>4. ASSUME NEW i \in 1 .. n, NEW j \in 1 .. n, i # j
        PROVE  Precedes(keys, i, j) \/ Precedes(keys, j, i)
    <2>1. keys[i] \in Int /\ keys[j] \in Int
      OBVIOUS
    <2>2. QED
      BY <1>4, <2>1 DEF Precedes
  <1> HIDE DEF UpTo
  <1>5. \A i, j \in 1 .. n : place[i] = place[j] => i = j
    <2> SUFFICES ASSUME NEW i \in 1 .. n, NEW j \in 1 .. n, i # j
                 PROVE  place[i] # place[j]
      OBVIOUS
    <2>1. place[i] \in Int /\ place[j] \in Int
      <3>1. place[i] \in 1 .. n /\ place[j] \in 1 .. n
        BY <1>2
      <3> HIDE DEF place
      <3>2. QED
        BY <3>1
    <2>2. place[i] < place[j] \/ place[j] < place[i]
      BY <1>3, <1>4
    <2> HIDE DEF place
    <2>3. QED
      BY <2>1, <2>2
  <1>6. Places = 1 .. n
    <2>1. place \in Bijection(1 .. n, Places)
      <3>1. place \in [1 .. n -> Places]
        OBVIOUS
      <3>2. QED
        BY <1>5, <3>1 DEF Bijection, Injection, Surjection, IsInjective
    <2>2. Cardinality(Places) = Cardinality(1 .. n)
      BY <1>1, <2>1, FS_Bijection DEF ExistsBijection
    <2>3. Places \subseteq 1 .. n
      BY <1>2
    <2>4. QED
      BY <1>1, <2>2, <2>3, FS_Subset
  <1>7. ASSUME NEW k \in 1 .. n
        PROVE  at(k) \in 1 .. n /\ place[at(k)] = k
    <2>1. \E i \in 1 .. n : place[i] = k
      BY <1>6
    <2>2. \A i \in 1 .. n : SortedPlace(keys, i) = place[i]
      BY DEF SortedPlace, UpTo
    <2>3. at(k) = CHOOSE i \in 1 .. n : SortedPlace(keys, i) = k
      BY DEF SortedPositions
    <2> HIDE DEF place, at
    <2>4. QED
      BY <2>1, <2>2, <2>3
  <1>8. DOMAIN SortedPositions(keys) = 1 .. n
    BY DEF SortedPositions
  <1> HIDE DEF at
  <1>9. ASSUME NEW i \in 1 .. n
        PROVE  \E k \in 1 .. n : at(k) = i
    <2>1. place[i] \in 1 .. n
      BY <1>2
    <2>2. at(place[i]) \in 1 .. n /\ place[at(place[i])] = place[i]
      BY <1>7, <2>1
    <2> HIDE DEF place
    <2>3. at(place[i]) = i
      BY <1>5, <2>2
    <2>4. QED
      BY <2>1, <2>3
  <1>10. ASSUME NEW k \in 1 .. n, NEW l \in 1 .. n, k < l
         PROVE  Precedes(keys, at(k), at(l))
    <2>1. at(k) \in 1 .. n /\ at(l) \in 1 .. n /\ place[at(k)] = k /\ place[at(l)] = l
      BY <1>7
    <2>2. at(k) # at(l)
      BY <1>10, <2>1
    <2>3. ~Precedes(keys, at(l), at(k))
      BY <1>3, <1>10, <2>1
    <2>4. QED
      BY <1>4, <2>1, <2>2, <2>3
  <1>11. QED
    BY <1>7, <1>8, <1>9, <1>10 DEF at

(* What is kept is what was at the positions, each once.                   *)
LEMMA KeepIsPart ==
    ASSUME NEW S, NEW s \in Seq(S), NEW P \in SUBSET (1 .. Len(s))
    PROVE  /\ Keep(s, P) \in Seq(S) /\ DOMAIN Keep(s, P) = DOMAIN InOrder(P)
           /\ DOMAIN Keep(s, P) = 1 .. Len(Keep(s, P))
           /\ \A k \in DOMAIN Keep(s, P) : Keep(s, P)[k] = s[InOrder(P)[k]]
           /\ ToSet(Keep(s, P)) = {s[i] : i \in P}
           /\ (\A i, j \in 1 .. Len(s) : s[i] = s[j] => i = j) =>
                  \A k, l \in DOMAIN Keep(s, P) : Keep(s, P)[k] = Keep(s, P)[l] => k = l
  <1> DEFINE N == Cardinality(P)
             kept == Keep(s, P)
  <1>1. /\ N \in Nat /\ DOMAIN InOrder(P) = 1 .. N
        /\ \A k \in 1 .. N : InOrder(P)[k] \in P
        /\ \A i \in P : \E k \in 1 .. N : InOrder(P)[k] = i
        /\ \A k, l \in 1 .. N : InOrder(P)[k] = InOrder(P)[l] => k = l
    <2>1. PICK n \in Nat : n = Len(s)
      OBVIOUS
    <2>2. P \in SUBSET (1 .. n)
      BY <2>1
    <2>3. /\ Cardinality(P) \in Nat /\ DOMAIN InOrder(P) = 1 .. Cardinality(P)
          /\ \A k \in DOMAIN InOrder(P) : InOrder(P)[k] \in P
          /\ \A i \in P : \E k \in DOMAIN InOrder(P) : InOrder(P)[k] = i
          /\ \A k, l \in DOMAIN InOrder(P) : InOrder(P)[k] = InOrder(P)[l] => k = l
      BY <2>2, InOrderIsOrdered
    <2>4. QED
      BY <2>3
  <1>2. kept = [k \in 1 .. N |-> s[InOrder(P)[k]]]
    BY <1>1 DEF Keep
  <1>3. \A i \in P : i \in 1 .. Len(s) /\ s[i] \in S
    OBVIOUS
  <1> HIDE DEF kept
  <1>4. kept \in Seq(S) /\ DOMAIN kept = 1 .. N /\ DOMAIN kept = 1 .. Len(kept)
    <2>1. kept \in [1 .. N -> S]
      <3>1. ASSUME NEW k \in 1 .. N
            PROVE  s[InOrder(P)[k]] \in S
        BY <1>1, <1>3
      <3>2. QED
        BY <1>2, <3>1
    <2>2. QED
      BY <1>1, <2>1
  <1>5. ToSet(kept) = {s[i] : i \in P}
    <2>1. ASSUME NEW k \in 1 .. N
          PROVE  \E i \in P : kept[k] = s[i]
      <3>1. kept[k] = s[InOrder(P)[k]] /\ InOrder(P)[k] \in P
        BY <1>1, <1>2
      <3>2. QED
        BY <3>1
    <2>2. ASSUME NEW i \in P
          PROVE  \E k \in 1 .. N : kept[k] = s[i]
      <3>1. PICK k \in 1 .. N : InOrder(P)[k] = i
        BY <1>1
      <3>2. kept[k] = s[InOrder(P)[k]]
        BY <1>2
      <3>3. QED
        BY <3>1, <3>2
    <2>3. ToSet(kept) = {kept[k] : k \in 1 .. N}
      BY <1>4 DEF ToSet
    <2> HIDE DEF N
    <2>4. ToSet(kept) \subseteq {s[i] : i \in P}
      BY <2>1, <2>3
    <2>5. {s[i] : i \in P} \subseteq ToSet(kept)
      BY <2>2, <2>3
    <2>6. QED
      BY <2>4, <2>5
  <1>6. (\A i, j \in 1 .. Len(s) : s[i] = s[j] => i = j) =>
            \A k, l \in DOMAIN kept : kept[k] = kept[l] => k = l
    <2>1. SUFFICES ASSUME \A i, j \in 1 .. Len(s) : s[i] = s[j] => i = j,
                          NEW k \in 1 .. N, NEW l \in 1 .. N, kept[k] = kept[l]
                   PROVE  k = l
      BY <1>4
    <2>2. InOrder(P)[k] = InOrder(P)[l]
      BY ZenonT(60), <1>1, <1>2, <1>3, <2>1
    <2>3. QED
      BY <1>1, <2>2
  <1>7. QED
    BY <1>1, <1>2, <1>4, <1>5, <1>6 DEF kept

(* The set of the elements of a sequence in which nothing comes twice is   *)
(* as large as the sequence is long.                                       *)
LEMMA NothingTwice ==
    ASSUME NEW S, NEW s \in Seq(S), \A i, j \in 1 .. Len(s) : s[i] = s[j] => i = j
    PROVE  Cardinality(ToSet(s)) = Len(s)
  <1>1. s \in Bijection(1 .. Len(s), ToSet(s))
    <2>1. s \in [1 .. Len(s) -> ToSet(s)]
      BY DEF ToSet
    <2>2. \A x \in ToSet(s) : \E i \in 1 .. Len(s) : s[i] = x
      BY DEF ToSet
    <2>3. QED
      BY <2>1, <2>2 DEF Bijection, Injection, Surjection, IsInjective
  <1>2. IsFiniteSet(1 .. Len(s)) /\ Cardinality(1 .. Len(s)) = Len(s)
    <2>1. PICK n \in Nat : n = Len(s)
      OBVIOUS
    <2>2. IsFiniteSet(1 .. n) /\ Cardinality(1 .. n) = n
      BY FS_Interval, 1 \in Int, n \in Int
    <2>3. QED
      BY <2>1, <2>2
  <1>3. QED
    BY <1>1, <1>2, FS_Bijection DEF ExistsBijection

(* A nonempty set of naturals has a least element.                         *)
LEMMA LeastOfNaturals ==
    ASSUME NEW S \in SUBSET Nat, S # {}
    PROVE  Min(S) \in S /\ \A n \in S : Min(S) <= n
  <1> DEFINE Below == {0 .. n : n \in S}
  <1>1. IsWellFoundedOn(StrictSubsetOrdering(Nat), FiniteSubsetsOf(Nat))
    BY FS_StrictSubsetOrderingWellFounded
  <1>2. Below \subseteq FiniteSubsetsOf(Nat)
    <2>1. \A n \in S : IsFiniteSet(0 .. n) /\ 0 .. n \subseteq Nat
      BY FS_Interval
    <2>2. QED
      BY <2>1 DEF FiniteSubsetsOf
  <1>3. Below # {}
    OBVIOUS
  <1> HIDE DEF Below
  <1>4. \E low \in Below : \A other \in Below : ~(<<other, low>> \in StrictSubsetOrdering(Nat))
    BY <1>1, <1>2, <1>3, WFMin, Zenon
  <1>5. PICK low \in Below : \A other \in Below : ~(<<other, low>> \in StrictSubsetOrdering(Nat))
    BY <1>4
  <1>51. PICK m \in S : low = 0 .. m
    BY <1>5 DEF Below
  <1>6. ASSUME NEW n \in S
        PROVE  m <= n
    <2>0. 0 .. n \in Below
      BY DEF Below
    <2>1. ~(0 .. n \subseteq 0 .. m /\ 0 .. n # 0 .. m)
      <3>1. ~(<<0 .. n, 0 .. m>> \in StrictSubsetOrdering(Nat))
        BY <1>5, <1>51, <2>0
      <3>2. 0 .. n \in SUBSET Nat /\ 0 .. m \in SUBSET Nat
        OBVIOUS
      <3>3. QED
        BY <3>1, <3>2 DEF StrictSubsetOrdering
    <2>2. n < m => 0 .. n \subseteq 0 .. m /\ m \notin 0 .. n /\ m \in 0 .. m
      OBVIOUS
    <2>3. QED
      BY <2>1, <2>2
  <1>7. QED
    BY <1>6 DEF Min

(* What is defined by recursion up to some natural, in V and from the first *)
(* value on, each from the one before it; and that there is such a thing.  *)
IsDefinedBy(g, N, V, first, F) ==
    g \in [0 .. N -> V] /\ g[0] = first /\ \A i \in 1 .. N : g[i] = F[<<i, g[i - 1]>>]

LEMMA DefinedByRecursion ==
    ASSUME NEW N \in Nat, NEW V, NEW first \in V,
           NEW F \in [(1 .. N) \X V -> V]
    PROVE  \E g : IsDefinedBy(g, N, V, first, F)
  <1> USE DEF IsDefinedBy
  <1> DEFINE IsUpTo(g, n) == IsDefinedBy(g, n, V, first, F)
             Lacking == {n \in 0 .. N : ~\E g : IsUpTo(g, n)}
  <1>1. SUFFICES Lacking = {}
    <2>1. N \in 0 .. N
      OBVIOUS
    <2>2. PICK g : IsUpTo(g, N)
      BY <1>1, <2>1
    <2>3. QED
      BY <2>2
  <1>2. SUFFICES ASSUME Lacking # {} PROVE FALSE
    OBVIOUS
  <1>3. PICK m \in Lacking : \A n \in Lacking : m <= n
    <2>1. Lacking \in SUBSET Nat
      OBVIOUS
    <2> HIDE DEF Lacking
    <2>2. QED
      BY <1>2, <2>1, LeastOfNaturals
  <1>4. m # 0
    <2>1. IsUpTo([i \in 0 .. 0 |-> first], 0)
      OBVIOUS
    <2>2. QED
      BY <2>1
  <1>5. m - 1 \in 0 .. N /\ m - 1 \notin Lacking
    BY <1>3, <1>4
  <1>6. PICK g : IsUpTo(g, m - 1)
    BY <1>5
  <1> DEFINE h == [i \in 0 .. m |-> IF i = m THEN F[<<m, g[m - 1]>>] ELSE g[i]]
  <1>7. g[m - 1] \in V /\ m \in 1 .. N
    BY <1>3, <1>4, <1>6
  <1>8. F[<<m, g[m - 1]>>] \in V
    BY <1>7
  <1>9. h \in [0 .. m -> V]
    BY <1>6, <1>8
  <1>10. h[0] = first
    BY <1>4, <1>6, <1>7
  <1>11. ASSUME NEW i \in 1 .. m
         PROVE  h[i] = F[<<i, h[i - 1]>>]
    <2>1. CASE i = m
      <3>1. h[m - 1] = g[m - 1] /\ h[m] = F[<<m, g[m - 1]>>]
        BY <1>7
      <3>2. QED
        BY <2>1, <3>1
    <2>2. CASE i # m
      <3>1. i \in 1 .. m - 1 /\ h[i - 1] = g[i - 1] /\ h[i] = g[i]
        BY <1>7, <2>2
      <3>2. QED
        BY <1>6, <3>1
    <2>3. QED
      BY <2>1, <2>2
  <1>12. IsUpTo(h, m)
    BY <1>9, <1>10, <1>11
  <1>13. QED
    BY <1>12

(* A flattened sequence is what is put together from its first part on.    *)
LEMMA FlattenedStepwise ==
    ASSUME NEW s, NEW N \in Nat \ {0}, DOMAIN s = 1 .. N, Len(s) = N, NEW S, \A i \in 1 .. N : s[i] \in Seq(S)
    PROVE  \E g : /\ DOMAIN g = 1 .. N /\ FlattenSeq(s) = g[N]
                  /\ g[1] = s[1] /\ \A i \in 2 .. N : g[i] = g[i - 1] \o s[i]
                  /\ \A i \in 1 .. N : g[i] \in Seq(S)
  <1> DEFINE V == Seq(S)
             F == [p \in (1 .. N) \X V |-> p[2] \o s[p[1]]]
             Flattens(g) == g = [i \in 1 .. N |-> IF i = 1 THEN s[i] ELSE g[i - 1] \o s[i]]
  <1>1. <<>> \in V /\ F \in [(1 .. N) \X V -> V]
    OBVIOUS
  <1>2. \E h : IsDefinedBy(h, N, V, <<>>, F)
    <2>1. N \in Nat
      OBVIOUS
    <2> HIDE DEF V, F
    <2>2. QED
      BY <1>1, <2>1, DefinedByRecursion, Zenon
  <1>3. PICK h \in [0 .. N -> V] : h[0] = <<>> /\ \A i \in 1 .. N : h[i] = F[<<i, h[i - 1]>>]
    BY <1>2 DEF IsDefinedBy
  <1>4. \A i \in 1 .. N : h[i] = h[i - 1] \o s[i] /\ h[i] \in V
    <2> SUFFICES ASSUME NEW i \in 1 .. N PROVE h[i] = h[i - 1] \o s[i] /\ h[i] \in V
      OBVIOUS
    <2>1. i \in 0 .. N /\ i - 1 \in 0 .. N
      OBVIOUS
    <2>2. h[i] \in V /\ h[i - 1] \in V
      BY <1>3, <2>1
    <2>3. F[<<i, h[i - 1]>>] = h[i - 1] \o s[i]
      BY <2>2
    <2>4. QED
      BY <1>3, <2>2, <2>3
  <1>5. h[1] = s[1]
    <2>1. 1 \in 1 .. N /\ s[1] \in Seq(S)
      OBVIOUS
    <2>2. h[1] = h[0] \o s[1]
      <3>1. h[1] = h[1 - 1] \o s[1]
        BY <1>4, <2>1
      <3>2. 1 - 1 = 0
        OBVIOUS
      <3>3. QED
        BY <3>1, <3>2, Zenon
    <2>3. \A a \in Seq(S) : <<>> \o a = a
      OBVIOUS
    <2>4. <<>> \o s[1] = s[1]
      BY <2>1, <2>3, Zenon
    <2>5. QED
      BY <1>3, <2>2, <2>4, Zenon
  <1> DEFINE g == [i \in 1 .. N |-> h[i]]
  <1>6. Flattens(g)
    <2>1. \A i \in 1 .. N : g[i] = IF i = 1 THEN s[i] ELSE g[i - 1] \o s[i]
      <3> SUFFICES ASSUME NEW i \in 1 .. N
                   PROVE  g[i] = IF i = 1 THEN s[i] ELSE g[i - 1] \o s[i]
        OBVIOUS
      <3>1. g[i] = h[i]
        OBVIOUS
      <3>2. CASE i = 1
        BY <1>5, <3>1, <3>2
      <3>3. CASE i # 1
        <4>1. i - 1 \in 1 .. N
          BY <3>3
        <4>2. g[i - 1] = h[i - 1]
          BY <4>1
        <4>3. QED
          BY <1>4, <3>1, <3>3, <4>2
      <3>4. QED
        BY <3>2, <3>3
    <2>2. g = [i \in 1 .. N |-> g[i]]
      OBVIOUS
    <2> HIDE DEF g
    <2>3. QED
      BY <2>1, <2>2
  <1>7. FlattenSeq(s) = (CHOOSE f : Flattens(f))[N]
    BY DEF FlattenSeq
  <1> HIDE DEF g
  <1>8. PICK f : Flattens(f) /\ FlattenSeq(s) = f[N]
    <2> HIDE DEF Flattens
    <2>1. QED
      BY <1>6, <1>7
  <1>9. /\ DOMAIN f = 1 .. N /\ f[1] = s[1]
        /\ \A i \in 2 .. N : f[i] = f[i - 1] \o s[i]
    <2>1. f = [i \in 1 .. N |-> IF i = 1 THEN s[i] ELSE f[i - 1] \o s[i]]
      BY <1>8
    <2>2. \A i \in 1 .. N : f[i] = IF i = 1 THEN s[i] ELSE f[i - 1] \o s[i]
      BY <2>1
    <2>3. 1 \in 1 .. N /\ \A i \in 2 .. N : i \in 1 .. N /\ i # 1
      OBVIOUS
    <2>4. DOMAIN f = 1 .. N
      BY <2>1
    <2> HIDE DEF Flattens
    <2>5. QED
      BY <2>2, <2>3, <2>4
  <1>10. \A i \in 1 .. N : f[i] = h[i]
    <2> DEFINE Other == {i \in 1 .. N : f[i] # h[i]}
    <2>1. SUFFICES ASSUME Other # {} PROVE FALSE
      OBVIOUS
    <2>2. PICK m \in Other : \A n \in Other : m <= n
      <3>1. Other \in SUBSET Nat
        OBVIOUS
      <3> HIDE DEF Other
      <3>2. QED
        BY <2>1, <3>1, LeastOfNaturals
    <2>3. m # 1
      BY <1>5, <1>9
    <2>4. m - 1 \in 1 .. N /\ m - 1 \notin Other /\ m \in 2 .. N
      BY <2>2, <2>3
    <2>5. QED
      BY <1>4, <1>9, <2>4
  <1>11. \A i \in 1 .. N : f[i] \in Seq(S)
    BY <1>4, <1>10
  <1>12. QED
    BY <1>8, <1>9, <1>11

(* A bounded set of numbers has a greatest one.                            *)
LEMMA GreatestOfNaturals ==
    ASSUME NEW n \in Nat, NEW S \in SUBSET (1 .. n), S # {}
    PROVE  Max(S) \in S /\ \A x \in S : x <= Max(S)
  <1> DEFINE Gaps == {n - x : x \in S}
  <1>0. \A x \in S : x \in Nat /\ n - x \in Nat
    <2>1. \A x \in S : x \in 1 .. n
      OBVIOUS
    <2>2. QED
      BY <2>1
  <1>1. Gaps \in SUBSET Nat /\ Gaps # {}
    BY <1>0
  <1>2. PICK gap \in Gaps : \A other \in Gaps : gap <= other
    <2> HIDE DEF Gaps
    <2>1. QED
      BY <1>1, LeastOfNaturals
  <1>3. PICK x \in S : gap = n - x
    OBVIOUS
  <1>4. \A y \in S : n - x <= n - y
    BY <1>2, <1>3
  <1>5. \A y \in S : x >= y
    BY <1>0, <1>4
  <1>6. \E m \in S : \A y \in S : m >= y
    BY <1>5
  <1>7. Max(S) \in S /\ \A y \in S : Max(S) >= y
    BY <1>6 DEF Max
  <1>8. QED
    BY <1>0, <1>7

(* What is in two sequences.                                               *)
LEMMA SetOfBoth ==
    ASSUME NEW S, NEW a \in Seq(S), NEW b \in Seq(S)
    PROVE  ToSet(a \o b) = ToSet(a) \cup ToSet(b)
  <1>1. /\ Len(a) \in Nat /\ Len(b) \in Nat /\ DOMAIN a = 1 .. Len(a) /\ DOMAIN b = 1 .. Len(b)
        /\ DOMAIN (a \o b) = 1 .. Len(a) + Len(b)
    OBVIOUS
  <1>2. /\ \A i \in 1 .. Len(a) : (a \o b)[i] = a[i]
        /\ \A i \in 1 .. Len(b) : (a \o b)[Len(a) + i] = b[i]
    OBVIOUS
  <1>3. ASSUME NEW i \in 1 .. Len(a) + Len(b)
        PROVE  (a \o b)[i] \in ToSet(a) \cup ToSet(b)
    <2>1. CASE i <= Len(a)
      BY <1>1, <1>2, <2>1 DEF ToSet
    <2>2. CASE i > Len(a)
      <3>1. i - Len(a) \in 1 .. Len(b) /\ i = Len(a) + (i - Len(a))
        BY <1>1, <2>2
      <3>2. (a \o b)[i] = b[i - Len(a)]
        BY <1>2, <3>1
      <3>3. QED
        BY <1>1, <3>1, <3>2 DEF ToSet
    <2>3. QED
      BY <1>1, <2>1, <2>2
  <1>4. ASSUME NEW i \in 1 .. Len(a)
        PROVE  a[i] \in ToSet(a \o b)
    <2>1. i \in 1 .. Len(a) + Len(b) /\ (a \o b)[i] = a[i]
      BY <1>1, <1>2
    <2>2. QED
      BY <1>1, <2>1 DEF ToSet
  <1>5. ASSUME NEW i \in 1 .. Len(b)
        PROVE  b[i] \in ToSet(a \o b)
    <2>1. Len(a) + i \in 1 .. Len(a) + Len(b) /\ (a \o b)[Len(a) + i] = b[i]
      BY <1>1, <1>2
    <2>2. QED
      BY <1>1, <2>1 DEF ToSet
  <1>6. QED
    BY <1>1, <1>3, <1>4, <1>5 DEF ToSet

(* What is in a flattened sequence of sequences is in one of them.         *)
LEMMA FlattenedSet ==
    ASSUME NEW s, NEW N \in Nat, DOMAIN s = 1 .. N, Len(s) = N, NEW S, \A i \in 1 .. N : s[i] \in Seq(S)
    PROVE  FlattenSeq(s) \in Seq(S) /\ ToSet(FlattenSeq(s)) = UNION {ToSet(s[i]) : i \in 1 .. N}
  <1>1. CASE N = 0
    <2>1. FlattenSeq(s) = <<>>
      <3>1. s = <<>>
        BY <1>1
      <3>2. QED
        BY <3>1 DEF FlattenSeq
    <2>2. QED
      BY <1>1, <2>1 DEF ToSet
  <1>2. CASE N # 0
    <2>1. PICK g : /\ DOMAIN g = 1 .. N /\ FlattenSeq(s) = g[N]
                   /\ g[1] = s[1] /\ \A i \in 2 .. N : g[i] = g[i - 1] \o s[i]
                   /\ \A i \in 1 .. N : g[i] \in Seq(S)
      BY <1>2, FlattenedStepwise
    <2> DEFINE Of(i) == UNION {ToSet(s[j]) : j \in 1 .. i}
               Otherwise == {i \in 1 .. N : ToSet(g[i]) # Of(i)}
    <2>2. ASSUME Otherwise # {} PROVE FALSE
      <3>1. PICK m \in Otherwise : \A i \in Otherwise : m <= i
        <4>1. Otherwise \in SUBSET Nat
          OBVIOUS
        <4> HIDE DEF Otherwise
        <4>2. QED
          BY <2>2, <4>1, LeastOfNaturals
      <3>2. m \in 1 .. N /\ ToSet(g[m]) # Of(m)
        OBVIOUS
      <3>3. CASE m = 1
        <4>1. Of(1) = ToSet(s[1])
          OBVIOUS
        <4>2. QED
          BY <2>1, <3>2, <3>3, <4>1
      <3>4. CASE m # 1
        <4>1. m - 1 \in 1 .. N /\ m \in 2 .. N /\ 1 .. m = 1 .. (m - 1) \cup {m}
          BY <3>2, <3>4
        <4>2. m - 1 \notin Otherwise
          <5> SUFFICES ASSUME m - 1 \in Otherwise PROVE FALSE
            OBVIOUS
          <5> HIDE DEF Otherwise
          <5>1. m <= m - 1
            BY <3>1
          <5>2. QED
            BY <3>2, <5>1
        <4>3. ToSet(g[m - 1]) = Of(m - 1)
          BY <4>1, <4>2
        <4>4. Of(m) = Of(m - 1) \cup ToSet(s[m])
          BY <4>1
        <4>5. ToSet(g[m]) = ToSet(g[m - 1]) \cup ToSet(s[m])
          <5>1. g[m] = g[m - 1] \o s[m] /\ g[m - 1] \in Seq(S) /\ s[m] \in Seq(S)
            BY <2>1, <4>1
          <5>2. QED
            BY <5>1, SetOfBoth
        <4>6. QED
          BY <3>2, <4>3, <4>4, <4>5
      <3>5. QED
        BY <3>3, <3>4
    <2>3. ToSet(g[N]) = Of(N)
      BY <1>2, <2>2
    <2>4. QED
      BY <1>2, <2>1, <2>3
  <1>3. QED
    BY <1>1, <1>2

(* Each element is still there when it is kept once.                        *)
LEMMA DistinctSet ==
    ASSUME NEW S, NEW files \in Seq(S)
    PROVE  ToSet(Distinct(files)) = ToSet(files)
  <1> DEFINE N == Len(files)
             P == {i \in DOMAIN files : files[i] \notin {files[j] : j \in 1 .. i - 1}}
  <1>1. N \in Nat /\ DOMAIN files = 1 .. N
    OBVIOUS
  <1>2. ToSet(Distinct(files)) = {files[i] : i \in P}
    <2>1. P \in SUBSET (1 .. Len(files))
      BY <1>1
    <2>2. Distinct(files) = Keep(files, P)
      BY DEF Distinct
    <2> HIDE DEF P
    <2>3. QED
      BY <2>1, <2>2, KeepIsPart
  <1>3. ASSUME NEW i \in 1 .. N
        PROVE  \E k \in P : files[k] = files[i]
    <2> DEFINE Same == {j \in 1 .. N : files[j] = files[i]}
    <2>1. PICK k \in Same : \A j \in Same : k <= j
      <3>1. Same \in SUBSET Nat /\ Same # {}
        OBVIOUS
      <3> HIDE DEF Same
      <3>2. QED
        BY <3>1, LeastOfNaturals
    <2>2. k \in 1 .. N /\ files[k] = files[i]
      OBVIOUS
    <2>3. \A j \in 1 .. k - 1 : files[j] # files[k]
      <3> SUFFICES ASSUME NEW j \in 1 .. k - 1, files[j] = files[k] PROVE FALSE
        OBVIOUS
      <3>1. j \in 1 .. N /\ ~(k <= j)
        BY <1>1, <2>2
      <3>2. QED
        BY <2>1, <2>2, <3>1
    <2>4. k \in P
      BY <1>1, <2>2, <2>3
    <2>5. QED
      BY <2>2, <2>4
  <1>4. ToSet(files) = {files[i] : i \in 1 .. N}
    BY <1>1 DEF ToSet
  <1>5. P \subseteq 1 .. N
    BY <1>1
  <1> HIDE DEF P, N
  <1>6. QED
    BY <1>2, <1>3, <1>4, <1>5

(* None of them is there twice.                                            *)
LEMMA DistinctOnce ==
    ASSUME NEW S, NEW files \in Seq(S)
    PROVE  /\ Distinct(files) \in Seq(S)
           /\ \A k, l \in DOMAIN Distinct(files) : Distinct(files)[k] = Distinct(files)[l] => k = l
  <1> DEFINE N == Len(files)
             P == {i \in DOMAIN files : files[i] \notin {files[j] : j \in 1 .. i - 1}}
             at == InOrder(P)
  <1>1. N \in Nat /\ DOMAIN files = 1 .. N /\ P \in SUBSET (1 .. N)
    OBVIOUS
  <1>2. /\ Distinct(files) \in Seq(S) /\ DOMAIN Distinct(files) = DOMAIN at
        /\ \A k \in DOMAIN Distinct(files) : Distinct(files)[k] = files[at[k]]
    BY <1>1, KeepIsPart DEF Distinct
  <1> HIDE DEF N
  <1>3. /\ DOMAIN at = 1 .. Cardinality(P) /\ Cardinality(P) \in Nat
        /\ \A k \in DOMAIN at : at[k] \in P
        /\ \A k, l \in DOMAIN at : k < l => at[k] < at[l]
    <2> HIDE DEF P
    <2>1. QED
      BY <1>1, InOrderIsOrdered DEF P
  <1>4. \A i \in P, j \in P : files[i] = files[j] => ~(i < j)
    <2> SUFFICES ASSUME NEW i \in P, NEW j \in P, files[i] = files[j], i < j PROVE FALSE
      OBVIOUS
    <2>1. i \in 1 .. N /\ j \in 1 .. N
      BY <1>1
    <2>2. i \in 1 .. j - 1
      BY <1>1, <2>1
    <2>3. QED
      BY <2>2
  <1> HIDE DEF P, at
  <1>5. \A k, l \in DOMAIN at : files[at[k]] = files[at[l]] => ~(k < l)
    BY <1>3, <1>4
  <1>6. ASSUME NEW k \in DOMAIN at, NEW l \in DOMAIN at, files[at[k]] = files[at[l]]
        PROVE  k = l
    <2>1. ~(k < l) /\ ~(l < k)
      BY <1>5, <1>6
    <2>2. k \in Nat /\ l \in Nat
      BY <1>3
    <2>3. QED
      BY <2>1, <2>2
  <1>7. QED
    BY <1>2, <1>6

(* Where the parts of a flattened sequence are in it: each begins where    *)
(* the one before it ends, and the last ends where the whole does.         *)
IsLaidOut(whole, s, N, end) ==
    /\ end \in [0 .. N -> Nat]
    /\ end[0] = 0 /\ end[N] = Len(whole)
    /\ \A i \in 1 .. N : /\ end[i] = end[i - 1] + Len(s[i])
                         /\ end[i] <= Len(whole)
                         /\ \A k \in 1 .. Len(s[i]) : whole[end[i - 1] + k] = s[i][k]

LEMMA FlattenedAt ==
    ASSUME NEW s, NEW N \in Nat, DOMAIN s = 1 .. N, Len(s) = N, NEW S, \A i \in 1 .. N : s[i] \in Seq(S)
    PROVE  \E end : IsLaidOut(FlattenSeq(s), s, N, end)
  <1>1. CASE N = 0
    <2>1. FlattenSeq(s) = <<>>
      <3>1. s = <<>>
        BY <1>1
      <3>2. QED
        BY <3>1 DEF FlattenSeq
    <2> DEFINE end == [i \in 0 .. N |-> 0]
    <2>2. end \in [0 .. N -> Nat] /\ end[0] = 0 /\ end[N] = 0
      BY <1>1
    <2> HIDE DEF end
    <2>3. IsLaidOut(FlattenSeq(s), s, N, end)
      BY <1>1, <2>1, <2>2 DEF IsLaidOut
    <2>4. QED
      BY <2>3
  <1>2. CASE N # 0
    <2>1. PICK g : /\ DOMAIN g = 1 .. N /\ FlattenSeq(s) = g[N]
                   /\ g[1] = s[1] /\ \A i \in 2 .. N : g[i] = g[i - 1] \o s[i]
                   /\ \A i \in 1 .. N : g[i] \in Seq(S)
      BY <1>2, FlattenedStepwise
    <2> DEFINE whole == FlattenSeq(s)
               Begins(i) == Len(g[i]) <= Len(whole) /\ \A p \in 1 .. Len(g[i]) : whole[p] = g[i][p]
               Otherwise == {i \in 1 .. N : ~Begins(i)}
    <2>2. ASSUME Otherwise # {} PROVE FALSE
      <3>1. Max(Otherwise) \in Otherwise /\ \A i \in Otherwise : i <= Max(Otherwise)
        <4>1. Otherwise \in SUBSET (1 .. N)
          OBVIOUS
        <4> HIDE DEF Otherwise
        <4>2. QED
          BY <2>2, <4>1, GreatestOfNaturals
      <3>2. PICK m \in Otherwise : \A i \in Otherwise : i <= m
        BY <3>1
      <3>3. m \in 1 .. N /\ ~Begins(m)
        OBVIOUS
      <3>4. Begins(N)
        <4>1. N \in 1 .. N
          BY <1>2
        <4>2. g[N] \in Seq(S)
          BY <2>1, <4>1
        <4>3. Len(g[N]) \in Nat
          BY <4>2
        <4>4. QED
          BY <2>1, <4>3
      <3>5. m + 1 \in 2 .. N /\ m + 1 \in 1 .. N /\ (m + 1) - 1 = m
        BY <3>3, <3>4
      <3> HIDE DEF Begins
      <3>6. Begins(m + 1)
        <4> SUFFICES ASSUME m + 1 \in Otherwise PROVE FALSE
          BY <3>5
        <4> HIDE DEF Otherwise
        <4>1. m + 1 <= m
          BY <3>2
        <4>2. QED
          BY <3>3, <4>1
      <3>7. g[m + 1] = g[m] \o s[m + 1] /\ g[m] \in Seq(S) /\ s[m + 1] \in Seq(S)
        BY <2>1, <3>3, <3>5
      <3>8. Len(g[m]) <= Len(g[m + 1]) /\ \A p \in 1 .. Len(g[m]) : p \in 1 .. Len(g[m + 1]) /\ g[m + 1][p] = g[m][p]
        <4>1. \A a, b \in Seq(S) : /\ Len(a) <= Len(a \o b)
                                   /\ \A p \in 1 .. Len(a) : p \in 1 .. Len(a \o b) /\ (a \o b)[p] = a[p]
          OBVIOUS
        <4>2. PICK a \in Seq(S) : a = g[m]
          BY <3>7
        <4>3. PICK b \in Seq(S) : b = s[m + 1]
          BY <3>7
        <4>4. g[m + 1] = a \o b
          BY <3>7, <4>2, <4>3
        <4>5. QED
          BY <4>1, <4>2, <4>4
      <3>9. Len(g[m]) \in Nat /\ Len(g[m + 1]) \in Nat /\ Len(whole) \in Nat
        <4>1. g[N] \in Seq(S) /\ g[m] \in Seq(S) /\ g[m + 1] \in Seq(S)
          BY <1>2, <2>1, <3>3, <3>5
        <4>2. QED
          BY <2>1, <4>1
      <3> HIDE DEF whole
      <3>10. Begins(m)
        BY <3>6, <3>8, <3>9 DEF Begins
      <3>11. QED
        BY <3>3, <3>10
    <2>3. \A i \in 1 .. N : Begins(i)
      BY <2>2
    <2> HIDE DEF Otherwise
    <2> DEFINE end == [i \in 0 .. N |-> IF i = 0 THEN 0 ELSE Len(g[i])]
    <2>4. end \in [0 .. N -> Nat] /\ end[0] = 0 /\ \A i \in 1 .. N : end[i] = Len(g[i])
      <3>1. \A i \in 1 .. N : Len(g[i]) \in Nat
        BY <2>1
      <3>2. 0 \in 0 .. N /\ \A i \in 1 .. N : i \in 0 .. N /\ i # 0
        OBVIOUS
      <3>3. \A i \in 0 .. N : i = 0 \/ i \in 1 .. N
        OBVIOUS
      <3>4. QED
        BY <3>1, <3>2, <3>3
    <2> HIDE DEF end
    <2>5. ASSUME NEW i \in 1 .. N
          PROVE  end[i] = end[i - 1] + Len(s[i])
                 /\ \A k \in 1 .. Len(s[i]) : whole[end[i - 1] + k] = s[i][k]
      <3>1. Begins(i) /\ g[i] \in Seq(S) /\ s[i] \in Seq(S)
        BY <2>1, <2>3
      <3> HIDE DEF whole
      <3>2. CASE i = 1
        <4>1. end[i - 1] = 0
          <5>1. i - 1 = 0
            BY <3>2
          <5>2. QED
            BY <2>4, <5>1, Zenon
        <4>2. g[i] = s[i]
          BY <2>1, <3>2
        <4>3. QED
          BY <2>4, <3>1, <4>1, <4>2
      <3>3. CASE i # 1
        <4>1. i - 1 \in 1 .. N /\ i \in 2 .. N
          BY <3>3
        <4>2. g[i] = g[i - 1] \o s[i] /\ g[i - 1] \in Seq(S) /\ end[i - 1] = Len(g[i - 1])
          BY <2>1, <2>4, <4>1
        <4>3. Len(g[i]) = Len(g[i - 1]) + Len(s[i])
              /\ \A k \in 1 .. Len(s[i]) : Len(g[i - 1]) + k \in 1 .. Len(g[i]) /\ g[i][Len(g[i - 1]) + k] = s[i][k]
          BY <3>1, <4>2
        <4>4. QED
          BY <2>4, <3>1, <4>2, <4>3
      <3>4. QED
        BY <3>2, <3>3
    <2>6. \A i \in 1 .. N : end[i] <= Len(whole)
      BY <2>3, <2>4
    <2>7. end[N] = Len(whole)
      BY <1>2, <2>1, <2>4
    <2> HIDE DEF whole
    <2>8. IsLaidOut(whole, s, N, end)
      BY <2>4, <2>5, <2>6, <2>7 DEF IsLaidOut
    <2>9. QED
      BY <2>8 DEF whole
  <1>3. QED
    BY <1>1, <1>2

(* Each place of a flattened sequence is one of one of the parts.          *)
IsPlaceOf(whole, s, N, end, k) ==
    \E i \in 1 .. N : \E j \in 1 .. Len(s[i]) : k = end[i - 1] + j /\ whole[k] = s[i][j]

LEMMA PlaceInPart ==
    ASSUME NEW whole, NEW s, NEW N \in Nat, NEW end, IsLaidOut(whole, s, N, end),
           \A i \in 1 .. N : Len(s[i]) \in Nat, Len(whole) \in Nat, NEW k \in 1 .. Len(whole)
    PROVE  IsPlaceOf(whole, s, N, end, k)
  <1> DEFINE reached == {i \in 0 .. N : k <= end[i]}
             i == Min(reached)
  <1>1. /\ end \in [0 .. N -> Nat] /\ end[0] = 0 /\ end[N] = Len(whole)
        /\ \A x \in 1 .. N : /\ end[x] = end[x - 1] + Len(s[x])
                             /\ \A j \in 1 .. Len(s[x]) : whole[end[x - 1] + j] = s[x][j]
    BY DEF IsLaidOut
  <1>2. i \in reached /\ \A x \in reached : i <= x
    <2>1. reached \in SUBSET Nat /\ N \in reached
      BY <1>1
    <2> HIDE DEF reached
    <2>2. QED
      BY <2>1, LeastOfNaturals
  <1>3. i \in 1 .. N /\ i - 1 \in 0 .. N /\ ~(k <= end[i - 1])
    <2> HIDE DEF i
    <2>1. i \in 0 .. N /\ k <= end[i] /\ i # 0
      BY <1>1, <1>2
    <2>2. i - 1 \in 0 .. N /\ ~(i <= i - 1)
      BY <2>1
    <2>3. i - 1 \notin reached
      BY <1>2, <2>2
    <2>4. QED
      BY <2>1, <2>2, <2>3
  <1> DEFINE j == k - end[i - 1]
  <1>4. j \in 1 .. Len(s[i]) /\ k = end[i - 1] + j
    <2>1. k <= end[i]
      BY <1>2
    <2> HIDE DEF i
    <2>2. end[i - 1] \in Nat /\ end[i] = end[i - 1] + Len(s[i]) /\ Len(s[i]) \in Nat /\ k \in Nat
      BY <1>1, <1>3
    <2>3. QED
      BY <1>3, <2>1, <2>2
  <1> HIDE DEF i, j
  <1>5. QED
    BY <1>1, <1>3, <1>4 DEF IsPlaceOf

(* Parts that have nothing in common, none with anything twice, make a     *)
(* whole without anything twice.                                           *)
LEMMA FlattenedOnce ==
    ASSUME NEW s, NEW N \in Nat, DOMAIN s = 1 .. N, Len(s) = N, NEW S, \A i \in 1 .. N : s[i] \in Seq(S),
           \A i, j \in 1 .. N : \A k \in DOMAIN s[i] : \A l \in DOMAIN s[j] : s[i][k] = s[j][l] => i = j /\ k = l
    PROVE  \A k, l \in 1 .. Len(FlattenSeq(s)) : FlattenSeq(s)[k] = FlattenSeq(s)[l] => k = l
  <1> DEFINE whole == FlattenSeq(s)
  <1>1. PICK end : IsLaidOut(whole, s, N, end)
    BY FlattenedAt
  <1>2. Len(whole) \in Nat
    <2>1. whole \in Seq(S)
      BY FlattenedSet
    <2>2. QED
      BY <2>1
  <1>3. \A i \in 1 .. N : Len(s[i]) \in Nat /\ DOMAIN s[i] = 1 .. Len(s[i])
    <2> SUFFICES ASSUME NEW i \in 1 .. N PROVE Len(s[i]) \in Nat /\ DOMAIN s[i] = 1 .. Len(s[i])
      OBVIOUS
    <2>1. s[i] \in Seq(S)
      OBVIOUS
    <2>2. QED
      BY <2>1
  <1> HIDE DEF whole
  <1>4. ASSUME NEW k \in 1 .. Len(whole), NEW l \in 1 .. Len(whole), whole[k] = whole[l]
        PROVE  k = l
    <2>0. IsPlaceOf(whole, s, N, end, k) /\ IsPlaceOf(whole, s, N, end, l)
      <3>1. \A i \in 1 .. N : Len(s[i]) \in Nat
        BY <1>3
      <3>2. QED
        BY <1>1, <1>2, <3>1, PlaceInPart
    <2>1. PICK i \in 1 .. N : \E x \in 1 .. Len(s[i]) : k = end[i - 1] + x /\ whole[k] = s[i][x]
      BY <2>0 DEF IsPlaceOf
    <2>2. PICK j \in 1 .. N : \E y \in 1 .. Len(s[j]) : l = end[j - 1] + y /\ whole[l] = s[j][y]
      BY <2>0 DEF IsPlaceOf
    <2>3. PICK x \in 1 .. Len(s[i]) : k = end[i - 1] + x /\ whole[k] = s[i][x]
      BY <2>1
    <2>4. PICK y \in 1 .. Len(s[j]) : l = end[j - 1] + y /\ whole[l] = s[j][y]
      BY <2>2
    <2>5. x \in DOMAIN s[i] /\ y \in DOMAIN s[j]
      BY <1>3
    <2>6. i = j /\ x = y
      BY <1>4, <2>3, <2>4, <2>5
    <2>7. QED
      BY <2>3, <2>4, <2>6
  <1>5. QED
    BY <1>4 DEF whole
=============================================================================
