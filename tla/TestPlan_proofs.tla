----------------------------- MODULE TestPlan_proofs -----------------------------
(***************************************************************************)
(* Proofs about TestPlan, for any support code, any pickles, any filters   *)
(* and any number of shards.                                               *)
(***************************************************************************)
EXTENDS TestPlan, Subsequences_proofs

-----------------------------------------------------------------------------
(* Shards. *)

(* A quotient is not reached before its multiple.                          *)
LEMMA Quotient ==
    ASSUME NEW n \in Nat, NEW d \in Nat \ {0}, NEW k \in Nat
    PROVE  k <= n \div d <=> k * d <= n
  OBVIOUS

(* The place of each element of a shard in what is sharded.                *)
Place(index, total, k) == (k - 1) * total + index

(* The place of the k-th element of a shard is one there is, just when the *)
(* shard is that long.                                                     *)
LEMMA PlaceIsThere ==
    ASSUME NEW n \in Nat, NEW total \in Nat \ {0}, NEW index \in 1 .. total
    PROVE  /\ (n + total - index) \div total \in Nat
           /\ \A k \in Nat \ {0} :
                  k <= (n + total - index) \div total <=> Place(index, total, k) \in 1 .. n
  <1>1. n + total - index \in Nat
    OBVIOUS
  <1>2. (n + total - index) \div total \in Nat
    BY <1>1
  <1>3. ASSUME NEW k \in Nat \ {0}
        PROVE  k <= (n + total - index) \div total <=> Place(index, total, k) \in 1 .. n
    <2>1. k <= (n + total - index) \div total <=> k * total <= n + total - index
      BY <1>1, Quotient
    <2>2. k * total \in Nat /\ (k - 1) * total = k * total - total /\ (k - 1) * total >= 0
      OBVIOUS
    <2>3. QED
      BY <2>1, <2>2 DEF Place
  <1>4. QED
    BY <1>2, <1>3

(* Every place belongs to one shard, and is the place of one element of it. *)
LEMMA OnePlace ==
    ASSUME NEW total \in Nat \ {0}, NEW i \in Nat \ {0}
    PROVE  \E index \in 1 .. total, k \in Nat \ {0} : i = Place(index, total, k)
  <1> DEFINE q == (i - 1) \div total
  <1>1. q \in Nat
    OBVIOUS
  <1>2. q * total <= i - 1 /\ ~((q + 1) * total <= i - 1)
    <2>1. i - 1 \in Nat
      OBVIOUS
    <2>2. q <= q /\ ~(q + 1 <= q)
      BY <1>1
    <2>3. q + 1 \in Nat
      BY <1>1
    <2> HIDE DEF q
    <2>4. q <= (i - 1) \div total <=> q * total <= i - 1
      BY <1>1, <2>1, Quotient
    <2>5. q + 1 <= (i - 1) \div total <=> (q + 1) * total <= i - 1
      BY <2>1, <2>3, Quotient
    <2>6. QED
      BY <2>2, <2>4, <2>5 DEF q
  <1> HIDE DEF q
  <1>3. q * total \in Nat /\ (q + 1) * total = q * total + total
    BY <1>1
  <1>4. i - q * total \in 1 .. total
    BY <1>2, <1>3
  <1>5. q + 1 \in Nat \ {0} /\ i = Place(i - q * total, total, q + 1)
    BY <1>1, <1>3 DEF Place
  <1>6. QED
    BY <1>4, <1>5

(* Two shards have no place in common, nor has one the same place twice.   *)
LEMMA PlacesDiffer ==
    ASSUME NEW total \in Nat \ {0}, NEW a \in 1 .. total, NEW b \in 1 .. total,
           NEW k \in Nat \ {0}, NEW l \in Nat \ {0}, Place(a, total, k) = Place(b, total, l)
    PROVE  a = b /\ k = l
  <1>1. (k - l) * total = b - a
    BY DEF Place
  <1>2. k - l \in Int /\ b - a \in Int /\ b - a < total /\ a - b < total
    OBVIOUS
  <1>3. k - l = 0
    <2>1. CASE k - l >= 1
      <3>1. (k - l) * total >= total
        BY <1>2, <2>1
      <3>2. QED
        BY <1>1, <1>2, <3>1
    <2>2. CASE k - l <= -1
      <3>1. (l - k) * total >= total
        BY <1>2, <2>2
      <3>2. (l - k) * total = a - b
        BY DEF Place
      <3>3. QED
        BY <1>2, <3>1, <3>2
    <2>3. QED
      BY <1>2, <2>1, <2>2
  <1>4. QED
    BY <1>1, <1>3

(* Every shard is a part of what is sharded, in which nothing comes twice  *)
(* that did not before.                                                    *)
LEMMA ShardIsPart ==
    ASSUME NEW S, NEW s \in Seq(S), \A i, j \in 1 .. Len(s) : s[i] = s[j] => i = j,
           NEW total \in Nat \ {0}, NEW index \in 1 .. total
    PROVE  LET shard == ShardPickles(index, total, s)
           IN /\ shard \in Seq(S) /\ Len(shard) = (Len(s) + total - index) \div total
              /\ DOMAIN shard = 1 .. Len(shard)
              /\ \A k \in 1 .. Len(shard) : /\ Place(index, total, k) \in 1 .. Len(s)
                                            /\ shard[k] = s[Place(index, total, k)]
              /\ \A k, l \in 1 .. Len(shard) : shard[k] = shard[l] => k = l
  <1> DEFINE shard == ShardPickles(index, total, s)
             length == (Len(s) + total - index) \div total
  <1>1. Len(s) \in Nat
    OBVIOUS
  <1>2. length \in Nat /\ \A k \in Nat \ {0} : k <= length <=> Place(index, total, k) \in 1 .. Len(s)
    BY <1>1, PlaceIsThere
  <1>3. shard = [k \in 1 .. length |-> s[Place(index, total, k)]]
    BY DEF ShardPickles, Place
  <1> HIDE DEF length, shard
  <1>4. \A k \in 1 .. length : Place(index, total, k) \in 1 .. Len(s)
    BY <1>2
  <1>5. shard \in [1 .. length -> S]
    BY <1>3, <1>4
  <1>6. shard \in Seq(S) /\ Len(shard) = length /\ DOMAIN shard = 1 .. length
    BY <1>2, <1>5
  <1>7. ASSUME NEW k \in 1 .. length, NEW l \in 1 .. length, shard[k] = shard[l]
        PROVE  k = l
    <2>1. Place(index, total, k) = Place(index, total, l)
      BY <1>3, <1>4, <1>7
    <2>2. k \in Nat \ {0} /\ l \in Nat \ {0}
      BY <1>2
    <2>3. QED
      BY <2>1, <2>2, PlacesDiffer
  <1>8. QED
    BY <1>3, <1>4, <1>6, <1>7 DEF length, shard

(* Together the shards are all of what is sharded.                         *)
LEMMA ShardsAreAll ==
    ASSUME NEW S, NEW s \in Seq(S), \A i, j \in 1 .. Len(s) : s[i] = s[j] => i = j,
           NEW total \in Nat \ {0}
    PROVE  UNION {ToSet(ShardPickles(index, total, s)) : index \in 1 .. total} = ToSet(s)
  <1>1. ASSUME NEW index \in 1 .. total, NEW x \in ToSet(ShardPickles(index, total, s))
        PROVE  x \in ToSet(s)
    <2> DEFINE shard == ShardPickles(index, total, s)
    <2>1. /\ DOMAIN shard = 1 .. Len(shard)
          /\ \A k \in 1 .. Len(shard) : /\ Place(index, total, k) \in 1 .. Len(s)
                                        /\ shard[k] = s[Place(index, total, k)]
      BY ShardIsPart
    <2>2. x \in ToSet(shard)
      BY <1>1
    <2> HIDE DEF shard
    <2>3. DOMAIN s = 1 .. Len(s)
      OBVIOUS
    <2>4. QED
      BY <2>1, <2>2, <2>3 DEF ToSet
  <1>2. ASSUME NEW x \in ToSet(s)
        PROVE  \E index \in 1 .. total : x \in ToSet(ShardPickles(index, total, s))
    <2>1. PICK i \in 1 .. Len(s) : x = s[i]
      BY DEF ToSet
    <2>2. i \in Nat \ {0} /\ Len(s) \in Nat
      OBVIOUS
    <2>3. PICK index \in 1 .. total, k \in Nat \ {0} : i = Place(index, total, k)
      BY <2>2, OnePlace
    <2>4. k <= (Len(s) + total - index) \div total
      BY <2>2, <2>3, PlaceIsThere
    <2> DEFINE shard == ShardPickles(index, total, s)
    <2>5. /\ Len(shard) = (Len(s) + total - index) \div total
          /\ DOMAIN shard = 1 .. Len(shard) /\ shard \in Seq(S)
          /\ \A l \in 1 .. Len(shard) : shard[l] = s[Place(index, total, l)]
      <3>1. Len(shard) = (Len(s) + total - index) \div total
        BY ShardIsPart
      <3>2. DOMAIN shard = 1 .. Len(shard) /\ shard \in Seq(S)
        BY ShardIsPart
      <3>3. \A l \in 1 .. Len(shard) : shard[l] = s[Place(index, total, l)]
        BY ShardIsPart
      <3>4. QED
        BY <3>1, <3>2, <3>3
    <2> HIDE DEF shard
    <2>6. k \in 1 .. Len(shard)
      BY <2>4, <2>5
    <2>7. x = shard[k]
      BY <2>1, <2>3, <2>5, <2>6
    <2>8. x \in ToSet(shard)
      BY <2>5, <2>6, <2>7 DEF ToSet
    <2>9. QED
      BY <2>8 DEF shard
  <1>3. QED
    BY <1>1, <1>2

(* No two shards have anything in common.                                  *)
LEMMA ShardsAreApart ==
    ASSUME NEW S, NEW s \in Seq(S), \A i, j \in 1 .. Len(s) : s[i] = s[j] => i = j,
           NEW total \in Nat \ {0}, NEW a \in 1 .. total, NEW b \in 1 .. total, a # b
    PROVE  ToSet(ShardPickles(a, total, s)) \cap ToSet(ShardPickles(b, total, s)) = {}
  <1> DEFINE left == ShardPickles(a, total, s)
             right == ShardPickles(b, total, s)
  <1>1. /\ left \in Seq(S) /\ DOMAIN left = 1 .. Len(left)
        /\ \A k \in 1 .. Len(left) : /\ Place(a, total, k) \in 1 .. Len(s)
                                     /\ left[k] = s[Place(a, total, k)]
    BY ShardIsPart
  <1>2. /\ right \in Seq(S) /\ DOMAIN right = 1 .. Len(right)
        /\ \A k \in 1 .. Len(right) : /\ Place(b, total, k) \in 1 .. Len(s)
                                      /\ right[k] = s[Place(b, total, k)]
    BY ShardIsPart
  <1> HIDE DEF left, right
  <1>3. SUFFICES ASSUME NEW k \in 1 .. Len(left), NEW l \in 1 .. Len(right), left[k] = right[l]
                 PROVE  FALSE
    BY <1>1, <1>2 DEF ToSet, left, right
  <1>4. Place(a, total, k) = Place(b, total, l)
    <2>1. s[Place(a, total, k)] = s[Place(b, total, l)]
      BY <1>1, <1>2, <1>3
    <2>2. Place(a, total, k) \in 1 .. Len(s) /\ Place(b, total, l) \in 1 .. Len(s)
      BY <1>1, <1>2
    <2>3. QED
      BY <2>1, <2>2
  <1>5. k \in Nat \ {0} /\ l \in Nat \ {0}
    BY <1>1, <1>2
  <1>6. QED
    BY <1>4, <1>5, PlacesDiffer

(* No shard is more than one longer than another.                          *)
LEMMA ShardsAreEven ==
    ASSUME NEW n \in Nat, NEW total \in Nat \ {0}, NEW a \in 1 .. total, NEW b \in 1 .. total
    PROVE  (n + total - a) \div total <= (n + total - b) \div total + 1
  <1> DEFINE p == (n + total - a) \div total
             q == (n + total - b) \div total
  <1>1. n + total - a \in Nat /\ n + total - b \in Nat
    OBVIOUS
  <1>2. p \in Nat /\ q \in Nat
    BY <1>1
  <1>3. p * total <= n + total - a
    <2>1. \A k \in Nat : k <= (n + total - a) \div total <=> k * total <= n + total - a
      BY <1>1, Quotient
    <2>2. QED
      BY <1>2, <2>1
  <1>4. (q + 1) * total > n + total - b
    <2>1. \A k \in Nat : k <= (n + total - b) \div total <=> k * total <= n + total - b
      BY <1>1, Quotient
    <2>2. q + 1 \in Nat /\ ~(q + 1 <= q) /\ (q + 1) * total \in Int
      BY <1>2
    <2>3. QED
      BY <1>1, <2>1, <2>2
  <1> HIDE DEF p, q
  <1>5. CASE p >= q + 2
    <2>1. p * total >= (q + 2) * total
      BY <1>2, <1>5
    <2>2. (q + 2) * total = (q + 1) * total + total
      BY <1>2
    <2>3. (q + 1) * total \in Int /\ p * total \in Int
      BY <1>2
    <2>4. QED
      BY <1>3, <1>4, <2>1, <2>2, <2>3
  <1>6. QED
    BY <1>2, <1>5 DEF p, q

(* Ordering leaves what it orders the same, as often as it was there.      *)
LEMMA OrderingKeeps ==
    ASSUME NEW S, NEW s \in Seq(S), \A i, j \in 1 .. Len(s) : s[i] = s[j] => i = j,
           NEW order \in {"defined", "reverse", "random"}, NEW p \in OrderPickles(order, s)
    PROVE  /\ p \in Seq(S) /\ Len(p) = Len(s) /\ ToSet(p) = ToSet(s)
           /\ \A i, j \in 1 .. Len(p) : p[i] = p[j] => i = j
  <1>0. PICK n \in Nat : n = Len(s) /\ DOMAIN s = 1 .. n /\ s \in [1 .. n -> S]
    OBVIOUS
  <1>1. \E f \in [1 .. n -> 1 .. n] :
            /\ \A i, j \in 1 .. n : f[i] = f[j] => i = j
            /\ p = [i \in 1 .. n |-> s[f[i]]]
    <2>1. CASE order = "defined"
      <3>1. p = s
        BY <2>1 DEF OrderPickles
      <3>2. p = [i \in 1 .. n |-> s[[j \in 1 .. n |-> j][i]]]
        BY <1>0, <3>1
      <3>3. QED
        BY <3>2
    <2>2. CASE order = "reverse"
      <3> DEFINE f == [i \in 1 .. n |-> n - i + 1]
      <3>1. p = [i \in 1 .. n |-> s[f[i]]]
        BY <1>0, <2>2 DEF OrderPickles, Reverse
      <3>2. f \in [1 .. n -> 1 .. n] /\ \A i, j \in 1 .. n : f[i] = f[j] => i = j
        OBVIOUS
      <3>3. QED
        BY <3>1, <3>2
    <2>3. CASE order = "random"
      BY <1>0, <2>3 DEF OrderPickles
    <2>4. QED
      BY <2>1, <2>2, <2>3
  <1>2. PICK f \in [1 .. n -> 1 .. n] :
            /\ \A i, j \in 1 .. n : f[i] = f[j] => i = j
            /\ p = [i \in 1 .. n |-> s[f[i]]]
    BY <1>1
  <1>3. p \in [1 .. n -> S]
    BY <1>0, <1>2
  <1>4. p \in Seq(S) /\ Len(p) = n /\ DOMAIN p = 1 .. n
    BY <1>3
  <1>5. \A i, j \in 1 .. n : p[i] = p[j] => i = j
    BY <1>0, <1>2
  <1>6. \A i \in 1 .. n : \E j \in 1 .. n : f[j] = i
    <2> DEFINE R == {f[j] : j \in 1 .. n}
    <2>1. f \in Bijection(1 .. n, R)
      <3>1. f \in [1 .. n -> R] /\ \A x \in R : \E j \in 1 .. n : f[j] = x
        OBVIOUS
      <3>2. QED
        BY <1>2, <3>1 DEF Bijection, Injection, Surjection, IsInjective
    <2>2. IsFiniteSet(1 .. n) /\ Cardinality(1 .. n) = n
      BY FS_Interval, 1 \in Int, n \in Int
    <2>3. Cardinality(R) = Cardinality(1 .. n)
      BY <2>1, <2>2, FS_Bijection DEF ExistsBijection
    <2>4. R \subseteq 1 .. n
      OBVIOUS
    <2>5. R = 1 .. n
      BY <2>2, <2>3, <2>4, FS_Subset
    <2>6. QED
      BY <2>5
  <1>7. ToSet(p) = ToSet(s)
    <2>1. \A i \in 1 .. n : p[i] = s[f[i]] /\ f[i] \in 1 .. n
      BY <1>2
    <2>2. \A i \in 1 .. n : \E j \in 1 .. n : p[j] = s[i]
      BY ZenonT(60), <1>6, <2>1
    <2>3. QED
      BY <1>0, <1>4, <2>1, <2>2 DEF ToSet
  <1>8. QED
    BY <1>0, <1>4, <1>5, <1>7

(* Neither does filtering take twice what was there once.                  *)
LEMMA FilteringKeeps ==
    /\ FilterPickles(filter, Pickles) \in Seq(ToSet(Pickles))
    /\ \A i, j \in 1 .. Len(FilterPickles(filter, Pickles)) :
           FilterPickles(filter, Pickles)[i] = FilterPickles(filter, Pickles)[j] => i = j
  <1> DEFINE kept == {i \in DOMAIN Pickles : /\ MatchesAnyLine(filter, Pickles[i])
                                             /\ MatchesAnyName(filter, Pickles[i])
                                             /\ MatchesAllTagExpressions(filter.tagExpression, Pickles[i])}
  <1>1. FilterPickles(filter, Pickles) = Keep(Pickles, kept)
    BY DEF FilterPickles
  <1>2. /\ Pickles \in Seq(ToSet(Pickles)) /\ kept \in SUBSET (1 .. Len(Pickles))
        /\ \A i, j \in 1 .. Len(Pickles) : Pickles[i] = Pickles[j] => i = j
    BY TestPlanAssumption DEF IsInjective
  <1> HIDE DEF kept
  <1>3. QED
    BY <1>1, <1>2, KeepIsPart

-----------------------------------------------------------------------------
(* The pickles a run selects. *)

(* What each shard executes once it has been selected.                     *)
PlansAreSelected ==
    stage \in {"emit", "setup", "run"} =>
        \E total \in 1 .. MaxShards, order \in {"defined", "reverse", "random"} :
            /\ DOMAIN plans = 1 .. total
            /\ \A index \in 1 .. total : plans[index] \in Select(filter, order, index, total, Pickles)

(* It is selected once, for good.                                          *)
LEMMA PlansAreSelectedStep ==
    ASSUME PlansAreSelected, [Next]_vars
    PROVE  PlansAreSelected'
  <1>1. CASE SelectPickles
    BY <1>1 DEF SelectPickles, PlansAreSelected
  <1>2. CASE Load
    BY <1>2 DEF Load, PlansAreSelected
  <1>3. CASE EmitSupportCodeMessages \/ AssembleTestCases
    BY <1>3 DEF EmitSupportCodeMessages, AssembleTestCases, PlansAreSelected
  <1>4. CASE LoadWorker
    BY <1>4 DEF LoadWorker, PlansAreSelected
  <1>5. CASE UNCHANGED vars
    BY <1>5 DEF vars, PlansAreSelected
  <1>6. QED
    BY <1>1, <1>2, <1>3, <1>4, <1>5 DEF Next, Done

(* What has been selected that way is divided fairly.                      *)
LEMMA SelectedIsShared ==
    ASSUME PlansAreSelected
    PROVE  ShardsPartition
  <1> DEFINE F == FilterPickles(filter, Pickles)
  <1>1. SUFFICES ASSUME stage \in {"emit", "setup", "run"}
                 PROVE  /\ UNION {ToSet(plans[shard]) : shard \in DOMAIN plans} = ToSet(F)
                        /\ \A a, b \in DOMAIN plans :
                               /\ Len(plans[a]) = Cardinality(ToSet(plans[a]))
                               /\ a # b => ToSet(plans[a]) \cap ToSet(plans[b]) = {}
                               /\ Len(plans[a]) <= Len(plans[b]) + 1
    BY DEF ShardsPartition
  <1>2. PICK total \in 1 .. MaxShards, order \in {"defined", "reverse", "random"} :
            /\ DOMAIN plans = 1 .. total
            /\ \A index \in 1 .. total : plans[index] \in Select(filter, order, index, total, Pickles)
    BY <1>1 DEF PlansAreSelected
  <1>3. total \in Nat \ {0}
    BY TestPlanAssumption
  <1>4. F \in Seq(ToSet(Pickles)) /\ \A i, j \in 1 .. Len(F) : F[i] = F[j] => i = j
    BY FilteringKeeps
  <1> HIDE DEF F
  <1>5. ASSUME NEW a \in 1 .. total
        PROVE  /\ ToSet(plans[a]) = ToSet(ShardPickles(a, total, F))
               /\ Len(plans[a]) = (Len(F) + total - a) \div total
               /\ Len(plans[a]) = Cardinality(ToSet(plans[a]))
    <2> DEFINE shard == ShardPickles(a, total, F)
    <2>1. plans[a] \in OrderPickles(order, shard)
      BY <1>2 DEF Select, F
    <2>2. /\ shard \in Seq(ToSet(Pickles)) /\ Len(shard) = (Len(F) + total - a) \div total
          /\ \A k, l \in 1 .. Len(shard) : shard[k] = shard[l] => k = l
      BY <1>3, <1>4, ShardIsPart
    <2> HIDE DEF shard
    <2>3. /\ plans[a] \in Seq(ToSet(Pickles)) /\ Len(plans[a]) = Len(shard)
          /\ ToSet(plans[a]) = ToSet(shard)
          /\ \A i, j \in 1 .. Len(plans[a]) : plans[a][i] = plans[a][j] => i = j
      BY SMTT(30), <2>1, <2>2, OrderingKeeps
    <2>4. Cardinality(ToSet(plans[a])) = Len(plans[a])
      BY <2>3, NothingTwice
    <2>5. QED
      BY <2>2, <2>3, <2>4 DEF shard
  <1>6. UNION {ToSet(plans[shard]) : shard \in DOMAIN plans} = ToSet(F)
    <2>1. UNION {ToSet(plans[shard]) : shard \in 1 .. total}
              = UNION {ToSet(ShardPickles(index, total, F)) : index \in 1 .. total}
      BY <1>5
    <2>2. UNION {ToSet(ShardPickles(index, total, F)) : index \in 1 .. total} = ToSet(F)
      BY <1>3, <1>4, ShardsAreAll
    <2>3. QED
      BY <1>2, <2>1, <2>2
  <1>7. ASSUME NEW a \in 1 .. total, NEW b \in 1 .. total
        PROVE  /\ a # b => ToSet(plans[a]) \cap ToSet(plans[b]) = {}
               /\ Len(plans[a]) <= Len(plans[b]) + 1
    <2>1. a # b => ToSet(plans[a]) \cap ToSet(plans[b]) = {}
      BY <1>3, <1>4, <1>5, ShardsAreApart
    <2>2. (Len(F) + total - a) \div total <= (Len(F) + total - b) \div total + 1
      BY <1>3, <1>4, ShardsAreEven
    <2>3. QED
      BY <1>5, <2>1, <2>2
  <1>8. QED
    BY <1>2, <1>5, <1>6, <1>7

(* docs/sharding.md: whatever the suite, the filter and the number of      *)
(* shards, and however each job shuffles, every pickle that the filter     *)
(* leaves is executed by one job and once, and no job has more than one    *)
(* pickle more than another.                                               *)
THEOREM ShardsAreFair == Spec => []ShardsPartition
  <1>1. Init => PlansAreSelected
    BY DEF Init, PlansAreSelected
  <1>2. PlansAreSelected /\ [Next]_vars => PlansAreSelected'
    BY PlansAreSelectedStep
  <1>3. PlansAreSelected => ShardsPartition
    BY SelectedIsShared
  <1>4. QED
    BY <1>1, <1>2, <1>3, PTL DEF Spec

-----------------------------------------------------------------------------
(* What a library is made of, by the calls it was made from. *)

(* The calls that define something; the others set something.             *)
ConfigsOf(made) == Keep(made, {i \in DOMAIN made : made[i].kind \notin Settings})

(* Where the definitions of a kind are in configs.                         *)
CollectionOf(made, kind) == InOrder({i \in DOMAIN ConfigsOf(made) : ConfigsOf(made)[i].kind = kind})

(* A pattern with a parameter type that no call defines.                   *)
UndefinedIn(made, order) ==
    LET step == ConfigsOf(made)[order]
    IN /\ step.kind = "step" /\ step.type # "none"
       /\ ~\E d \in ToSet(ConfigsOf(made)) : d.kind = "parameterType" /\ d.type = step.type

(* Which definitions of a kind, by their index in the collection, get into *)
(* the library.                                                            *)
BuiltOf(made, kind) ==
    InOrder({k \in DOMAIN CollectionOf(made, kind) : ~UndefinedIn(made, CollectionOf(made, kind)[k])})

(* The place in configs of the j-th definition of a kind.                  *)
OrderAt(made, kind, j) == CollectionOf(made, kind)[BuiltOf(made, kind)[j]]

(* What is built of a kind of definition, by the calls.                    *)
BuildOf(t, made, wrapper, kind, ids) ==
    [j \in DOMAIN BuiltOf(made, kind) |->
        NewDefinition(ConfigsOf(made)[OrderAt(made, kind, j)], OrderAt(made, kind, j),
                      WrapCode(wrapper, ConfigsOf(made)[OrderAt(made, kind, j)].codeLength),
                      IF t = "main" \/ kind \in StepHookKinds THEN NewId(t, OrderAt(made, kind, j))
                      ELSE IdAt(ids, CollectionOf(made, kind), BuiltOf(made, kind)[j]))]

(* What the state of a builder says is what the calls it has had say.      *)
LEMMA OfItsCalls ==
    ASSUME NEW t
    PROVE  /\ Configs(t) = ConfigsOf(calls[t])
           /\ \A kind : Collection(t, kind) = CollectionOf(calls[t], kind)
           /\ \A order : HasUndefinedParameterType(t, order) <=> UndefinedIn(calls[t], order)
           /\ \A kind, ids : Build(t, kind, ids) =
                  BuildOf(t, calls[t], settings[t]["definitionFunctionWrapper"], kind, ids)
  <1>1. Configs(t) = ConfigsOf(calls[t])
    BY DEF Configs, ConfigsOf
  <1>2. \A kind : Collection(t, kind) = CollectionOf(calls[t], kind)
    BY <1>1 DEF Collection, CollectionOf
  <1>3. \A order : HasUndefinedParameterType(t, order) <=> UndefinedIn(calls[t], order)
    BY <1>1 DEF HasUndefinedParameterType, UndefinedIn
  <1>4. ASSUME NEW kind, NEW ids
        PROVE  Build(t, kind, ids) =
                   BuildOf(t, calls[t], settings[t]["definitionFunctionWrapper"], kind, ids)
    <2>1. {k \in DOMAIN Collection(t, kind) : ~HasUndefinedParameterType(t, Collection(t, kind)[k])}
            = {k \in DOMAIN CollectionOf(calls[t], kind) :
                  ~UndefinedIn(calls[t], CollectionOf(calls[t], kind)[k])}
      BY <1>2, <1>3
    <2>2. InOrder({k \in DOMAIN Collection(t, kind) :
                      ~HasUndefinedParameterType(t, Collection(t, kind)[k])}) = BuiltOf(calls[t], kind)
      BY <2>1 DEF BuiltOf
    <2>3. QED
      BY <1>1, <1>2, <2>2 DEF Build, BuildOf, OrderAt
  <1>5. QED
    BY <1>1, <1>2, <1>3, <1>4

(* Configs are the calls that define something.                            *)
LEMMA ConfigsDefine ==
    ASSUME NEW made \in Seq(SupportCode)
    PROVE  /\ ConfigsOf(made) \in Seq(SupportCode)
           /\ DOMAIN ConfigsOf(made) = 1 .. Len(ConfigsOf(made))
           /\ \A i \in DOMAIN ConfigsOf(made) : ConfigsOf(made)[i].kind \notin Settings
  <1> DEFINE P == {i \in DOMAIN made : made[i].kind \notin Settings}
  <1>1. P \in SUBSET (1 .. Len(made)) /\ Len(made) \in Nat
    OBVIOUS
  <1>2. /\ Keep(made, P) \in Seq(SupportCode) /\ DOMAIN Keep(made, P) = DOMAIN InOrder(P)
        /\ DOMAIN Keep(made, P) = 1 .. Len(Keep(made, P))
        /\ \A k \in DOMAIN Keep(made, P) : Keep(made, P)[k] = made[InOrder(P)[k]]
    BY <1>1, KeepIsPart
  <1>3. \A k \in DOMAIN InOrder(P) : InOrder(P)[k] \in P
    BY <1>1, InOrderIsOrdered
  <1>4. \A i \in P : made[i].kind \notin Settings
    OBVIOUS
  <1> HIDE DEF P
  <1>5. \A i \in DOMAIN Keep(made, P) : Keep(made, P)[i].kind \notin Settings
    BY <1>2, <1>3, <1>4
  <1>6. QED
    BY <1>2, <1>5 DEF ConfigsOf, P

(* A collection has the places of all definitions of its kind, each once.  *)
LEMMA CollectionIsWhole ==
    ASSUME NEW made \in Seq(SupportCode), NEW kind
    PROVE  \E n \in Nat :
               /\ DOMAIN CollectionOf(made, kind) = 1 .. n
               /\ \A k \in 1 .. n : /\ CollectionOf(made, kind)[k] \in DOMAIN ConfigsOf(made)
                                    /\ ConfigsOf(made)[CollectionOf(made, kind)[k]].kind = kind
               /\ \A k, l \in 1 .. n :
                      CollectionOf(made, kind)[k] = CollectionOf(made, kind)[l] => k = l
  <1> DEFINE P == {i \in DOMAIN ConfigsOf(made) : ConfigsOf(made)[i].kind = kind}
  <1>1. DOMAIN ConfigsOf(made) = 1 .. Len(ConfigsOf(made)) /\ Len(ConfigsOf(made)) \in Nat
    BY ConfigsDefine
  <1>2. P \in SUBSET (1 .. Len(ConfigsOf(made)))
    BY <1>1
  <1>3. \A i \in P : i \in DOMAIN ConfigsOf(made) /\ ConfigsOf(made)[i].kind = kind
    OBVIOUS
  <1>4. CollectionOf(made, kind) = InOrder(P)
    BY DEF CollectionOf
  <1> HIDE DEF P
  <1>5. /\ Cardinality(P) \in Nat /\ DOMAIN InOrder(P) = 1 .. Cardinality(P)
        /\ \A k \in DOMAIN InOrder(P) : InOrder(P)[k] \in P
        /\ \A k, l \in DOMAIN InOrder(P) : InOrder(P)[k] = InOrder(P)[l] => k = l
    BY <1>1, <1>2, InOrderIsOrdered
  <1>6. QED
    BY <1>3, <1>4, <1>5

(* What is built of a collection is all that is not undefined, each once.  *)
LEMMA BuiltIsDefined ==
    ASSUME NEW made \in Seq(SupportCode), NEW kind
    PROVE  /\ \E n \in Nat : DOMAIN BuiltOf(made, kind) = 1 .. n
           /\ \A j \in DOMAIN BuiltOf(made, kind) :
                  /\ BuiltOf(made, kind)[j] \in DOMAIN CollectionOf(made, kind)
                  /\ OrderAt(made, kind, j) \in DOMAIN ConfigsOf(made)
                  /\ ConfigsOf(made)[OrderAt(made, kind, j)].kind = kind
                  /\ ~UndefinedIn(made, OrderAt(made, kind, j))
           /\ \A j, l \in DOMAIN BuiltOf(made, kind) :
                  OrderAt(made, kind, j) = OrderAt(made, kind, l) => j = l
           /\ \A k \in DOMAIN CollectionOf(made, kind) :
                  ~UndefinedIn(made, CollectionOf(made, kind)[k]) =>
                      \E j \in DOMAIN BuiltOf(made, kind) : OrderAt(made, kind, j) = CollectionOf(made, kind)[k]
           /\ (\A k \in DOMAIN CollectionOf(made, kind) : ~UndefinedIn(made, CollectionOf(made, kind)[k])) =>
                  /\ DOMAIN BuiltOf(made, kind) = DOMAIN CollectionOf(made, kind)
                  /\ \A j \in DOMAIN BuiltOf(made, kind) : BuiltOf(made, kind)[j] = j
  <1> DEFINE C == CollectionOf(made, kind)
             P == {k \in DOMAIN C : ~UndefinedIn(made, C[k])}
             B == BuiltOf(made, kind)
  <1>1. PICK n \in Nat : /\ DOMAIN C = 1 .. n
                         /\ \A k \in 1 .. n : C[k] \in DOMAIN ConfigsOf(made) /\ ConfigsOf(made)[C[k]].kind = kind
                         /\ \A k, l \in 1 .. n : C[k] = C[l] => k = l
    BY CollectionIsWhole
  <1>2. B = InOrder(P)
    BY DEF BuiltOf
  <1>3. P \in SUBSET (1 .. n) /\ \A k \in 1 .. n : k \in P <=> ~UndefinedIn(made, C[k])
    BY <1>1
  <1>4. \A j : OrderAt(made, kind, j) = C[B[j]]
    BY DEF OrderAt
  <1> HIDE DEF P, C, B
  <1>5. /\ Cardinality(P) \in Nat /\ DOMAIN B = 1 .. Cardinality(P)
        /\ \A k \in DOMAIN B : B[k] \in P
        /\ \A i \in P : \E k \in DOMAIN B : B[k] = i
        /\ \A k, l \in DOMAIN B : B[k] = B[l] => k = l
    BY <1>2, <1>3, InOrderIsOrdered
  <1>6. \A j \in DOMAIN B : B[j] \in 1 .. n /\ ~UndefinedIn(made, C[B[j]])
    BY <1>3, <1>5
  <1>7. \A j, l \in DOMAIN B : C[B[j]] = C[B[l]] => j = l
    BY <1>1, <1>5, <1>6
  <1>8. ASSUME NEW k \in 1 .. n, ~UndefinedIn(made, C[k])
        PROVE  \E j \in DOMAIN B : C[B[j]] = C[k]
    <2>1. PICK j \in DOMAIN B : B[j] = k
      BY <1>3, <1>5, <1>8
    <2>2. QED
      BY <2>1
  <1>9. ASSUME \A k \in 1 .. n : ~UndefinedIn(made, C[k])
        PROVE  DOMAIN B = 1 .. n /\ \A j \in 1 .. n : B[j] = j
    <2>1. P = 1 .. n
      BY <1>3, <1>9
    <2>2. QED
      BY <1>2, <2>1, InOrderOfAll
  <1>10. /\ \E m \in Nat : DOMAIN B = 1 .. m
         /\ \A j \in DOMAIN B :
                /\ B[j] \in DOMAIN C /\ C[B[j]] \in DOMAIN ConfigsOf(made)
                /\ ConfigsOf(made)[C[B[j]]].kind = kind /\ ~UndefinedIn(made, C[B[j]])
    BY <1>1, <1>5, <1>6
  <1>11. \A j, l \in DOMAIN B : OrderAt(made, kind, j) = OrderAt(made, kind, l) => j = l
    BY <1>4, <1>7
  <1>12. \A k \in DOMAIN C : ~UndefinedIn(made, C[k]) =>
             \E j \in DOMAIN B : OrderAt(made, kind, j) = C[k]
    BY <1>1, <1>4, <1>8
  <1>13. (\A k \in DOMAIN C : ~UndefinedIn(made, C[k])) =>
             DOMAIN B = DOMAIN C /\ \A j \in DOMAIN B : B[j] = j
    BY <1>1, <1>9
  <1>14. \A j \in DOMAIN B :
             /\ B[j] \in DOMAIN C /\ OrderAt(made, kind, j) \in DOMAIN ConfigsOf(made)
             /\ ConfigsOf(made)[OrderAt(made, kind, j)].kind = kind
             /\ ~UndefinedIn(made, OrderAt(made, kind, j))
    BY <1>4, <1>10
  <1>15. QED
    BY <1>10, <1>11, <1>12, <1>13, <1>14 DEF C, B

-----------------------------------------------------------------------------
(* What has been set last. *)

(* What a setting is after these calls.                                    *)
LastIn(made, setting) ==
    LET places == {i \in DOMAIN made : made[i].kind = setting}
    IN IF places = {} THEN InitialSettings[setting] ELSE made[Max(places)].value

(* A call that sets something is the last that does until another one.     *)
LEMMA LastOfMore ==
    ASSUME NEW made \in Seq(SupportCode), NEW call \in SupportCode, NEW setting
    PROVE  LastIn(Append(made, call), setting) =
               IF call.kind = setting THEN call.value ELSE LastIn(made, setting)
  <1> DEFINE more == Append(made, call)
             n == Len(made)
             P == {i \in DOMAIN made : made[i].kind = setting}
             Q == {i \in DOMAIN more : more[i].kind = setting}
  <1>1. /\ n \in Nat /\ DOMAIN made = 1 .. n /\ DOMAIN more = 1 .. n + 1
        /\ more[n + 1] = call /\ \A i \in 1 .. n : more[i] = made[i]
    OBVIOUS
  <1>2. LastIn(made, setting) = IF P = {} THEN InitialSettings[setting] ELSE made[Max(P)].value
    BY DEF LastIn
  <1>3. LastIn(more, setting) = IF Q = {} THEN InitialSettings[setting] ELSE more[Max(Q)].value
    BY DEF LastIn
  <1> HIDE DEF more, n
  <1>4. CASE call.kind = setting
    <2>1. n + 1 \in Q /\ \A i \in Q : i \in Int /\ n + 1 >= i
      BY <1>1, <1>4
    <2> HIDE DEF Q
    <2>2. Max(Q) \in Q /\ \A i \in Q : Max(Q) >= i
      BY <2>1 DEF Max
    <2>3. Max(Q) = n + 1
      BY <1>1, <2>1, <2>2
    <2>4. Q # {}
      BY <2>1
    <2>5. QED
      BY <1>1, <1>3, <1>4, <2>3, <2>4 DEF more
  <1>5. CASE call.kind # setting
    <2>1. Q = P
      BY <1>1, <1>5
    <2>2. CASE P = {}
      BY <1>2, <1>3, <1>5, <2>1, <2>2 DEF more
    <2>3. CASE P # {}
      <3>1. P \in SUBSET (1 .. n)
        BY <1>1
      <3> HIDE DEF P, Q
      <3>2. Max(P) \in P
        BY <1>1, <2>3, <3>1, FirstAndLast
      <3>3. made[Max(P)] = more[Max(P)]
        BY <1>1, <3>1, <3>2
      <3>4. QED
        BY <1>2, <1>3, <1>5, <2>1, <2>3, <3>3 DEF more
    <2>4. QED
      BY <2>2, <2>3
  <1>6. QED
    BY <1>4, <1>5

-----------------------------------------------------------------------------
(* The two builders. *)

(* What the variables of the builders are.                                 *)
BuilderTypes ==
    /\ status \in [Threads -> {"PENDING", "OPEN", "FINALIZED"}]
    /\ calls \in [Threads -> Seq(SupportCode)]
    /\ DOMAIN settings = Threads /\ DOMAIN library = Threads
    /\ \A t \in Threads : DOMAIN settings[t] = Settings

(* A worker is started when the main thread has its library.               *)
MainComesFirst ==
    /\ stage \in {"load", "failed"} => status["main"] # "FINALIZED" /\ status["worker"] = "PENDING"
    /\ stage \notin {"load", "failed"} => status["main"] = "FINALIZED"

(* The settings are what was set last, whether or not it is finalized.     *)
SettingsAreLast ==
    \A t \in Threads : \A setting \in Settings : settings[t][setting] = LastIn(calls[t], setting)

(* What a library has of a kind, by what its thread was given.             *)
IsBuilt(t, ids) ==
    library[t] = LibraryOf([kind \in Kinds |->
                     BuildOf(t, calls[t], settings[t]["definitionFunctionWrapper"], kind, ids[kind])],
                     settings[t])

(* The main thread is given no ids.                                        *)
NoIds == [kind \in Kinds |-> <<>>]

(* What a worker is given: the ids in the library of the main thread.      *)
MainIds == [kind \in Kinds |-> IdsOf(library["main"][kind])]

(* The ids of the main thread are of its own making, and those of a worker *)
(* are taken from what the main thread still has.                          *)
LibrariesAreBuilt ==
    /\ status["main"] = "FINALIZED" => IsBuilt("main", NoIds)
    /\ status["worker"] = "FINALIZED" => calls["worker"] = calls["main"] /\ IsBuilt("worker", MainIds)

(* The invariant of the builders.                                          *)
BuildersInv == BuilderTypes /\ MainComesFirst /\ SettingsAreLast /\ LibrariesAreBuilt

(* What the ids are does not matter to the main thread.                    *)
LEMMA MainNeedsNoIds ==
    ASSUME NEW made, NEW wrapper, NEW kind, NEW ids
    PROVE  BuildOf("main", made, wrapper, kind, ids) = BuildOf("main", made, wrapper, kind, <<>>)
  BY DEF BuildOf

(* A step belongs to one builder.                                          *)
LEMMA BuilderSteps ==
    ASSUME [Next]_vars, BuilderTypes, MainComesFirst
    PROVE  \/ UNCHANGED supportVars
           \/ \E t \in Threads : Reset(t)
           \/ \E t \in Threads, call \in SupportCode : Define(t, call) \/ Set(t, call)
           \/ \E t \in Threads : Finalize(t) /\ (t = "worker" => status["main"] = "FINALIZED")
  <1>1. CASE Load
    BY <1>1 DEF Load, Refuse, Threads
  <1>2. CASE LoadWorker
    BY <1>2 DEF LoadWorker, Threads, MainComesFirst
  <1>3. CASE SelectPickles \/ EmitSupportCodeMessages \/ AssembleTestCases \/ UNCHANGED vars
    BY <1>3 DEF SelectPickles, EmitSupportCodeMessages, AssembleTestCases, vars
  <1>4. QED
    BY <1>1, <1>2, <1>3 DEF Next, Done

(* Every step leaves the variables what they are.                          *)
LEMMA BuilderTypesStep ==
    ASSUME BuilderTypes, MainComesFirst, [Next]_vars
    PROVE  BuilderTypes'
  <1>1. CASE UNCHANGED supportVars
    BY <1>1 DEF supportVars, BuilderTypes
  <1>2. ASSUME NEW t \in Threads, Reset(t)
        PROVE  BuilderTypes'
    <2>1. << >> \in Seq(SupportCode) /\ DOMAIN InitialSettings = Settings
      BY DEF InitialSettings, Settings
    <2>2. QED
      BY <1>2, <2>1 DEF Reset, BuilderTypes
  <1>3. ASSUME NEW t \in Threads, NEW call \in SupportCode, Define(t, call)
        PROVE  BuilderTypes'
    <2>1. Append(calls[t], call) \in Seq(SupportCode)
      BY DEF BuilderTypes
    <2>2. QED
      BY <1>3, <2>1 DEF Define, BuilderTypes
  <1>4. ASSUME NEW t \in Threads, NEW call \in SupportCode, Set(t, call)
        PROVE  BuilderTypes'
    <2>1. Append(calls[t], call) \in Seq(SupportCode)
      BY DEF BuilderTypes
    <2>2. QED
      BY <1>4, <2>1 DEF Set, BuilderTypes
  <1>5. ASSUME NEW t \in Threads, Finalize(t)
        PROVE  BuilderTypes'
    BY <1>5 DEF Finalize, BuilderTypes
  <1>6. QED
    BY <1>1, <1>2, <1>3, <1>4, <1>5, BuilderSteps

(* No step starts a worker before the main thread has its library.         *)
LEMMA MainComesFirstStep ==
    ASSUME BuilderTypes, MainComesFirst, [Next]_vars
    PROVE  MainComesFirst'
  <1> USE DEF BuilderTypes, MainComesFirst, Threads
  <1>1. CASE Load
    BY <1>1 DEF Load, Reset, Define, Set, Refuse, Finalize, supportVars
  <1>2. CASE LoadWorker
    BY <1>2 DEF LoadWorker, Reset, Define, Set, Finalize
  <1>3. CASE SelectPickles \/ EmitSupportCodeMessages \/ AssembleTestCases \/ UNCHANGED vars
    BY <1>3 DEF SelectPickles, EmitSupportCodeMessages, AssembleTestCases, vars, supportVars
  <1>4. QED
    BY <1>1, <1>2, <1>3 DEF Next, Done

(* A call that sets something makes it the setting; no other changes it.   *)
LEMMA SettingsAreLastStep ==
    ASSUME BuilderTypes, MainComesFirst, SettingsAreLast, [Next]_vars
    PROVE  SettingsAreLast'
  <1>1. CASE UNCHANGED supportVars
    BY <1>1 DEF supportVars, SettingsAreLast
  <1>2. ASSUME NEW t \in Threads, Reset(t)
        PROVE  SettingsAreLast'
    <2>1. \A setting : LastIn(<< >>, setting) = InitialSettings[setting]
      BY DEF LastIn
    <2>2. \A u \in Threads :
              \/ u = t /\ calls'[u] = << >> /\ settings'[u] = InitialSettings
              \/ u # t /\ calls'[u] = calls[u] /\ settings'[u] = settings[u]
      BY <1>2 DEF Reset, BuilderTypes
    <2>3. QED
      BY <2>1, <2>2 DEF SettingsAreLast
  <1>3. ASSUME NEW t \in Threads, NEW call \in SupportCode, Define(t, call)
        PROVE  SettingsAreLast'
    <2>1. calls[t] \in Seq(SupportCode)
      BY DEF BuilderTypes
    <2>2. \A setting \in Settings : LastIn(Append(calls[t], call), setting) = LastIn(calls[t], setting)
      BY <1>3, <2>1, LastOfMore DEF Define
    <2>3. /\ settings' = settings
          /\ \A u \in Threads : calls'[u] = IF u = t THEN Append(calls[t], call) ELSE calls[u]
      BY <1>3 DEF Define, BuilderTypes
    <2>4. QED
      BY <2>2, <2>3 DEF SettingsAreLast
  <1>4. ASSUME NEW t \in Threads, NEW call \in SupportCode, Set(t, call)
        PROVE  SettingsAreLast'
    <2>1. calls[t] \in Seq(SupportCode)
      BY DEF BuilderTypes
    <2>2. \A setting \in Settings : LastIn(Append(calls[t], call), setting) =
              IF call.kind = setting THEN call.value ELSE LastIn(calls[t], setting)
      BY <2>1, LastOfMore
    <2>3. \A u \in Threads : calls'[u] = IF u = t THEN Append(calls[t], call) ELSE calls[u]
      BY <1>4 DEF Set, BuilderTypes
    <2>4. \A u \in Threads : \A setting \in Settings :
              settings'[u][setting] =
                  IF u = t /\ setting = call.kind THEN call.value ELSE settings[u][setting]
      BY <1>4 DEF Set, BuilderTypes
    <2>5. QED
      BY <2>2, <2>3, <2>4 DEF SettingsAreLast
  <1>5. ASSUME NEW t \in Threads, Finalize(t)
        PROVE  SettingsAreLast'
    BY <1>5 DEF Finalize, SettingsAreLast
  <1>6. QED
    BY <1>1, <1>2, <1>3, <1>4, <1>5, BuilderSteps

(* A library is made by finalizing, and by nothing else.                   *)
LEMMA LibrariesAreBuiltStep ==
    ASSUME BuilderTypes, MainComesFirst, LibrariesAreBuilt, [Next]_vars
    PROVE  LibrariesAreBuilt'
  <1>1. CASE UNCHANGED supportVars
    BY <1>1 DEF supportVars, LibrariesAreBuilt, IsBuilt, MainIds
  <1>2. ASSUME NEW t \in Threads, status[t] # "FINALIZED", status'[t] # "FINALIZED",
               UNCHANGED library,
               \A u \in Threads \ {t} : UNCHANGED <<status[u], calls[u], settings[u]>>
        PROVE  LibrariesAreBuilt'
    <2>1. MainIds' = MainIds
      BY <1>2 DEF MainIds
    <2>2. CASE t = "main"
      <3>1. status["worker"] = "PENDING" /\ status'["worker"] = "PENDING"
        BY <1>2, <2>2 DEF MainComesFirst, Threads
      <3>2. QED
        BY <1>2, <2>2, <3>1 DEF LibrariesAreBuilt
    <2>3. CASE t = "worker"
      <3>1. "main" \in Threads \ {t}
        BY <2>3 DEF Threads
      <3>2. UNCHANGED <<status["main"], calls["main"], settings["main"]>>
        BY <1>2, <3>1
      <3>3. IsBuilt("main", NoIds)' <=> IsBuilt("main", NoIds)
        BY <1>2, <3>2 DEF IsBuilt, NoIds
      <3>4. QED
        BY <1>2, <2>3, <3>2, <3>3 DEF LibrariesAreBuilt
    <2>4. QED
      BY <2>2, <2>3 DEF Threads
  <1>3. ASSUME NEW t \in Threads, Reset(t)
        PROVE  LibrariesAreBuilt'
    <2>1. status[t] = "PENDING" /\ status'[t] = "OPEN" /\ UNCHANGED library
      BY <1>3 DEF Reset, BuilderTypes
    <2>2. \A u \in Threads \ {t} : UNCHANGED <<status[u], calls[u], settings[u]>>
      BY <1>3 DEF Reset, BuilderTypes
    <2>3. QED
      BY <1>2, <2>1, <2>2
  <1>4. ASSUME NEW t \in Threads, NEW call \in SupportCode, Define(t, call) \/ Set(t, call)
        PROVE  LibrariesAreBuilt'
    <2>1. status[t] = "OPEN" /\ UNCHANGED <<status, library>>
      BY <1>4 DEF Define, Set, MayCall
    <2>2. \A u \in Threads \ {t} : UNCHANGED <<calls[u], settings[u]>>
      BY <1>4 DEF Define, Set, BuilderTypes
    <2>3. QED
      BY <1>2, <2>1, <2>2
  <1>5. CASE Finalize("main")
    <2>1. /\ status["main"] = "OPEN" /\ UNCHANGED <<calls, settings>>
          /\ status'["worker"] = status["worker"]
      BY <1>5 DEF Finalize, BuilderTypes, Threads
    <2>2. status["worker"] = "PENDING"
      BY <2>1 DEF MainComesFirst
    <2>3. library'["main"] = LibraryOf([kind \in Kinds |->
              Build("main", kind, IdsOf(library["main"][kind]))], settings["main"])
      BY <1>5 DEF Finalize, BuilderTypes, Threads
    <2>4. \A kind \in Kinds : Build("main", kind, IdsOf(library["main"][kind]))
              = BuildOf("main", calls["main"], settings["main"]["definitionFunctionWrapper"], kind, NoIds[kind])
      BY OfItsCalls, MainNeedsNoIds DEF NoIds
    <2>5. IsBuilt("main", NoIds)'
      BY <2>1, <2>3, <2>4 DEF IsBuilt, NoIds
    <2>6. QED
      BY <2>1, <2>2, <2>5 DEF LibrariesAreBuilt
  <1>6. CASE Finalize("worker") /\ status["main"] = "FINALIZED"
    <2>1. /\ UNCHANGED <<calls, settings>> /\ calls["worker"] = calls["main"]
          /\ status'["main"] = "FINALIZED" /\ library'["main"] = library["main"]
      BY <1>6 DEF Finalize, BuilderTypes, Threads
    <2>2. library'["worker"] = LibraryOf([kind \in Kinds |->
              Build("worker", kind, IdsOf(library["main"][kind]))], settings["worker"])
      BY <1>6 DEF Finalize, BuilderTypes, Threads
    <2>3. \A kind \in Kinds : Build("worker", kind, IdsOf(library["main"][kind]))
              = BuildOf("worker", calls["worker"], settings["worker"]["definitionFunctionWrapper"], kind, MainIds[kind])
      BY OfItsCalls DEF MainIds
    <2>4. MainIds' = MainIds
      BY <2>1 DEF MainIds
    <2>5. IsBuilt("worker", MainIds)'
      BY <2>1, <2>2, <2>3, <2>4 DEF IsBuilt
    <2>6. IsBuilt("main", NoIds)'
      BY <1>6, <2>1 DEF IsBuilt, NoIds, LibrariesAreBuilt
    <2>7. QED
      BY <2>1, <2>5, <2>6 DEF LibrariesAreBuilt
  <1>7. QED
    BY <1>1, <1>3, <1>4, <1>5, <1>6, BuilderSteps DEF Threads

-----------------------------------------------------------------------------
(* What the libraries of both threads have in common. *)

(* Each definition of a thread that has finished is what the calls make of *)
(* its place.                                                              *)
LEMMA DefinitionsAre ==
    ASSUME NEW t \in Threads, NEW ids, IsBuilt(t, ids), NEW kind \in Kinds
    PROVE  LET made == calls[t]
               wrapper == settings[t]["definitionFunctionWrapper"]
           IN /\ DOMAIN library[t][kind] = DOMAIN BuiltOf(made, kind)
              /\ \A j \in DOMAIN BuiltOf(made, kind) :
                     LET config == ConfigsOf(made)[OrderAt(made, kind, j)]
                         definition == library[t][kind][j]
                     IN /\ definition.order = OrderAt(made, kind, j)
                        /\ definition.code = WrapCode(wrapper, config.codeLength)
                        /\ definition.id =
                               IF t = "main" \/ kind \in StepHookKinds THEN NewId(t, OrderAt(made, kind, j))
                               ELSE IdAt(ids[kind], CollectionOf(made, kind), BuiltOf(made, kind)[j])
                        /\ config.kind \in RunHookKinds => definition.on = HookTarget(config)
  <1> DEFINE made == calls[t]
             wrapper == settings[t]["definitionFunctionWrapper"]
  <1>1. library[t][kind] = BuildOf(t, made, wrapper, kind, ids[kind])
    BY DEF IsBuilt, LibraryOf
  <1>2. QED
    BY <1>1 DEF BuildOf, NewDefinition

(* The settings in a library are those of its thread.                      *)
LEMMA SettingsAre ==
    ASSUME NEW t \in Threads, NEW ids, IsBuilt(t, ids), NEW setting \in Settings
    PROVE  library[t][setting] = settings[t][setting]
  <1>1. setting \notin Kinds
    BY DEF Settings, Kinds, HookKinds, StepHookKinds
  <1>2. QED
    BY <1>1 DEF IsBuilt, LibraryOf

(* The only definition with an id is the one that is found.                *)
LEMMA FoundById ==
    ASSUME NEW t, NEW kind, NEW n \in Nat, DOMAIN library[t][kind] = 1 .. n,
           \A i, j \in 1 .. n : library[t][kind][i].id = library[t][kind][j].id => i = j,
           NEW j \in 1 .. n
    PROVE  FindDefinition(t, kind, library[t][kind][j].id) = <<library[t][kind][j]>>
  <1> DEFINE P == {i \in DOMAIN library[t][kind] : library[t][kind][i].id = library[t][kind][j].id}
             with == WithId(t, kind, library[t][kind][j].id)
  <1>1. P = {j}
    OBVIOUS
  <1>2. P \in SUBSET (1 .. n)
    OBVIOUS
  <1>3. with = Keep(library[t][kind], P)
    BY DEF WithId
  <1> HIDE DEF P, with
  <1>4. Cardinality(P) = 1
    BY <1>1, FS_Singleton
  <1>5. DOMAIN InOrder(P) = 1 .. 1 /\ InOrder(P)[1] \in P
    <2>1. /\ DOMAIN InOrder(P) = 1 .. Cardinality(P)
          /\ \A k \in DOMAIN InOrder(P) : InOrder(P)[k] \in P
      BY <1>2, InOrderIsOrdered
    <2>2. QED
      BY <1>4, <2>1
  <1>6. with = [k \in 1 .. 1 |-> library[t][kind][j]]
    <2>1. with = [k \in 1 .. 1 |-> library[t][kind][InOrder(P)[k]]]
      BY <1>3, <1>5 DEF Keep
    <2>2. \A k \in 1 .. 1 : InOrder(P)[k] = j
      BY <1>1, <1>5
    <2>3. QED
      BY <2>1, <2>2
  <1>7. with = <<library[t][kind][j]>>
    BY <1>6
  <1>8. with # << >> /\ Head(with) = library[t][kind][j]
    BY <1>7
  <1>9. QED
    BY <1>8 DEF FindDefinition, with

(* Both threads know the same code by the same id, unless the pattern of a *)
(* step could not be built.                                                *)
LEMMA SameIds ==
    ASSUME BuildersInv, NothingUndefined
    PROVE  RunsTheSameCode
  <1> USE DEF BuildersInv
  <1>1. SUFFICES ASSUME status["worker"] = "FINALIZED", NEW kind \in {"step"} \cup HookKinds,
                        NEW d \in ToSet(library["main"][kind])
                 PROVE  \E found \in ToSet(FindDefinition("worker", kind, d.id)) :
                            found.order = d.order /\ found.code = d.code
    BY DEF RunsTheSameCode
  <1> DEFINE made == calls["main"]
  <1>2. "main" \in Threads /\ "worker" \in Threads /\ kind \in Kinds /\ kind \notin StepHookKinds
    BY DEF Threads, Kinds, HookKinds, StepHookKinds
  <1>3. /\ made \in Seq(SupportCode) /\ calls["worker"] = made
        /\ IsBuilt("main", NoIds) /\ IsBuilt("worker", MainIds)
    BY <1>1, <1>2 DEF BuilderTypes, LibrariesAreBuilt, MainComesFirst
  <1>4. settings["worker"]["definitionFunctionWrapper"] = settings["main"]["definitionFunctionWrapper"]
    BY <1>2, <1>3 DEF SettingsAreLast, Settings
  <1>5. \A k \in DOMAIN CollectionOf(made, kind) : ~UndefinedIn(made, CollectionOf(made, kind)[k])
    <2>1. \A order \in DOMAIN ConfigsOf(made) : ~UndefinedIn(made, order)
      BY OfItsCalls DEF NothingUndefined
    <2>2. \A k \in DOMAIN CollectionOf(made, kind) : CollectionOf(made, kind)[k] \in DOMAIN ConfigsOf(made)
      BY <1>3, CollectionIsWhole
    <2>3. QED
      BY <2>1, <2>2
  <1>6. PICK n \in Nat : DOMAIN BuiltOf(made, kind) = 1 .. n
    BY <1>3, BuiltIsDefined
  <1>7. /\ \A j \in 1 .. n : BuiltOf(made, kind)[j] = j
        /\ \A j, l \in 1 .. n : OrderAt(made, kind, j) = OrderAt(made, kind, l) => j = l
    <2>1. made \in Seq(SupportCode)
      BY <1>3
    <2> HIDE DEF made
    <2>2. \A j, l \in DOMAIN BuiltOf(made, kind) : OrderAt(made, kind, j) = OrderAt(made, kind, l) => j = l
      BY <2>1, BuiltIsDefined
    <2>3. \A j \in DOMAIN BuiltOf(made, kind) : BuiltOf(made, kind)[j] = j
      BY <1>5, <2>1, BuiltIsDefined
    <2>4. QED
      BY <1>6, <2>2, <2>3
  <1>8. /\ DOMAIN library["main"][kind] = 1 .. n
        /\ \A j \in 1 .. n :
               /\ library["main"][kind][j].order = OrderAt(made, kind, j)
               /\ library["main"][kind][j].id = NewId("main", OrderAt(made, kind, j))
               /\ library["main"][kind][j].code =
                      WrapCode(settings["main"]["definitionFunctionWrapper"],
                               ConfigsOf(made)[OrderAt(made, kind, j)].codeLength)
    BY <1>2, <1>3, <1>6, DefinitionsAre
  <1>9. /\ DOMAIN library["worker"][kind] = 1 .. n
        /\ \A j \in 1 .. n :
               /\ library["worker"][kind][j].order = OrderAt(made, kind, j)
               /\ library["worker"][kind][j].id =
                      IdAt(MainIds[kind], CollectionOf(made, kind), BuiltOf(made, kind)[j])
               /\ library["worker"][kind][j].code =
                      WrapCode(settings["main"]["definitionFunctionWrapper"],
                               ConfigsOf(made)[OrderAt(made, kind, j)].codeLength)
    <2>1. "worker" # "main"
      OBVIOUS
    <2>2. QED
      BY <1>2, <1>3, <1>4, <1>6, <2>1, DefinitionsAre
  <1>10. \A j \in 1 .. n : library["worker"][kind][j].id = library["main"][kind][j].id
    <2>1. MainIds[kind] = [j \in 1 .. n |-> library["main"][kind][j].id]
      BY <1>2, <1>8 DEF MainIds, IdsOf
    <2>2. Len(MainIds[kind]) = n
      BY <2>1
    <2>3. QED
      BY <1>7, <1>9, <2>1, <2>2 DEF IdAt
  <1>11. PICK j \in 1 .. n : d = library["main"][kind][j]
    BY <1>1, <1>8 DEF ToSet
  <1>12. \A i, l \in 1 .. n : library["worker"][kind][i].id = library["worker"][kind][l].id => i = l
    <2>1. \A i, l \in 1 .. n : NewId("main", OrderAt(made, kind, i)) = NewId("main", OrderAt(made, kind, l))
                                   => OrderAt(made, kind, i) = OrderAt(made, kind, l)
      BY DEF NewId
    <2>2. QED
      BY <1>7, <1>8, <1>10, <2>1
  <1>13. FindDefinition("worker", kind, d.id) = <<library["worker"][kind][j]>>
    <2>1. FindDefinition("worker", kind, library["worker"][kind][j].id) = <<library["worker"][kind][j]>>
      <3>1. DOMAIN library["worker"][kind] = 1 .. n
        BY <1>9
      <3>2. QED
        BY <1>12, <3>1, FoundById, Zenon
    <2>2. QED
      BY <1>10, <1>11, <2>1
  <1>14. library["worker"][kind][j] \in ToSet(FindDefinition("worker", kind, d.id))
    BY <1>13 DEF ToSet
  <1>15. QED
    BY <1>8, <1>9, <1>11, <1>14

(* Each definition is called as it was written to be, in the wrapper and   *)
(* with the settings that were set last.                                   *)
LEMMA CalledAsWritten ==
    ASSUME BuildersInv, NEW t \in Threads, status[t] = "FINALIZED"
    PROVE  /\ \A kind \in Kinds : \A d \in ToSet(library[t][kind]) :
                  /\ d.code.length = Configs("main")[d.order].codeLength
                  /\ d.code.wrapped # "none" => d.code.wrapped = LastSetting("definitionFunctionWrapper")
           /\ \A setting \in Settings : library[t][setting] = LastSetting(setting)
  <1> USE DEF BuildersInv
  <1> DEFINE made == calls["main"]
  <1>1. \A setting : LastSetting(setting) = LastIn(made, setting)
    BY DEF LastSetting, LastIn
  <1>2. calls[t] = made /\ \E ids : IsBuilt(t, ids)
    BY DEF Threads, LibrariesAreBuilt
  <1>3. PICK ids : IsBuilt(t, ids)
    BY <1>2
  <1>4. \A setting \in Settings : settings[t][setting] = LastSetting(setting)
    BY <1>1, <1>2 DEF SettingsAreLast
  <1>5. \A setting \in Settings : library[t][setting] = LastSetting(setting)
    BY <1>3, <1>4, SettingsAre
  <1>6. ASSUME NEW kind \in Kinds, NEW d \in ToSet(library[t][kind])
        PROVE  /\ d.code.length = Configs("main")[d.order].codeLength
               /\ d.code.wrapped # "none" => d.code.wrapped = LastSetting("definitionFunctionWrapper")
    <2>1. DOMAIN library[t][kind] = DOMAIN BuiltOf(made, kind)
      BY <1>2, <1>3, DefinitionsAre
    <2>2. PICK j \in DOMAIN BuiltOf(made, kind) : d = library[t][kind][j]
      BY <1>6, <2>1 DEF ToSet
    <2>3. /\ d.order = OrderAt(made, kind, j)
          /\ d.code = WrapCode(settings[t]["definitionFunctionWrapper"],
                               ConfigsOf(made)[OrderAt(made, kind, j)].codeLength)
      BY <1>2, <1>3, <2>2, DefinitionsAre
    <2>4. Configs("main") = ConfigsOf(made)
      BY OfItsCalls
    <2>5. "definitionFunctionWrapper" \in Settings
      BY DEF Settings
    <2>6. QED
      BY <1>4, <2>3, <2>4, <2>5 DEF WrapCode
  <1>7. QED
    BY <1>5, <1>6

(* A hook of the run belongs to one side.                                  *)
LEMMA RunHooksOnOneSide ==
    ASSUME BuildersInv, status["worker"] = "FINALIZED", NEW kind \in RunHookKinds,
           NEW order \in ToSet(Collection("main", kind))
    PROVE  Cardinality({t \in Threads :
               \E hook \in ToSet(TestRunHooksOf(t, kind)) : hook.order = order}) = 1
  <1> USE DEF BuildersInv
  <1> DEFINE made == calls["main"]
             config == ConfigsOf(made)[order]
             On(t) == IF t = "main" THEN "COORDINATOR" ELSE "WORKER"
  <1>1. made \in Seq(SupportCode) /\ kind \in Kinds /\ kind # "step"
    BY DEF BuilderTypes, Threads, RunHookKinds, Kinds, HookKinds
  <1>2. PICK k \in DOMAIN CollectionOf(made, kind) : order = CollectionOf(made, kind)[k]
    BY OfItsCalls DEF ToSet
  <1>3. order \in DOMAIN ConfigsOf(made) /\ config.kind = kind
    BY <1>1, <1>2, CollectionIsWhole
  <1>4. ~UndefinedIn(made, order)
    BY <1>1, <1>3 DEF UndefinedIn
  <1>5. PICK j \in DOMAIN BuiltOf(made, kind) : OrderAt(made, kind, j) = order
    BY <1>1, <1>2, <1>4, BuiltIsDefined
  <1>6. ConfigsOf(made) \in Seq(SupportCode) /\ config \in SupportCode
    BY <1>1, <1>3, ConfigsDefine
  <1>7. HookTarget(config) \in {"COORDINATOR", "WORKER"}
    BY <1>3, <1>6, SupportCodeAssumption DEF HookTarget
  <1> HIDE DEF config
  <1>8. ASSUME NEW t \in Threads
        PROVE  (\E hook \in ToSet(TestRunHooksOf(t, kind)) : hook.order = order) <=> On(t) = HookTarget(config)
    <2>1. calls[t] = made /\ \E ids : IsBuilt(t, ids)
      BY DEF Threads, LibrariesAreBuilt, MainComesFirst
    <2>2. PICK ids : IsBuilt(t, ids)
      BY <2>1
    <2>3. DOMAIN library[t][kind] = DOMAIN BuiltOf(made, kind)
      BY <1>1, <2>1, <2>2, DefinitionsAre
    <2>4. \A i \in DOMAIN BuiltOf(made, kind) :
              /\ library[t][kind][i].order = OrderAt(made, kind, i)
              /\ library[t][kind][i].on = HookTarget(ConfigsOf(made)[OrderAt(made, kind, i)])
      <3>1. \A i \in DOMAIN BuiltOf(made, kind) : ConfigsOf(made)[OrderAt(made, kind, i)].kind = kind
        BY <1>1, BuiltIsDefined
      <3>2. QED
        BY <1>1, <2>1, <2>2, <3>1, DefinitionsAre
    <2> DEFINE P == {i \in DOMAIN library[t][kind] : library[t][kind][i].on = On(t)}
    <2>5. TestRunHooksOf(t, kind) = Keep(library[t][kind], P)
      BY DEF TestRunHooksOf
    <2>6. PICK n \in Nat : DOMAIN BuiltOf(made, kind) = 1 .. n
      BY <1>1, BuiltIsDefined
    <2>7. library[t][kind] = [i \in 1 .. n |-> library[t][kind][i]]
      <3>1. library[t][kind] = BuildOf(t, made, settings[t]["definitionFunctionWrapper"], kind, ids[kind])
        BY <1>1, <2>1, <2>2 DEF IsBuilt, LibraryOf
      <3>2. QED
        BY <2>6, <3>1 DEF BuildOf
    <2>8. library[t][kind] \in Seq(ToSet(library[t][kind])) /\ Len(library[t][kind]) = n
      BY <2>3, <2>6, <2>7 DEF ToSet
    <2>9. ToSet(TestRunHooksOf(t, kind)) = {library[t][kind][i] : i \in P}
      <3>1. P \in SUBSET (1 .. Len(library[t][kind]))
        BY <2>3, <2>6, <2>8
      <3> HIDE DEF P
      <3>2. QED
        BY <2>5, <2>8, <3>1, KeepIsPart
    <2>10. ASSUME NEW i \in P, library[t][kind][i].order = order
           PROVE  On(t) = HookTarget(config)
      BY <2>3, <2>4, <2>10 DEF config
    <2>11. ASSUME On(t) = HookTarget(config)
           PROVE  j \in P /\ library[t][kind][j].order = order
      BY <1>5, <2>3, <2>4, <2>11 DEF config
    <2> HIDE DEF P
    <2>12. QED
      BY <2>9, <2>10, <2>11
  <1> DEFINE Having == {t \in Threads : \E hook \in ToSet(TestRunHooksOf(t, kind)) : hook.order = order}
  <1>9. Having = {t \in Threads : On(t) = HookTarget(config)}
    BY <1>8
  <1>10. Having = {"main"} \/ Having = {"worker"}
    BY <1>7, <1>9 DEF Threads
  <1>11. QED
    BY <1>10, FS_Singleton

(* The builders and the libraries they build, in every state.              *)
THEOREM Invariance == Spec => []BuildersInv
  <1>1. Init => BuildersInv
    <2> SUFFICES ASSUME Init
                 PROVE  BuildersInv
      OBVIOUS
    <2> USE DEF Init, SupportInit
    <2>1. BuilderTypes
      BY DEF BuilderTypes, InitialSettings, Settings
    <2>2. MainComesFirst
      BY DEF MainComesFirst, Threads
    <2>3. SettingsAreLast
      BY DEF SettingsAreLast, LastIn
    <2>4. LibrariesAreBuilt
      BY DEF LibrariesAreBuilt, Threads
    <2>5. QED
      BY <2>1, <2>2, <2>3, <2>4 DEF BuildersInv
  <1>2. BuildersInv /\ [Next]_vars => BuildersInv'
    BY BuilderTypesStep, MainComesFirstStep, SettingsAreLastStep, LibrariesAreBuiltStep DEF BuildersInv
  <1>3. QED
    BY <1>1, <1>2, PTL DEF Spec

(* Whatever the support code calls, and in whatever order: when every      *)
(* parameter type is defined, a worker finds under each id the code that   *)
(* has it on the main thread; on both it is called as it was written to    *)
(* be, with what was set last; and a hook of the run is executed on one    *)
(* side only.                                                              *)
THEOREM WorkersRunTheSameCode == Spec => []WorkerRunsTheSameCode
  <1>1. BuildersInv => WorkerRunsTheSameCode
    <2> SUFFICES ASSUME BuildersInv
                 PROVE  WorkerRunsTheSameCode
      OBVIOUS
    <2>1. NothingUndefined => RunsTheSameCode
      BY SameIds
    <2>2. ASSUME NEW t \in Threads, status[t] = "FINALIZED"
          PROVE  /\ \A kind \in Kinds : \A d \in ToSet(library[t][kind]) :
                        /\ \A parameters \in 0 .. 2 :
                               CalledAs(kind, d.code.length, parameters)
                                   = CalledAs(kind, Configs("main")[d.order].codeLength, parameters)
                        /\ d.code.wrapped # "none" =>
                               d.code.wrapped = LastSetting("definitionFunctionWrapper")
                 /\ \A setting \in Settings : library[t][setting] = LastSetting(setting)
      BY <2>2, CalledAsWritten
    <2>3. status["worker"] = "FINALIZED" =>
              \A kind \in RunHookKinds : \A order \in ToSet(Collection("main", kind)) :
                  Cardinality({t \in Threads : \E hook \in ToSet(TestRunHooksOf(t, kind)) :
                                                   hook.order = order}) = 1
      BY RunHooksOnOneSide
    <2>4. QED
      BY <2>1, <2>2, <2>3 DEF WorkerRunsTheSameCode
  <1>2. QED
    BY <1>1, Invariance, PTL

-----------------------------------------------------------------------------
(* The messages. *)

(* The message of a definition of the main thread, by its place in configs.*)
MessageOf(order) == EnvelopeOf(Configs("main")[order].kind, order, NewId("main", order))

MessagesOf(kinds) ==
    {MessageOf(order) : order \in {i \in DOMAIN Configs("main") : Configs("main")[i].kind \in kinds}}

(* A sequence of such messages in which no definition comes twice.         *)
Announces(messages, kinds) ==
    /\ messages \in Seq(MessagesOf(kinds))
    /\ \A i, j \in DOMAIN messages : messages[i].order = messages[j].order => i = j

(* A message says where it is from and has the id of its definition.       *)
LEMMA MessageIs ==
    ASSUME NEW kinds, NEW message \in MessagesOf(kinds)
    PROVE  /\ message.order \in DOMAIN Configs("main")
           /\ message.kind = Configs("main")[message.order].kind /\ message.kind \in kinds
           /\ message.id = NewId("main", message.order)
           /\ message.sourceReference = SourceReference(message.order)
  BY DEF MessagesOf, MessageOf, EnvelopeOf

Joins(a, K, b, L) ==
    Announces(a, K) /\ Announces(b, L) /\ K \cap L = {} =>
        Announces(a \o b, K \cup L) /\ ToSet(a \o b) = ToSet(a) \cup ToSet(b)

(* Announcing one kind after another announces both.                       *)
LEMMA AnnouncesBoth ==
    ASSUME NEW a, NEW K, NEW b, NEW L
    PROVE  Joins(a, K, b, L)
  <1> DEFINE all == K \cup L
             both == a \o b
             M == MessagesOf(all)
  <1> SUFFICES ASSUME Announces(a, K), Announces(b, L), K \cap L = {}
               PROVE  Announces(both, all) /\ ToSet(both) = ToSet(a) \cup ToSet(b)
    BY DEF Joins
  <1>1. a \in Seq(M) /\ b \in Seq(M)
    <2>1. MessagesOf(K) \subseteq M /\ MessagesOf(L) \subseteq M
      BY DEF MessagesOf
    <2> HIDE DEF M
    <2>2. QED
      BY <2>1 DEF Announces
  <1>2. \A i \in DOMAIN a, j \in DOMAIN b : a[i].order # b[j].order
    <2>1. ASSUME NEW i \in DOMAIN a, NEW j \in DOMAIN b
          PROVE  a[i] \in MessagesOf(K) /\ b[j] \in MessagesOf(L)
      BY DEF Announces
    <2>2. QED
      BY <2>1, MessageIs
  <1> HIDE DEF M
  <1>3. both \in Seq(M)
    BY <1>1
  <1>4. /\ DOMAIN a = 1 .. Len(a) /\ DOMAIN b = 1 .. Len(b) /\ Len(a) \in Nat /\ Len(b) \in Nat
        /\ DOMAIN both = 1 .. Len(a) + Len(b)
        /\ \A i \in 1 .. Len(a) : both[i] = a[i]
        /\ \A i \in 1 .. Len(b) : both[Len(a) + i] = b[i]
    BY <1>1
  <1> HIDE DEF both
  <1>5. ASSUME NEW i \in DOMAIN both
        PROVE  \/ i \in DOMAIN a /\ both[i] = a[i]
               \/ i - Len(a) \in DOMAIN b /\ both[i] = b[i - Len(a)]
    <2>1. CASE i <= Len(a)
      BY <1>4, <2>1
    <2>2. CASE i > Len(a)
      <3>1. i - Len(a) \in 1 .. Len(b) /\ Len(a) + (i - Len(a)) = i
        BY <1>4, <2>2
      <3>2. QED
        BY <1>4, <3>1
    <2>3. QED
      BY <1>4, <2>1, <2>2
  <1>6. ASSUME NEW i \in DOMAIN both, NEW j \in DOMAIN both, both[i].order = both[j].order
        PROVE  i = j
    <2>1. \A k, l \in DOMAIN a : a[k].order = a[l].order => k = l
      BY DEF Announces
    <2>2. \A k, l \in DOMAIN b : b[k].order = b[l].order => k = l
      BY DEF Announces
    <2>3. CASE i \in DOMAIN a /\ both[i] = a[i]
      BY <1>2, <1>5, <1>6, <2>1, <2>3
    <2>4. CASE i - Len(a) \in DOMAIN b /\ both[i] = b[i - Len(a)]
      <3>1. j - Len(a) \in DOMAIN b /\ both[j] = b[j - Len(a)]
        BY <1>2, <1>5, <1>6, <2>4
      <3>2. i - Len(a) = j - Len(a)
        BY <1>6, <2>2, <2>4, <3>1
      <3>3. i \in Int /\ j \in Int
        BY <1>4
      <3>4. QED
        BY <1>4, <3>2, <3>3
    <2>5. QED
      BY <1>5, <2>3, <2>4
  <1>7. ToSet(both) = ToSet(a) \cup ToSet(b)
    <2>1. ASSUME NEW i \in DOMAIN both
          PROVE  both[i] \in ToSet(a) \cup ToSet(b)
      BY <1>5 DEF ToSet
    <2>2. ASSUME NEW i \in DOMAIN a
          PROVE  a[i] \in ToSet(both)
      <3>1. i \in DOMAIN both /\ both[i] = a[i]
        BY <1>4
      <3>2. QED
        BY <3>1 DEF ToSet
    <2>3. ASSUME NEW i \in DOMAIN b
          PROVE  b[i] \in ToSet(both)
      <3>1. Len(a) + i \in DOMAIN both /\ both[Len(a) + i] = b[i]
        BY <1>4
      <3>2. QED
        BY <3>1 DEF ToSet
    <2>4. QED
      BY <2>1, <2>2, <2>3 DEF ToSet
  <1>8. QED
    BY <1>3, <1>6, <1>7 DEF Announces, both, M

(* The definitions of a kind are announced, with the ids they have.        *)
LEMMA DefinitionsAnnounced ==
    ASSUME BuildersInv, status["main"] = "FINALIZED", NEW kind \in {"step"} \cup HookKinds
    PROVE  /\ Announces(DefinitionEnvelopes(kind), {kind})
           /\ \A d \in ToSet(library["main"][kind]) :
                  \E e \in ToSet(DefinitionEnvelopes(kind)) : e.id = d.id
  <1> DEFINE made == calls["main"]
             D == library["main"][kind]
             S == DefinitionEnvelopes(kind)
             K == {kind}
  <1>0. kind \in Kinds /\ kind \notin StepHookKinds /\ "main" \in Threads
    BY DEF Kinds, HookKinds, StepHookKinds, Threads
  <1>1. IsBuilt("main", NoIds) /\ made \in Seq(SupportCode)
    BY <1>0 DEF BuildersInv, LibrariesAreBuilt, BuilderTypes
  <1>2. /\ \E n \in Nat : DOMAIN BuiltOf(made, kind) = 1 .. n
        /\ \A j \in DOMAIN BuiltOf(made, kind) :
               /\ OrderAt(made, kind, j) \in DOMAIN ConfigsOf(made)
               /\ ConfigsOf(made)[OrderAt(made, kind, j)].kind = kind
        /\ \A j, l \in DOMAIN BuiltOf(made, kind) :
               OrderAt(made, kind, j) = OrderAt(made, kind, l) => j = l
    BY <1>1, BuiltIsDefined
  <1>3. /\ DOMAIN D = DOMAIN BuiltOf(made, kind)
        /\ \A j \in DOMAIN D : /\ D[j].order = OrderAt(made, kind, j)
                               /\ D[j].id = NewId("main", OrderAt(made, kind, j))
    BY <1>0, <1>1, DefinitionsAre
  <1>4. Configs("main") = ConfigsOf(made)
    BY OfItsCalls
  <1> HIDE DEF made
  <1>5. /\ \E n \in Nat : DOMAIN D = 1 .. n
        /\ \A j \in DOMAIN D : /\ D[j].order \in DOMAIN Configs("main")
                               /\ Configs("main")[D[j].order].kind = kind
                               /\ D[j].id = NewId("main", D[j].order)
        /\ \A j, l \in DOMAIN D : D[j].order = D[l].order => j = l
    BY <1>2, <1>3, <1>4
  <1>6. S = [i \in DOMAIN D |-> EnvelopeOf(kind, D[i].order, D[i].id)]
    BY DEF DefinitionEnvelopes
  <1> HIDE DEF S, D
  <1>7. ASSUME NEW i \in DOMAIN D
        PROVE  S[i] \in MessagesOf(K) /\ S[i].order = D[i].order /\ S[i].id = D[i].id
    <2>1. S[i] = MessageOf(D[i].order)
      BY <1>5, <1>6 DEF MessageOf
    <2>2. S[i] \in MessagesOf(K)
      BY <1>5, <2>1 DEF MessagesOf
    <2>3. QED
      BY <1>6, <2>2 DEF EnvelopeOf
  <1> HIDE DEF K
  <1>8. Announces(S, K)
    <2>1. PICK n \in Nat : DOMAIN D = 1 .. n
      BY <1>5
    <2>2. S \in [1 .. n -> MessagesOf(K)]
      BY <1>6, <1>7, <2>1
    <2>3. S \in Seq(MessagesOf(K))
      BY <2>2
    <2>4. ASSUME NEW i \in DOMAIN S, NEW j \in DOMAIN S, S[i].order = S[j].order
          PROVE  i = j
      <3>1. i \in DOMAIN D /\ j \in DOMAIN D
        BY <1>6
      <3>2. D[i].order = D[j].order
        BY <1>7, <2>4, <3>1
      <3>3. QED
        BY <1>5, <3>1, <3>2
    <2>5. QED
      BY <2>3, <2>4 DEF Announces
  <1>9. ASSUME NEW d \in ToSet(D)
        PROVE  \E e \in ToSet(S) : e.id = d.id
    <2>1. PICK i \in DOMAIN D : D[i] = d
      BY DEF ToSet
    <2>2. S[i] \in ToSet(S) /\ S[i].id = d.id
      BY <1>6, <1>7, <2>1 DEF ToSet
    <2>3. QED
      BY <2>2
  <1>10. QED
    BY <1>8, <1>9 DEF S, D, K

(* Parameter types are announced.                                          *)
LEMMA ParameterTypesAnnounced ==
    ASSUME BuildersInv
    PROVE  Announces(ParameterTypeEnvelopes, {"parameterType"})
  <1> DEFINE C == Collection("main", "parameterType")
             S == ParameterTypeEnvelopes
             K == {"parameterType"}
  <1>1. PICK n \in Nat : /\ DOMAIN C = 1 .. n
                         /\ \A k \in 1 .. n : /\ C[k] \in DOMAIN Configs("main")
                                              /\ Configs("main")[C[k]].kind = "parameterType"
                         /\ \A k, l \in 1 .. n : C[k] = C[l] => k = l
    <2>1. calls["main"] \in Seq(SupportCode)
      BY DEF BuildersInv, BuilderTypes, Threads
    <2>2. C = CollectionOf(calls["main"], "parameterType") /\ Configs("main") = ConfigsOf(calls["main"])
      BY OfItsCalls
    <2> HIDE DEF C
    <2>3. QED
      BY <2>1, <2>2, CollectionIsWhole
  <1>2. S = [i \in DOMAIN C |-> EnvelopeOf("parameterType", C[i], NewId("main", C[i]))]
    BY DEF ParameterTypeEnvelopes
  <1> HIDE DEF S, C
  <1>3. ASSUME NEW i \in 1 .. n
        PROVE  S[i] \in MessagesOf(K) /\ S[i].order = C[i]
    <2>1. S[i] = MessageOf(C[i])
      BY <1>1, <1>2 DEF MessageOf
    <2>2. S[i] \in MessagesOf(K)
      BY <1>1, <2>1 DEF MessagesOf
    <2>3. QED
      BY <1>1, <1>2, <2>2 DEF EnvelopeOf
  <1> HIDE DEF K
  <1>4. S \in [1 .. n -> MessagesOf(K)]
    BY <1>1, <1>2, <1>3
  <1>5. S \in Seq(MessagesOf(K))
    BY <1>4
  <1>6. ASSUME NEW i \in 1 .. n, NEW j \in 1 .. n, S[i].order = S[j].order
        PROVE  i = j
    BY <1>1, <1>3, <1>6
  <1>7. DOMAIN S = 1 .. n
    BY <1>4
  <1>8. QED
    BY <1>5, <1>6, <1>7 DEF Announces, S, K

AnnouncedKinds == {"parameterType", "step", "before", "after", "beforeAll", "afterAll"}

(* Together they announce every definition that gets into the library and  *)
(* is named by test cases.                                                 *)
LEMMA AllAnnounced ==
    ASSUME BuildersInv, status["main"] = "FINALIZED"
    PROVE  /\ Announces(Announced, AnnouncedKinds)
           /\ \A kind \in {"step"} \cup HookKinds : \A d \in ToSet(library["main"][kind]) :
                  \E e \in ToSet(Announced) : e.id = d.id
  <1> DEFINE p0 == ParameterTypeEnvelopes
             K0 == {"parameterType"}
             s1 == DefinitionEnvelopes("step")
             L1 == {"step"}
             p1 == p0 \o s1
             K1 == K0 \cup L1
             s2 == DefinitionEnvelopes("before")
             L2 == {"before"}
             p2 == p1 \o s2
             K2 == K1 \cup L2
             s3 == DefinitionEnvelopes("after")
             L3 == {"after"}
             p3 == p2 \o s3
             K3 == K2 \cup L3
             s4 == DefinitionEnvelopes("beforeAll")
             L4 == {"beforeAll"}
             p4 == p3 \o s4
             K4 == K3 \cup L4
             s5 == DefinitionEnvelopes("afterAll")
             L5 == {"afterAll"}
             p5 == p4 \o s5
             K5 == K4 \cup L5
  <1>1. Announces(p0, K0)
    BY ParameterTypesAnnounced
  <1>2. Announced = p5 /\ AnnouncedKinds = K5
    BY DEF Announced, AnnouncedKinds
  <1>3. Announces(s1, L1)
    BY DefinitionsAnnounced DEF HookKinds
  <1>4. Announces(s2, L2)
    BY DefinitionsAnnounced DEF HookKinds
  <1>5. Announces(s3, L3)
    BY DefinitionsAnnounced DEF HookKinds
  <1>6. Announces(s4, L4)
    BY DefinitionsAnnounced DEF HookKinds
  <1>7. Announces(s5, L5)
    BY DefinitionsAnnounced DEF HookKinds
  <1>8. Announces(p1, K1) /\ ToSet(p1) = ToSet(p0) \cup ToSet(s1)
    <2>1. K0 \cap L1 = {}
      OBVIOUS
    <2> HIDE DEF p0, K0, s1, L1
    <2>2. Joins(p0, K0, s1, L1)
      BY AnnouncesBoth
    <2>3. QED
      BY <1>1, <1>3, <2>1, <2>2 DEF Joins
  <1>9. Announces(p2, K2) /\ ToSet(p2) = ToSet(p1) \cup ToSet(s2)
    <2>1. K1 \cap L2 = {}
      OBVIOUS
    <2> HIDE DEF p1, K1, s2, L2
    <2>2. Joins(p1, K1, s2, L2)
      BY AnnouncesBoth
    <2>3. QED
      BY <1>8, <1>4, <2>1, <2>2 DEF Joins
  <1>10. Announces(p3, K3) /\ ToSet(p3) = ToSet(p2) \cup ToSet(s3)
    <2>1. K2 \cap L3 = {}
      OBVIOUS
    <2> HIDE DEF p2, K2, s3, L3
    <2>2. Joins(p2, K2, s3, L3)
      BY AnnouncesBoth
    <2>3. QED
      BY <1>9, <1>5, <2>1, <2>2 DEF Joins
  <1>11. Announces(p4, K4) /\ ToSet(p4) = ToSet(p3) \cup ToSet(s4)
    <2>1. K3 \cap L4 = {}
      OBVIOUS
    <2> HIDE DEF p3, K3, s4, L4
    <2>2. Joins(p3, K3, s4, L4)
      BY AnnouncesBoth
    <2>3. QED
      BY <1>10, <1>6, <2>1, <2>2 DEF Joins
  <1>12. Announces(p5, K5) /\ ToSet(p5) = ToSet(p4) \cup ToSet(s5)
    <2>1. K4 \cap L5 = {}
      OBVIOUS
    <2> HIDE DEF p4, K4, s5, L5
    <2>2. Joins(p4, K4, s5, L5)
      BY AnnouncesBoth
    <2>3. QED
      BY <1>11, <1>7, <2>1, <2>2 DEF Joins
  <1>13. Announces(Announced, AnnouncedKinds)
    BY <1>2, <1>12
  <1>14. ASSUME NEW kind \in {"step"} \cup HookKinds, NEW d \in ToSet(library["main"][kind])
          PROVE  \E e \in ToSet(Announced) : e.id = d.id
    <2>1. PICK e \in ToSet(DefinitionEnvelopes(kind)) : e.id = d.id
      BY DefinitionsAnnounced
    <2>2. DefinitionEnvelopes(kind) \in {s1, s2, s3, s4, s5}
      BY DEF HookKinds
    <2> HIDE DEF p0, s1, p1, s2, p2, s3, p3, s4, p4, s5, p5
    <2>3. ToSet(DefinitionEnvelopes(kind)) \subseteq ToSet(Announced)
      BY <1>2, <1>8, <1>9, <1>10, <1>11, <1>12, <2>2
    <2>4. QED
      BY <2>1, <2>3
  <1>15. QED
    BY <1>13, <1>14

(* The messages are those, in the order of the source.                     *)
LEMMA EnvelopesOrdered ==
    ASSUME BuildersInv, status["main"] = "FINALIZED"
    PROVE  /\ OrderedEnvelopes \in Seq(MessagesOf(AnnouncedKinds))
           /\ \A i, j \in DOMAIN OrderedEnvelopes :
                  i < j => OrderedEnvelopes[i].order < OrderedEnvelopes[j].order
           /\ ToSet(OrderedEnvelopes) = ToSet(Announced)
  <1> DEFINE M == MessagesOf(AnnouncedKinds)
             A == Announced
             S == OrderedEnvelopes
             n == Len(A)
             keys == [i \in DOMAIN A |-> A[i].order]
             at(k) == SortedPositions(keys)[k]
  <1>1. A \in Seq(M) /\ \A i, j \in DOMAIN A : A[i].order = A[j].order => i = j
    BY AllAnnounced DEF Announces
  <1>2. S = [k \in DOMAIN A |-> A[at(k)]]
    BY DEF OrderedEnvelopes, SortBy
  <1>3. \A message \in M : message.order \in Nat
    <2>1. DOMAIN Configs("main") = 1 .. Len(Configs("main"))
      <3>1. calls["main"] \in Seq(SupportCode)
        BY DEF BuildersInv, BuilderTypes, Threads
      <3>2. QED
        BY <3>1, ConfigsDefine, OfItsCalls
    <2>2. ASSUME NEW message \in M
          PROVE  message.order \in DOMAIN Configs("main")
      BY MessageIs
    <2> HIDE DEF M
    <2>3. QED
      BY <2>1, <2>2
  <1> HIDE DEF M, A, S
  <1>4. n \in Nat /\ DOMAIN A = 1 .. n /\ \A i \in 1 .. n : A[i] \in M
    BY <1>1
  <1>5. keys \in [1 .. n -> Nat] /\ \A i \in 1 .. n : keys[i] = A[i].order
    BY <1>3, <1>4
  <1> HIDE DEF keys, n
  <1>6. /\ \A k \in 1 .. n : at(k) \in 1 .. n
        /\ \A i \in 1 .. n : \E k \in 1 .. n : at(k) = i
        /\ \A k, l \in 1 .. n : k < l => Precedes(keys, at(k), at(l))
    BY <1>4, <1>5, SortingArranges
  <1> HIDE DEF at
  <1>7. DOMAIN S = 1 .. n /\ \A k \in 1 .. n : S[k] = A[at(k)]
    BY <1>2, <1>4
  <1>8. S \in Seq(M)
    <2>1. S \in [1 .. n -> M]
      BY <1>2, <1>4, <1>6
    <2>2. QED
      BY <1>4, <2>1
  <1>9. ASSUME NEW k \in 1 .. n, NEW l \in 1 .. n, k < l
        PROVE  S[k].order < S[l].order
    <2>1. at(k) \in 1 .. n /\ at(l) \in 1 .. n /\ Precedes(keys, at(k), at(l))
      BY <1>6, <1>9
    <2>2. keys[at(k)] = S[k].order /\ keys[at(l)] = S[l].order
      BY <1>5, <1>7, <2>1
    <2>3. CASE keys[at(k)] = keys[at(l)] /\ at(k) < at(l)
      <3>1. at(k) = at(l)
        BY <1>1, <1>4, <1>5, <2>1, <2>3
      <3>2. at(k) \in Int
        BY <1>4, <2>1
      <3>3. QED
        BY <2>3, <3>1, <3>2
    <2>4. QED
      BY <2>1, <2>2, <2>3 DEF Precedes
  <1>10. ToSet(S) = ToSet(A)
    <2>1. ASSUME NEW k \in 1 .. n
          PROVE  \E i \in 1 .. n : S[k] = A[i]
      BY <1>6, <1>7
    <2>2. ASSUME NEW i \in 1 .. n
          PROVE  \E k \in 1 .. n : S[k] = A[i]
      <3>1. PICK k \in 1 .. n : at(k) = i
        BY <1>6
      <3>2. QED
        BY <1>7, <3>1
    <2>3. ToSet(S) = {S[k] : k \in 1 .. n} /\ ToSet(A) = {A[i] : i \in 1 .. n}
      BY <1>4, <1>7 DEF ToSet
    <2>4. QED
      BY <2>1, <2>2, <2>3
  <1>11. QED
    BY <1>7, <1>8, <1>9, <1>10 DEF S, M, A

(* Steps with an expression that could not be built are told of, all of    *)
(* them and no others.                                                     *)
LEMMA UndefinedAreTold ==
    ASSUME BuildersInv
    PROVE  LET told == UndefinedParameterTypeEnvelopes
           IN /\ told \in Seq(ToSet(told))
              /\ \A i \in DOMAIN told :
                     /\ told[i].kind = "undefinedParameterType"
                     /\ told[i].order \in DOMAIN Configs("main")
                     /\ Configs("main")[told[i].order].kind = "step"
                     /\ HasUndefinedParameterType("main", told[i].order)
                     /\ told[i].sourceReference = SourceReference(told[i].order)
              /\ \A order \in ToSet(Collection("main", "step")) :
                     HasUndefinedParameterType("main", order) => \E i \in DOMAIN told : told[i].order = order
  <1> DEFINE C == Collection("main", "step")
             P == {i \in DOMAIN C : HasUndefinedParameterType("main", C[i])}
             told == UndefinedParameterTypeEnvelopes
             steps == Keep(C, P)
  <1>1. PICK n \in Nat : /\ DOMAIN C = 1 .. n
                         /\ \A k \in 1 .. n : /\ C[k] \in DOMAIN Configs("main")
                                              /\ Configs("main")[C[k]].kind = "step"
    <2>1. calls["main"] \in Seq(SupportCode)
      BY DEF BuildersInv, BuilderTypes, Threads
    <2>2. C = CollectionOf(calls["main"], "step") /\ Configs("main") = ConfigsOf(calls["main"])
      BY OfItsCalls
    <2> HIDE DEF C
    <2>3. QED
      BY <2>1, <2>2, CollectionIsWhole
  <1>2. told = [i \in DOMAIN steps |-> EnvelopeOf("undefinedParameterType", steps[i], Undefined)]
    BY DEF UndefinedParameterTypeEnvelopes
  <1>3. P \in SUBSET (1 .. n) /\ \A i \in P : i \in 1 .. n /\ HasUndefinedParameterType("main", C[i])
    BY <1>1
  <1>4. \A i \in 1 .. n : HasUndefinedParameterType("main", C[i]) => i \in P
    BY <1>1
  <1> HIDE DEF P, C, told
  <1>5. /\ Cardinality(P) \in Nat /\ DOMAIN InOrder(P) = 1 .. Cardinality(P)
        /\ \A k \in DOMAIN InOrder(P) : InOrder(P)[k] \in P
        /\ \A i \in P : \E k \in DOMAIN InOrder(P) : InOrder(P)[k] = i
    BY <1>3, InOrderIsOrdered
  <1>6. DOMAIN steps = 1 .. Cardinality(P) /\ \A k \in 1 .. Cardinality(P) : steps[k] = C[InOrder(P)[k]]
    BY <1>5 DEF Keep
  <1> HIDE DEF steps
  <1>7. /\ DOMAIN told = 1 .. Cardinality(P)
        /\ \A k \in 1 .. Cardinality(P) :
               told[k] = EnvelopeOf("undefinedParameterType", C[InOrder(P)[k]], Undefined)
    BY <1>2, <1>6
  <1>8. told \in Seq(ToSet(told))
    <2>1. told \in [1 .. Cardinality(P) -> ToSet(told)]
      BY <1>2, <1>7 DEF ToSet
    <2>2. QED
      BY <1>5, <2>1
  <1>9. ASSUME NEW k \in DOMAIN told
        PROVE  /\ told[k].kind = "undefinedParameterType"
               /\ told[k].order \in DOMAIN Configs("main")
               /\ Configs("main")[told[k].order].kind = "step"
               /\ HasUndefinedParameterType("main", told[k].order)
               /\ told[k].sourceReference = SourceReference(told[k].order)
    <2>1. InOrder(P)[k] \in P
      BY <1>5, <1>7
    <2>2. /\ told[k].order = C[InOrder(P)[k]] /\ told[k].kind = "undefinedParameterType"
          /\ told[k].sourceReference = SourceReference(C[InOrder(P)[k]])
      BY <1>7 DEF EnvelopeOf
    <2>3. QED
      BY <1>1, <1>3, <2>1, <2>2
  <1>10. ASSUME NEW order \in ToSet(C), HasUndefinedParameterType("main", order)
         PROVE  \E k \in DOMAIN told : told[k].order = order
    <2>1. PICK i \in 1 .. n : C[i] = order
      BY <1>1 DEF ToSet
    <2>2. PICK k \in 1 .. Cardinality(P) : InOrder(P)[k] = i
      BY <1>4, <1>5, <1>10, <2>1
    <2>3. QED
      BY <1>7, <2>1, <2>2 DEF EnvelopeOf
  <1>11. QED
    BY <1>8, <1>9, <1>10 DEF told, C

(* Every definition is called from a place that can be found.              *)
CallsAreLocated ==
    \A i \in DOMAIN calls["main"] :
        calls["main"][i].kind \notin Settings => IsLocated(calls["main"][i].stack)

(* The frame outside cucumber that is found first is one of the user, for  *)
(* whatever the support code does.                                         *)
CalledByUsers ==
    \A call \in SupportCode :
        call.kind \notin Settings /\ IsLocated(call.stack) =>
            LET index == DefinitionFrame(call.stack)
            IN index # 0 /\ call.stack[index].file = "user"

(* A place that is found is the line of the innermost frame of the user.   *)
LEMMA PlaceOfUser ==
    ASSUME NEW stack \in Seq(StackFrame),
           DefinitionFrame(stack) # 0, stack[DefinitionFrame(stack)].file = "user"
    PROVE  GetDefinitionLineAndUri(stack) =
               [uri |-> "user", line |-> stack[Min({i \in DOMAIN stack : stack[i].file = "user"})].line]
  <1> DEFINE index == DefinitionFrame(stack)
             outside == {i \in 1 .. Len(stack) : ~IsFrameInCucumber(stack[i])}
             users == {i \in DOMAIN stack : stack[i].file = "user"}
  <1>1. Len(stack) \in Nat /\ DOMAIN stack = 1 .. Len(stack)
    OBVIOUS
  <1>2. index = IF outside # {} THEN Min(outside) ELSE 0
    BY DEF DefinitionFrame, SelectInSeq
  <1>3. /\ outside \in SUBSET (1 .. Len(stack)) /\ users \in SUBSET (1 .. Len(stack))
        /\ users \subseteq outside
    BY <1>1 DEF IsFrameInCucumber
  <1>4. index # 0 /\ stack[index].file = "user" /\ (index \in DOMAIN stack => index \in users)
    OBVIOUS
  <1> HIDE DEF outside, users, index
  <1>5. index \in outside /\ \A i \in outside : index <= i
    <2>1. outside # {}
      BY <1>2, <1>4
    <2>2. Min(outside) \in outside /\ \A i \in outside : Min(outside) <= i
      BY <1>1, <1>3, <2>1, FirstAndLast
    <2>3. QED
      BY <1>2, <2>1, <2>2
  <1>6. index \in users
    BY <1>1, <1>3, <1>4, <1>5
  <1>7. Min(users) \in users /\ \A i \in users : Min(users) <= i
    BY <1>1, <1>3, <1>6, FirstAndLast
  <1>8. Min(users) = index
    <2>1. index <= Min(users) /\ Min(users) <= index
      BY <1>3, <1>5, <1>6, <1>7
    <2>2. \A i \in users : i \in Int
      BY <1>3
    <2>3. index \in Int /\ Min(users) \in Int
      BY <1>6, <1>7, <2>2
    <2>4. QED
      BY <2>1, <2>3
  <1>9. GetDefinitionLineAndUri(stack) = [uri |-> stack[index].file, line |-> stack[index].line]
    BY <1>4 DEF GetDefinitionLineAndUri, index
  <1>10. QED
    BY <1>4, <1>8, <1>9 DEF users

-----------------------------------------------------------------------------
(* What is sent, and what test cases name. *)

(* Once the main thread has its library nothing changes it.                *)
LEMMA MainIsFixed ==
    ASSUME BuildersInv, [Next]_vars, stage \notin {"load", "failed"}
    PROVE  UNCHANGED <<calls["main"], library["main"]>>
  <1>1. status["main"] = "FINALIZED"
    BY DEF BuildersInv, MainComesFirst
  <1>2. CASE LoadWorker
    <2>1. calls \in [Threads -> Seq(SupportCode)] /\ DOMAIN library = Threads
      BY DEF BuildersInv, BuilderTypes
    <2>2. QED
      BY <1>2, <2>1 DEF LoadWorker, Reset, Define, Set, Finalize, Threads
  <1>3. CASE SelectPickles \/ EmitSupportCodeMessages \/ AssembleTestCases \/ UNCHANGED vars
    BY <1>3 DEF SelectPickles, EmitSupportCodeMessages, AssembleTestCases, vars, supportVars
  <1>4. QED
    BY <1>2, <1>3 DEF Next, Done, Load

(* The messages are about that library.                                    *)
LEMMA MessagesAreFixed ==
    ASSUME UNCHANGED <<calls["main"], library["main"]>>
    PROVE  /\ OrderedEnvelopes' = OrderedEnvelopes
           /\ UndefinedParameterTypeEnvelopes' = UndefinedParameterTypeEnvelopes
  <1>1. Configs("main")' = Configs("main")
    BY DEF Configs
  <1>2. \A kind : Collection("main", kind)' = Collection("main", kind)
    BY <1>1 DEF Collection
  <1>3. \A kind, order, id : EnvelopeOf(kind, order, id)' = EnvelopeOf(kind, order, id)
    BY <1>1 DEF EnvelopeOf, SourceReference
  <1>4. ParameterTypeEnvelopes' = ParameterTypeEnvelopes
    BY <1>2, <1>3 DEF ParameterTypeEnvelopes
  <1>5. \A kind : DefinitionEnvelopes(kind)' = DefinitionEnvelopes(kind)
    BY <1>3 DEF DefinitionEnvelopes
  <1>6. Announced' = Announced
    BY <1>4, <1>5 DEF Announced
  <1>7. \A order : HasUndefinedParameterType("main", order)' <=> HasUndefinedParameterType("main", order)
    BY <1>1 DEF HasUndefinedParameterType
  <1>8. OrderedEnvelopes' = OrderedEnvelopes
    BY <1>6 DEF OrderedEnvelopes
  <1>9. UndefinedParameterTypeEnvelopes' = UndefinedParameterTypeEnvelopes
    BY <1>2, <1>3, <1>7 DEF UndefinedParameterTypeEnvelopes
  <1>10. QED
    BY <1>8, <1>9

(* The messages are sent once, before test cases are assembled.            *)
MessagesAreSent ==
    /\ stage \in {"setup", "run"} => envelopes = OrderedEnvelopes \o UndefinedParameterTypeEnvelopes
    /\ stage \notin {"setup", "run"} => envelopes = <<>>

(* No other step sends messages.                                           *)
LEMMA MessagesAreSentStep ==
    ASSUME BuildersInv, MessagesAreSent, [Next]_vars
    PROVE  MessagesAreSent'
  <1>1. CASE Load \/ SelectPickles
    BY <1>1 DEF Load, SelectPickles, MessagesAreSent
  <1>2. CASE EmitSupportCodeMessages
    <2>1. /\ envelopes' = OrderedEnvelopes \o UndefinedParameterTypeEnvelopes
          /\ stage = "emit" /\ stage' = "setup"
      BY <1>2 DEF EmitSupportCodeMessages
    <2>2. /\ OrderedEnvelopes' = OrderedEnvelopes
          /\ UndefinedParameterTypeEnvelopes' = UndefinedParameterTypeEnvelopes
      BY <2>1, MainIsFixed, MessagesAreFixed
    <2>3. QED
      BY <2>1, <2>2 DEF MessagesAreSent
  <1>3. CASE LoadWorker \/ AssembleTestCases
    <2>1. /\ envelopes' = envelopes
          /\ stage = "setup" /\ stage' \in {"setup", "run"}
      BY <1>3 DEF LoadWorker, AssembleTestCases
    <2>2. /\ OrderedEnvelopes' = OrderedEnvelopes
          /\ UndefinedParameterTypeEnvelopes' = UndefinedParameterTypeEnvelopes
      BY <2>1, MainIsFixed, MessagesAreFixed
    <2>3. QED
      BY <2>1, <2>2 DEF MessagesAreSent
  <1>4. CASE UNCHANGED vars
    <2>1. UNCHANGED <<calls["main"], library["main"]>> /\ UNCHANGED <<stage, envelopes>>
      BY <1>4 DEF vars, supportVars
    <2>2. /\ OrderedEnvelopes' = OrderedEnvelopes
          /\ UndefinedParameterTypeEnvelopes' = UndefinedParameterTypeEnvelopes
      BY <2>1, MessagesAreFixed
    <2>3. QED
      BY <2>1, <2>2 DEF MessagesAreSent
  <1>5. QED
    BY <1>1, <1>2, <1>3, <1>4 DEF Next, Done

(* A call is accepted where it can be located.                             *)
LEMMA CallsAreLocatedStep ==
    ASSUME BuildersInv, CallsAreLocated, [Next]_vars
    PROVE  CallsAreLocated'
  <1>0. BuilderTypes /\ MainComesFirst /\ "main" \in Threads
    BY DEF BuildersInv, Threads
  <1>1. CASE UNCHANGED supportVars
    BY <1>1 DEF supportVars, CallsAreLocated
  <1>2. ASSUME NEW t \in Threads, Reset(t)
        PROVE  CallsAreLocated'
    <2>1. calls'["main"] = calls["main"] \/ calls'["main"] = <<>>
      BY <1>0, <1>2 DEF Reset, BuilderTypes
    <2>2. QED
      BY <2>1 DEF CallsAreLocated
  <1>3. ASSUME NEW t \in Threads, NEW call \in SupportCode, Define(t, call) \/ Set(t, call)
        PROVE  CallsAreLocated'
    <2>1. call.kind \notin Settings => IsLocated(call.stack)
      BY <1>3 DEF Define, Set, Accepts
    <2>2. calls'["main"] = calls["main"] \/ calls'["main"] = Append(calls["main"], call)
      BY <1>0, <1>3 DEF Define, Set, BuilderTypes
    <2>3. calls["main"] \in Seq(SupportCode)
      BY <1>0 DEF BuilderTypes
    <2>4. \A i \in DOMAIN Append(calls["main"], call) :
              \/ i \in DOMAIN calls["main"] /\ Append(calls["main"], call)[i] = calls["main"][i]
              \/ Append(calls["main"], call)[i] = call
      BY <2>3
    <2>5. QED
      BY <2>1, <2>2, <2>4 DEF CallsAreLocated
  <1>4. ASSUME NEW t \in Threads, Finalize(t)
        PROVE  CallsAreLocated'
    BY <1>4 DEF Finalize, CallsAreLocated
  <1>5. QED
    BY <1>0, <1>1, <1>2, <1>3, <1>4, BuilderSteps

(* What is in a library of a kind is a list.                               *)
LEMMA LibraryIsOfLists ==
    ASSUME BuildersInv, status["main"] = "FINALIZED", NEW kind \in Kinds
    PROVE  library["main"][kind] \in Seq(ToSet(library["main"][kind]))
  <1> DEFINE made == calls["main"]
             D == library["main"][kind]
             B == BuildOf("main", made, settings["main"]["definitionFunctionWrapper"], kind, NoIds[kind])
  <1>1. IsBuilt("main", NoIds) /\ made \in Seq(SupportCode)
    BY DEF BuildersInv, LibrariesAreBuilt, BuilderTypes, Threads
  <1>2. D = B
    BY <1>1 DEF IsBuilt, LibraryOf
  <1>3. PICK n \in Nat : DOMAIN BuiltOf(made, kind) = 1 .. n
    BY <1>1, BuiltIsDefined
  <1>4. DOMAIN B = 1 .. n /\ B = [j \in 1 .. n |-> B[j]]
    BY <1>3 DEF BuildOf
  <1> HIDE DEF B, D
  <1>5. D \in [1 .. n -> ToSet(D)]
    BY <1>2, <1>4 DEF ToSet
  <1>6. D \in Seq(ToSet(D))
    BY <1>5
  <1>7. QED
    BY <1>6 DEF D

(* A definition of the main thread has this id.                            *)
IsKnown(id) ==
    \E kind \in {"step", "before", "after"} : \E d \in ToSet(library["main"][kind]) : d.id = id

(* A step of a test case has the ids of definitions.                       *)
NamesKnown(s) == \A id \in ToSet(s.ids) : IsKnown(id)

(* Hooks of a test case are hooks of the library.                          *)
LEMMA HookStepsAreKnown ==
    ASSUME BuildersInv, status["main"] = "FINALIZED", NEW kind \in {"before", "after"}, NEW pickle
    PROVE  /\ MakeHookSteps(kind, pickle) \in Seq(ToSet(MakeHookSteps(kind, pickle)))
           /\ \A s \in ToSet(MakeHookSteps(kind, pickle)) : NamesKnown(s)
  <1> DEFINE D == library["main"][kind]
             P == {i \in DOMAIN D : AppliesToTestCase(D[i], pickle)}
             hooks == Keep(D, P)
             steps == MakeHookSteps(kind, pickle)
  <1>1. D \in Seq(ToSet(D))
    BY LibraryIsOfLists DEF Kinds, HookKinds
  <1>2. steps = [i \in DOMAIN hooks |-> [type |-> "hook", ids |-> <<hooks[i].id>>]]
    BY DEF MakeHookSteps
  <1>3. P \in SUBSET (1 .. Len(D)) /\ Len(D) \in Nat
    BY <1>1
  <1> HIDE DEF P, steps
  <1>4. hooks \in Seq(ToSet(D)) /\ DOMAIN hooks = 1 .. Len(hooks) /\ Len(hooks) \in Nat
    <2> DEFINE M == ToSet(D)
    <2> HIDE DEF M, D
    <2>1. hooks \in Seq(M)
      BY <1>1, <1>3, KeepIsPart DEF M
    <2> HIDE DEF hooks
    <2>2. QED
      BY <2>1 DEF M
  <1>5. ASSUME NEW i \in DOMAIN hooks
        PROVE  NamesKnown(steps[i])
    <2>1. hooks[i] \in ToSet(D)
      <3> HIDE DEF hooks, D
      <3>1. QED
        BY <1>4
    <2>2. IsKnown(hooks[i].id)
      BY <2>1 DEF IsKnown
    <2> HIDE DEF hooks
    <2>3. steps[i].ids = <<hooks[i].id>>
      BY <1>2
    <2>4. QED
      BY <2>2, <2>3 DEF NamesKnown, ToSet
  <1> HIDE DEF hooks
  <1>6. steps \in [1 .. Len(hooks) -> ToSet(steps)]
    BY <1>2, <1>4 DEF ToSet
  <1>7. steps \in Seq(ToSet(steps))
    BY <1>4, <1>6
  <1>8. \A s \in ToSet(steps) : NamesKnown(s)
    BY <1>2, <1>5 DEF ToSet
  <1>9. QED
    BY <1>7, <1>8 DEF steps

(* Steps of a test case have step definitions of the library.              *)
LEMMA StepsAreKnown ==
    ASSUME BuildersInv, status["main"] = "FINALIZED",
           NEW pickle, pickle.steps \in Seq(ToSet(pickle.steps))
    PROVE  /\ MakeSteps(pickle) \in Seq(ToSet(MakeSteps(pickle)))
           /\ \A s \in ToSet(MakeSteps(pickle)) : NamesKnown(s)
  <1> DEFINE D == library["main"]["step"]
             P(i) == {j \in DOMAIN D : MatchesStepName(D[j], pickle.steps[i])}
             found(i) == Keep(D, P(i))
             steps == MakeSteps(pickle)
             n == Len(pickle.steps)
  <1>1. D \in Seq(ToSet(D))
    BY LibraryIsOfLists DEF Kinds
  <1>2. n \in Nat /\ DOMAIN pickle.steps = 1 .. n
    OBVIOUS
  <1>3. steps = [i \in 1 .. n |-> [type |-> "step", ids |-> IdsOf(found(i))]]
    BY <1>2 DEF MakeSteps
  <1> HIDE DEF steps, n
  <1>4. ASSUME NEW i \in 1 .. n
        PROVE  NamesKnown(steps[i])
    <2> DEFINE Q == P(i)
               kept == Keep(D, Q)
               M == ToSet(D)
    <2>1. Q \in SUBSET (1 .. Len(D)) /\ Len(D) \in Nat
      BY <1>1
    <2>2. steps[i].ids = IdsOf(kept)
      BY <1>3
    <2> HIDE DEF Q
    <2>3. kept \in Seq(M)
      <3> HIDE DEF M, D
      <3>1. QED
        BY <1>1, <2>1, KeepIsPart DEF M
    <2> HIDE DEF kept
    <2>4. \A k \in DOMAIN kept : kept[k] \in M
      <3> HIDE DEF M
      <3>1. QED
        BY <2>3
    <2>5. \A d \in M : IsKnown(d.id)
      BY DEF IsKnown
    <2>6. \A id \in ToSet(IdsOf(kept)) : \E k \in DOMAIN kept : id = kept[k].id
      BY DEF ToSet, IdsOf
    <2> HIDE DEF M
    <2>7. QED
      BY <2>2, <2>4, <2>5, <2>6 DEF NamesKnown
  <1>5. steps \in [1 .. n -> ToSet(steps)]
    BY <1>3 DEF ToSet
  <1>6. steps \in Seq(ToSet(steps))
    BY <1>2, <1>5
  <1>7. \A s \in ToSet(steps) : NamesKnown(s)
    BY <1>3, <1>4 DEF ToSet
  <1>8. QED
    BY <1>6, <1>7 DEF steps

(* And so do all of a test case.                                           *)
LEMMA TestStepsAreKnown ==
    ASSUME BuildersInv, status["main"] = "FINALIZED",
           NEW pickle, pickle.steps \in Seq(ToSet(pickle.steps))
    PROVE  \A s \in ToSet(TestStepsOf(pickle)) : NamesKnown(s)
  <1> DEFINE a == MakeHookSteps("before", pickle)
             b == MakeSteps(pickle)
             h == MakeHookSteps("after", pickle)
             S == ToSet(a) \cup ToSet(b) \cup ToSet(h)
             all == a \o b \o Reverse(h)
  <1>1. a \in Seq(ToSet(a)) /\ h \in Seq(ToSet(h)) /\ b \in Seq(ToSet(b))
    BY HookStepsAreKnown, StepsAreKnown
  <1>2. \A s \in S : NamesKnown(s)
    BY HookStepsAreKnown, StepsAreKnown
  <1>3. TestStepsOf(pickle) = all
    BY DEF TestStepsOf
  <1>4. ToSet(a) \subseteq S /\ ToSet(b) \subseteq S /\ ToSet(h) \subseteq S
    OBVIOUS
  <1> HIDE DEF a, b, h, S
  <1>5. a \in Seq(S) /\ b \in Seq(S) /\ h \in Seq(S)
    BY <1>1, <1>4
  <1>6. Reverse(h) \in Seq(S)
    <2>1. Len(h) \in Nat /\ \A i \in 1 .. Len(h) : Len(h) - i + 1 \in 1 .. Len(h)
      BY <1>5
    <2>2. Reverse(h) \in [1 .. Len(h) -> S]
      BY <1>5, <2>1 DEF Reverse
    <2>3. QED
      BY <2>1, <2>2
  <1>7. all \in Seq(S)
    BY <1>5, <1>6
  <1> HIDE DEF all
  <1>8. ToSet(all) \subseteq S
    BY <1>7 DEF ToSet
  <1>9. QED
    BY <1>2, <1>3, <1>8

(* What a shard executes is a list of pickles.                             *)
LEMMA PlansAreOfPickles ==
    ASSUME PlansAreSelected, stage \in {"emit", "setup", "run"}
    PROVE  plans[1] \in Seq(ToSet(Pickles))
  <1> DEFINE F == FilterPickles(filter, Pickles)
  <1>1. PICK total \in 1 .. MaxShards, order \in {"defined", "reverse", "random"} :
            \A index \in 1 .. total : plans[index] \in Select(filter, order, index, total, Pickles)
    BY DEF PlansAreSelected
  <1>2. total \in Nat \ {0} /\ 1 \in 1 .. total
    BY TestPlanAssumption
  <1>3. F \in Seq(ToSet(Pickles)) /\ \A i, j \in 1 .. Len(F) : F[i] = F[j] => i = j
    BY FilteringKeeps
  <1> DEFINE shard == ShardPickles(1, total, F)
  <1>4. plans[1] \in OrderPickles(order, shard)
    BY <1>1, <1>2 DEF Select
  <1> HIDE DEF F
  <1>5. shard \in Seq(ToSet(Pickles)) /\ \A k, l \in 1 .. Len(shard) : shard[k] = shard[l] => k = l
    BY <1>2, <1>3, ShardIsPart
  <1> HIDE DEF shard
  <1>6. QED
    BY SMTT(30), <1>4, <1>5, OrderingKeeps

(* The ids in test cases are those of definitions in the library.          *)
TestCasesNameDefinitions ==
    /\ stage # "run" => testCases = <<>>
    /\ \A c \in ToSet(testCases) : \A s \in ToSet(c.testSteps) : NamesKnown(s)

(* Test cases are assembled from the library there is, and left alone.     *)
LEMMA TestCasesNameDefinitionsStep ==
    ASSUME BuildersInv, PlansAreSelected, TestCasesNameDefinitions, [Next]_vars
    PROVE  TestCasesNameDefinitions'
  <1>1. CASE AssembleTestCases
    <2> DEFINE caseOf(i) == [pickle |-> plans[1][i], testSteps |-> TestStepsOf(plans[1][i])]
    <2>1. stage = "setup" /\ stage' = "run" /\ testCases' = [i \in DOMAIN plans[1] |-> caseOf(i)]
      BY <1>1 DEF AssembleTestCases
    <2>2. plans[1] \in Seq(ToSet(Pickles)) /\ status["main"] = "FINALIZED"
      BY <2>1, PlansAreOfPickles DEF BuildersInv, MainComesFirst
    <2>3. ASSUME NEW i \in DOMAIN plans[1], NEW s \in ToSet(TestStepsOf(plans[1][i]))
          PROVE  NamesKnown(s)
      <3> DEFINE pickle == plans[1][i]
      <3>1. pickle \in ToSet(Pickles)
        BY <2>2
      <3> HIDE DEF pickle
      <3>2. pickle.steps \in Seq(ToSet(pickle.steps))
        BY <3>1, TestPlanAssumption
      <3>3. \A step \in ToSet(TestStepsOf(pickle)) : NamesKnown(step)
        BY <2>2, <3>2, TestStepsAreKnown
      <3>4. QED
        BY <3>3 DEF pickle
    <2>4. \A s : NamesKnown(s)' <=> NamesKnown(s)
      BY <2>1, MainIsFixed DEF NamesKnown, IsKnown
    <2>5. ASSUME NEW c \in ToSet(testCases')
          PROVE  \E i \in DOMAIN plans[1] : c.testSteps = TestStepsOf(plans[1][i])
      <3> HIDE DEF caseOf
      <3>1. PICK i \in DOMAIN plans[1] : c = caseOf(i)
        BY <2>1 DEF ToSet
      <3>2. QED
        BY <3>1 DEF caseOf
    <2>6. ASSUME NEW c \in ToSet(testCases'), NEW s \in ToSet(c.testSteps)
          PROVE  NamesKnown(s)'
      BY <2>3, <2>4, <2>5
    <2>7. QED
      BY <2>1, <2>6 DEF TestCasesNameDefinitions
  <1>2. CASE Load \/ SelectPickles \/ EmitSupportCodeMessages \/ LoadWorker
    <2>1. stage # "run" /\ stage' # "run" /\ testCases' = testCases
      BY <1>2 DEF Load, SelectPickles, EmitSupportCodeMessages, LoadWorker
    <2>2. testCases' = <<>>
      BY <2>1 DEF TestCasesNameDefinitions
    <2>3. QED
      BY <2>1, <2>2 DEF TestCasesNameDefinitions, ToSet
  <1>3. CASE UNCHANGED vars
    BY <1>3 DEF vars, supportVars, TestCasesNameDefinitions, NamesKnown, IsKnown
  <1>4. QED
    BY <1>1, <1>2, <1>3 DEF Next, Done

-----------------------------------------------------------------------------
(* What is named is announced. *)

(* A message is one of a definition or of one that could not be built.     *)
LEMMA EnvelopesAre ==
    ASSUME BuildersInv, MessagesAreSent, stage \in {"setup", "run"}
    PROVE  LET O == OrderedEnvelopes
               U == UndefinedParameterTypeEnvelopes
           IN /\ Len(O) \in Nat /\ DOMAIN O = 1 .. Len(O)
              /\ \A i \in DOMAIN O : O[i] \in MessagesOf(AnnouncedKinds)
              /\ \E n \in Nat : DOMAIN envelopes = 1 .. n
              /\ \A i \in DOMAIN envelopes :
                     \/ i \in DOMAIN O /\ envelopes[i] = O[i]
                     \/ i - Len(O) \in DOMAIN U /\ envelopes[i] = U[i - Len(O)]
              /\ \A i \in DOMAIN O : i \in DOMAIN envelopes /\ envelopes[i] = O[i]
              /\ \A i \in DOMAIN U : Len(O) + i \in DOMAIN envelopes /\ envelopes[Len(O) + i] = U[i]
  <1> DEFINE O == OrderedEnvelopes
             U == UndefinedParameterTypeEnvelopes
             M == MessagesOf(AnnouncedKinds)
             R == ToSet(U)
  <1>1. O \in Seq(M) /\ U \in Seq(R)
    <2>1. status["main"] = "FINALIZED"
      BY DEF BuildersInv, MainComesFirst
    <2>2. QED
      BY <2>1, EnvelopesOrdered, UndefinedAreTold
  <1>2. envelopes = O \o U
    BY DEF MessagesAreSent
  <1> HIDE DEF O, U, M, R
  <1>3. /\ Len(O) \in Nat /\ DOMAIN O = 1 .. Len(O) /\ \A i \in DOMAIN O : O[i] \in M
        /\ Len(U) \in Nat /\ DOMAIN U = 1 .. Len(U)
    BY <1>1
  <1>4. /\ DOMAIN envelopes = 1 .. Len(O) + Len(U)
        /\ \A i \in 1 .. Len(O) : envelopes[i] = O[i]
        /\ \A i \in 1 .. Len(U) : envelopes[Len(O) + i] = U[i]
    BY <1>1, <1>2
  <1>5. Len(O) + Len(U) \in Nat
    BY <1>3
  <1>6. ASSUME NEW i \in DOMAIN envelopes
        PROVE  \/ i \in DOMAIN O /\ envelopes[i] = O[i]
               \/ i - Len(O) \in DOMAIN U /\ envelopes[i] = U[i - Len(O)]
    <2>1. CASE i <= Len(O)
      BY <1>3, <1>4, <2>1
    <2>2. CASE i > Len(O)
      <3>1. i - Len(O) \in 1 .. Len(U) /\ Len(O) + (i - Len(O)) = i
        BY <1>3, <1>4, <2>2
      <3>2. QED
        BY <1>3, <1>4, <3>1
    <2>3. QED
      BY <1>3, <1>4, <2>1, <2>2
  <1>7. \A i \in DOMAIN O : i \in DOMAIN envelopes /\ envelopes[i] = O[i]
    BY <1>3, <1>4
  <1>8. \A i \in DOMAIN U : Len(O) + i \in DOMAIN envelopes /\ envelopes[Len(O) + i] = U[i]
    BY <1>3, <1>4
  <1>9. QED
    BY <1>3, <1>4, <1>5, <1>6, <1>7, <1>8 DEF O, U, M

(* The messages of definitions come in the order of the source, and first. *)
LEMMA EnvelopesInOrder ==
    ASSUME BuildersInv, MessagesAreSent,
           NEW i \in DOMAIN envelopes, NEW j \in DOMAIN envelopes,
           i < j, envelopes[j].kind # "undefinedParameterType"
    PROVE  envelopes[i].order < envelopes[j].order /\ envelopes[i].id # Undefined
  <1> DEFINE O == OrderedEnvelopes
             U == UndefinedParameterTypeEnvelopes
  <1>1. stage \in {"setup", "run"}
    BY DEF MessagesAreSent
  <1>2. status["main"] = "FINALIZED"
    BY <1>1 DEF BuildersInv, MainComesFirst
  <1>3. /\ Len(O) \in Nat /\ DOMAIN O = 1 .. Len(O)
        /\ \A k \in DOMAIN O : O[k] \in MessagesOf(AnnouncedKinds)
        /\ \E n \in Nat : DOMAIN envelopes = 1 .. n
        /\ \A k \in DOMAIN envelopes :
               \/ k \in DOMAIN O /\ envelopes[k] = O[k]
               \/ k - Len(O) \in DOMAIN U /\ envelopes[k] = U[k - Len(O)]
    BY <1>1, EnvelopesAre
  <1>4. \A k, l \in DOMAIN O : k < l => O[k].order < O[l].order
    BY <1>2, EnvelopesOrdered
  <1>5. \A k \in DOMAIN U : U[k].kind = "undefinedParameterType"
    BY UndefinedAreTold
  <1> HIDE DEF O, U
  <1>6. j \in DOMAIN O /\ envelopes[j] = O[j]
    BY <1>3, <1>5
  <1>7. i \in DOMAIN O /\ envelopes[i] = O[i]
    <2>1. i \in 1 .. Len(O)
      BY <1>3, <1>6
    <2>2. CASE i - Len(O) \in DOMAIN U /\ envelopes[i] = U[i - Len(O)]
      <3>1. DOMAIN U \subseteq Nat \ {0}
        <4>1. U \in Seq(ToSet(U))
          BY UndefinedAreTold DEF U
        <4>2. QED
          BY <4>1
      <3>2. QED
        BY <1>3, <2>1, <2>2, <3>1
    <2>3. QED
      BY <1>3, <2>2
  <1>8. envelopes[i].id # Undefined
    <2>1. envelopes[i].id = NewId("main", envelopes[i].order)
      BY <1>3, <1>7, MessageIs
    <2>2. QED
      BY <2>1 DEF NewId, Undefined
  <1>9. QED
    BY <1>4, <1>6, <1>7, <1>8

(* What has been defined can be located.                                   *)
LEMMA DefinitionsAreLocated ==
    ASSUME BuildersInv, CallsAreLocated, NEW order \in DOMAIN Configs("main")
    PROVE  LET config == Configs("main")[order]
           IN /\ config \in SupportCode /\ config.kind \notin Settings
              /\ IsLocated(config.stack) /\ config.stack \in Seq(StackFrame)
  <1> DEFINE made == calls["main"]
             P == {i \in DOMAIN made : made[i].kind \notin Settings}
             config == Configs("main")[order]
  <1>1. made \in Seq(SupportCode)
    BY DEF BuildersInv, BuilderTypes, Threads
  <1>2. Configs("main") = Keep(made, P)
    BY DEF Configs
  <1>3. P \in SUBSET (1 .. Len(made)) /\ Len(made) \in Nat
    BY <1>1
  <1>4. \A i \in P : i \in DOMAIN made /\ made[i].kind \notin Settings
    OBVIOUS
  <1> HIDE DEF P
  <1>5. \A k \in DOMAIN InOrder(P) : InOrder(P)[k] \in P
    BY <1>3, InOrderIsOrdered
  <1>6. order \in DOMAIN InOrder(P) /\ config = made[InOrder(P)[order]]
    BY <1>1, <1>2, <1>3, KeepIsPart
  <1>7. PICK i \in DOMAIN made : config = made[i] /\ made[i].kind \notin Settings
    BY <1>4, <1>5, <1>6
  <1>8. config \in SupportCode /\ config.kind \notin Settings /\ IsLocated(config.stack)
    BY <1>1, <1>7 DEF CallsAreLocated
  <1> HIDE DEF config
  <1>9. config.stack \in Seq(StackFrame)
    BY <1>8, SupportCodeAssumption
  <1>10. QED
    BY <1>8, <1>9 DEF config

(* A message leads to the line of the user's code.                         *)
LEMMA EnvelopesLeadToUsers ==
    ASSUME BuildersInv, MessagesAreSent, CallsAreLocated, CalledByUsers, NEW e \in ToSet(envelopes)
    PROVE  LET stack == Configs("main")[e.order].stack
               users == {i \in DOMAIN stack : stack[i].file = "user"}
           IN e.sourceReference = [uri |-> "user", line |-> stack[Min(users)].line]
  <1> DEFINE O == OrderedEnvelopes
             U == UndefinedParameterTypeEnvelopes
             config == Configs("main")[e.order]
             stack == config.stack
             index == DefinitionFrame(stack)
  <1>1. stage \in {"setup", "run"}
    BY DEF MessagesAreSent, ToSet
  <1>2. PICK k \in DOMAIN envelopes : e = envelopes[k]
    BY DEF ToSet
  <1>3. e \in MessagesOf(AnnouncedKinds) \/ \E i \in DOMAIN U : e = U[i]
    BY <1>1, <1>2, EnvelopesAre
  <1>4. e.order \in DOMAIN Configs("main") /\ e.sourceReference = SourceReference(e.order)
    <2>1. CASE e \in MessagesOf(AnnouncedKinds)
      BY <2>1, MessageIs
    <2>2. CASE \E i \in DOMAIN U : e = U[i]
      BY <2>2, UndefinedAreTold
    <2>3. QED
      BY <1>3, <2>1, <2>2
  <1>5. /\ config \in SupportCode /\ config.kind \notin Settings
        /\ IsLocated(stack) /\ stack \in Seq(StackFrame)
    BY <1>4, DefinitionsAreLocated
  <1>6. e.sourceReference = GetDefinitionLineAndUri(stack)
    BY <1>4 DEF SourceReference
  <1> HIDE DEF config
  <1>7. index # 0 /\ stack[index].file = "user"
    BY <1>5 DEF CalledByUsers
  <1> HIDE DEF stack, index
  <1>8. GetDefinitionLineAndUri(stack) =
            [uri |-> "user", line |-> stack[Min({i \in DOMAIN stack : stack[i].file = "user"})].line]
    BY <1>5, <1>7, PlaceOfUser DEF index
  <1>9. QED
    BY <1>6, <1>8 DEF stack, config

(* A step that has been defined is in the library, or needs a parameter    *)
(* type that has not been.                                                 *)
LEMMA BuiltOrUndefined ==
    ASSUME BuildersInv, status["main"] = "FINALIZED", NEW order \in ToSet(Collection("main", "step"))
    PROVE  /\ Configs("main")[order].kind = "step"
           /\ order \in {d.order : d \in ToSet(library["main"]["step"])}
                  <=> ~HasUndefinedParameterType("main", order)
  <1> DEFINE made == calls["main"]
             C == CollectionOf(made, "step")
             B == BuiltOf(made, "step")
             D == library["main"]["step"]
  <1>1. made \in Seq(SupportCode) /\ IsBuilt("main", NoIds)
    BY DEF BuildersInv, BuilderTypes, LibrariesAreBuilt, Threads
  <1>2. /\ Collection("main", "step") = C /\ Configs("main") = ConfigsOf(made)
        /\ HasUndefinedParameterType("main", order) <=> UndefinedIn(made, order)
    BY OfItsCalls
  <1>3. PICK k \in DOMAIN C : C[k] = order
    BY <1>2 DEF ToSet
  <1>4. ConfigsOf(made)[C[k]].kind = "step"
    BY <1>1, <1>3, CollectionIsWhole
  <1>5. DOMAIN D = DOMAIN B /\ \A j \in DOMAIN B : D[j].order = OrderAt(made, "step", j)
    BY <1>1, DefinitionsAre DEF Threads, Kinds
  <1>6. /\ \A j \in DOMAIN B : ~UndefinedIn(made, OrderAt(made, "step", j))
        /\ ~UndefinedIn(made, C[k]) => \E j \in DOMAIN B : OrderAt(made, "step", j) = C[k]
    BY <1>1, <1>3, BuiltIsDefined
  <1> HIDE DEF B, C, D, made
  <1>7. order \in {d.order : d \in ToSet(D)} <=> \E j \in DOMAIN D : D[j].order = order
    BY DEF ToSet
  <1>8. (\E j \in DOMAIN D : D[j].order = order) <=> ~UndefinedIn(made, order)
    BY <1>3, <1>5, <1>6
  <1>9. QED
    BY <1>2, <1>3, <1>4, <1>7, <1>8 DEF D

(* The summary names just the parameter types that are missing, with a     *)
(* step that needs them.                                                   *)
LEMMA MissingAreNamed ==
    ASSUME BuildersInv, MessagesAreSent, stage \in {"setup", "run"}
    PROVE  LET named == FormatUndefinedParameterTypes
               defined == {d.order : d \in ToSet(library["main"]["step"])}
           IN /\ \A order \in ToSet(Collection("main", "step")) :
                     order \in defined <=> Configs("main")[order].type \notin DOMAIN named
              /\ \A name \in DOMAIN named : Configs("main")[named[name]].type = name
  <1> DEFINE O == OrderedEnvelopes
             U == UndefinedParameterTypeEnvelopes
             told == {i \in DOMAIN envelopes : envelopes[i].kind = "undefinedParameterType"}
             nameAt(i) == Configs("main")[envelopes[i].order].type
             places(name) == {i \in told : nameAt(i) = name}
             named == FormatUndefinedParameterTypes
             defined == {d.order : d \in ToSet(library["main"]["step"])}
  <1>1. status["main"] = "FINALIZED"
    BY DEF BuildersInv, MainComesFirst
  <1>2. named = [name \in {nameAt(i) : i \in told} |-> envelopes[Max(places(name))].order]
    BY DEF FormatUndefinedParameterTypes
  <1>3. PICK n \in Nat : DOMAIN envelopes = 1 .. n
    BY EnvelopesAre
  <1>4. \A i \in told : HasUndefinedParameterType("main", envelopes[i].order)
    <2>1. ASSUME NEW i \in told
          PROVE  HasUndefinedParameterType("main", envelopes[i].order)
      <3>1. CASE i - Len(O) \in DOMAIN U /\ envelopes[i] = U[i - Len(O)]
        BY <3>1, UndefinedAreTold
      <3>2. CASE i \in DOMAIN O /\ envelopes[i] = O[i]
        <4>1. envelopes[i].kind \in AnnouncedKinds
          BY <3>2, EnvelopesAre, MessageIs
        <4>2. QED
          BY <4>1 DEF AnnouncedKinds
      <3>3. QED
        BY <3>1, <3>2, EnvelopesAre
    <2>2. QED
      BY <2>1
  <1>5. \A i \in told : i \in 1 .. n
    BY <1>3
  <1>6. ASSUME NEW order \in ToSet(Collection("main", "step")), HasUndefinedParameterType("main", order)
        PROVE  \E i \in told : envelopes[i].order = order
    <2>1. PICK i \in DOMAIN U : U[i].order = order /\ U[i].kind = "undefinedParameterType"
      BY <1>6, UndefinedAreTold
    <2>2. Len(O) + i \in DOMAIN envelopes /\ envelopes[Len(O) + i] = U[i]
      BY EnvelopesAre
    <2>3. QED
      BY <2>1, <2>2
  <1> HIDE DEF told
  <1>7. ASSUME NEW order \in ToSet(Collection("main", "step"))
        PROVE  order \in defined <=> Configs("main")[order].type \notin DOMAIN named
    <2>1. /\ Configs("main")[order].kind = "step"
          /\ order \in defined <=> ~HasUndefinedParameterType("main", order)
      BY <1>1, BuiltOrUndefined
    <2>2. ASSUME HasUndefinedParameterType("main", order)
          PROVE  Configs("main")[order].type \in DOMAIN named
      BY <1>2, <1>6, <2>2
    <2>3. ASSUME Configs("main")[order].type \in DOMAIN named
          PROVE  HasUndefinedParameterType("main", order)
      <3>1. PICK i \in told : nameAt(i) = Configs("main")[order].type
        BY <1>2, <2>3
      <3>2. QED
        BY <1>4, <2>1, <3>1 DEF HasUndefinedParameterType
    <2> HIDE DEF defined, named
    <2>4. QED
      BY <2>1, <2>2, <2>3
  <1>8. ASSUME NEW name \in DOMAIN named
        PROVE  Configs("main")[named[name]].type = name
    <2> DEFINE P == places(name)
    <2>1. PICK i \in told : nameAt(i) = name
      BY <1>2
    <2>2. P # {} /\ P \in SUBSET (1 .. n) /\ \A k \in P : nameAt(k) = name
      BY <1>5, <2>1
    <2>3. named[name] = envelopes[Max(P)].order
      BY <1>2
    <2> HIDE DEF P
    <2>4. Max(P) \in P
      BY <2>2, FirstAndLast
    <2>5. nameAt(Max(P)) = name
      BY <2>2, <2>4
    <2>6. QED
      BY <2>3, <2>5
  <1>9. QED
    BY <1>7, <1>8 DEF named, defined

(* The ids in test cases come from messages.                               *)
LEMMA IdsAreAnnounced ==
    ASSUME BuildersInv, MessagesAreSent, TestCasesNameDefinitions,
           NEW c \in ToSet(testCases), NEW s \in ToSet(c.testSteps), NEW id \in ToSet(s.ids)
    PROVE  \E e \in ToSet(envelopes) : e.id = id
  <1>1. stage = "run"
    BY DEF TestCasesNameDefinitions, ToSet
  <1>2. status["main"] = "FINALIZED"
    BY <1>1 DEF BuildersInv, MainComesFirst
  <1>3. IsKnown(id)
    BY DEF TestCasesNameDefinitions, NamesKnown
  <1>4. PICK kind \in {"step"} \cup HookKinds : \E d \in ToSet(library["main"][kind]) : d.id = id
    BY <1>3 DEF IsKnown, HookKinds
  <1>5. PICK e \in ToSet(Announced) : e.id = id
    BY <1>2, <1>4, AllAnnounced
  <1>6. e \in ToSet(OrderedEnvelopes)
    BY <1>2, EnvelopesOrdered
  <1>7. PICK i \in DOMAIN OrderedEnvelopes : e = OrderedEnvelopes[i]
    BY <1>6 DEF ToSet
  <1>8. i \in DOMAIN envelopes /\ envelopes[i] = e
    BY <1>1, <1>7, EnvelopesAre
  <1>9. QED
    BY <1>5, <1>8 DEF ToSet

(* emit_support_code_messages.ts, assemble_test_cases.ts: whatever the     *)
(* support code defines, as long as it calls cucumber from files of the    *)
(* user, every id in a test case is that of a message sent before, the     *)
(* messages come in the order of the source and lead to the user's lines,  *)
(* and a step that got no definition is for a parameter type the summary   *)
(* names.                                                                  *)
THEOREM NamesAreAnnounced == CalledByUsers => (Spec => []NamesWhatWasAnnounced)
  <1> DEFINE Inv == CallsAreLocated /\ MessagesAreSent /\ TestCasesNameDefinitions
  <1> SUFFICES ASSUME CalledByUsers PROVE Spec => []NamesWhatWasAnnounced
    OBVIOUS
  <1>1. Init => Inv
    <2> SUFFICES ASSUME Init
                 PROVE  Inv
      OBVIOUS
    <2>1. calls["main"] = <<>> /\ stage = "load" /\ envelopes = <<>> /\ testCases = <<>>
      BY DEF Init, SupportInit, Threads
    <2>2. QED
      BY <2>1 DEF CallsAreLocated, MessagesAreSent, TestCasesNameDefinitions, ToSet
  <1>2. Inv /\ BuildersInv /\ PlansAreSelected /\ [Next]_vars => Inv'
    BY CallsAreLocatedStep, MessagesAreSentStep, TestCasesNameDefinitionsStep
  <1>3. Inv /\ BuildersInv => NamesWhatWasAnnounced
    <2> SUFFICES ASSUME Inv, BuildersInv
                 PROVE  NamesWhatWasAnnounced
      OBVIOUS
    <2>1. \A i, j \in DOMAIN envelopes :
              i < j /\ envelopes[j].kind # "undefinedParameterType"
                  => envelopes[i].order < envelopes[j].order /\ envelopes[i].id # Undefined
      BY EnvelopesInOrder
    <2>2. \A e \in ToSet(envelopes) :
              LET stack == Configs("main")[e.order].stack
                  users == {i \in DOMAIN stack : stack[i].file = "user"}
              IN e.sourceReference = [uri |-> "user", line |-> stack[Min(users)].line]
      BY EnvelopesLeadToUsers
    <2>3. stage \in {"setup", "run"} =>
              LET named == FormatUndefinedParameterTypes
                  defined == {d.order : d \in ToSet(library["main"]["step"])}
              IN /\ \A order \in ToSet(Collection("main", "step")) :
                        order \in defined <=> Configs("main")[order].type \notin DOMAIN named
                 /\ \A name \in DOMAIN named : Configs("main")[named[name]].type = name
      BY MissingAreNamed
    <2>4. \A c \in ToSet(testCases) : \A s \in ToSet(c.testSteps) : \A id \in ToSet(s.ids) :
              \E e \in ToSet(envelopes) : e.id = id
      BY IdsAreAnnounced
    <2>5. QED
      BY <2>1, <2>2, <2>3, <2>4 DEF NamesWhatWasAnnounced
  <1>4. Init => PlansAreSelected
    BY DEF Init, PlansAreSelected
  <1>5. PlansAreSelected /\ [Next]_vars => PlansAreSelected'
    BY PlansAreSelectedStep
  <1> HIDE DEF Inv
  <1>6. Spec => []Inv
    BY <1>1, <1>2, <1>4, <1>5, Invariance, PTL DEF Spec
  <1>7. QED
    BY <1>3, <1>6, Invariance, PTL
=============================================================================
