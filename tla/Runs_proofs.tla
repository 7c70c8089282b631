------------------------------ MODULE Runs_proofs ------------------------------
(***************************************************************************)
(* What is proved of Configuration and RunLifecycle, that is of all a run  *)
(* is but for its test cases: what it is started with, for any command     *)
(* line, files and pickles, and how the API goes about it, with any        *)
(* plugins and formatters.                                                 *)
(***************************************************************************)
EXTENDS Configuration, RunLifecycle, Subsequences_proofs, TLAPS

-----------------------------------------------------------------------------
(* Sequences. *)

(* Two sequences joined.                                                   *)
LEMMA Joined ==
    ASSUME NEW a, NEW b, IsSequence(a), IsSequence(b)
    PROVE  /\ IsSequence(a \o b) /\ DOMAIN (a \o b) = 1 .. Len(a) + Len(b)
           /\ Len(a) \in Nat /\ Len(b) \in Nat /\ Len(a \o b) = Len(a) + Len(b)
           /\ DOMAIN a = 1 .. Len(a) /\ DOMAIN b = 1 .. Len(b)
           /\ \A i \in 1 .. Len(a) : (a \o b)[i] = a[i]
           /\ \A i \in 1 .. Len(b) : (a \o b)[Len(a) + i] = b[i]
           /\ ToSet(a \o b) = ToSet(a) \cup ToSet(b)
           /\ a \o b = <<>> <=> a = <<>> /\ b = <<>>
  <1> DEFINE S == ToSet(a) \cup ToSet(b)
  <1>1. a \in Seq(S) /\ b \in Seq(S)
    <2>1. a \in Seq(ToSet(a)) /\ b \in Seq(ToSet(b)) /\ ToSet(a) \subseteq S /\ ToSet(b) \subseteq S
      BY DEF IsSequence
    <2> HIDE DEF S
    <2>2. QED
      BY <2>1
  <1> HIDE DEF S
  <1>2. ToSet(a \o b) = ToSet(a) \cup ToSet(b)
    BY <1>1, SetOfBoth
  <1>3. a \o b \in Seq(S)
    BY <1>1
  <1>4. IsSequence(a \o b)
    BY <1>2, <1>3 DEF IsSequence, S
  <1>5. QED
    BY <1>1, <1>2, <1>4

(* The sequences everything starts from.                                   *)
LEMMA EmptyIsSequence == IsSequence(<<>>)
  BY DEF IsSequence, ToSet

LEMMA SingleIsSequence ==
    ASSUME NEW x
    PROVE  IsSequence(<<x>>) /\ ToSet(<<x>>) = {x} /\ Len(<<x>>) = 1 /\ <<x>>[1] = x
  BY DEF IsSequence, ToSet

(* A flattened sequence is what is put together from nothing on.           *)
LEMMA FlattenedFromNothing ==
    ASSUME NEW s, NEW N \in Nat, DOMAIN s = 1 .. N, Len(s) = N, \A i \in 1 .. N : IsSequence(s[i])
    PROVE  \E g : /\ g[0] = <<>> /\ \A i \in 1 .. N : g[i] = g[i - 1] \o s[i]
                  /\ \A i \in 0 .. N : IsSequence(g[i])
                  /\ FlattenSeq(s) = g[N]
  <1> DEFINE S == UNION {ToSet(s[i]) : i \in 1 .. N}
  <1>1. \A i \in 1 .. N : s[i] \in Seq(S)
    <2> SUFFICES ASSUME NEW i \in 1 .. N PROVE s[i] \in Seq(S)
      OBVIOUS
    <2>1. s[i] \in Seq(ToSet(s[i])) /\ ToSet(s[i]) \subseteq S
      BY DEF IsSequence
    <2> HIDE DEF S
    <2>2. QED
      BY <2>1
  <1> HIDE DEF S
  <1>2. CASE N = 0
    <2>1. FlattenSeq(s) = <<>>
      <3>1. s = <<>>
        BY <1>2
      <3>2. QED
        BY <3>1 DEF FlattenSeq
    <2> DEFINE g == [i \in 0 .. N |-> <<>>]
    <2>2. g[0] = <<>> /\ g[N] = <<>> /\ \A i \in 0 .. N : g[i] = <<>>
      BY <1>2
    <2> HIDE DEF g
    <2>3. QED
      BY <1>2, <2>1, <2>2, EmptyIsSequence
  <1>3. CASE N # 0
    <2>1. PICK f : /\ DOMAIN f = 1 .. N /\ FlattenSeq(s) = f[N]
                   /\ f[1] = s[1] /\ \A i \in 2 .. N : f[i] = f[i - 1] \o s[i]
                   /\ \A i \in 1 .. N : f[i] \in Seq(S)
      BY <1>1, <1>3, FlattenedStepwise
    <2> DEFINE g == [i \in 0 .. N |-> IF i = 0 THEN <<>> ELSE f[i]]
    <2>2. g[0] = <<>> /\ \A i \in 1 .. N : g[i] = f[i]
      OBVIOUS
    <2> HIDE DEF g
    <2>3. ASSUME NEW i \in 1 .. N
          PROVE  g[i] = g[i - 1] \o s[i]
      <3>1. CASE i = 1
        <4>1. \A x \in Seq(S) : <<>> \o x = x
          OBVIOUS
        <4>2. <<>> \o s[1] = s[1]
          BY <1>1, <3>1, <4>1
        <4>3. g[i] = s[1] /\ g[i - 1] = <<>>
          BY <2>1, <2>2, <3>1
        <4>4. QED
          BY <3>1, <4>2, <4>3
      <3>2. CASE i # 1
        <4>1. i - 1 \in 1 .. N /\ i \in 2 .. N
          BY <3>2
        <4>2. QED
          BY <2>1, <2>2, <4>1
      <3>3. QED
        BY <3>1, <3>2
    <2>4. ASSUME NEW i \in 0 .. N
          PROVE  IsSequence(g[i])
      <3>1. CASE i = 0
        BY <2>2, <3>1, EmptyIsSequence
      <3>2. CASE i # 0
        <4>1. f[i] \in Seq(S) /\ g[i] = f[i]
          BY <2>1, <2>2, <3>2
        <4>2. QED
          BY <4>1 DEF IsSequence, ToSet
      <3>3. QED
        BY <3>1, <3>2
    <2>5. FlattenSeq(s) = g[N]
      BY <1>3, <2>1, <2>2
    <2>6. QED
      BY <2>2, <2>3, <2>4, <2>5
  <1>4. QED
    BY <1>2, <1>3

-----------------------------------------------------------------------------
(* What is computed layer by layer and argument by argument. *)

(* Layers are merged one after the other.                                  *)
LEMMA MergedStepwise ==
    ASSUME NEW source, NEW layers, NEW N \in Nat, Len(layers) = N
    PROVE  \E m : /\ m[0] = source /\ \A i \in 1 .. N : m[i] = MergeLayer(m[i - 1], layers[i])
                  /\ MergeConfigurations(source, layers) = m[N]
  <1> DEFINE Of(m, n) == m = [i \in 0 .. n |-> IF i = 0 THEN source ELSE MergeLayer(m[i - 1], layers[i])]
             Lacking == {n \in 0 .. N : ~\E m : Of(m, n)}
  <1>1. Lacking = {}
    <2>1. SUFFICES ASSUME Lacking # {} PROVE FALSE
      OBVIOUS
    <2>2. PICK n \in Lacking : \A k \in Lacking : n <= k
      <3>1. Lacking \in SUBSET Nat
        OBVIOUS
      <3> HIDE DEF Lacking
      <3>2. QED
        BY <2>1, <3>1, LeastOfNaturals
    <2>20. ~\E m : Of(m, n)
      BY <2>2
    <2>3. n # 0
      <3>1. \E m : Of(m, 0)
        <4>1. PICK m : m = [i \in 0 .. 0 |-> source]
          OBVIOUS
        <4>2. Of(m, 0)
          BY <4>1
        <4> HIDE DEF Of
        <4>3. QED
          BY <4>2
      <3> HIDE DEF Of, Lacking
      <3>2. QED
        BY <2>20, <3>1
    <2>4. n - 1 \in 0 .. N /\ n - 1 \notin Lacking /\ n \in 1 .. N
      <3>1. n \in 0 .. N
        OBVIOUS
      <3> HIDE DEF Lacking
      <3>2. QED
        BY <2>2, <2>3, <3>1
    <2>5. PICK m : Of(m, n - 1)
      BY <2>4
    <2> DEFINE h == [i \in 0 .. n |-> IF i = n THEN MergeLayer(m[n - 1], layers[n]) ELSE m[i]]
    <2>6. ASSUME NEW i \in 0 .. n
          PROVE  h[i] = IF i = 0 THEN source ELSE MergeLayer(h[i - 1], layers[i])
      <3>0. \A k \in 0 .. n - 1 : h[k] = m[k] /\ m[k] = IF k = 0 THEN source ELSE MergeLayer(m[k - 1], layers[k])
        BY <2>4, <2>5
      <3>1. CASE i = n
        <4>1. h[n] = MergeLayer(m[n - 1], layers[n]) /\ h[n - 1] = m[n - 1]
          BY <2>4
        <4>2. QED
          BY <2>3, <3>1, <4>1
      <3>2. CASE i # n
        <4>1. i \in 0 .. n - 1 /\ (i # 0 => i - 1 \in 0 .. n - 1)
          BY <2>4, <3>2
        <4> HIDE DEF h
        <4>2. QED
          BY <3>0, <4>1
      <3>3. QED
        BY <3>1, <3>2
    <2>7. h = [i \in 0 .. n |-> h[i]]
      OBVIOUS
    <2> HIDE DEF h
    <2>8. Of(h, n)
      BY <2>6, <2>7
    <2> HIDE DEF Of, Lacking
    <2>9. QED
      BY <2>20, <2>8
  <1>2. \E m : Of(m, N)
    <2>1. N \in 0 .. N
      OBVIOUS
    <2>2. N \notin Lacking
      BY <1>1
    <2> HIDE DEF Of
    <2>3. QED
      BY <2>1, <2>2
  <1>3. MergeConfigurations(source, layers) = (CHOOSE m : Of(m, N))[N]
    BY DEF MergeConfigurations
  <1>4. PICK m : Of(m, N) /\ MergeConfigurations(source, layers) = m[N]
    <2> HIDE DEF Of
    <2>1. QED
      BY <1>2, <1>3
  <1>5. \A i \in 0 .. N : m[i] = IF i = 0 THEN source ELSE MergeLayer(m[i - 1], layers[i])
    BY <1>4
  <1> HIDE DEF Of
  <1>6. QED
    BY <1>4, <1>5
(* The options that are parsed, those that say where others are among them. *)
Parsed(args) ==
    LET upTo[n \in 0 .. Len(args)] == IF n = 0 THEN Nothing ELSE ParseArgument(upTo[n - 1], args[n])
    IN upTo[Len(args)]

(* Arguments are taken one after the other.                                *)
LEMMA ParsedStepwise ==
    ASSUME NEW args, NEW N \in Nat, Len(args) = N
    PROVE  \E p : /\ p[0] = Nothing /\ \A i \in 1 .. N : p[i] = ParseArgument(p[i - 1], args[i])
                  /\ Parsed(args) = p[N]
  <1> DEFINE Of(p, n) == p = [i \in 0 .. n |-> IF i = 0 THEN Nothing ELSE ParseArgument(p[i - 1], args[i])]
             Lacking == {n \in 0 .. N : ~\E p : Of(p, n)}
  <1>1. Lacking = {}
    <2>1. SUFFICES ASSUME Lacking # {} PROVE FALSE
      OBVIOUS
    <2>2. PICK n \in Lacking : \A k \in Lacking : n <= k
      <3>1. Lacking \in SUBSET Nat
        OBVIOUS
      <3> HIDE DEF Lacking
      <3>2. QED
        BY <2>1, <3>1, LeastOfNaturals
    <2>20. ~\E p : Of(p, n)
      BY <2>2
    <2>3. n # 0
      <3>1. \E p : Of(p, 0)
        <4>1. PICK p : p = [i \in 0 .. 0 |-> Nothing]
          OBVIOUS
        <4>2. Of(p, 0)
          BY <4>1
        <4> HIDE DEF Of
        <4>3. QED
          BY <4>2
      <3> HIDE DEF Of, Lacking
      <3>2. QED
        BY <2>20, <3>1
    <2>4. n - 1 \in 0 .. N /\ n - 1 \notin Lacking /\ n \in 1 .. N
      <3>1. n \in 0 .. N
        OBVIOUS
      <3> HIDE DEF Lacking
      <3>2. QED
        BY <2>2, <2>3, <3>1
    <2>5. PICK p : Of(p, n - 1)
      BY <2>4
    <2> DEFINE h == [i \in 0 .. n |-> IF i = n THEN ParseArgument(p[n - 1], args[n]) ELSE p[i]]
    <2>6. ASSUME NEW i \in 0 .. n
          PROVE  h[i] = IF i = 0 THEN Nothing ELSE ParseArgument(h[i - 1], args[i])
      <3>0. \A k \in 0 .. n - 1 : h[k] = p[k] /\ p[k] = IF k = 0 THEN Nothing ELSE ParseArgument(p[k - 1], args[k])
        BY <2>4, <2>5
      <3>1. CASE i = n
        <4>1. h[n] = ParseArgument(p[n - 1], args[n]) /\ h[n - 1] = p[n - 1]
          BY <2>4
        <4>2. QED
          BY <2>3, <3>1, <4>1
      <3>2. CASE i # n
        <4>1. i \in 0 .. n - 1 /\ (i # 0 => i - 1 \in 0 .. n - 1)
          BY <2>4, <3>2
        <4> HIDE DEF h
        <4>2. QED
          BY <3>0, <4>1
      <3>3. QED
        BY <3>1, <3>2
    <2>7. h = [i \in 0 .. n |-> h[i]]
      OBVIOUS
    <2> HIDE DEF h
    <2>8. Of(h, n)
      BY <2>6, <2>7
    <2> HIDE DEF Of, Lacking
    <2>9. QED
      BY <2>20, <2>8
  <1>2. \E p : Of(p, N)
    <2>1. N \in 0 .. N
      OBVIOUS
    <2>2. N \notin Lacking
      BY <1>1
    <2> HIDE DEF Of
    <2>3. QED
      BY <2>1, <2>2
  <1>3. Parsed(args) = (CHOOSE p : Of(p, N))[N]
    BY DEF Parsed
  <1>4. PICK p : Of(p, N) /\ Parsed(args) = p[N]
    <2> HIDE DEF Of
    <2>1. QED
      BY <1>2, <1>3
  <1>5. \A i \in 0 .. N : p[i] = IF i = 0 THEN Nothing ELSE ParseArgument(p[i - 1], args[i])
    BY <1>4
  <1> HIDE DEF Of
  <1>6. QED
    BY <1>4, <1>5

-----------------------------------------------------------------------------
(* What a configuration says of an option, compared with all that is given *)
(* of the option in the layers or arguments that made it.                  *)

Scalars == Flags \cup Counts \cup {"language", "order", "shard"}

(* Everything, one after the other.                                        *)
SaysAll(config, key, given) ==
    IF key \in DOMAIN config THEN config[key] = given ELSE given = <<>>

(* The last.                                                               *)
SaysLast(config, key, given) ==
    /\ key \in DOMAIN config <=> given # <<>>
    /\ given # <<>> => config[key] = given[Len(given)]

(* Each path as the last object that has it says, or all that have it do,  *)
(* if they agree on what it leads through.                                 *)
KeysIn(given) == UNION {DOMAIN object : object \in ToSet(given)}

IsLastFor(given, key, value) ==
    \E i \in DOMAIN given : /\ key \in DOMAIN given[i] /\ value = given[i][key]
                            /\ \A j \in DOMAIN given : j > i => key \notin DOMAIN given[j]

AllSay(given, key, value) == \A i \in DOMAIN given : key \in DOMAIN given[i] => given[i][key] = value

AgreedIn(given, path) ==
    \A above \in Above(path) : \A i, j \in DOMAIN given :
        above \in DOMAIN given[i] /\ above \in DOMAIN given[j] => given[i][above] = given[j][above]

Ordinary(path) == Last(path) \notin AdditiveArrays \cup TagExpressions

Decides(given, path, node) ==
    AllSay(given, path, node) \/ (IsLastFor(given, path, node) /\ node # Object)

AreObjects(given) == \A i \in DOMAIN given : IsObject(given[i])

MergedFrom(tree, given) ==
    /\ \A path : AgreedIn(given, path) => (path \in DOMAIN tree <=> path \in KeysIn(given))
    /\ \A path \in KeysIn(given) : \A node :
           Ordinary(path) /\ AgreedIn(given, path) /\ Decides(given, path, node) => tree[path] = node

SaysKeys(config, key, given) ==
    IF key \notin DOMAIN config THEN given = <<>> ELSE AreObjects(given) /\ MergedFrom(config[key], given)

(* What two merged configurations have under a key.                        *)
LEMMA MergedValue ==
    ASSUME NEW c1, NEW c2
    PROVE  /\ DOMAIN MergeLayer(c1, c2) = DOMAIN c1 \cup DOMAIN c2
           /\ \A key \in DOMAIN c1 \cup DOMAIN c2 :
                  MergeLayer(c1, c2)[key] =
                      IF key \notin DOMAIN c2 THEN c1[key]
                      ELSE IF key \notin DOMAIN c1 THEN c2[key]
                      ELSE MergeValue(key, c1[key], c2[key])
  BY DEF MergeLayer, MergeBy

(* What a configuration has after one more argument.                       *)
LEMMA ParsedArgument ==
    ASSUME NEW c, NEW arg
    PROVE  /\ DOMAIN ParseArgument(c, arg) = DOMAIN c \cup {arg.option}
           /\ \A key \in DOMAIN c : key # arg.option => ParseArgument(c, arg)[key] = c[key]
           /\ arg.option \in AdditiveArrays \cup {"plugin", "profile"} =>
                  ParseArgument(c, arg)[arg.option] =
                      Append(IF arg.option \in DOMAIN c THEN c[arg.option] ELSE <<>>, arg.value)
           /\ arg.option \in TagExpressions =>
                  ParseArgument(c, arg)[arg.option] =
                      MergeTags(IF arg.option \in DOMAIN c THEN c[arg.option] ELSE <<>>, arg.value)
           /\ arg.option \in Objects =>
                  ParseArgument(c, arg)[arg.option] =
                      MergeJson(IF arg.option \in DOMAIN c THEN c[arg.option] ELSE Nothing, arg.value)
           /\ arg.option \in Scalars => ParseArgument(c, arg)[arg.option] = arg.value
  <1>1. /\ arg.option \in TagExpressions =>
               arg.option \notin Objects \cup AdditiveArrays \cup {"plugin", "profile"}
        /\ arg.option \in Objects => arg.option \notin AdditiveArrays \cup {"plugin", "profile"} \cup TagExpressions
        /\ arg.option \in Scalars =>
               arg.option \notin AdditiveArrays \cup {"plugin", "profile"} \cup TagExpressions \cup Objects
    BY DEF TagExpressions, Objects, AdditiveArrays, Scalars, Flags, Counts
  <1>2. QED
    BY <1>1 DEF ParseArgument, Collect

(* Last of a sequence that is joined to another.                           *)
LEMMA LastJoined ==
    ASSUME NEW a, NEW b, IsSequence(a), IsSequence(b)
    PROVE  /\ b = <<>> => a \o b = a
           /\ a = <<>> => a \o b = b
           /\ b # <<>> => Len(a \o b) \in 1 .. Len(a \o b) /\ (a \o b)[Len(a \o b)] = b[Len(b)]
  <1>1. \A s \in Seq(ToSet(a)) : s \o <<>> = s
    OBVIOUS
  <1>2. \A s \in Seq(ToSet(b)) : <<>> \o s = s
    OBVIOUS
  <1>3. ASSUME b # <<>>
        PROVE  Len(a \o b) \in 1 .. Len(a \o b) /\ (a \o b)[Len(a \o b)] = b[Len(b)]
    <2>1. Len(b) \in 1 .. Len(b)
      BY <1>3 DEF IsSequence
    <2>2. QED
      BY <2>1, Joined
  <1>4. QED
    BY <1>1, <1>2, <1>3 DEF IsSequence

(* What two lists of objects say, of what they say together.               *)
LEMMA ObjectsJoined ==
    ASSUME NEW a, NEW b, IsSequence(a), IsSequence(b), NEW k
    PROVE  /\ KeysIn(a \o b) = KeysIn(a) \cup KeysIn(b)
           /\ \A v : IsLastFor(a \o b, k, v) =>
                         IF k \in KeysIn(b) THEN IsLastFor(b, k, v) ELSE IsLastFor(a, k, v)
           /\ \A v : AllSay(a \o b, k, v) => AllSay(a, k, v) /\ AllSay(b, k, v)
           /\ AgreedIn(a \o b, k) => AgreedIn(a, k) /\ AgreedIn(b, k)
           /\ AreObjects(a) /\ AreObjects(b) => AreObjects(a \o b)
  <1> DEFINE m == Len(a)
             n == Len(b)
             c == a \o b
  <1>1. /\ m \in Nat /\ n \in Nat /\ DOMAIN a = 1 .. m /\ DOMAIN b = 1 .. n /\ DOMAIN c = 1 .. m + n
        /\ \A i \in 1 .. m : c[i] = a[i]
        /\ \A i \in 1 .. n : c[m + i] = b[i]
    BY Joined
  <1>2. KeysIn(c) = KeysIn(a) \cup KeysIn(b)
    BY Joined DEF KeysIn
  <1> HIDE DEF m, n, c
  <1>3. \A i \in DOMAIN a : i \in DOMAIN c /\ c[i] = a[i]
    BY <1>1
  <1>4. \A i \in DOMAIN b : m + i \in DOMAIN c /\ c[m + i] = b[i]
    BY <1>1
  <1>5. ASSUME NEW i \in DOMAIN c, i \notin DOMAIN a
        PROVE  i - m \in DOMAIN b /\ c[i] = b[i - m] /\ i > m
    <2>1. i - m \in 1 .. n /\ m + (i - m) = i /\ i > m
      BY <1>1, <1>5
    <2>2. QED
      BY <1>1, <2>1
  <1>6. ASSUME NEW v, IsLastFor(c, k, v), k \in KeysIn(b)
        PROVE  IsLastFor(b, k, v)
    <2>1. PICK i \in DOMAIN c : /\ k \in DOMAIN c[i] /\ v = c[i][k]
                                /\ \A j \in DOMAIN c : j > i => k \notin DOMAIN c[j]
      BY <1>6 DEF IsLastFor
    <2>2. PICK h \in DOMAIN b : k \in DOMAIN b[h]
      BY <1>6 DEF KeysIn, ToSet
    <2>3. ~(m + h > i)
      BY <1>4, <2>1, <2>2
    <2>4. i \notin DOMAIN a
      BY <1>1, <2>2, <2>3
    <2>5. i - m \in DOMAIN b /\ c[i] = b[i - m]
      BY <1>5, <2>1, <2>4
    <2>6. ASSUME NEW j \in DOMAIN b, j > i - m
          PROVE  k \notin DOMAIN b[j]
      <3>1. m + j > i
        BY <1>1, <2>1, <2>6
      <3>2. QED
        BY <1>4, <2>1, <3>1
    <2>7. QED
      BY <2>1, <2>5, <2>6 DEF IsLastFor
  <1>7. ASSUME NEW v, IsLastFor(c, k, v), k \notin KeysIn(b)
        PROVE  IsLastFor(a, k, v)
    <2>1. PICK i \in DOMAIN c : /\ k \in DOMAIN c[i] /\ v = c[i][k]
                                /\ \A j \in DOMAIN c : j > i => k \notin DOMAIN c[j]
      BY <1>7 DEF IsLastFor
    <2>2. i \in DOMAIN a
      <3>1. \A j \in DOMAIN b : k \notin DOMAIN b[j]
        BY <1>7 DEF KeysIn, ToSet
      <3>2. QED
        BY <1>5, <2>1, <3>1
    <2>3. QED
      BY <1>3, <2>1, <2>2 DEF IsLastFor
  <1>8. ASSUME NEW v, AllSay(c, k, v)
        PROVE  AllSay(a, k, v) /\ AllSay(b, k, v)
    BY <1>3, <1>4, <1>8 DEF AllSay
  <1>9. ASSUME AgreedIn(c, k)
        PROVE  AgreedIn(a, k) /\ AgreedIn(b, k)
    BY <1>3, <1>4, <1>9 DEF AgreedIn
  <1>10. ASSUME AreObjects(a), AreObjects(b)
         PROVE  AreObjects(c)
    BY <1>3, <1>5, <1>10 DEF AreObjects
  <1>11. QED
    BY <1>2, <1>6, <1>7, <1>8, <1>9, <1>10 DEF c

(* What a path leads through leads through less.                           *)
LEMMA AboveAbove ==
    ASSUME NEW path \in Seq(STRING), NEW above \in Above(path)
    PROVE  above \in Seq(STRING) /\ above # <<>> /\ Above(above) \subseteq Above(path)
  <1>1. PICK n \in 1 .. Len(path) - 1 : above = SubSeq(path, 1, n)
    BY DEF Above
  <1>2. /\ above \in Seq(STRING) /\ Len(above) = n
        /\ \A i \in 1 .. n : above[i] = path[i]
    BY <1>1
  <1>3. ASSUME NEW k \in 1 .. Len(above) - 1
        PROVE  SubSeq(above, 1, k) = SubSeq(path, 1, k) /\ k \in 1 .. Len(path) - 1
    <2>1. k \in 1 .. n - 1
      BY <1>2, <1>3
    <2>2. SubSeq(above, 1, k) = [i \in 1 .. k |-> above[i]]
      BY <1>2, <2>1
    <2>3. SubSeq(path, 1, k) = [i \in 1 .. k |-> path[i]]
      BY <1>1, <2>1
    <2>4. \A i \in 1 .. k : above[i] = path[i]
      BY <1>1, <1>2, <2>1
    <2>5. QED
      BY <1>1, <2>1, <2>2, <2>3, <2>4
  <1>4. QED
    BY <1>1, <1>2, <1>3 DEF Above

(* A leaf or an object of its own is merged from itself.                   *)
LEMMA MergedFromItself ==
    ASSUME NEW tree
    PROVE  MergedFrom(tree, <<tree>>) /\ KeysIn(<<tree>>) = DOMAIN tree
  <1> DEFINE given == <<tree>>
  <1>1. DOMAIN given = {1} /\ given[1] = tree /\ ToSet(given) = {tree}
    BY SingleIsSequence
  <1> HIDE DEF given
  <1>2. KeysIn(given) = DOMAIN tree
    BY <1>1 DEF KeysIn
  <1>3. ASSUME NEW path \in KeysIn(given), NEW node, Decides(given, path, node)
        PROVE  tree[path] = node
    BY <1>1, <1>2, <1>3 DEF Decides, AllSay, IsLastFor
  <1>4. QED
    BY <1>2, <1>3 DEF MergedFrom, given

(* Two objects merged in depth, whatever is made of other paths.           *)
MergedInDepth(tree, old, new) ==
    /\ DOMAIN tree = {path \in DOMAIN old : Keeps(old, new, path)} \cup DOMAIN new
    /\ \A path \in DOMAIN tree :
           /\ path \notin DOMAIN new => tree[path] = old[path]
           /\ path \in DOMAIN new /\ (path \notin DOMAIN old \/ ~Keeps(old, new, path)) =>
                  tree[path] = new[path]
           /\ path \in DOMAIN new /\ path \in DOMAIN old /\ Keeps(old, new, path) /\ Ordinary(path) =>
                  tree[path] = MergeNodes(Last(path), old[path], new[path])

LEMMA TreesAreMergedInDepth ==
    ASSUME NEW old, NEW new
    PROVE  /\ MergedInDepth(MergeTrees(NodeCustomizer, old, new), old, new)
           /\ MergedInDepth(MergeTrees(MergeNodes, old, new), old, new)
  <1>1. \A path : Ordinary(path) =>
            NodeCustomizer(Last(path), old[path], new[path]) = MergeNodes(Last(path), old[path], new[path])
    BY DEF Ordinary, NodeCustomizer
  <1>2. MergedInDepth(MergeTrees(NodeCustomizer, old, new), old, new)
    BY <1>1 DEF MergedInDepth, MergeTrees
  <1>3. MergedInDepth(MergeTrees(MergeNodes, old, new), old, new)
    BY DEF MergedInDepth, MergeTrees
  <1>4. QED
    BY <1>2, <1>3

(* So they are merged from what both of them are merged from.  What is in  *)
(* the old one is kept: where it is, the new one has what it has.          *)
LEMMA TreesMerged ==
    ASSUME NEW old, NEW new, NEW tree, NEW g1, NEW g2, IsSequence(g1), IsSequence(g2),
           AreObjects(g1), AreObjects(g2), MergedFrom(old, g1), MergedFrom(new, g2),
           MergedInDepth(tree, old, new)
    PROVE  AreObjects(g1 \o g2) /\ MergedFrom(tree, g1 \o g2)
  <1> DEFINE g == g1 \o g2
  <1>0. AreObjects(g) /\ KeysIn(g) = KeysIn(g1) \cup KeysIn(g2)
    BY ObjectsJoined
  <1>1. ASSUME NEW path
        PROVE  /\ \A v : IsLastFor(g, path, v) =>
                          IF path \in KeysIn(g2) THEN IsLastFor(g2, path, v) ELSE IsLastFor(g1, path, v)
               /\ \A v : AllSay(g, path, v) => AllSay(g1, path, v) /\ AllSay(g2, path, v)
               /\ AgreedIn(g, path) => AgreedIn(g1, path) /\ AgreedIn(g2, path)
               /\ AgreedIn(g, path) => (path \in DOMAIN old <=> path \in KeysIn(g1))
               /\ AgreedIn(g, path) => (path \in DOMAIN new <=> path \in KeysIn(g2))
    <2>1. /\ \A v : IsLastFor(g, path, v) =>
                        IF path \in KeysIn(g2) THEN IsLastFor(g2, path, v) ELSE IsLastFor(g1, path, v)
          /\ \A v : AllSay(g, path, v) => AllSay(g1, path, v) /\ AllSay(g2, path, v)
          /\ AgreedIn(g, path) => AgreedIn(g1, path) /\ AgreedIn(g2, path)
      BY ObjectsJoined
    <2> HIDE DEF g
    <2>2. QED
      BY <2>1 DEF MergedFrom
  <1> HIDE DEF g
  <1>2. ASSUME NEW path \in KeysIn(g1), AgreedIn(g, path)
        PROVE  Keeps(old, new, path)
    <2> SUFFICES ASSUME NEW above \in Above(path), above \in DOMAIN new
                 PROVE  new[above] = old[above]
      BY DEF Keeps
    <2>1. PICK i \in DOMAIN g1 : path \in DOMAIN g1[i]
      BY DEF KeysIn, ToSet
    <2>2. /\ path \in Seq(STRING) /\ above \in DOMAIN g1[i] /\ g1[i][above] \in {Object, Array}
          /\ IsObject(g1[i])
      BY <2>1 DEF AreObjects, IsObject, IsTree
    <2> DEFINE node == g1[i][above]
    <2>3. Ordinary(above)
      <3>1. node.is \in {"object", "array"}
        BY <2>2 DEF Object, Array
      <3>2. node.is \in IF Last(above) \in AdditiveArrays THEN {"scalar", "list"}
                        ELSE IF Last(above) \in TagExpressions THEN {"scalar"} ELSE {"object", "array", "scalar"}
        BY <2>2 DEF IsObject
      <3> HIDE DEF node
      <3>3. QED
        BY <3>1, <3>2 DEF Ordinary
    <2>4. AgreedIn(g, above)
      <3>1. Above(above) \subseteq Above(path)
        BY <2>2, AboveAbove
      <3>2. QED
        BY <1>2, <3>1 DEF AgreedIn
    <2>5. AllSay(g, above, node)
      <3>1. PICK h \in DOMAIN g : g[h] = g1[i]
        BY <2>1, Joined DEF g
      <3>2. QED
        BY <1>2, <2>2, <3>1 DEF AgreedIn, AllSay
    <2>6. above \in KeysIn(g1) /\ above \in KeysIn(g2)
      <3>1. above \in KeysIn(g1)
        BY <2>1, <2>2 DEF KeysIn, ToSet
      <3>2. QED
        BY <1>1, <2>4, <3>1
    <2> HIDE DEF node
    <2>7. /\ AgreedIn(g1, above) /\ AllSay(g1, above, node)
          /\ AgreedIn(g2, above) /\ AllSay(g2, above, node)
      BY <1>1, <2>4, <2>5
    <2>8. old[above] = node /\ new[above] = node
      BY <2>3, <2>6, <2>7 DEF MergedFrom, Decides
    <2>9. QED
      BY <2>8
  <1>3. ASSUME NEW path, AgreedIn(g, path)
        PROVE  path \in DOMAIN tree <=> path \in KeysIn(g)
    BY <1>0, <1>1, <1>2, <1>3 DEF MergedInDepth
  <1>4. ASSUME NEW path \in KeysIn(g), NEW node, Ordinary(path), AgreedIn(g, path), Decides(g, path, node)
        PROVE  tree[path] = node
    <2>1. /\ path \in DOMAIN tree
          /\ path \in DOMAIN old <=> path \in KeysIn(g1)
          /\ path \in DOMAIN new <=> path \in KeysIn(g2)
          /\ AgreedIn(g1, path) /\ AgreedIn(g2, path)
      BY <1>1, <1>3, <1>4
    <2>2. path \in KeysIn(g2) => new[path] = node
      BY <1>1, <1>4, <2>1 DEF MergedFrom, Decides
    <2>3. path \in KeysIn(g1) /\ (path \notin KeysIn(g2) \/ node = Object) => old[path] = node
      BY <1>1, <1>4, <2>1 DEF MergedFrom, Decides
    <2>4. CASE path \notin KeysIn(g2)
      BY <1>0, <2>1, <2>3, <2>4 DEF MergedInDepth
    <2>5. CASE path \in KeysIn(g2) /\ path \notin KeysIn(g1)
      BY <2>1, <2>2, <2>5 DEF MergedInDepth
    <2>6. CASE path \in KeysIn(g2) /\ path \in KeysIn(g1)
      <3>1. tree[path] = MergeNodes(Last(path), old[path], new[path])
        BY <1>2, <1>4, <2>1, <2>6 DEF MergedInDepth
      <3>2. node.is # "list"
        <4>1. PICK j \in DOMAIN g : path \in DOMAIN g[j] /\ g[j][path] = node
          <5>1. CASE AllSay(g, path, node)
            BY <5>1 DEF AllSay, KeysIn, ToSet
          <5>2. CASE IsLastFor(g, path, node)
            BY <5>2 DEF IsLastFor
          <5>3. QED
            BY <1>4, <5>1, <5>2 DEF Decides
        <4>2. IsObject(g[j])
          BY <1>0 DEF AreObjects
        <4>3. g[j][path].is \in {"object", "array", "scalar"}
          BY <1>4, <4>1, <4>2 DEF IsObject, Ordinary
        <4>4. QED
          BY <4>1, <4>3
      <3>3. QED
        BY <2>2, <2>3, <2>6, <3>1, <3>2 DEF MergeNodes
    <2>7. QED
      BY <1>0, <2>4, <2>5, <2>6
  <1>5. MergedFrom(tree, g)
    BY <1>3, <1>4 DEF MergedFrom
  <1>6. QED
    BY <1>0, <1>5 DEF g

(* Merging two configurations keeps what each says, the second one's later. *)
LEMMA AllMerged ==
    ASSUME NEW c1, NEW c2, NEW key \in AdditiveArrays, NEW g1, NEW g2,
           IsSequence(g1), IsSequence(g2), SaysAll(c1, key, g1), SaysAll(c2, key, g2)
    PROVE  SaysAll(MergeLayer(c1, c2), key, g1 \o g2)
  <1> DEFINE m == MergeLayer(c1, c2)
  <1>0. /\ key \in DOMAIN m <=> key \in DOMAIN c1 \/ key \in DOMAIN c2
        /\ key \in DOMAIN c1 /\ key \notin DOMAIN c2 => m[key] = c1[key]
        /\ key \notin DOMAIN c1 /\ key \in DOMAIN c2 => m[key] = c2[key]
        /\ key \in DOMAIN c1 /\ key \in DOMAIN c2 => m[key] = MergeValue(key, c1[key], c2[key])
    <2>1. DOMAIN m = DOMAIN c1 \cup DOMAIN c2
      BY MergedValue
    <2>2. \A k \in DOMAIN c1 \cup DOMAIN c2 :
              m[k] = IF k \notin DOMAIN c2 THEN c1[k]
                     ELSE IF k \notin DOMAIN c1 THEN c2[k]
                     ELSE MergeValue(k, c1[k], c2[k])
      BY MergedValue
    <2> HIDE DEF m
    <2>3. QED
      BY <2>1, <2>2
  <1> HIDE DEF m
  <1>1. \A old, new : MergeValue(key, old, new) = old \o new
    BY DEF MergeValue, Customizer, AdditiveArrays, Objects
  <1>2. QED
    BY <1>0, <1>1, LastJoined DEF SaysAll, m

(* Merged, the later one has the last word.                                *)
LEMMA LastMerged ==
    ASSUME NEW c1, NEW c2, NEW key \in Scalars, NEW g1, NEW g2,
           IsSequence(g1), IsSequence(g2), SaysLast(c1, key, g1), SaysLast(c2, key, g2)
    PROVE  SaysLast(MergeLayer(c1, c2), key, g1 \o g2)
  <1> DEFINE m == MergeLayer(c1, c2)
  <1>0. /\ key \in DOMAIN m <=> key \in DOMAIN c1 \/ key \in DOMAIN c2
        /\ key \in DOMAIN c1 /\ key \notin DOMAIN c2 => m[key] = c1[key]
        /\ key \notin DOMAIN c1 /\ key \in DOMAIN c2 => m[key] = c2[key]
        /\ key \in DOMAIN c1 /\ key \in DOMAIN c2 => m[key] = MergeValue(key, c1[key], c2[key])
    <2>1. DOMAIN m = DOMAIN c1 \cup DOMAIN c2
      BY MergedValue
    <2>2. \A k \in DOMAIN c1 \cup DOMAIN c2 :
              m[k] = IF k \notin DOMAIN c2 THEN c1[k]
                     ELSE IF k \notin DOMAIN c1 THEN c2[k]
                     ELSE MergeValue(k, c1[k], c2[k])
      BY MergedValue
    <2> HIDE DEF m
    <2>3. QED
      BY <2>1, <2>2
  <1> HIDE DEF m
  <1>1. \A old, new : MergeValue(key, old, new) = new
    BY DEF MergeValue, Customizer, AdditiveArrays, Objects, TagExpressions, Scalars, Flags, Counts
  <1>2. CASE g2 = <<>>
    <2>1. g1 \o g2 = g1 /\ key \notin DOMAIN c2
      BY <1>2, LastJoined DEF SaysLast
    <2>2. QED
      BY <1>0, <2>1 DEF SaysLast, m
  <1>3. CASE g2 # <<>>
    <2>1. g1 \o g2 # <<>> /\ (g1 \o g2)[Len(g1 \o g2)] = g2[Len(g2)]
      BY <1>3, LastJoined, Joined
    <2>2. key \in DOMAIN c2 /\ c2[key] = g2[Len(g2)]
      BY <1>3 DEF SaysLast
    <2>3. QED
      BY <1>1, <2>1, <2>2, <1>0 DEF SaysLast, m
  <1>4. QED
    BY <1>2, <1>3

(* Merged, objects have the paths of both.                                 *)
LEMMA KeysMerged ==
    ASSUME NEW c1, NEW c2, NEW key \in Objects, NEW g1, NEW g2,
           IsSequence(g1), IsSequence(g2), SaysKeys(c1, key, g1), SaysKeys(c2, key, g2)
    PROVE  SaysKeys(MergeLayer(c1, c2), key, g1 \o g2)
  <1> DEFINE m == MergeLayer(c1, c2)
  <1>0. /\ key \in DOMAIN m <=> key \in DOMAIN c1 \/ key \in DOMAIN c2
        /\ key \in DOMAIN c1 /\ key \notin DOMAIN c2 => m[key] = c1[key]
        /\ key \notin DOMAIN c1 /\ key \in DOMAIN c2 => m[key] = c2[key]
        /\ key \in DOMAIN c1 /\ key \in DOMAIN c2 => m[key] = MergeValue(key, c1[key], c2[key])
    <2>1. DOMAIN m = DOMAIN c1 \cup DOMAIN c2
      BY MergedValue
    <2>2. \A k \in DOMAIN c1 \cup DOMAIN c2 :
              m[k] = IF k \notin DOMAIN c2 THEN c1[k]
                     ELSE IF k \notin DOMAIN c1 THEN c2[k]
                     ELSE MergeValue(k, c1[k], c2[k])
      BY MergedValue
    <2> HIDE DEF m
    <2>3. QED
      BY <2>1, <2>2
  <1> HIDE DEF m
  <1>1. CASE key \notin DOMAIN c2
    <2>1. g1 \o g2 = g1
      BY <1>1, LastJoined DEF SaysKeys
    <2>2. QED
      BY <1>1, <1>0, <2>1 DEF SaysKeys, m
  <1>2. CASE key \notin DOMAIN c1 /\ key \in DOMAIN c2
    <2>1. g1 \o g2 = g2
      BY <1>2, LastJoined DEF SaysKeys
    <2>2. QED
      BY <1>2, <1>0, <2>1 DEF SaysKeys, m
  <1>3. CASE key \in DOMAIN c1 /\ key \in DOMAIN c2
    <2> DEFINE o1 == c1[key]
               o2 == c2[key]
               o == m[key]
    <2>1. o = MergeTrees(NodeCustomizer, o1, o2)
      BY <1>0, <1>3 DEF MergeValue
    <2>2. /\ AreObjects(g1) /\ MergedFrom(o1, g1)
          /\ AreObjects(g2) /\ MergedFrom(o2, g2)
      BY <1>3 DEF SaysKeys
    <2>3. key \in DOMAIN m
      BY <1>0, <1>3
    <2> HIDE DEF o, o1, o2
    <2>4. MergedInDepth(o, o1, o2)
      BY <2>1, TreesAreMergedInDepth
    <2>5. AreObjects(g1 \o g2) /\ MergedFrom(o, g1 \o g2)
      BY <2>2, <2>4, TreesMerged
    <2>6. QED
      BY <2>3, <2>5 DEF SaysKeys, o, m
  <1>4. QED
    BY <1>1, <1>2, <1>3

(* So does one argument more.                                              *)
LEMMA ArgumentSaysAll ==
    ASSUME NEW c, NEW arg, NEW key \in AdditiveArrays \cup {"plugin", "profile"}, NEW given,
           IsSequence(given), SaysAll(c, key, given)
    PROVE  SaysAll(ParseArgument(c, arg), key,
                   given \o IF arg.option = key THEN <<arg.value>> ELSE <<>>)
  <1> DEFINE q == ParseArgument(c, arg)
  <1>0. /\ DOMAIN q = DOMAIN c \cup {arg.option}
        /\ \A k \in DOMAIN c : k # arg.option => q[k] = c[k]
    BY ParsedArgument
  <1>1. CASE arg.option = key
    <2>1. q[key] = Append(IF key \in DOMAIN c THEN c[key] ELSE <<>>, arg.value)
      BY <1>1, ParsedArgument
    <2> HIDE DEF q
    <2>2. q[key] = Append(given, arg.value) /\ key \in DOMAIN q
      BY <1>0, <1>1, <2>1 DEF SaysAll
    <2>3. \A s \in Seq(ToSet(given)) : Append(s, arg.value) = s \o <<arg.value>>
      OBVIOUS
    <2>4. QED
      BY <1>1, <2>2, <2>3 DEF SaysAll, IsSequence, q
  <1>2. CASE arg.option # key
    <2>1. given \o <<>> = given
      BY LastJoined, EmptyIsSequence
    <2> HIDE DEF q
    <2>2. QED
      BY <1>0, <1>2, <2>1 DEF q, SaysAll
  <1>3. QED
    BY <1>1, <1>2

(* An argument has the last word.                                          *)
LEMMA ArgumentSaysLast ==
    ASSUME NEW c, NEW arg, NEW key \in Scalars, NEW given, IsSequence(given), SaysLast(c, key, given)
    PROVE  SaysLast(ParseArgument(c, arg), key,
                    given \o IF arg.option = key THEN <<arg.value>> ELSE <<>>)
  <1> DEFINE q == ParseArgument(c, arg)
  <1>0. /\ DOMAIN q = DOMAIN c \cup {arg.option}
        /\ \A k \in DOMAIN c : k # arg.option => q[k] = c[k]
    BY ParsedArgument
  <1>1. CASE arg.option = key
    <2>1. ParseArgument(c, arg)[key] = arg.value /\ key \in DOMAIN ParseArgument(c, arg)
      BY <1>1, ParsedArgument
    <2> DEFINE s == given \o <<arg.value>>
    <2>2. s[Len(s)] = arg.value /\ s # <<>>
      BY LastJoined, Joined, SingleIsSequence
    <2> HIDE DEF s
    <2>3. QED
      BY <1>1, <2>1, <2>2 DEF SaysLast, s
  <1>2. CASE arg.option # key
    <2>1. given \o <<>> = given
      BY LastJoined, EmptyIsSequence
    <2> HIDE DEF q
    <2>2. QED
      BY <1>0, <1>2, <2>1 DEF q, SaysLast
  <1>3. QED
    BY <1>1, <1>2

(* An argument adds its paths to those of the arguments before it.         *)
LEMMA NothingIsMerged == AreObjects(<<>>) /\ MergedFrom(Nothing, <<>>)
  BY DEF AreObjects, MergedFrom, KeysIn, ToSet, Nothing

LEMMA ArgumentSaysKeys ==
    ASSUME NEW c, NEW arg, NEW key \in Objects, NEW given, IsSequence(given), SaysKeys(c, key, given),
           arg.option = key => IsObject(arg.value)
    PROVE  SaysKeys(ParseArgument(c, arg), key,
                    given \o IF arg.option = key THEN <<arg.value>> ELSE <<>>)
  <1> DEFINE q == ParseArgument(c, arg)
  <1>0. /\ DOMAIN q = DOMAIN c \cup {arg.option}
        /\ \A k \in DOMAIN c : k # arg.option => q[k] = c[k]
    BY ParsedArgument
  <1>1. CASE arg.option = key
    <2> DEFINE memo == IF key \in DOMAIN c THEN c[key] ELSE Nothing
               value == arg.value
               o == ParseArgument(c, arg)[key]
               b == <<value>>
    <2>1. o = MergeJson(memo, value) /\ key \in DOMAIN ParseArgument(c, arg)
      BY <1>1, ParsedArgument
    <2>2. AreObjects(given) /\ MergedFrom(memo, given)
      BY NothingIsMerged DEF SaysKeys
    <2>3. IsSequence(b) /\ AreObjects(b) /\ MergedFrom(value, b)
      <3>1. IsSequence(b) /\ DOMAIN b = {1} /\ b[1] = value
        BY SingleIsSequence
      <3>2. IsObject(value)
        BY <1>1
      <3>3. MergedFrom(value, b)
        BY MergedFromItself
      <3> HIDE DEF value, b
      <3>4. QED
        BY <3>1, <3>2, <3>3 DEF AreObjects
    <2> HIDE DEF memo, o, b, value
    <2>4. MergedInDepth(o, memo, value)
      BY <2>1, TreesAreMergedInDepth DEF MergeJson
    <2>5. AreObjects(given \o b) /\ MergedFrom(o, given \o b)
      BY <2>2, <2>3, <2>4, TreesMerged
    <2>6. QED
      BY <1>1, <2>1, <2>5 DEF SaysKeys, o, b, value
  <1>2. CASE arg.option # key
    <2>1. given \o <<>> = given
      BY LastJoined, EmptyIsSequence
    <2> HIDE DEF q
    <2>2. QED
      BY <1>0, <1>2, <2>1 DEF q, SaysKeys
  <1>3. QED
    BY <1>1, <1>2

-----------------------------------------------------------------------------
(* Tag expressions. *)

(* A text is true of the tags that one of its alternatives is true of.     *)
LEMMA MeaningIs ==
    ASSUME NEW text, IsText(text), NEW tags
    PROVE  tags \in Meaning(text) <=> \E i \in DOMAIN text : \A f \in ToSet(text[i]) : tags \in f.truth
  <1>1. \A i \in DOMAIN text : \E f \in ToSet(text[i]) : TRUE
    <2> SUFFICES ASSUME NEW i \in DOMAIN text PROVE \E f \in ToSet(text[i]) : TRUE
      OBVIOUS
    <2>1. text[i] \in Seq(ToSet(text[i])) /\ text[i] # <<>>
      BY DEF IsText, IsSequence
    <2>2. 1 \in DOMAIN text[i]
      BY <2>1
    <2>3. QED
      BY <2>2 DEF ToSet
  <1>2. QED
    BY <1>1 DEF Meaning

(* One that is a single alternative.                                       *)
IsConjunction(text) == IsText(text) /\ Len(text) = 1

(* A text without an "or" is its only alternative.                         *)
LEMMA ConjunctionIs ==
    ASSUME NEW text, IsConjunction(text)
    PROVE  /\ text = <<text[1]>> /\ DOMAIN text = {1} /\ text # <<>> /\ ~OrOfParentheses(text)
           /\ IsSequence(text[1]) /\ text[1] # <<>>
           /\ \A tags : tags \in Meaning(text) <=> \A f \in ToSet(text[1]) : tags \in f.truth
  <1>1. text = <<text[1]>> /\ DOMAIN text = {1} /\ text # <<>>
    <2>1. PICK S : text \in Seq(S)
      BY DEF IsConjunction, IsText, IsSequence
    <2>2. Len(text) = 1
      BY DEF IsConjunction
    <2>3. text = <<text[1]>>
      BY <2>1, <2>2
    <2>4. DOMAIN text = 1 .. 1
      BY <2>1, <2>2
    <2>5. QED
      BY <2>2, <2>3, <2>4
  <1>2. IsSequence(text[1]) /\ text[1] # <<>>
    BY <1>1 DEF IsConjunction, IsText
  <1>3. ~OrOfParentheses(text)
    BY DEF IsConjunction, OrOfParentheses
  <1>4. ASSUME NEW tags
        PROVE  tags \in Meaning(text) <=> \A f \in ToSet(text[1]) : tags \in f.truth
    <2>1. tags \in Meaning(text) <=> \E i \in DOMAIN text : \A f \in ToSet(text[i]) : tags \in f.truth
      BY MeaningIs DEF IsConjunction
    <2>2. QED
      BY <1>1, <2>1
  <1>5. QED
    BY <1>1, <1>2, <1>3, <1>4

LEMMA SingleIsConjunction ==
    ASSUME NEW s, IsSequence(s), s # <<>>
    PROVE  IsConjunction(<<s>>) /\ <<s>>[1] = s
  BY SingleIsSequence DEF IsConjunction, IsText

(* Parentheses keep the meaning.                                           *)
LEMMA ParenthesizedIs ==
    ASSUME NEW text
    PROVE  IsConjunction(Parenthesized(text)) /\ Meaning(Parenthesized(text)) = Meaning(text)
  <1> DEFINE f == [opens |-> TRUE, closes |-> TRUE, truth |-> Meaning(text)]
             p == <<<<f>>>>
  <1>1. Parenthesized(text) = p
    BY DEF Parenthesized
  <1>2. f.truth = Meaning(text)
    OBVIOUS
  <1> HIDE DEF f
  <1>3. IsSequence(<<f>>) /\ <<f>> # <<>> /\ ToSet(<<f>>) = {f}
    BY SingleIsSequence
  <1>4. IsConjunction(p) /\ p[1] = <<f>>
    BY <1>3, SingleIsConjunction
  <1> HIDE DEF p
  <1>5. \A tags : tags \in Meaning(p) <=> tags \in Meaning(text)
    BY <1>2, <1>3, <1>4, ConjunctionIs
  <1>6. QED
    BY <1>1, <1>4, <1>5

(* Two texts without an "or", joined, mean both.                           *)
LEMMA AndIs ==
    ASSUME NEW a, NEW b, IsConjunction(a), IsConjunction(b)
    PROVE  /\ IsConjunction(And(a, b))
           /\ \A tags : tags \in Meaning(And(a, b)) <=> tags \in Meaning(a) /\ tags \in Meaning(b)
  <1> DEFINE both == a[1] \o b[1]
  <1>1. /\ a = <<a[1]>> /\ b = <<b[1]>> /\ IsSequence(a[1]) /\ a[1] # <<>>
        /\ IsSequence(b[1]) /\ b[1] # <<>>
    BY ConjunctionIs
  <1>2. \A x, y : And(<<x>>, <<y>>) = <<x \o y>>
    <2> SUFFICES ASSUME NEW x, NEW y PROVE And(<<x>>, <<y>>) = <<x \o y>>
      OBVIOUS
    <2>1. /\ Front(<<x>>) = <<>> /\ Last(<<x>>) = x /\ Head(<<y>>) = y /\ Tail(<<y>>) = <<>>
      BY DEF Front, Last
    <2>2. <<>> \o <<x \o y>> \o <<>> = <<x \o y>>
      OBVIOUS
    <2>3. QED
      BY <2>1, <2>2 DEF And
  <1>3. And(a, b) = <<both>>
    BY <1>1, <1>2
  <1>4. IsSequence(both) /\ both # <<>> /\ ToSet(both) = ToSet(a[1]) \cup ToSet(b[1])
    BY <1>1, Joined
  <1> HIDE DEF both
  <1>5. IsConjunction(<<both>>) /\ <<both>>[1] = both
    BY <1>4, SingleIsConjunction
  <1>6. ASSUME NEW tags
        PROVE  tags \in Meaning(<<both>>) <=> tags \in Meaning(a) /\ tags \in Meaning(b)
    <2>1. tags \in Meaning(<<both>>) <=> \A f \in ToSet(both) : tags \in f.truth
      BY <1>5, ConjunctionIs
    <2>2. tags \in Meaning(a) <=> \A f \in ToSet(a[1]) : tags \in f.truth
      BY ConjunctionIs
    <2>3. tags \in Meaning(b) <=> \A f \in ToSet(b[1]) : tags \in f.truth
      BY ConjunctionIs
    <2>4. QED
      BY <1>4, <2>1, <2>2, <2>3
  <1>7. QED
    BY <1>3, <1>5, <1>6

(* A text that is wrapped can be joined, and means what it did.            *)
LEMMA WrappedIs ==
    ASSUME NEW text, IsText(text), text # <<>>, ~OrOfParentheses(text)
    PROVE  /\ IsConjunction(WrapTagExpression(text))
           /\ Meaning(WrapTagExpression(text)) = Meaning(text)
  <1>1. CASE Head(Head(text)).opens /\ Last(Last(text)).closes
    <2>1. Len(text) \in Nat /\ Len(text) # 0
      BY DEF IsText, IsSequence
    <2>2. ~(Len(text) > 1)
      BY <1>1 DEF OrOfParentheses
    <2>3. WrapTagExpression(text) = text
      BY <1>1, Zenon DEF WrapTagExpression
    <2>4. Len(text) = 1
      <3> DEFINE n == Len(text)
      <3>1. n \in Nat /\ n # 0 /\ ~(n > 1)
        BY <2>1, <2>2
      <3> HIDE DEF n
      <3>2. n = 1
        BY <3>1
      <3>3. QED
        BY <3>2 DEF n
    <2>5. QED
      BY <2>3, <2>4 DEF IsConjunction
  <1>2. CASE ~(Head(Head(text)).opens /\ Last(Last(text)).closes)
    BY <1>2, ParenthesizedIs DEF WrapTagExpression
  <1>3. QED
    BY <1>1, <1>2

(* The texts given that no empty one comes after.                          *)
StillGiven(texts) ==
    {texts[i] : i \in {j \in DOMAIN texts : \A k \in DOMAIN texts : k >= j => texts[k] # <<>>}}

(* Texts are added to those in force, and an empty one lifts them.         *)
LEMMA StillGivenJoined ==
    ASSUME NEW a, NEW b, IsSequence(a), IsSequence(b)
    PROVE  /\ (\A i \in DOMAIN b : b[i] # <<>>) => StillGiven(a \o b) = StillGiven(a) \cup ToSet(b)
           /\ b = << <<>> >> => StillGiven(a \o b) = {}
  <1> DEFINE c == a \o b
             m == Len(a)
             n == Len(b)
             Still(s) == {j \in DOMAIN s : \A k \in DOMAIN s : k >= j => s[k] # <<>>}
  <1>1. /\ m \in Nat /\ n \in Nat /\ DOMAIN a = 1 .. m /\ DOMAIN b = 1 .. n /\ DOMAIN c = 1 .. m + n
        /\ \A i \in 1 .. m : c[i] = a[i]
        /\ \A i \in 1 .. n : c[m + i] = b[i]
    BY Joined
  <1> HIDE DEF c, m, n
  <1>2. \A s : StillGiven(s) = {s[i] : i \in Still(s)}
    BY DEF StillGiven
  <1>3. ASSUME \A i \in DOMAIN b : b[i] # <<>>
        PROVE  StillGiven(c) = StillGiven(a) \cup ToSet(b)
    <2>1. ASSUME NEW i \in 1 .. n
          PROVE  m + i \in Still(c)
      <3> SUFFICES ASSUME NEW k \in DOMAIN c, k >= m + i PROVE c[k] # <<>>
        BY <1>1
      <3>1. k - m \in 1 .. n /\ m + (k - m) = k
        BY <1>1
      <3>2. c[k] = b[k - m]
        BY <1>1, <3>1
      <3>3. QED
        BY <1>1, <1>3, <3>1, <3>2
    <2>2. ASSUME NEW i \in Still(a)
          PROVE  i \in Still(c)
      <3>1. i \in 1 .. m
        BY <1>1
      <3> SUFFICES ASSUME NEW k \in DOMAIN c, k >= i PROVE c[k] # <<>>
        BY <1>1, <3>1
      <3>2. CASE k <= m
        BY <1>1, <3>2
      <3>3. CASE k > m
        <4>1. k - m \in 1 .. n /\ m + (k - m) = k
          BY <1>1, <3>3
        <4>2. c[k] = b[k - m]
          BY <1>1, <4>1
        <4>3. QED
          BY <1>1, <1>3, <4>1, <4>2
      <3>4. QED
        BY <1>1, <3>2, <3>3
    <2>3. ASSUME NEW i \in Still(c), i <= m
          PROVE  i \in Still(a)
      <3>1. i \in 1 .. m
        BY <1>1, <2>3
      <3> SUFFICES ASSUME NEW k \in DOMAIN a, k >= i PROVE a[k] # <<>>
        BY <1>1, <3>1
      <3>2. k \in DOMAIN c /\ c[k] = a[k]
        BY <1>1
      <3>3. QED
        BY <3>2
    <2>4. ASSUME NEW i \in Still(c)
          PROVE  c[i] \in StillGiven(a) \cup ToSet(b)
      <3>0. i \in 1 .. m + n
        BY <1>1
      <3>1. CASE i <= m
        <4>1. i \in 1 .. m /\ i \in Still(a) /\ c[i] = a[i]
          BY <1>1, <2>3, <3>0, <3>1
        <4> HIDE DEF Still
        <4>2. QED
          BY <1>2, <4>1
      <3>2. CASE i > m
        <4>1. i - m \in 1 .. n /\ m + (i - m) = i
          BY <1>1, <3>0, <3>2
        <4>2. c[i] = b[i - m]
          BY <1>1, <4>1
        <4>3. QED
          BY <1>1, <4>1, <4>2 DEF ToSet
      <3>3. QED
        BY <1>1, <3>0, <3>1, <3>2
    <2>5. \A i \in Still(a) : a[i] \in StillGiven(c)
      <3> SUFFICES ASSUME NEW i \in Still(a) PROVE a[i] \in StillGiven(c)
        OBVIOUS
      <3>1. i \in Still(c) /\ c[i] = a[i]
        BY <1>1, <2>2
      <3> HIDE DEF Still
      <3>2. QED
        BY <1>2, <3>1
    <2>6. \A i \in 1 .. n : b[i] \in StillGiven(c)
      <3> SUFFICES ASSUME NEW i \in 1 .. n PROVE b[i] \in StillGiven(c)
        OBVIOUS
      <3>1. m + i \in Still(c) /\ c[m + i] = b[i]
        BY <1>1, <2>1
      <3> HIDE DEF Still
      <3>2. QED
        BY <1>2, <3>1
    <2> HIDE DEF Still
    <2>7. QED
      BY <1>1, <1>2, <2>4, <2>5, <2>6 DEF ToSet
  <1>4. ASSUME b = << <<>> >>
        PROVE  StillGiven(c) = {}
    <2>1. n = 1 /\ b[1] = <<>>
      BY <1>4 DEF n
    <2>2. m + 1 \in DOMAIN c /\ c[m + 1] = <<>>
      BY <1>1, <2>1
    <2>3. \A i \in DOMAIN c : m + 1 >= i
      BY <1>1, <2>1
    <2>4. Still(c) = {}
      BY <2>2, <2>3
    <2>5. QED
      BY <1>2, <2>4
  <1>5. QED
    BY <1>3, <1>4 DEF c

(* They are what takes effect.                                             *)
LEMMA EffectiveIs ==
    ASSUME NEW g, IsSequence(g)
    PROVE  ToSet(Effective(g)) = StillGiven(g)
  <1> DEFINE n == Len(g)
             E == {i \in DOMAIN g : g[i] = <<>>}
             top == Max(E)
             from == IF E = {} THEN 1 ELSE top + 1
             Still == {j \in DOMAIN g : \A k \in DOMAIN g : k >= j => g[k] # <<>>}
  <1>1. n \in Nat /\ DOMAIN g = 1 .. n /\ g \in Seq(ToSet(g))
    BY DEF IsSequence
  <1>2. E \in SUBSET (1 .. n)
    BY <1>1
  <1>3. E # {} => top \in E /\ \A i \in E : i <= top
    <2> HIDE DEF E, n
    <2>1. QED
      BY <1>1, <1>2, GreatestOfNaturals
  <1>31. E # {} => top \in 1 .. n
    <2> HIDE DEF E, n, top
    <2>1. QED
      BY <1>2, <1>3
  <1>4. from \in 1 .. n + 1
    <2> HIDE DEF E, n, top
    <2>1. CASE E = {}
      BY <1>1, <2>1
    <2>2. CASE E # {}
      BY <1>1, <1>31, <2>2
    <2>3. QED
      BY <2>1, <2>2
  <1>5. Still = from .. n
    <2>1. ASSUME NEW j \in from .. n
          PROVE  j \in Still
      <3>1. j \in DOMAIN g
        BY <1>1, <1>4
      <3>2. ASSUME NEW k \in DOMAIN g, k >= j
            PROVE  k \notin E
        <4>0. k \in 1 .. n /\ j \in from .. n
          BY <1>1
        <4> HIDE DEF E, n, top
        <4>1. CASE E = {}
          BY <4>1
        <4>2. CASE E # {}
          <5>1. from = top + 1 /\ top \in 1 .. n
            BY <1>31, <4>2
          <5>2. ~(k <= top)
            BY <1>1, <3>2, <4>0, <5>1
          <5>3. QED
            BY <1>3, <4>2, <5>2
        <4>3. QED
          BY <4>1, <4>2
      <3>3. QED
        BY <3>1, <3>2
    <2>2. ASSUME NEW j \in Still
          PROVE  j \in from .. n
      <3>1. j \in 1 .. n /\ \A k \in DOMAIN g : k >= j => k \notin E
        BY <1>1
      <3> HIDE DEF E, n, Still, top
      <3>2. CASE E = {}
        BY <3>1, <3>2
      <3>3. CASE E # {}
        <4>1. top \in DOMAIN g /\ top \in 1 .. n /\ from = top + 1
          BY <1>1, <1>31, <3>3
        <4>2. ~(top >= j)
          BY <1>3, <3>1, <3>3, <4>1
        <4>3. QED
          BY <3>1, <4>1, <4>2
      <3>4. QED
        BY <3>2, <3>3
    <2> HIDE DEF Still
    <2>3. QED
      BY <2>1, <2>2
  <1>6. Effective(g) = SubSeq(g, from, n)
    BY DEF Effective
  <1>7. StillGiven(g) = {g[i] : i \in Still}
    BY DEF StillGiven
  <1> HIDE DEF E, n, top, from, Still
  <1>8. ToSet(SubSeq(g, from, n)) = {g[i] : i \in from .. n}
    <2> DEFINE s == SubSeq(g, from, n)
    <2>1. /\ DOMAIN s = 1 .. n - from + 1
          /\ \A i \in 1 .. n - from + 1 : s[i] = g[from + i - 1]
      BY <1>1, <1>4
    <2> HIDE DEF s
    <2>2. \A i \in DOMAIN s : from + i - 1 \in from .. n /\ s[i] = g[from + i - 1]
      BY <1>1, <1>4, <2>1
    <2>3. \A k \in from .. n : k - from + 1 \in DOMAIN s /\ s[k - from + 1] = g[k]
      <3> SUFFICES ASSUME NEW k \in from .. n PROVE k - from + 1 \in DOMAIN s /\ s[k - from + 1] = g[k]
        OBVIOUS
      <3>1. k - from + 1 \in 1 .. n - from + 1 /\ from + (k - from + 1) - 1 = k
        BY <1>1, <1>4
      <3>2. QED
        BY <2>1, <3>1
    <2>4. ToSet(s) = {g[i] : i \in from .. n}
      BY <2>2, <2>3 DEF ToSet
    <2>5. QED
      BY <2>4 DEF s
  <1>9. QED
    BY <1>5, <1>6, <1>7, <1>8

(* A text that is true of what all the texts given are true of; it lifts   *)
(* the filters if the last one does.                                       *)
Filters(text, given) ==
    /\ IsText(text)
    /\ text = <<>> => StillGiven(given) = {}
    /\ text # <<>> =>
           /\ ~OrOfParentheses(text)
           /\ \A tags : tags \in Meaning(text) <=> \A one \in StillGiven(given) : tags \in Meaning(one)

SaysTags(config, key, given) ==
    IF key \in DOMAIN config THEN Filters(config[key], given) ELSE given = <<>>

(* What one layer says: it lifts the filters, or it adds some.             *)
SaysTagsItself(config, key, given) ==
    /\ SaysTags(config, key, given)
    /\ key \in DOMAIN config =>
           IF config[key] = <<>> THEN given = << <<>> >> ELSE \A i \in DOMAIN given : given[i] # <<>>

(* Merged, texts narrow what those before them let pass, or lift it.       *)
LEMMA TagsMerged ==
    ASSUME NEW c1, NEW c2, NEW key \in TagExpressions, NEW g1, NEW g2, IsSequence(g1), IsSequence(g2),
           SaysTags(c1, key, g1), SaysTagsItself(c2, key, g2)
    PROVE  SaysTags(MergeLayer(c1, c2), key, g1 \o g2)
  <1> DEFINE m == MergeLayer(c1, c2)
             old == c1[key]
             new == c2[key]
  <1>0. /\ key \in DOMAIN m <=> key \in DOMAIN c1 \/ key \in DOMAIN c2
        /\ key \in DOMAIN c1 /\ key \notin DOMAIN c2 => m[key] = old
        /\ key \notin DOMAIN c1 /\ key \in DOMAIN c2 => m[key] = new
        /\ key \in DOMAIN c1 /\ key \in DOMAIN c2 => m[key] = MergeValue(key, old, new)
    <2>1. DOMAIN m = DOMAIN c1 \cup DOMAIN c2
      BY MergedValue
    <2>2. \A k \in DOMAIN c1 \cup DOMAIN c2 :
              m[k] = IF k \notin DOMAIN c2 THEN c1[k]
                     ELSE IF k \notin DOMAIN c1 THEN c2[k]
                     ELSE MergeValue(k, c1[k], c2[k])
      BY MergedValue
    <2> HIDE DEF m
    <2>3. QED
      BY <2>1, <2>2
  <1>1. MergeValue(key, old, new) = MergeTagExpressions(old, new)
    BY DEF MergeValue, Customizer, AdditiveArrays, Objects, TagExpressions
  <1> HIDE DEF m, old, new
  <1>2. CASE key \notin DOMAIN c2
    <2>1. g2 = <<>>
      BY <1>2 DEF SaysTagsItself, SaysTags
    <2>2. g1 \o g2 = g1
      BY <2>1, LastJoined
    <2>3. QED
      BY <1>0, <1>2, <2>2 DEF SaysTags, m, old
  <1>3. CASE key \notin DOMAIN c1 /\ key \in DOMAIN c2
    <2>1. g1 = <<>>
      BY <1>3 DEF SaysTags
    <2>2. g1 \o g2 = g2
      BY <2>1, LastJoined
    <2>3. QED
      BY <1>0, <1>3, <2>2 DEF SaysTagsItself, SaysTags, m, new
  <1>4. CASE key \in DOMAIN c1 /\ key \in DOMAIN c2
    <2>1. Filters(old, g1) /\ Filters(new, g2) /\ m[key] = MergeTagExpressions(old, new)
      BY <1>0, <1>1, <1>4 DEF SaysTagsItself, SaysTags, old, new
    <2>2. CASE new = <<>>
      <3>1. g2 = << <<>> >>
        BY <1>4, <2>2 DEF SaysTagsItself, new
      <3>2. StillGiven(g1 \o g2) = {} /\ m[key] = new
        BY <2>1, <2>2, <3>1, StillGivenJoined DEF MergeTagExpressions
      <3>3. Filters(m[key], g1 \o g2)
        BY <2>1, <2>2, <3>2 DEF Filters
      <3>4. QED
        BY <1>0, <1>4, <3>3 DEF SaysTags, m
    <2>3. CASE new # <<>>
      <3>1. \A i \in DOMAIN g2 : g2[i] # <<>>
        BY <1>4, <2>3 DEF SaysTagsItself, new
      <3>2. StillGiven(g1 \o g2) = StillGiven(g1) \cup ToSet(g2)
        BY <3>1, StillGivenJoined
      <3>3. StillGiven(g2) = ToSet(g2)
        BY <3>1 DEF StillGiven, ToSet
      <3>4. CASE old = <<>>
        <4>1. StillGiven(g1 \o g2) = StillGiven(g2) /\ m[key] = new
          BY <2>1, <3>2, <3>3, <3>4 DEF MergeTagExpressions, Filters
        <4>2. Filters(m[key], g1 \o g2)
          BY <2>1, <4>1 DEF Filters
        <4>3. QED
          BY <1>0, <1>4, <4>2 DEF SaysTags, m
      <3>5. CASE old # <<>>
        <4> DEFINE l == WrapTagExpression(old)
                   r == WrapTagExpression(new)
        <4>1. m[key] = And(l, r)
          BY <2>1, <2>3, <3>5 DEF MergeTagExpressions
        <4>2. /\ IsConjunction(l) /\ Meaning(l) = Meaning(old)
              /\ IsConjunction(r) /\ Meaning(r) = Meaning(new)
          BY <2>1, <2>3, <3>5, WrappedIs DEF Filters
        <4> HIDE DEF l, r
        <4>3. /\ IsConjunction(m[key])
              /\ \A tags : tags \in Meaning(m[key]) <=> tags \in Meaning(old) /\ tags \in Meaning(new)
          BY <4>1, <4>2, AndIs
        <4>4. IsText(m[key]) /\ m[key] # <<>> /\ ~OrOfParentheses(m[key])
          BY <4>3, ConjunctionIs DEF IsConjunction
        <4>5. ASSUME NEW tags
              PROVE  tags \in Meaning(m[key]) <=> \A one \in StillGiven(g1 \o g2) : tags \in Meaning(one)
          <5>1. tags \in Meaning(old) <=> \A one \in StillGiven(g1) : tags \in Meaning(one)
            BY <2>1, <3>5 DEF Filters
          <5>2. tags \in Meaning(new) <=> \A one \in StillGiven(g2) : tags \in Meaning(one)
            BY <2>1, <2>3 DEF Filters
          <5>3. tags \in Meaning(m[key]) <=> tags \in Meaning(old) /\ tags \in Meaning(new)
            BY <4>3
          <5>4. QED
            BY <3>2, <3>3, <5>1, <5>2, <5>3
        <4>6. Filters(m[key], g1 \o g2)
          BY <4>4, <4>5 DEF Filters
        <4>7. QED
          BY <1>0, <1>4, <4>6 DEF SaysTags, m
      <3>6. QED
        BY <3>4, <3>5
    <2>4. QED
      BY <2>2, <2>3
  <1>5. QED
    BY <1>2, <1>3, <1>4

(* A text of its own in a layer.                                           *)
LEMMA LayerSaysTags ==
    ASSUME NEW config, NEW key \in DOMAIN config, IsText(config[key]), ~OrOfParentheses(config[key])
    PROVE  SaysTagsItself(config, key, <<config[key]>>)
  <1> DEFINE text == config[key]
             given == <<text>>
  <1>1. DOMAIN given = {1} /\ given[1] = text
    OBVIOUS
  <1> HIDE DEF given, text
  <1>2. text = <<>> => StillGiven(given) = {}
    BY <1>1 DEF StillGiven
  <1>3. text # <<>> => StillGiven(given) = {text}
    BY <1>1 DEF StillGiven
  <1>4. IsText(text) /\ ~OrOfParentheses(text)
    BY DEF text
  <1>5. Filters(text, given)
    BY <1>2, <1>3, <1>4 DEF Filters
  <1>6. IF text = <<>> THEN given = << <<>> >> ELSE \A i \in DOMAIN given : given[i] # <<>>
    <2>1. text = <<>> => given = << <<>> >>
      BY DEF given
    <2>2. QED
      BY <1>1, <2>1
  <1>7. QED
    BY <1>5, <1>6 DEF SaysTagsItself, SaysTags, text, given

(* The texts of arguments are put in parentheses.                          *)
ArgumentsSayTags(config, key, given) ==
    /\ SaysTagsItself(config, key, given)
    /\ key \in DOMAIN config => IsConjunction(config[key])

(* An argument narrows what the arguments before it let pass.              *)
LEMMA ArgumentSaysTags ==
    ASSUME NEW c, NEW arg, NEW key \in TagExpressions, NEW given, IsSequence(given),
           ArgumentsSayTags(c, key, given),
           arg.option = key => IsText(arg.value) /\ arg.value # <<>>
    PROVE  ArgumentsSayTags(ParseArgument(c, arg), key,
                            given \o IF arg.option = key THEN <<arg.value>> ELSE <<>>)
  <1> DEFINE q == ParseArgument(c, arg)
  <1>0. /\ DOMAIN q = DOMAIN c \cup {arg.option}
        /\ \A k \in DOMAIN c : k # arg.option => q[k] = c[k]
    BY ParsedArgument
  <1>1. CASE arg.option = key
    <2> DEFINE memo == IF key \in DOMAIN c THEN c[key] ELSE <<>>
               value == arg.value
               b == <<value>>
               p == Parenthesized(value)
    <2>1. q[key] = MergeTags(memo, value)
      BY <1>1, ParsedArgument
    <2>2. IsConjunction(p) /\ Meaning(p) = Meaning(value)
      BY ParenthesizedIs
    <2>3. IsSequence(b) /\ DOMAIN b = {1} /\ b[1] = value /\ ToSet(b) = {value} /\ value # <<>>
      BY <1>1, SingleIsSequence
    <2> HIDE DEF q, memo, value, b, p
    <2>4. StillGiven(given \o b) = StillGiven(given) \cup {value}
      BY <2>3, StillGivenJoined
    <2>5. \A i \in DOMAIN (given \o b) : (given \o b)[i] # <<>>
      <3>1. \A i \in DOMAIN given : given[i] # <<>>
        <4>1. CASE key \in DOMAIN c
          <5>1. c[key] # <<>>
            BY <4>1, ConjunctionIs DEF ArgumentsSayTags
          <5>2. QED
            BY <4>1, <5>1 DEF ArgumentsSayTags, SaysTagsItself
        <4>2. CASE key \notin DOMAIN c
          BY <4>2 DEF ArgumentsSayTags, SaysTagsItself, SaysTags
        <4>3. QED
          BY <4>1, <4>2
      <3>2. /\ DOMAIN given = 1 .. Len(given) /\ Len(given) \in Nat
            /\ DOMAIN (given \o b) = 1 .. Len(given) + Len(b)
            /\ \A i \in 1 .. Len(given) : (given \o b)[i] = given[i]
            /\ \A i \in 1 .. Len(b) : (given \o b)[Len(given) + i] = b[i]
        <4>1. IsSequence(b) /\ IsSequence(given)
          BY <2>3
        <4>2. QED
          BY <4>1, Joined
      <3>3. Len(b) = 1
        BY DEF b
      <3> DEFINE l == Len(given)
      <3>31. l \in Nat
        BY <3>2
      <3> HIDE DEF l
      <3>4. ASSUME NEW i \in 1 .. l + 1
            PROVE  (given \o b)[i] # <<>>
        <4>1. CASE i \in 1 .. l
          BY <3>1, <3>2, <4>1 DEF l
        <4>2. CASE i = l + 1
          <5>1. 1 \in 1 .. Len(b)
            BY <3>3
          <5>2. (given \o b)[Len(given) + 1] = b[1]
            BY <3>2, <5>1
          <5>3. QED
            BY <2>3, <4>2, <5>2 DEF l
        <4>3. i \in 1 .. l \/ i = l + 1
          BY <3>31
        <4>4. QED
          BY <4>1, <4>2, <4>3
      <3>5. QED
        BY <3>2, <3>3, <3>4 DEF l
    <2>6. /\ IsConjunction(q[key])
          /\ \A tags : tags \in Meaning(q[key]) <=>
                           \A one \in StillGiven(given) \cup {value} : tags \in Meaning(one)
      <3>1. CASE memo = <<>>
        <4>1. q[key] = p
          BY <2>1, <3>1 DEF MergeTags, p
        <4>2. StillGiven(given) = {}
          <5>1. key \notin DOMAIN c
            BY <3>1, ConjunctionIs DEF memo, ArgumentsSayTags
          <5>2. given = <<>>
            BY <5>1 DEF ArgumentsSayTags, SaysTagsItself, SaysTags
          <5>3. QED
            BY <5>2 DEF StillGiven
        <4>3. QED
          BY <2>2, <4>1, <4>2
      <3>2. CASE memo # <<>>
        <4>1. key \in DOMAIN c /\ memo = c[key]
          BY <3>2 DEF memo
        <4>2. IsConjunction(memo) /\ Filters(memo, given)
          BY <4>1 DEF ArgumentsSayTags, SaysTagsItself, SaysTags
        <4>3. q[key] = And(memo, p)
          BY <2>1, <3>2 DEF MergeTags, p
        <4>4. /\ IsConjunction(q[key])
              /\ \A tags : tags \in Meaning(q[key]) <=> tags \in Meaning(memo) /\ tags \in Meaning(p)
          BY <2>2, <4>2, <4>3, AndIs
        <4>5. \A tags : tags \in Meaning(memo) <=> \A one \in StillGiven(given) : tags \in Meaning(one)
          BY <3>2, <4>2 DEF Filters
        <4>6. ASSUME NEW tags
              PROVE  tags \in Meaning(q[key]) <=>
                         \A one \in StillGiven(given) \cup {value} : tags \in Meaning(one)
          <5>1. tags \in Meaning(q[key]) <=> tags \in Meaning(memo) /\ tags \in Meaning(value)
            BY <2>2, <4>4
          <5>2. QED
            BY <4>5, <5>1
        <4>7. QED
          BY <4>4, <4>6
      <3>3. QED
        BY <3>1, <3>2
    <2>7. IsText(q[key]) /\ q[key] # <<>> /\ ~OrOfParentheses(q[key])
      BY <2>6, ConjunctionIs DEF IsConjunction
    <2>8. Filters(q[key], given \o b) /\ key \in DOMAIN q
      BY <1>0, <1>1, <2>4, <2>6, <2>7 DEF Filters
    <2>9. QED
      BY <1>1, <2>5, <2>6, <2>7, <2>8 DEF ArgumentsSayTags, SaysTagsItself, SaysTags, q, b, value
  <1>2. CASE arg.option # key
    <2>1. given \o <<>> = given
      BY LastJoined, EmptyIsSequence
    <2> HIDE DEF q
    <2>2. QED
      BY <1>0, <1>2, <2>1 DEF q, ArgumentsSayTags, SaysTagsItself, SaysTags
  <1>3. QED
    BY <1>1, <1>2

-----------------------------------------------------------------------------
(* One layer. *)

(* When only one of two layers gives plugins, these are there.             *)
LEMMA PluginMerged ==
    ASSUME NEW c1, NEW c2, NEW g1, NEW g2, IsSequence(g1), IsSequence(g2), g1 = <<>> \/ g2 = <<>>,
           SaysAll(c1, "plugin", g1), SaysAll(c2, "plugin", g2)
    PROVE  SaysAll(MergeLayer(c1, c2), "plugin", g1 \o g2)
  <1> DEFINE m == MergeLayer(c1, c2)
             key == "plugin"
  <1>0. /\ key \in DOMAIN m <=> key \in DOMAIN c1 \/ key \in DOMAIN c2
        /\ key \in DOMAIN c1 /\ key \notin DOMAIN c2 => m[key] = c1[key]
        /\ key \notin DOMAIN c1 /\ key \in DOMAIN c2 => m[key] = c2[key]
        /\ key \in DOMAIN c1 /\ key \in DOMAIN c2 => m[key] = MergeValue(key, c1[key], c2[key])
    <2>1. DOMAIN m = DOMAIN c1 \cup DOMAIN c2
      BY MergedValue
    <2>2. \A k \in DOMAIN c1 \cup DOMAIN c2 :
              m[k] = IF k \notin DOMAIN c2 THEN c1[k]
                     ELSE IF k \notin DOMAIN c1 THEN c2[k]
                     ELSE MergeValue(k, c1[k], c2[k])
      BY MergedValue
    <2> HIDE DEF m
    <2>3. QED
      BY <2>1, <2>2
  <1> HIDE DEF m
  <1>1. \A old, new : MergeValue(key, old, new) = MergeBy(Latter, old, new)
    BY DEF MergeValue, Objects
  <1>2. \A s : IsSequence(s) => MergeBy(Latter, <<>>, s) = s /\ MergeBy(Latter, s, <<>>) = s
    <2> SUFFICES ASSUME NEW s, IsSequence(s)
                 PROVE  MergeBy(Latter, <<>>, s) = s /\ MergeBy(Latter, s, <<>>) = s
      OBVIOUS
    <2>1. s = [i \in DOMAIN s |-> s[i]]
      BY DEF IsSequence
    <2>2. MergeBy(Latter, <<>>, s) = [i \in DOMAIN s |-> s[i]]
      BY DEF MergeBy, Latter
    <2>3. MergeBy(Latter, s, <<>>) = [i \in DOMAIN s |-> s[i]]
      BY DEF MergeBy, Latter
    <2>4. QED
      BY <2>1, <2>2, <2>3
  <1>3. CASE g1 = <<>>
    <2>1. g1 \o g2 = g2
      BY <1>3, LastJoined
    <2>2. QED
      BY <1>0, <1>1, <1>2, <1>3, <2>1 DEF SaysAll, m
  <1>4. CASE g2 = <<>>
    <2>1. g1 \o g2 = g1
      BY <1>4, LastJoined
    <2>2. QED
      BY <1>0, <1>1, <1>2, <1>4, <2>1 DEF SaysAll, m
  <1>5. QED
    BY <1>3, <1>4

(* What arguments say of an option, and what a layer does.                 *)
ArgumentsSay(c, key, given) ==
    /\ key \in AdditiveArrays \cup {"plugin", "profile"} => SaysAll(c, key, given)
    /\ key \in Scalars => SaysLast(c, key, given)
    /\ key \in Objects => SaysKeys(c, key, given)
    /\ key \in TagExpressions => ArgumentsSayTags(c, key, given)

LayerSays(c, key, given) ==
    /\ key \in AdditiveArrays \cup {"plugin"} => SaysAll(c, key, given)
    /\ key \in Scalars => SaysLast(c, key, given)
    /\ key \in Objects => SaysKeys(c, key, given)

GivenBy(args, key) == [i \in DOMAIN args |-> IF args[i].option = key THEN <<args[i].value>> ELSE <<>>]

(* A list of arguments says what is given in it.                           *)
LEMMA ArgumentsAreRead ==
    ASSUME NEW args, AreArguments(args), NEW key, \A i \in DOMAIN args : args[i].value # Malformed
    PROVE  /\ ArgumentsSay(Parsed(args), key, FlattenSeq(GivenBy(args, key)))
           /\ IsSequence(FlattenSeq(GivenBy(args, key)))
           /\ \A value \in ToSet(FlattenSeq(GivenBy(args, key))) :
                  \E i \in DOMAIN args : args[i].option = key /\ args[i].value = value
  <1> DEFINE N == Len(args)
             s == GivenBy(args, key)
  <1>1. N \in Nat /\ DOMAIN args = 1 .. N
    BY DEF AreArguments, IsSequence
  <1>2. /\ DOMAIN s = 1 .. N /\ Len(s) = N
        /\ \A i \in 1 .. N : s[i] = IF args[i].option = key THEN <<args[i].value>> ELSE <<>>
    BY <1>1 DEF GivenBy
  <1> HIDE DEF N, s
  <1>3. \A i \in 1 .. N : IsSequence(s[i])
    BY <1>2, EmptyIsSequence, SingleIsSequence
  <1>4. PICK g : /\ g[0] = <<>> /\ \A i \in 1 .. N : g[i] = g[i - 1] \o s[i]
                 /\ \A i \in 0 .. N : IsSequence(g[i])
                 /\ FlattenSeq(s) = g[N]
    BY <1>1, <1>2, <1>3, FlattenedFromNothing
  <1>5. PICK p : /\ p[0] = Nothing /\ \A i \in 1 .. N : p[i] = ParseArgument(p[i - 1], args[i])
                 /\ Parsed(args) = p[N]
    <2>1. N \in Nat /\ Len(args) = N
      BY <1>1 DEF N
    <2>2. QED
      BY <2>1, ParsedStepwise
  <1>6. ArgumentsSay(Nothing, key, <<>>)
    BY DEF ArgumentsSay, SaysAll, SaysLast, SaysKeys, ArgumentsSayTags, SaysTagsItself, SaysTags, Nothing
  <1>7. ASSUME NEW i \in 1 .. N, ArgumentsSay(p[i - 1], key, g[i - 1])
        PROVE  ArgumentsSay(p[i], key, g[i])
    <2> DEFINE c == p[i - 1]
               arg == args[i]
               given == g[i - 1]
    <2>1. /\ p[i] = ParseArgument(c, arg) /\ IsSequence(given)
          /\ g[i] = given \o IF arg.option = key THEN <<arg.value>> ELSE <<>>
      <3>1. p[i] = ParseArgument(c, arg)
        BY <1>5
      <3>2. IsSequence(given)
        <4>1. i - 1 \in 0 .. N
          BY <1>1
        <4>2. QED
          BY <1>4, <4>1
      <3>3. g[i] = given \o s[i] /\ s[i] = IF arg.option = key THEN <<arg.value>> ELSE <<>>
        BY <1>2, <1>4
      <3> HIDE DEF c, arg, given
      <3>4. QED
        BY <3>1, <3>2, <3>3
    <2>2. /\ key \in TagExpressions /\ arg.option = key => IsText(arg.value) /\ arg.value # <<>>
          /\ key \in Objects /\ arg.option = key => IsObject(arg.value)
      BY <1>1 DEF AreArguments, IsArgument
    <2>3. ArgumentsSay(c, key, given)
      BY <1>7
    <2> HIDE DEF c, arg, given
    <2>4. key \in AdditiveArrays \cup {"plugin", "profile"} => SaysAll(p[i], key, g[i])
      BY <2>1, <2>3, ArgumentSaysAll DEF ArgumentsSay
    <2>5. key \in Scalars => SaysLast(p[i], key, g[i])
      BY <2>1, <2>3, ArgumentSaysLast DEF ArgumentsSay
    <2>6. key \in Objects => SaysKeys(p[i], key, g[i])
      BY <2>1, <2>2, <2>3, ArgumentSaysKeys DEF ArgumentsSay
    <2>7. key \in TagExpressions => ArgumentsSayTags(p[i], key, g[i])
      BY <2>1, <2>2, <2>3, ArgumentSaysTags DEF ArgumentsSay
    <2>8. QED
      BY <2>4, <2>5, <2>6, <2>7 DEF ArgumentsSay
  <1> DEFINE Wrong == {i \in 0 .. N : ~ArgumentsSay(p[i], key, g[i])}
  <1>8. Wrong = {}
    <2>1. SUFFICES ASSUME Wrong # {} PROVE FALSE
      OBVIOUS
    <2>2. PICK i \in Wrong : \A j \in Wrong : i <= j
      <3>1. Wrong \in SUBSET Nat
        OBVIOUS
      <3> HIDE DEF Wrong
      <3>2. QED
        BY <2>1, <3>1, LeastOfNaturals
    <2>3. i \in 0 .. N /\ ~ArgumentsSay(p[i], key, g[i])
      OBVIOUS
    <2>4. i # 0
      BY <1>4, <1>5, <1>6, <2>3
    <2>5. i \in 1 .. N /\ i - 1 \in 0 .. N /\ ~(i <= i - 1)
      BY <1>1, <2>3, <2>4
    <2>6. i - 1 \notin Wrong
      <3> HIDE DEF Wrong
      <3>1. QED
        BY <2>2, <2>5
    <2>7. QED
      BY <1>7, <2>3, <2>5, <2>6
  <1>9. ArgumentsSay(p[N], key, g[N])
    <2>1. N \in 0 .. N
      BY <1>1
    <2>2. QED
      BY <1>8, <2>1
  <1>10. ToSet(g[N]) = UNION {ToSet(s[i]) : i \in 1 .. N}
    <2> DEFINE S == UNION {ToSet(s[i]) : i \in 1 .. N}
    <2>1. \A i \in 1 .. N : s[i] \in Seq(S)
      <3> SUFFICES ASSUME NEW i \in 1 .. N PROVE s[i] \in Seq(S)
        OBVIOUS
      <3>1. s[i] \in Seq(ToSet(s[i])) /\ ToSet(s[i]) \subseteq S
        BY <1>3 DEF IsSequence
      <3> HIDE DEF S
      <3>2. QED
        BY <3>1
    <2> HIDE DEF S
    <2>2. ToSet(FlattenSeq(s)) = UNION {ToSet(s[i]) : i \in 1 .. N}
      BY <1>1, <1>2, <2>1, FlattenedSet
    <2>3. QED
      BY <1>4, <2>2
  <1>11. ASSUME NEW value \in ToSet(g[N])
         PROVE  \E i \in DOMAIN args : args[i].option = key /\ args[i].value = value
    <2>1. PICK i \in 1 .. N : value \in ToSet(s[i])
      BY <1>10
    <2>2. CASE args[i].option = key
      <3>1. ToSet(s[i]) = {args[i].value}
        BY <1>2, <2>2, SingleIsSequence
      <3>2. QED
        BY <1>1, <2>1, <2>2, <3>1
    <2>3. CASE args[i].option # key
      BY <1>2, <2>1, <2>3 DEF ToSet
    <2>4. QED
      BY <2>2, <2>3
  <1>12. IsSequence(g[N])
    BY <1>1, <1>4
  <1>13. QED
    BY <1>4, <1>5, <1>9, <1>11, <1>12 DEF s

(* A layer, or the command line, that parses says what it gives.           *)
LEMMA DefinitionSays ==
    ASSUME NEW d, IsDefinition(d), Parses(d), NEW key \in Options
    PROVE  /\ LayerSays(ParseConfiguration(d), key, Gives(d, key))
           /\ key \in TagExpressions
                  /\ ("layer" \in DOMAIN d => \A text \in ToSet(Gives(d, key)) : ~OrOfParentheses(text)) =>
                  SaysTagsItself(ParseConfiguration(d), key, Gives(d, key))
           /\ IsSequence(Gives(d, key))
           /\ \A item \in ToSet(Gives(d, key)) :
                  /\ key \in AdditiveArrays => IsItem(key, item)
                  /\ key \in Counts => item \in Nat
  <1>0. /\ key \notin {"config", "profile", "i18nKeywords", "i18nLanguages"}
        /\ key \in Scalars \cup AdditiveArrays \cup {"plugin"} \cup Objects \cup TagExpressions
        /\ key \in Unchecked => key \in {"loader", "forceExit", "shard"}
    BY DEF Options, Scalars, Flags, Counts, AdditiveArrays, Objects, TagExpressions, Unchecked
  <1>1. CASE "args" \in DOMAIN d
    <2> DEFINE args == d.args
               given == FlattenSeq(GivenBy(args, key))
               c == ParseConfiguration(d)
    <2>1. AreArguments(args)
      BY <1>1 DEF IsDefinition
    <2>2. \A i \in DOMAIN args : ArgumentParses(args[i])
      BY <1>1 DEF Parses
    <2>3. \A i \in DOMAIN args : args[i].value # Malformed
      BY <2>2 DEF ArgumentParses
    <2>4. Gives(d, key) = given
      BY <1>1 DEF Gives, GivenBy
    <2>5. /\ ArgumentsSay(Parsed(args), key, given) /\ IsSequence(given)
          /\ \A value \in ToSet(given) : \E i \in DOMAIN args : args[i].option = key /\ args[i].value = value
      BY <2>1, <2>3, ArgumentsAreRead
    <2>6. /\ key \in DOMAIN c <=> key \in DOMAIN Parsed(args)
          /\ key \in DOMAIN c => c[key] = Parsed(args)[key]
      <3>1. c = ParseArgv(args).configuration
        BY <1>1 DEF ParseConfiguration
      <3> DEFINE o == Parsed(args)
                 others == DOMAIN o \ {"config", "profile", "i18nKeywords", "i18nLanguages"}
      <3>2. c = [k \in DOMAIN o \cap others |-> o[k]]
        BY <3>1 DEF ParseArgv, Parsed
      <3> HIDE DEF o, c
      <3>3. QED
        BY <1>0, <3>2 DEF o
    <2> HIDE DEF c, given, args
    <2>7. LayerSays(c, key, given)
      BY <2>5, <2>6 DEF LayerSays, ArgumentsSay, SaysAll, SaysLast, SaysKeys
    <2>8. key \in TagExpressions => SaysTagsItself(c, key, given)
      BY <2>5, <2>6 DEF ArgumentsSay, ArgumentsSayTags, SaysTagsItself, SaysTags
    <2>9. ASSUME NEW item \in ToSet(given)
          PROVE  /\ key \in AdditiveArrays => IsItem(key, item)
                 /\ key \in Counts => item \in Nat
      <3>1. PICK i \in DOMAIN args : args[i].option = key /\ args[i].value = item
        BY <2>5
      <3>2. IsArgument(args[i]) /\ ArgumentParses(args[i]) /\ args[i].value # Malformed
        BY <2>1, <2>2, <2>3 DEF AreArguments
      <3>3. QED
        BY <3>1, <3>2 DEF IsArgument, ArgumentParses
    <2>10. QED
      BY <2>4, <2>5, <2>7, <2>8, <2>9 DEF c
  <1>2. CASE "args" \notin DOMAIN d
    <2> DEFINE c == d.layer
               given == Gives(d, key)
    <2>1. ParseConfiguration(d) = c
      BY <1>2 DEF ParseConfiguration
    <2>2. given = IF key \notin DOMAIN c THEN <<>>
                  ELSE IF key \in AdditiveArrays \cup {"plugin"} THEN c[key] ELSE <<c[key]>>
      BY <1>2 DEF Gives
    <2>3. key \in DOMAIN c => IsGiven(key, c[key]) \/ key \in {"forceExit", "shard"}
      <3> SUFFICES ASSUME key \in DOMAIN c PROVE IsGiven(key, c[key]) \/ key \in {"forceExit", "shard"}
        OBVIOUS
      <3>1. IsGiven(key, c[key]) \/ (key # "loader" /\ c[key] = Malformed)
        BY <1>2 DEF IsDefinition
      <3>2. key \notin Unchecked => c[key] # Malformed
        BY <1>2 DEF Parses, CheckSchema
      <3>3. QED
        BY <1>0, <3>1, <3>2
    <2> HIDE DEF c, given
    <2>4. IsSequence(given)
      <3>1. CASE key \in DOMAIN c /\ key \in AdditiveArrays \cup {"plugin"}
        <4>1. key \notin {"forceExit", "shard"}
          BY <3>1 DEF AdditiveArrays
        <4>2. QED
          BY <2>2, <2>3, <3>1, <4>1 DEF IsGiven
      <3>2. CASE ~(key \in DOMAIN c /\ key \in AdditiveArrays \cup {"plugin"})
        BY <2>2, <3>2, EmptyIsSequence, SingleIsSequence
      <3>3. QED
        BY <3>1, <3>2
    <2>5. key \in AdditiveArrays \cup {"plugin"} => SaysAll(c, key, given)
      BY <2>2 DEF SaysAll
    <2>6. key \in DOMAIN c /\ key \notin AdditiveArrays \cup {"plugin"} =>
              given = <<c[key]>> /\ given # <<>> /\ Len(given) = 1 /\ given[1] = c[key] /\ ToSet(given) = {c[key]}
                  /\ DOMAIN given = {1}
      BY <2>2, SingleIsSequence
    <2>7. key \in Scalars => SaysLast(c, key, given)
      <3>1. key \in Scalars => key \notin AdditiveArrays \cup {"plugin"}
        BY DEF AdditiveArrays, Scalars, Flags, Counts
      <3>2. QED
        BY <2>2, <2>6, <3>1 DEF SaysLast
    <2>8. key \in Objects => SaysKeys(c, key, given)
      <3> SUFFICES ASSUME key \in Objects PROVE SaysKeys(c, key, given)
        OBVIOUS
      <3>1. key \notin AdditiveArrays \cup {"plugin"}
        BY DEF AdditiveArrays, Objects
      <3>2. CASE key \notin DOMAIN c
        BY <2>2, <3>2 DEF SaysKeys
      <3>3. CASE key \in DOMAIN c
        <4>1. IsObject(c[key])
          <5>1. key \notin {"forceExit", "shard"}
            BY DEF Objects
          <5>2. QED
            BY <2>3, <3>3, <5>1 DEF IsGiven
        <4>2. AreObjects(given)
          BY <2>6, <3>1, <3>3, <4>1 DEF AreObjects
        <4>3. MergedFrom(c[key], given)
          BY <2>6, <3>1, <3>3, MergedFromItself
        <4>4. QED
          BY <3>3, <4>2, <4>3 DEF SaysKeys
      <3>4. QED
        BY <3>2, <3>3
    <2>9. ASSUME key \in TagExpressions,
                 "layer" \in DOMAIN d => \A text \in ToSet(Gives(d, key)) : ~OrOfParentheses(text)
          PROVE  SaysTagsItself(c, key, given)
      <3>1. key \notin AdditiveArrays \cup {"plugin", "forceExit", "shard"}
        BY <2>9 DEF AdditiveArrays, TagExpressions
      <3>2. CASE key \notin DOMAIN c
        BY <2>2, <3>2 DEF SaysTagsItself, SaysTags
      <3>3. CASE key \in DOMAIN c
        <4>1. IsText(c[key])
          BY <2>3, <2>9, <3>1, <3>3 DEF IsGiven
        <4>2. "layer" \in DOMAIN d
          BY <1>2 DEF IsDefinition
        <4>3. ~OrOfParentheses(c[key])
          BY <2>6, <2>9, <3>1, <3>3, <4>2 DEF given
        <4>4. QED
          BY <2>6, <3>1, <3>3, <4>1, <4>3, LayerSaysTags
      <3>4. QED
        BY <3>2, <3>3
    <2>10. ASSUME NEW item \in ToSet(given)
           PROVE  /\ key \in AdditiveArrays => IsItem(key, item)
                  /\ key \in Counts => item \in Nat
      <3>0. /\ key \in AdditiveArrays => key \notin {"forceExit", "shard"}
            /\ key \in Counts => key \notin AdditiveArrays \cup {"plugin", "forceExit", "shard"}
        BY DEF AdditiveArrays, Counts
      <3>1. key \in DOMAIN c
        BY <2>2 DEF ToSet
      <3>2. key \in AdditiveArrays => IsItem(key, item)
        BY <2>2, <2>3, <3>0, <3>1 DEF IsGiven
      <3>3. key \in Counts => item \in Nat
        BY <2>3, <2>6, <3>0, <3>1 DEF IsGiven
      <3>4. QED
        BY <3>2, <3>3
    <2>11. QED
      BY <2>1, <2>4, <2>5, <2>7, <2>8, <2>9, <2>10 DEF LayerSays, given
  <1>3. QED
    BY <1>1, <1>2

-----------------------------------------------------------------------------
(* All layers: those of the file and, at last, the command line. *)

GivenIn(layers, key) == [i \in DOMAIN layers |-> Gives(layers[i], key)]

Read(layers) == [i \in DOMAIN layers |-> ParseConfiguration(layers[i])]

(* Texts that are no "or" of two that is taken for one in parentheses, and *)
(* plugins that a single layer gives.                                      *)
TakenFrom(layers, key) ==
    \A i \in DOMAIN layers : "layer" \in DOMAIN layers[i] =>
        \A text \in ToSet(Gives(layers[i], key)) : ~OrOfParentheses(text)

GivenOnce(layers, key) ==
    \A i, j \in DOMAIN layers : Gives(layers[i], key) # <<>> /\ Gives(layers[j], key) # <<>> => i = j

(* What merged layers say.                                                 *)
LayersSay(config, key, layers, given) ==
    /\ key \in AdditiveArrays => SaysAll(config, key, given)
    /\ key \in Scalars => SaysLast(config, key, given)
    /\ key \in Objects => SaysKeys(config, key, given)
    /\ key \in TagExpressions /\ TakenFrom(layers, key) => SaysTags(config, key, given)
    /\ key = "plugin" /\ GivenOnce(layers, key) => SaysAll(config, key, given)

(* What they say when they are merged with what there is without them.     *)
OptionSays(config, key, layers, given) ==
    /\ key \in DOMAIN config
    /\ key \in AdditiveArrays => SaysAll(config, key, given)
    /\ key \in Scalars =>
           config[key] = IF given = <<>> THEN DefaultConfiguration[key] ELSE given[Len(given)]
    /\ key \in Objects => SaysKeys(config, key, given)
    /\ key \in TagExpressions /\ TakenFrom(layers, key) => SaysTags(config, key, given)
    /\ key = "plugin" /\ GivenOnce(layers, key) => SaysAll(config, key, given)

(* Over the defaults, an option is there whether it is given or not.       *)
LEMMA DefaultSays ==
    ASSUME NEW config, NEW key \in Options, NEW layers, NEW given, IsSequence(given),
           LayersSay(config, key, layers, given)
    PROVE  OptionSays(MergeLayer(DefaultConfiguration, config), key, layers, given)
  <1> DEFINE d == DefaultConfiguration
             q == MergeLayer(d, config)
  <1>1. /\ DOMAIN d = Options
        /\ key \in AdditiveArrays \cup {"plugin"} \cup TagExpressions => d[key] = <<>>
        /\ key \in Objects => d[key] = Nothing
    <2>1. DOMAIN d = Options
      BY DEF DefaultConfiguration
    <2>2. key \in AdditiveArrays \cup {"plugin"} \cup TagExpressions =>
              /\ key \notin Flags \cup Counts \cup Objects /\ key # "language" /\ key # "order" /\ key # "shard"
      BY DEF AdditiveArrays, TagExpressions, Flags, Counts, Objects
    <2>3. key \in Objects => /\ key \notin Flags /\ key \notin Counts
                              /\ key # "language" /\ key # "order" /\ key # "shard"
      BY DEF Flags, Counts, Objects
    <2>4. key \in Objects => d[key] = Nothing
      <3> DEFINE nothing == Nothing
      <3> HIDE DEF nothing
      <3>1. key \in Objects => d[key] = nothing
        BY <2>3 DEF DefaultConfiguration, nothing
      <3>2. QED
        BY <3>1 DEF nothing
    <2>5. key \in AdditiveArrays \cup {"plugin"} \cup TagExpressions => d[key] = <<>>
      BY <2>2 DEF DefaultConfiguration
    <2>6. QED
      BY <2>1, <2>4, <2>5
  <1>2. /\ key \in DOMAIN q
        /\ key \notin DOMAIN config => q[key] = d[key]
        /\ key \in DOMAIN config => q[key] = MergeValue(key, d[key], config[key])
    <2>1. DOMAIN q = DOMAIN d \cup DOMAIN config
      BY MergedValue
    <2>2. \A k \in DOMAIN d \cup DOMAIN config :
              q[k] = IF k \notin DOMAIN config THEN d[k]
                     ELSE IF k \notin DOMAIN d THEN config[k]
                     ELSE MergeValue(k, d[k], config[k])
      BY MergedValue
    <2> HIDE DEF q, d
    <2>3. QED
      BY <1>1, <2>1, <2>2
  <1> HIDE DEF d, q
  <1>3. <<>> \o given = given /\ IsSequence(<<>>)
    BY LastJoined, EmptyIsSequence
  <1>4. key \in AdditiveArrays => SaysAll(q, key, given)
    <2> SUFFICES ASSUME key \in AdditiveArrays PROVE SaysAll(q, key, given)
      OBVIOUS
    <2>1. SaysAll(d, key, <<>>)
      BY <1>1 DEF SaysAll
    <2>2. SaysAll(q, key, <<>> \o given)
      BY <1>3, <2>1, AllMerged DEF LayersSay, q
    <2>3. QED
      BY <1>3, <2>2
  <1>5. key \in Objects => SaysKeys(q, key, given)
    <2> SUFFICES ASSUME key \in Objects PROVE SaysKeys(q, key, given)
      OBVIOUS
    <2>1. SaysKeys(d, key, <<>>)
      BY <1>1, NothingIsMerged DEF SaysKeys
    <2>2. SaysKeys(q, key, <<>> \o given)
      BY <1>3, <2>1, KeysMerged DEF LayersSay, q
    <2>3. QED
      BY <1>3, <2>2
  <1>6. key = "plugin" /\ GivenOnce(layers, key) => SaysAll(q, key, given)
    <2> SUFFICES ASSUME key = "plugin", GivenOnce(layers, key) PROVE SaysAll(q, key, given)
      OBVIOUS
    <2>1. SaysAll(d, "plugin", <<>>)
      BY <1>1 DEF SaysAll
    <2>2. SaysAll(q, "plugin", <<>> \o given)
      BY <1>3, <2>1, PluginMerged DEF LayersSay, q
    <2>3. QED
      BY <1>3, <2>2
  <1>7. key \in TagExpressions /\ TakenFrom(layers, key) => SaysTags(q, key, given)
    <2> SUFFICES ASSUME key \in TagExpressions, TakenFrom(layers, key) PROVE SaysTags(q, key, given)
      OBVIOUS
    <2>1. SaysTags(config, key, given)
      BY DEF LayersSay
    <2>2. CASE key \in DOMAIN config
      <3>1. \A new : MergeValue(key, <<>>, new) = new
        BY DEF MergeValue, Customizer, AdditiveArrays, Objects, TagExpressions, MergeTagExpressions
      <3>2. QED
        BY <1>1, <1>2, <2>1, <2>2, <3>1 DEF SaysTags
    <2>3. CASE key \notin DOMAIN config
      <3>1. given = <<>> /\ q[key] = <<>>
        BY <1>1, <1>2, <2>1, <2>3 DEF SaysTags
      <3>2. Filters(<<>>, <<>>)
        BY EmptyIsSequence DEF Filters, IsText, StillGiven
      <3>3. QED
        BY <1>2, <3>1, <3>2 DEF SaysTags
    <2>4. QED
      BY <2>2, <2>3
  <1>8. key \in Scalars => q[key] = IF given = <<>> THEN d[key] ELSE given[Len(given)]
    <2> SUFFICES ASSUME key \in Scalars
                 PROVE  q[key] = IF given = <<>> THEN d[key] ELSE given[Len(given)]
      OBVIOUS
    <2>1. \A old, new : MergeValue(key, old, new) = new
      BY DEF MergeValue, Customizer, AdditiveArrays, Objects, TagExpressions, Scalars, Flags, Counts
    <2>2. SaysLast(config, key, given)
      BY DEF LayersSay
    <2>3. QED
      BY <1>2, <2>1, <2>2 DEF SaysLast
  <1>9. QED
    BY <1>2, <1>4, <1>5, <1>6, <1>7, <1>8 DEF OptionSays, d, q

(* Merged, all layers say for each option what is given in them.           *)
LEMMA LayersAreMerged ==
    ASSUME NEW file_, IsSequence(file_), NEW last, NEW key \in Options,
           \A i \in DOMAIN file_ : IsDefinition(file_[i]) /\ Parses(file_[i]),
           IsDefinition(last), Parses(last)
    PROVE  LET layers == file_ \o <<last>>
               given == FlattenSeq(GivenIn(layers, key))
           IN /\ OptionSays(MergeConfigurations(DefaultConfiguration,
                                             <<MergeConfigurations(Nothing, Read(file_)),
                                               ParseConfiguration(last)>>),
                            key, layers, given)
              /\ IsSequence(given)
              /\ \A item \in ToSet(given) : /\ key \in AdditiveArrays => IsItem(key, item)
                                            /\ key \in Counts => item \in Nat
  <1> DEFINE layers == file_ \o <<last>>
             n == Len(file_)
             N == n + 1
             s == GivenIn(layers, key)
             merged == MergeConfigurations(Nothing, Read(file_))
             option == ParseConfiguration(last)
             original_ == MergeConfigurations(DefaultConfiguration, <<merged, option>>)
  <1>1. /\ n \in Nat /\ N \in Nat /\ DOMAIN file_ = 1 .. n /\ DOMAIN layers = 1 .. N
        /\ \A i \in 1 .. n : layers[i] = file_[i]
        /\ layers[N] = last
    <2>1. IsSequence(<<last>>) /\ Len(<<last>>) = 1 /\ <<last>>[1] = last
      BY SingleIsSequence
    <2>2. /\ n \in Nat /\ DOMAIN file_ = 1 .. n /\ DOMAIN layers = 1 .. N
          /\ \A i \in 1 .. n : layers[i] = file_[i]
      BY <2>1, Joined
    <2>3. (file_ \o <<last>>)[Len(file_) + 1] = <<last>>[1]
      BY <2>1, Joined
    <2>4. QED
      BY <2>1, <2>2, <2>3
  <1>2. \A i \in 1 .. N : IsDefinition(layers[i]) /\ Parses(layers[i])
    <2> SUFFICES ASSUME NEW i \in 1 .. N PROVE IsDefinition(layers[i]) /\ Parses(layers[i])
      OBVIOUS
    <2>1. i \in 1 .. n \/ i = N
      BY <1>1
    <2> HIDE DEF layers, n, N
    <2>2. QED
      BY <1>1, <2>1
  <1>3. \E M : /\ M[0] = Nothing /\ \A i \in 1 .. n : M[i] = MergeLayer(M[i - 1], ParseConfiguration(layers[i]))
               /\ merged = M[n]
    <2> DEFINE r == Read(file_)
    <2>1. Len(r) = n /\ \A i \in 1 .. n : r[i] = ParseConfiguration(layers[i])
      BY <1>1 DEF Read
    <2> HIDE DEF n, r, layers
    <2>2. PICK m : /\ m[0] = Nothing /\ \A i \in 1 .. n : m[i] = MergeLayer(m[i - 1], r[i])
                   /\ MergeConfigurations(Nothing, r) = m[n]
      <3>1. PICK all : all = MergeConfigurations(Nothing, r)
        OBVIOUS
      <3>2. QED
        BY <1>1, <2>1, <3>1, MergedStepwise
    <2>3. QED
      BY <2>1, <2>2 DEF r
  <1>4. PICK M : /\ M[0] = Nothing
                 /\ \A i \in 1 .. n : M[i] = MergeLayer(M[i - 1], ParseConfiguration(layers[i]))
                 /\ merged = M[n]
    BY <1>3
  <1>41. original_ = MergeLayer(MergeLayer(DefaultConfiguration, merged), option)
    <2> DEFINE two == <<merged, option>>
    <2>1. Len(two) = 2 /\ two[1] = merged /\ two[2] = option
      OBVIOUS
    <2> HIDE DEF two, merged, option
    <2>2. PICK m : /\ m[0] = DefaultConfiguration /\ \A i \in 1 .. 2 : m[i] = MergeLayer(m[i - 1], two[i])
                   /\ MergeConfigurations(DefaultConfiguration, two) = m[2]
      <3>1. PICK all : all = MergeConfigurations(DefaultConfiguration, two)
        OBVIOUS
      <3>2. 2 \in Nat
        OBVIOUS
      <3>3. QED
        BY <2>1, <3>1, <3>2, MergedStepwise
    <2>3. m[1] = MergeLayer(m[0], two[1]) /\ m[2] = MergeLayer(m[1], two[2])
      <3>1. 1 \in 1 .. 2 /\ 2 \in 1 .. 2 /\ 1 - 1 = 0 /\ 2 - 1 = 1
        OBVIOUS
      <3>2. m[1] = MergeLayer(m[1 - 1], two[1]) /\ m[2] = MergeLayer(m[2 - 1], two[2])
        BY <2>2, <3>1
      <3>3. QED
        BY <3>1, <3>2
    <2>4. QED
      BY <2>1, <2>2, <2>3 DEF two
  <1>5. DOMAIN s = 1 .. N /\ Len(s) = N /\ \A i \in 1 .. N : s[i] = Gives(layers[i], key)
    BY <1>1 DEF GivenIn
  <1>51. N = n + 1 /\ option = ParseConfiguration(last)
    OBVIOUS
  <1> HIDE DEF layers, n, N, s, merged, option, original_
  <1>6. \A i \in 1 .. N : /\ LayerSays(ParseConfiguration(layers[i]), key, s[i])
                          /\ key \in TagExpressions /\ TakenFrom(layers, key) =>
                                 SaysTagsItself(ParseConfiguration(layers[i]), key, s[i])
                          /\ IsSequence(s[i])
                          /\ \A item \in ToSet(s[i]) : /\ key \in AdditiveArrays => IsItem(key, item)
                                                       /\ key \in Counts => item \in Nat
    <2> SUFFICES ASSUME NEW i \in 1 .. N
                 PROVE  /\ LayerSays(ParseConfiguration(layers[i]), key, s[i])
                        /\ key \in TagExpressions /\ TakenFrom(layers, key) =>
                               SaysTagsItself(ParseConfiguration(layers[i]), key, s[i])
                        /\ IsSequence(s[i])
                        /\ \A item \in ToSet(s[i]) : /\ key \in AdditiveArrays => IsItem(key, item)
                                                     /\ key \in Counts => item \in Nat
      OBVIOUS
    <2>1. s[i] = Gives(layers[i], key) /\ IsDefinition(layers[i]) /\ Parses(layers[i])
      BY <1>2, <1>5
    <2>2. TakenFrom(layers, key) /\ "layer" \in DOMAIN layers[i] =>
              \A text \in ToSet(Gives(layers[i], key)) : ~OrOfParentheses(text)
      BY <1>1 DEF TakenFrom
    <2>3. QED
      BY <2>1, <2>2, DefinitionSays
  <1>7. PICK g : /\ g[0] = <<>> /\ \A i \in 1 .. N : g[i] = g[i - 1] \o s[i]
                 /\ \A i \in 0 .. N : IsSequence(g[i])
                 /\ FlattenSeq(s) = g[N]
    BY <1>1, <1>5, <1>6, FlattenedFromNothing
  <1> DEFINE Fits(i) == /\ LayersSay(M[i], key, layers, g[i])
                        /\ g[i] # <<>> => \E j \in 1 .. i : s[j] # <<>>
             Wrong == {i \in 0 .. n : ~Fits(i)}
  <1>8. Fits(0)
    BY <1>4, <1>7 DEF LayersSay, SaysAll, SaysLast, SaysKeys, SaysTags, Nothing
  <1>9. ASSUME NEW i \in 1 .. n, Fits(i - 1)
        PROVE  Fits(i)
    <2> DEFINE c1 == M[i - 1]
               c2 == ParseConfiguration(layers[i])
               g1 == g[i - 1]
               g2 == s[i]
    <2>1. i - 1 \in 0 .. N /\ i \in 0 .. N /\ i \in 1 .. N
      BY <1>1, <1>51
    <2>2. IsSequence(g1) /\ IsSequence(g2)
      BY <1>6, <1>7, <2>1
    <2>3. M[i] = MergeLayer(c1, c2) /\ g[i] = g1 \o g2
      BY <1>4, <1>7, <2>1
    <2>4. LayersSay(c1, key, layers, g1) /\ LayerSays(c2, key, g2)
          /\ (key \in TagExpressions /\ TakenFrom(layers, key) => SaysTagsItself(c2, key, g2))
          /\ (g1 # <<>> => \E j \in 1 .. i - 1 : s[j] # <<>>)
      BY <1>6, <1>9, <2>1
    <2>5. key = "plugin" /\ GivenOnce(layers, key) => g1 = <<>> \/ g2 = <<>>
      <3> SUFFICES ASSUME GivenOnce(layers, key), g1 # <<>>, g2 # <<>> PROVE FALSE
        OBVIOUS
      <3>1. PICK j \in 1 .. i - 1 : s[j] # <<>>
        BY <2>4
      <3>2. j \in 1 .. N /\ j # i
        BY <1>1, <1>51
      <3>3. Gives(layers[i], key) # <<>> /\ Gives(layers[j], key) # <<>>
        BY <1>5, <2>1, <3>1, <3>2
      <3>4. QED
        BY <1>1, <2>1, <3>2, <3>3 DEF GivenOnce
    <2> HIDE DEF c1, c2, g1, g2
    <2>6. key \in AdditiveArrays => SaysAll(M[i], key, g[i])
      BY <2>2, <2>3, <2>4, AllMerged DEF LayersSay, LayerSays
    <2>7. key \in Scalars => SaysLast(M[i], key, g[i])
      BY <2>2, <2>3, <2>4, LastMerged DEF LayersSay, LayerSays
    <2>8. key \in Objects => SaysKeys(M[i], key, g[i])
      BY <2>2, <2>3, <2>4, KeysMerged DEF LayersSay, LayerSays
    <2>9. key \in TagExpressions /\ TakenFrom(layers, key) => SaysTags(M[i], key, g[i])
      BY <2>2, <2>3, <2>4, TagsMerged DEF LayersSay
    <2>10. key = "plugin" /\ GivenOnce(layers, key) => SaysAll(M[i], key, g[i])
      BY <2>2, <2>3, <2>4, <2>5, PluginMerged DEF LayersSay, LayerSays
    <2>11. g[i] # <<>> => \E j \in 1 .. i : s[j] # <<>>
      <3> SUFFICES ASSUME g[i] # <<>> PROVE \E j \in 1 .. i : s[j] # <<>>
        OBVIOUS
      <3>1. g1 # <<>> \/ g2 # <<>>
        BY <2>2, <2>3, Joined
      <3>2. CASE g1 # <<>>
        BY <1>1, <2>4, <3>2
      <3>3. CASE g2 # <<>>
        <4>1. i \in 1 .. i
          BY <1>1
        <4>2. QED
          BY <3>3, <4>1 DEF g2
      <3>4. QED
        BY <3>1, <3>2, <3>3
    <2>12. QED
      BY <2>6, <2>7, <2>8, <2>9, <2>10, <2>11 DEF LayersSay
  <1>10. Wrong = {}
    <2>1. SUFFICES ASSUME Wrong # {} PROVE FALSE
      OBVIOUS
    <2>2. PICK i \in Wrong : \A j \in Wrong : i <= j
      <3>1. Wrong \in SUBSET Nat
        OBVIOUS
      <3> HIDE DEF Wrong
      <3>2. QED
        BY <2>1, <3>1, LeastOfNaturals
    <2>3. i \in 0 .. n /\ ~Fits(i)
      OBVIOUS
    <2> HIDE DEF Fits
    <2>4. i # 0
      BY <1>8, <2>3
    <2>5. i \in 1 .. n /\ i - 1 \in 0 .. n /\ ~(i <= i - 1)
      BY <1>1, <2>3, <2>4
    <2>6. i - 1 \notin Wrong
      <3> HIDE DEF Wrong
      <3>1. QED
        BY <2>2, <2>5
    <2>7. QED
      BY <1>9, <2>3, <2>5, <2>6
  <1>11. OptionSays(original_, key, layers, g[N])
    <2> DEFINE c1 == MergeLayer(DefaultConfiguration, merged)
               g1 == g[n]
               g2 == s[N]
    <2>1. n \in 0 .. n /\ n \in 0 .. N /\ N \in 1 .. N /\ N - 1 = n
      BY <1>1, <1>51
    <2>2. Fits(n)
      BY <1>10, <2>1
    <2>3. IsSequence(g1) /\ IsSequence(g2) /\ g[N] = g1 \o g2
      BY <1>6, <1>7, <2>1
    <2>4. LayersSay(merged, key, layers, g1) /\ (g1 # <<>> => \E j \in 1 .. n : s[j] # <<>>)
      BY <1>4, <2>2
    <2>5. OptionSays(c1, key, layers, g1)
      BY <2>3, <2>4, DefaultSays
    <2>6. LayerSays(option, key, g2)
          /\ (key \in TagExpressions /\ TakenFrom(layers, key) => SaysTagsItself(option, key, g2))
      BY <1>1, <1>51, <1>6, <2>1
    <2>7. key = "plugin" /\ GivenOnce(layers, key) => g1 = <<>> \/ g2 = <<>>
      <3> SUFFICES ASSUME GivenOnce(layers, key), g1 # <<>>, g2 # <<>> PROVE FALSE
        OBVIOUS
      <3>1. PICK j \in 1 .. n : s[j] # <<>>
        BY <2>4
      <3>2. j \in 1 .. N /\ j # N
        BY <1>1, <1>51
      <3>3. Gives(layers[N], key) # <<>> /\ Gives(layers[j], key) # <<>>
        BY <1>5, <2>1, <3>1, <3>2
      <3>4. QED
        BY <1>1, <2>1, <3>2, <3>3 DEF GivenOnce
    <2> HIDE DEF Fits, c1, g1, g2
    <2>8. original_ = MergeLayer(c1, option)
      BY <1>41 DEF c1
    <2>9. key \in AdditiveArrays => SaysAll(original_, key, g[N])
      BY <2>3, <2>5, <2>6, <2>8, AllMerged DEF OptionSays, LayerSays
    <2>10. key \in Objects => SaysKeys(original_, key, g[N])
      BY <2>3, <2>5, <2>6, <2>8, KeysMerged DEF OptionSays, LayerSays
    <2>11. key \in TagExpressions /\ TakenFrom(layers, key) => SaysTags(original_, key, g[N])
      BY <2>3, <2>5, <2>6, <2>8, TagsMerged DEF OptionSays
    <2>12. key = "plugin" /\ GivenOnce(layers, key) => SaysAll(original_, key, g[N])
      BY <2>3, <2>5, <2>6, <2>7, <2>8, PluginMerged DEF OptionSays, LayerSays
    <2>13. /\ key \in DOMAIN original_
           /\ key \notin DOMAIN option => original_[key] = c1[key]
           /\ key \in DOMAIN option => original_[key] = MergeValue(key, c1[key], option[key])
      <3>1. DOMAIN original_ = DOMAIN c1 \cup DOMAIN option
        BY <2>8, MergedValue
      <3>2. \A k \in DOMAIN c1 \cup DOMAIN option :
                original_[k] = IF k \notin DOMAIN option THEN c1[k]
                               ELSE IF k \notin DOMAIN c1 THEN option[k]
                               ELSE MergeValue(k, c1[k], option[k])
        BY <2>8, MergedValue
      <3>3. key \in DOMAIN c1
        BY <2>5 DEF OptionSays
      <3>4. QED
        BY <3>1, <3>2, <3>3
    <2>14. key \in Scalars =>
               original_[key] = IF g[N] = <<>> THEN DefaultConfiguration[key] ELSE g[N][Len(g[N])]
      <3> SUFFICES ASSUME key \in Scalars
                   PROVE  original_[key] =
                              IF g[N] = <<>> THEN DefaultConfiguration[key] ELSE g[N][Len(g[N])]
        OBVIOUS
      <3>1. \A old, new : MergeValue(key, old, new) = new
        BY DEF MergeValue, Customizer, AdditiveArrays, Objects, TagExpressions, Scalars, Flags, Counts
      <3>2. SaysLast(option, key, g2)
        BY <2>6 DEF LayerSays
      <3>3. CASE g2 = <<>>
        <4>1. g[N] = g1
          BY <2>3, <3>3, LastJoined
        <4>2. original_[key] = c1[key]
          BY <2>13, <3>2, <3>3 DEF SaysLast
        <4>3. QED
          BY <2>5, <4>1, <4>2 DEF OptionSays
      <3>4. CASE g2 # <<>>
        <4>1. g[N] # <<>> /\ g[N][Len(g[N])] = g2[Len(g2)]
          BY <2>3, <3>4, LastJoined, Joined
        <4>2. original_[key] = g2[Len(g2)]
          BY <2>13, <3>1, <3>2, <3>4 DEF SaysLast
        <4>3. QED
          BY <4>1, <4>2
      <3>5. QED
        BY <3>3, <3>4
    <2>15. QED
      BY <2>9, <2>10, <2>11, <2>12, <2>13, <2>14 DEF OptionSays
  <1>12. ToSet(g[N]) = UNION {ToSet(s[i]) : i \in 1 .. N}
    <2> DEFINE S == UNION {ToSet(s[i]) : i \in 1 .. N}
    <2>1. \A i \in 1 .. N : s[i] \in Seq(S)
      <3> SUFFICES ASSUME NEW i \in 1 .. N PROVE s[i] \in Seq(S)
        OBVIOUS
      <3>1. s[i] \in Seq(ToSet(s[i])) /\ ToSet(s[i]) \subseteq S
        BY <1>6 DEF IsSequence
      <3> HIDE DEF S
      <3>2. QED
        BY <3>1
    <2> HIDE DEF S
    <2>2. ToSet(FlattenSeq(s)) = UNION {ToSet(s[i]) : i \in 1 .. N}
      BY <1>1, <1>5, <2>1, FlattenedSet
    <2>3. QED
      BY <1>7, <2>2
  <1>13. \A item \in ToSet(g[N]) : /\ key \in AdditiveArrays => IsItem(key, item)
                                   /\ key \in Counts => item \in Nat
    BY <1>6, <1>12
  <1>14. IsSequence(g[N])
    <2>1. N \in 0 .. N
      BY <1>1
    <2>2. QED
      BY <1>7, <2>1
  <1>15. QED
    BY <1>7, <1>11, <1>13, <1>14 DEF layers, s, original_, merged, option

-----------------------------------------------------------------------------
(* The invariant: what each stage has of what the ones before it made. *)

ProvidedIsParsed ==
    parsed = ParseArgv(input.argv) /\ Parses([args |-> input.argv])

FileIsRead ==
    IF file = None THEN profile = Nothing
    ELSE /\ file \in DOMAIN input.files
         /\ ProfilesLoad(input.files[file], Requested(parsed.options))
         /\ profile = FromFile(input.files[file], Requested(parsed.options))

HasStarted ==
    LET formatters == InitializeFormatters(run.formats, input.env.isTTY)
        paths == ResolvePaths(run.sources.paths, run.support.requirePaths, run.support.importPaths)
        selected == SelectPickles(run.sources, paths)
    IN /\ \A specifier \in ToSet(run.plugins.specifiers) : FindPlugin(specifier) = "plugin"
       /\ \A target \in DOMAIN formatters : Starts(formatters[target], target, run.formats.options)
       /\ started = [plugins |-> InitializePlugins(run.plugins.specifiers), formatters |-> formatters,
                     support |-> GetSupportCode(paths, run.support),
                     pickles |-> selected,
                     retries |-> [i \in DOMAIN selected |-> RetriesForPickle(selected[i], run.runtime)],
                     adapter |-> MakeAdapter(run.runtime)]

ConfigurationInv ==
    /\ input \in [argv : CommandLines, files : ConfigFiles, env : Environments]
    /\ stage \in {"argv", "locate", "load", "merge", "validate", "convert", "start", "run", "exited"}
    /\ stage \in {"locate", "load", "merge", "validate", "convert", "start", "run"} => ProvidedIsParsed
    /\ stage \in {"argv", "locate", "load"} => profile = Nothing
    /\ stage \in {"merge", "validate", "convert", "start", "run"} => FileIsRead
    /\ stage \in {"validate", "convert", "start", "run"} => original = Merged
    /\ stage \in {"start", "run"} => run = ConvertConfiguration(original, input.env)
    /\ stage = "run" => HasStarted

(* The invariant holds initially, and each step keeps it.                  *)
LEMMA ConfigurationInitInv == ConfigurationInit => ConfigurationInv
  BY DEF ConfigurationInit, ConfigurationInv

LEMMA ExitKeepsConfigurationInv ==
    ASSUME ConfigurationInv, input' = input, NEW printed, NEW code, NEW immediately, Exits(printed, code, immediately)
    PROVE  ConfigurationInv'
  BY DEF Exits, ConfigurationInv

LEMMA ConfigurationStepKeepsInv ==
    ASSUME ConfigurationInv, [ConfigurationNext]_configurationVars
    PROVE  ConfigurationInv'
  <1>1. CASE UNCHANGED configurationVars
    BY <1>1 DEF ConfigurationInv, configurationVars, ProvidedIsParsed, FileIsRead, Merged, HasStarted
  <1>2. ASSUME ConfigurationNext PROVE ConfigurationInv'
    <2>0. input' = input
      BY <1>2 DEF ConfigurationNext
    <2>1. CASE ParseArguments
      <3>1. CASE \E printed, code, immediately : Exits(printed, code, immediately)
        BY <2>0, <3>1, ExitKeepsConfigurationInv
      <3>2. CASE ~\E printed, code, immediately : Exits(printed, code, immediately)
        <4>1. /\ Parses([args |-> input.argv]) /\ parsed' = ParseArgv(input.argv) /\ stage' = "locate"
              /\ UNCHANGED <<file, profile, original, run, started, exit>> /\ stage = "argv"
          BY <2>1, <3>2 DEF ParseArguments, Reject
        <4>2. QED
          BY <2>0, <4>1 DEF ConfigurationInv, ProvidedIsParsed
      <3>3. QED
        BY <3>1, <3>2
    <2>2. CASE Locate
      BY <2>0, <2>2 DEF Locate, ConfigurationInv, ProvidedIsParsed
    <2>3. CASE LoadProfiles
      <3>1. CASE Reject
        BY <2>0, <3>1, ExitKeepsConfigurationInv DEF Reject
      <3>2. CASE ~Reject
        <4>1. /\ stage = "load" /\ stage' = "merge"
              /\ UNCHANGED <<parsed, file, original, run, started, exit>>
              /\ IF file = None THEN profile' = profile
                 ELSE /\ file \in DOMAIN input.files
                      /\ ProfilesLoad(input.files[file], Requested(parsed.options))
                      /\ profile' = FromFile(input.files[file], Requested(parsed.options))
          BY <2>3, <3>2 DEF LoadProfiles
        <4>2. ProvidedIsParsed' /\ profile = Nothing
          BY <2>0, <4>1 DEF ConfigurationInv, ProvidedIsParsed
        <4>3. FileIsRead'
          BY <2>0, <4>1, <4>2 DEF FileIsRead
        <4>4. QED
          BY <2>0, <4>1, <4>2, <4>3 DEF ConfigurationInv
      <3>3. QED
        BY <3>1, <3>2
    <2>4. CASE Merge
      <3>1. CASE Reject
        BY <2>0, <3>1, ExitKeepsConfigurationInv DEF Reject
      <3>2. CASE ~Reject
        <4>1. /\ stage = "merge" /\ stage' = "validate" /\ original' = Merged
              /\ UNCHANGED <<parsed, file, profile, run, started, exit>>
          BY <2>4, <3>2 DEF Merge
        <4>2. ProvidedIsParsed' /\ FileIsRead' /\ Merged' = Merged
          BY <2>0, <4>1 DEF ConfigurationInv, ProvidedIsParsed, FileIsRead, Merged
        <4>3. QED
          BY <2>0, <4>1, <4>2 DEF ConfigurationInv
      <3>3. QED
        BY <3>1, <3>2
    <2>5. CASE ValidateConfiguration
      <3>1. CASE Reject
        BY <2>0, <3>1, ExitKeepsConfigurationInv DEF Reject
      <3>2. CASE ~Reject
        <4>1. /\ stage = "validate" /\ stage' = "convert"
              /\ UNCHANGED <<parsed, file, profile, original, run, started, exit>>
          BY <2>5, <3>2 DEF ValidateConfiguration
        <4>2. ProvidedIsParsed' /\ FileIsRead' /\ original' = Merged'
          BY <2>0, <4>1 DEF ConfigurationInv, ProvidedIsParsed, FileIsRead, Merged
        <4>3. QED
          BY <2>0, <4>1, <4>2 DEF ConfigurationInv
      <3>3. QED
        BY <3>1, <3>2
    <2>6. CASE Convert
      <3>1. CASE Reject
        BY <2>0, <3>1, ExitKeepsConfigurationInv DEF Reject
      <3>2. CASE ~Reject
        <4>1. /\ stage = "convert" /\ stage' = "start" /\ run' = ConvertConfiguration(original, input.env)
              /\ UNCHANGED <<parsed, file, profile, original, started, exit>>
          BY <2>6, <3>2 DEF Convert
        <4>2. ProvidedIsParsed' /\ FileIsRead' /\ original' = Merged'
          BY <2>0, <4>1 DEF ConfigurationInv, ProvidedIsParsed, FileIsRead, Merged
        <4>3. run' = ConvertConfiguration(original, input.env)'
          BY <2>0, <4>1
        <4>4. QED
          BY <2>0, <4>1, <4>2, <4>3 DEF ConfigurationInv
      <3>3. QED
        BY <3>1, <3>2
    <2>7. CASE Start
      <3>1. CASE Reject
        BY <2>0, <3>1, ExitKeepsConfigurationInv DEF Reject
      <3>2. CASE ~Reject
        <4>1. /\ stage = "start" /\ stage' = "run"
              /\ UNCHANGED <<parsed, file, profile, original, run, exit>>
          BY <2>7, <3>2 DEF Start
        <4>2. HasStarted'
          BY <2>0, <2>7, <3>2, <4>1 DEF Start, HasStarted
        <4>3. ProvidedIsParsed' /\ FileIsRead' /\ original' = Merged' /\ run' = ConvertConfiguration(original, input.env)'
          BY <2>0, <4>1 DEF ConfigurationInv, ProvidedIsParsed, FileIsRead, Merged
        <4>4. QED
          BY <2>0, <4>1, <4>2, <4>3 DEF ConfigurationInv
      <3>3. QED
        BY <3>1, <3>2
    <2>8. CASE Finish
      BY <2>0, <2>8, ExitKeepsConfigurationInv DEF Finish, Reject
    <2>9. CASE Exited
      BY <2>0, <2>9 DEF Exited, ConfigurationInv
    <2>10. QED
      BY <1>2, <2>1, <2>2, <2>3, <2>4, <2>5, <2>6, <2>7, <2>8, <2>9 DEF ConfigurationNext
  <1>3. QED
    BY <1>1, <1>2

(* Whatever is given, each stage works on what the ones before it made.    *)
THEOREM ConfigurationInvariance == ConfigurationSpec => []ConfigurationInv
  <1>1. QED
    BY ConfigurationInitInv, ConfigurationStepKeepsInv, PTL DEF ConfigurationSpec

(* In a run each option is what the layers give.                           *)
LEMMA OptionsAreSaid ==
    ASSUME ConfigurationInv, stage = "run", NEW key \in Options
    PROVE  /\ OptionSays(original, key, Layers, Given(key))
           /\ IsSequence(Given(key))
           /\ \A item \in ToSet(Given(key)) : /\ key \in AdditiveArrays => IsItem(key, item)
                                              /\ key \in Counts => item \in Nat
           /\ \E n \in Nat : DOMAIN Layers = 1 .. n
  <1> DEFINE argv == input.argv
             last == [args |-> argv]
             content == input.files[file]
             requested == Requested(parsed.options)
             fromFile == IF file = None THEN <<>>
                         ELSE [i \in DOMAIN requested |-> Definitions(content)[requested[i]]]
  <1>1. /\ ProvidedIsParsed /\ FileIsRead /\ original = Merged
        /\ argv \in CommandLines /\ input.files \in ConfigFiles
    BY DEF ConfigurationInv
  <1>2. AreArguments(argv) /\ Parses(last) /\ parsed = ParseArgv(argv) /\ last.args = argv
    BY <1>1, ConfigurationAssumption DEF ProvidedIsParsed
  <1>3. IsDefinition(last) /\ ParseConfiguration(last) = parsed.configuration
    BY <1>2 DEF IsDefinition, ParseConfiguration
  <1>4. IsSequence(requested)
    <2>1. \A i \in DOMAIN argv : argv[i].value # Malformed
      BY <1>2 DEF Parses, ArgumentParses
    <2> DEFINE g == FlattenSeq(GivenBy(argv, "profile"))
               o == Parsed(argv)
               coordinates == {"config", "profile", "i18nKeywords", "i18nLanguages"}
    <2>2. SaysAll(o, "profile", g) /\ IsSequence(g)
      BY <1>2, <2>1, ArgumentsAreRead DEF ArgumentsSay
    <2>3. parsed.options = [k \in DOMAIN o \cap coordinates |-> o[k]]
      BY <1>2 DEF ParseArgv, Parsed
    <2> HIDE DEF o, g
    <2>4. CASE "profile" \in DOMAIN parsed.options
      <3>1. requested = o["profile"] /\ "profile" \in DOMAIN o
        BY <2>3, <2>4 DEF Requested
      <3>2. QED
        BY <2>2, <3>1 DEF SaysAll
    <2>5. CASE "profile" \notin DOMAIN parsed.options
      BY <2>5, SingleIsSequence DEF Requested
    <2>6. QED
      BY <2>4, <2>5
  <1>5. /\ IsSequence(fromFile)
        /\ \A i \in DOMAIN fromFile : IsDefinition(fromFile[i]) /\ Parses(fromFile[i])
        /\ profile = MergeConfigurations(Nothing, Read(fromFile))
    <2>1. CASE file = None
      <3>1. fromFile = <<>> /\ profile = Nothing
        BY <1>1, <2>1 DEF FileIsRead
      <3>2. Len(Read(<<>>)) = 0
        BY DEF Read
      <3>3. MergeConfigurations(Nothing, Read(<<>>)) = Nothing
        <4> DEFINE r == Read(<<>>)
        <4>1. 0 \in Nat /\ Len(r) = 0
          BY <3>2
        <4> HIDE DEF r
        <4>2. PICK all : all = MergeConfigurations(Nothing, r)
          OBVIOUS
        <4>3. PICK m : m[0] = Nothing /\ all = m[0]
          BY <4>1, <4>2, MergedStepwise
        <4>4. QED
          BY <4>2, <4>3 DEF r
      <3> HIDE DEF fromFile
      <3>4. QED
        BY <3>1, <3>3, EmptyIsSequence
    <2>2. CASE file # None
      <3>1. /\ file \in DOMAIN input.files /\ ProfilesLoad(content, requested)
            /\ profile = FromFile(content, requested)
        BY <1>1, <2>2 DEF FileIsRead
      <3>2. /\ \A p \in DOMAIN content.profiles : IsDefinition(content.profiles[p])
            /\ \A p \in DOMAIN content.returns : IsDefinition(content.returns[p])
        BY <1>1, <3>1, ConfigurationAssumption
      <3>3. IsDefinition(NoDefinition)
        BY DEF IsDefinition, NoDefinition, Nothing
      <3>4. \A p \in DOMAIN Definitions(content) : IsDefinition(Definitions(content)[p])
        <4> DEFINE D(profiles) == MergeBy(Latter, [default |-> NoDefinition], profiles)
        <4>1. ASSUME NEW profiles, \A p \in DOMAIN profiles : IsDefinition(profiles[p])
              PROVE  \A p \in DOMAIN D(profiles) : IsDefinition(D(profiles)[p])
          <5> DEFINE no == NoDefinition
          <5> HIDE DEF no
          <5>1. IsDefinition(no)
            BY <3>3 DEF no
          <5>2. QED
            BY <4>1, <5>1 DEF MergeBy, Latter, no
        <4>2. \/ Definitions(content) = content.profiles
              \/ Definitions(content) = D(content.profiles)
              \/ Definitions(content) = D(content.returns)
          BY DEF Definitions
        <4> HIDE DEF D
        <4>3. QED
          BY <3>2, <4>1, <4>2
      <3>5. fromFile = [i \in DOMAIN requested |-> Definitions(content)[requested[i]]]
        BY <2>2
      <3>6. /\ DOMAIN fromFile = DOMAIN requested /\ IsSequence(fromFile)
            /\ \A i \in DOMAIN fromFile : fromFile[i] = Definitions(content)[requested[i]]
        <4>1. Len(requested) \in Nat /\ DOMAIN requested = 1 .. Len(requested)
          BY <1>4 DEF IsSequence
        <4> HIDE DEF fromFile, requested, content
        <4>2. /\ DOMAIN fromFile = DOMAIN requested
              /\ \A i \in DOMAIN fromFile : fromFile[i] = Definitions(content)[requested[i]]
          BY <3>5
        <4>3. fromFile = [i \in 1 .. Len(requested) |-> fromFile[i]]
          BY <3>5, <4>1, <4>2
        <4>4. \A i \in 1 .. Len(requested) : fromFile[i] \in ToSet(fromFile)
          BY <4>1, <4>2 DEF ToSet
        <4>5. fromFile \in Seq(ToSet(fromFile))
          BY <4>1, <4>3, <4>4
        <4>6. QED
          BY <4>2, <4>5 DEF IsSequence
      <3> HIDE DEF fromFile, requested, content
      <3>7. \A i \in DOMAIN fromFile : IsDefinition(fromFile[i]) /\ Parses(fromFile[i])
        BY <3>1, <3>4, <3>6 DEF ProfilesLoad
      <3>8. Read(fromFile) = [i \in DOMAIN requested |-> ParseConfiguration(Definitions(content)[requested[i]])]
        BY <3>6 DEF Read
      <3>9. QED
        BY <3>1, <3>6, <3>7, <3>8 DEF FromFile
    <2>3. QED
      BY <2>1, <2>2
  <1>6. Layers = fromFile \o <<last>>
    BY DEF Layers
  <1> HIDE DEF fromFile, last, argv, requested, content
  <1>7. Given(key) = FlattenSeq(GivenIn(fromFile \o <<last>>, key))
    BY <1>6 DEF Given, GivenIn
  <1>8. original = MergeConfigurations(DefaultConfiguration,
                       <<MergeConfigurations(Nothing, Read(fromFile)), ParseConfiguration(last)>>)
    BY <1>1, <1>3, <1>5 DEF Merged
  <1>9. \E n \in Nat : DOMAIN Layers = 1 .. n
    <2>1. DOMAIN (fromFile \o <<last>>) = 1 .. Len(fromFile) + Len(<<last>>) /\ Len(fromFile) \in Nat
      BY <1>5, SingleIsSequence, Joined
    <2>2. Len(<<last>>) = 1
      OBVIOUS
    <2>3. QED
      BY <1>6, <2>1, <2>2
  <1>10. QED
    BY <1>2, <1>3, <1>5, <1>6, <1>7, <1>8, <1>9, LayersAreMerged
-----------------------------------------------------------------------------
(* What the run is started with. *)

(* In a run, of what cannot be repeated there is the last that is given.   *)
LEMMA ScalarIsLast ==
    ASSUME ConfigurationInv, stage = "run", NEW key \in Scalars
    PROVE  /\ original[key] = LastGiven(key)
           /\ key \in Counts => original[key] \in Nat
  <1>1. key \in Options
    BY DEF Scalars, Options
  <1>2. /\ OptionSays(original, key, Layers, Given(key)) /\ IsSequence(Given(key))
        /\ \A item \in ToSet(Given(key)) : key \in Counts => item \in Nat
    BY <1>1, OptionsAreSaid
  <1>3. original[key] = LastGiven(key)
    BY <1>2 DEF OptionSays, LastGiven, Last
  <1>4. ASSUME key \in Counts
        PROVE  original[key] \in Nat
    <2> DEFINE g == Given(key)
    <2>1. CASE g = <<>>
      <3>1. DefaultConfiguration[key] = 0
        BY <1>1, <1>4 DEF DefaultConfiguration, Flags, Counts, Objects, Options
      <3>2. QED
        BY <1>3, <2>1, <3>1 DEF LastGiven
    <2>2. CASE g # <<>>
      <3>1. g \in Seq(ToSet(g)) /\ LastGiven(key) = g[Len(g)]
        BY <1>2, <2>2 DEF IsSequence, LastGiven, Last
      <3>2. \A x \in ToSet(g) : x \in Nat
        BY <1>2, <1>4
      <3> HIDE DEF g
      <3>3. g[Len(g)] \in ToSet(g)
        BY <2>2, <3>1
      <3>4. QED
        BY <1>3, <3>1, <3>2, <3>3
    <2>3. QED
      BY <2>1, <2>2
  <1>5. QED
    BY <1>3, <1>4

(* Of what is appended there is all that is given.                         *)
LEMMA AdditiveIsAll ==
    ASSUME ConfigurationInv, stage = "run", NEW key \in AdditiveArrays
    PROVE  original[key] = Given(key) /\ IsSequence(Given(key))
           /\ \A item \in ToSet(Given(key)) : IsItem(key, item)
  <1>1. key \in Options
    BY DEF Options
  <1>2. /\ OptionSays(original, key, Layers, Given(key)) /\ IsSequence(Given(key))
        /\ \A item \in ToSet(Given(key)) : IsItem(key, item)
    BY <1>1, OptionsAreSaid
  <1>3. QED
    BY <1>2 DEF OptionSays, SaysAll

(* Of an object there is all that is given, and at each path what the last *)
(* one that gives it says if it is for it to say.                          *)
LEMMA ObjectIsMerged ==
    ASSUME ConfigurationInv, stage = "run", NEW option \in Objects, NEW path, Agreed(option, path)
    PROVE  /\ path \in DOMAIN original[option] <=> path \in PathsGiven(option)
           /\ path \in PathsGiven(option) /\ Decided(option, path) =>
                  original[option][path] = LastGivenFor(option, path)
  <1> DEFINE given == Given(option)
             giving == {i \in DOMAIN given : path \in DOMAIN given[i]}
             tree == original[option]
  <1>1. option \in Options
    BY DEF Options
  <1>2. OptionSays(original, option, Layers, given) /\ IsSequence(given)
    BY <1>1, OptionsAreSaid
  <1>3. MergedFrom(tree, given)
    BY <1>2 DEF OptionSays, SaysKeys
  <1>4. KeysIn(given) = PathsGiven(option)
    BY DEF KeysIn, PathsGiven
  <1>5. /\ giving = Giving(option, path)
        /\ LastGivenFor(option, path) = given[Max(giving)][path]
        /\ AgreedIn(given, path)
    BY DEF Giving, LastGivenFor, Agreed, AgreedIn
  <1> HIDE DEF given, tree
  <1>6. ASSUME path \in PathsGiven(option), Decided(option, path)
        PROVE  tree[path] = LastGivenFor(option, path)
    <2>1. Ordinary(path)
      BY <1>6 DEF Decided, Ordinary
    <2>2. giving # {}
      BY <1>4, <1>6 DEF KeysIn, ToSet
    <2>3. Max(giving) \in giving /\ \A i \in giving : i <= Max(giving)
      <3>1. Len(given) \in Nat /\ giving \in SUBSET (1 .. Len(given))
        BY <1>2 DEF IsSequence
      <3> HIDE DEF giving
      <3>2. QED
        BY <2>2, <3>1, GreatestOfNaturals
    <2>4. IsLastFor(given, path, given[Max(giving)][path])
      <3>1. DOMAIN given \subseteq Nat
        BY <1>2 DEF IsSequence
      <3> DEFINE last == Max(giving)
      <3>2. last \in DOMAIN given /\ path \in DOMAIN given[last] /\ \A i \in giving : i <= last
        BY <2>3
      <3> HIDE DEF last
      <3>3. \A j \in DOMAIN given : j > last => path \notin DOMAIN given[j]
        BY <3>1, <3>2
      <3>4. IsLastFor(given, path, given[last][path])
        BY <3>2, <3>3 DEF IsLastFor
      <3>5. QED
        BY <3>4 DEF last
    <2>5. CASE LastGivenFor(option, path) # Object
      BY <1>3, <1>4, <1>5, <1>6, <2>1, <2>4, <2>5 DEF MergedFrom, Decides
    <2>6. CASE LastGivenFor(option, path) = Object
      <3>1. AllSay(given, path, Object)
        BY <1>5, <1>6, <2>6 DEF Decided, AllSay, given
      <3>2. QED
        BY <1>3, <1>4, <1>5, <1>6, <2>1, <2>6, <3>1 DEF MergedFrom, Decides
    <2>7. QED
      BY <2>5, <2>6
  <1>7. path \in DOMAIN tree <=> path \in PathsGiven(option)
    BY <1>3, <1>4, <1>5 DEF MergedFrom
  <1>8. QED
    BY <1>6, <1>7 DEF tree

(* What is converted is there as it was merged.                            *)
LEMMA ConvertedIs ==
    ASSUME NEW c, NEW env, NEW r, r = ConvertConfiguration(c, env)
    PROVE  /\ \A option \in {"dryRun", "failFast", "parallel", "retry", "retryTagFilter", "strict",
                             "workerOptions", "worldParameters"} : r.runtime[option] = c[option]
           /\ r.runtime.filterStacktraces = ~c.backtrace
           /\ r.sources = ISourcesCoordinates(c)
           /\ r.support = ISupportCodeCoordinates(c)
           /\ r.plugins = IRunOptionsPlugins(c)
           /\ r.formats.publish = MakePublishConfig(c, env)
           /\ r.formats.options = c.formatOptions
           /\ r.formats.stdout = ConvertFormats(c.format).stdout
           /\ r.formats.files = ConvertFormats(c.format).files
  <1>1. /\ r.runtime = IRunOptionsRuntime(c) /\ r.formats = IRunOptionsFormats(c, env)
        /\ r.sources = ISourcesCoordinates(c)
        /\ r.support = ISupportCodeCoordinates(c)
        /\ r.plugins = IRunOptionsPlugins(c)
    BY DEF ConvertConfiguration
  <1>2. /\ \A option \in {"dryRun", "failFast", "parallel", "retry", "retryTagFilter", "strict",
                             "workerOptions", "worldParameters"} : r.runtime[option] = c[option]
        /\ r.runtime.filterStacktraces = ~c.backtrace
    BY <1>1 DEF IRunOptionsRuntime, MergeBy, Latter
  <1>3. /\ r.formats.publish = MakePublishConfig(c, env)
        /\ r.formats.options = c.formatOptions
        /\ r.formats.stdout = ConvertFormats(c.format).stdout
        /\ r.formats.files = ConvertFormats(c.format).files
    <2> DEFINE f == ConvertFormats(c.format)
               m == [publish |-> MakePublishConfig(c, env), options |-> c.formatOptions]
    <2>1. DOMAIN f = {"stdout", "files"}
      BY DEF ConvertFormats
    <2>2. DOMAIN m = {"publish", "options"} /\ m.publish = MakePublishConfig(c, env) /\ m.options = c.formatOptions
      OBVIOUS
    <2>3. r.formats = MergeBy(Latter, f, m)
      BY <1>1 DEF IRunOptionsFormats
    <2> HIDE DEF f, m
    <2>4. /\ r.formats.publish = m.publish /\ r.formats.options = m.options
          /\ r.formats.stdout = f.stdout /\ r.formats.files = f.files
      BY <2>1, <2>2, <2>3 DEF MergeBy, Latter
    <2>5. QED
      BY <2>2, <2>4 DEF f
  <1>4. QED
    BY <1>1, <1>2, <1>3

(* The formatters: of each target, the last that is given for it.          *)
LEMMA FormattersAreLast ==
    ASSUME ConfigurationInv, stage = "run"
    PROVE  LET targets == {item.target : item \in ToSet(Given("format"))}
           IN /\ DOMAIN started.formatters = targets \cup {""}
              /\ \A target \in targets :
                     started.formatters[target] =
                         InitializeFormatter(LastFor(target), target = "" /\ input.env.isTTY, run.formats.options)
              /\ "" \notin targets =>
                     started.formatters[""] =
                         InitializeFormatter("progress", input.env.isTTY, run.formats.options)
  <1> DEFINE items == Given("format")
             targets == {item.target : item \in ToSet(items)}
             formats == ConvertFormats(items)
  <1>1. original.format = items
    <2>1. "format" \in AdditiveArrays
      BY DEF AdditiveArrays
    <2>2. QED
      BY <2>1, AdditiveIsAll
  <1>2. run.formats.stdout = formats.stdout /\ run.formats.files = formats.files
    BY <1>1, ConvertedIs DEF ConfigurationInv
  <1>3. started.formatters = InitializeFormatters(run.formats, input.env.isTTY)
    BY DEF ConfigurationInv, HasStarted
  <1>4. /\ formats.stdout = IF "" \in targets THEN LastFor("") ELSE "progress"
        /\ formats.files = [target \in targets \ {""} |-> LastFor(target)]
    BY DEF ConvertFormats, LastFor
  <1> HIDE DEF items, targets, formats
  <1>5. DOMAIN formats.files = targets \ {""} /\ \A target \in targets \ {""} : formats.files[target] = LastFor(target)
    BY <1>4
  <1>6. /\ DOMAIN started.formatters = targets \cup {""}
        /\ started.formatters[""] = InitializeFormatter(formats.stdout, input.env.isTTY, run.formats.options)
        /\ \A target \in targets \ {""} :
               started.formatters[target] = InitializeFormatter(LastFor(target), FALSE, run.formats.options)
    BY <1>2, <1>3, <1>5 DEF InitializeFormatters
  <1>7. ASSUME NEW target \in targets
        PROVE  started.formatters[target] =
                   InitializeFormatter(LastFor(target), target = "" /\ input.env.isTTY, run.formats.options)
    <2>1. CASE target = ""
      <3>1. (target = "" /\ input.env.isTTY) = input.env.isTTY \/ TRUE
        OBVIOUS
      <3>2. started.formatters[target] = InitializeFormatter(LastFor(target), input.env.isTTY, run.formats.options)
        BY <1>4, <1>6, <1>7, <2>1
      <3>3. QED
        BY <2>1, <3>2 DEF InitializeFormatter
    <2>2. CASE target # ""
      BY <1>6, <1>7, <2>2 DEF InitializeFormatter
    <2>3. QED
      BY <2>1, <2>2
  <1>8. QED
    BY <1>4, <1>6, <1>7 DEF targets, items

(* What a formatter that prints is told of attachments.                    *)
LEMMA AttachmentsAreIncluded ==
    ASSUME NEW name, NEW options,
           ResolveImplementation(name) = "function" \/ name \in TerminalFormatters
    PROVE  LET paths == AttachmentPaths(name)
               given == {n \in DOMAIN paths : paths[n] \in DOMAIN options}
           IN FormatterOptions(name, options).includeAttachments =
                  IF given # {} THEN <<options[paths[Min(given)]]>>
                  ELSE IF ResolveImplementation(name) = "function" THEN <<Scalar(TRUE)>> ELSE <<>>
  <1> DEFINE own == <<"pretty", "includeAttachments">>
             one == <<"includeAttachments">>
             other == <<"printAttachments">>
             said == First(Said(options, one), Said(options, other))
             paths == AttachmentPaths(name)
             given == {n \in DOMAIN paths : paths[n] \in DOMAIN options}
             implementation == ResolveImplementation(name)
  <1>1. given # {} => Min(given) \in given /\ \A n \in given : Min(given) <= n
    <2>1. DOMAIN paths \subseteq Nat
      BY DEF AttachmentPaths
    <2>2. given \in SUBSET Nat
      BY <2>1
    <2> HIDE DEF given
    <2>3. QED
      BY <2>2, LeastOfNaturals
  <1>2. \A path : Said(options, path) = IF path \in DOMAIN options THEN <<options[path]>> ELSE <<>>
    BY DEF Said
  <1>3. \A x : <<x>> # <<>>
    OBVIOUS
  <1>4. IncludeAttachments(options) = said
    BY DEF IncludeAttachments
  <1>5. ResolveTerminalOptions(options).includeAttachments = said
    BY <1>4 DEF ResolveTerminalOptions
  <1>6. CASE name = "pretty"
    <2>1. implementation = "formatter"
      BY <1>6 DEF ResolveImplementation, Builtin, TerminalFormatters
    <2>2. paths = <<own, one, other>>
      BY <1>6 DEF AttachmentPaths
    <2>3. FormatterOptions(name, options).includeAttachments = First(Said(options, own), said)
      <3>1. FormatterOptions(name, options) = Pretty(options)
        BY <1>6, <2>1 DEF FormatterOptions
      <3>2. QED
        BY <1>5, <3>1 DEF Pretty
    <2>4. DOMAIN paths = {1, 2, 3} /\ paths[1] = own /\ paths[2] = one /\ paths[3] = other
      BY <2>2
    <2>5. FormatterOptions(name, options).includeAttachments =
              IF own \in DOMAIN options THEN <<options[own]>>
              ELSE IF one \in DOMAIN options THEN <<options[one]>>
              ELSE IF other \in DOMAIN options THEN <<options[other]>> ELSE <<>>
      BY <1>2, <1>3, <2>3 DEF First
    <2> HIDE DEF own, one, other, said, paths, implementation
    <2>6. given # {} => paths[Min(given)] =
              IF own \in DOMAIN options THEN own
              ELSE IF one \in DOMAIN options THEN one ELSE other
      BY <1>1, <2>4
    <2>7. given = {} <=> own \notin DOMAIN options /\ one \notin DOMAIN options /\ other \notin DOMAIN options
      BY <2>4
    <2> HIDE DEF given
    <2>8. FormatterOptions(name, options).includeAttachments =
              IF given # {} THEN <<options[paths[Min(given)]]>>
              ELSE IF implementation = "function" THEN <<Scalar(TRUE)>> ELSE <<>>
      BY <2>1, <2>5, <2>6, <2>7
    <2>9. QED
      BY <2>8 DEF given, paths, implementation
  <1>7. CASE name # "pretty"
    <2>1. paths = <<one, other>>
      BY <1>7 DEF AttachmentPaths
    <2>2. DOMAIN paths = {1, 2} /\ paths[1] = one /\ paths[2] = other
      BY <2>1
    <2>3. FormatterOptions(name, options).includeAttachments =
              IF said # <<>> THEN said ELSE IF implementation = "function" THEN <<Scalar(TRUE)>> ELSE <<>>
      <3>1. CASE name \in TerminalFormatters
        <4>1. implementation = "formatter"
          BY <3>1 DEF ResolveImplementation, Builtin, TerminalFormatters
        <4>2. FormatterOptions(name, options) \in {Summary(options), Progress(options), ProgressBar(options)}
          <5>1. /\ name = "summary" => FormatterOptions(name, options) = Summary(options)
                /\ name = "progress" => FormatterOptions(name, options) = Progress(options)
                /\ name = "progress-bar" => FormatterOptions(name, options) = ProgressBar(options)
            BY <4>1 DEF FormatterOptions
          <5>2. QED
            BY <1>7, <3>1, <5>1 DEF TerminalFormatters
        <4>3. ASSUME NEW more, "includeAttachments" \notin DOMAIN more
              PROVE  Besides(options, more).includeAttachments = said
          <5> DEFINE terminal == ResolveTerminalOptions(options)
          <5>1. "includeAttachments" \in DOMAIN terminal
            BY DEF ResolveTerminalOptions
          <5> HIDE DEF terminal
          <5>2. Besides(options, more) =
                    [key \in DOMAIN terminal \cup DOMAIN more |->
                        IF key \in DOMAIN more THEN more[key] ELSE terminal[key]]
            BY DEF Besides, terminal
          <5>3. Besides(options, more)["includeAttachments"] = terminal["includeAttachments"]
            BY <4>3, <5>1, <5>2
          <5>4. QED
            BY <1>5, <5>3 DEF terminal
        <4> HIDE DEF said, implementation
        <4>4. /\ Summary(options).includeAttachments = said
              /\ Progress(options).includeAttachments = said
              /\ ProgressBar(options).includeAttachments = said
          BY <1>5, <4>3 DEF Summary, Progress, ProgressBar
        <4>5. QED
          BY <4>1, <4>2, <4>4
      <3>2. CASE name \notin TerminalFormatters
        <4>1. implementation = "function" /\ name # "html"
          BY <3>2 DEF ResolveImplementation, Builtin, TerminalFormatters
        <4>2. FormatterOptions(name, options) = ClassOptions(options)
          BY <3>2, <4>1 DEF FormatterOptions, TerminalFormatters
        <4> HIDE DEF said
        <4>3. QED
          BY <1>4, <4>1, <4>2 DEF ClassOptions, First
      <3>3. QED
        BY <3>1, <3>2
    <2>4. said = IF one \in DOMAIN options THEN <<options[one]>>
                 ELSE IF other \in DOMAIN options THEN <<options[other]>> ELSE <<>>
      BY <1>2, <1>3 DEF First
    <2> HIDE DEF own, one, other, said, paths, implementation
    <2>5. given # {} => paths[Min(given)] = IF one \in DOMAIN options THEN one ELSE other
      BY <1>1, <2>2
    <2>6. given = {} <=> one \notin DOMAIN options /\ other \notin DOMAIN options
      BY <2>2
    <2> HIDE DEF given
    <2>7. FormatterOptions(name, options).includeAttachments =
              IF given # {} THEN <<options[paths[Min(given)]]>>
              ELSE IF implementation = "function" THEN <<Scalar(TRUE)>> ELSE <<>>
      BY <1>3, <2>3, <2>4, <2>5, <2>6
    <2>8. QED
      BY <2>7 DEF given, paths, implementation
  <1>8. QED
    BY <1>6, <1>7

(* Whatever files and arguments there are, of what cannot be repeated the  *)
(* last layer that gives it wins, in the runtime, the selection and the    *)
(* formatters.                                                             *)
LEMMA LaterLayerWinsInAny ==
    ASSUME ConfigurationInv
    PROVE  LaterLayerWins
  <1> SUFFICES ASSUME stage = "run" PROVE LaterLayerWins
    BY DEF LaterLayerWins
  <1> DEFINE targets == {item.target : item \in ToSet(Given("format"))}
             options == run.formats.options
  <1>1. run = ConvertConfiguration(original, input.env) /\ HasStarted
    BY DEF ConfigurationInv
  <1>2. \A key \in Scalars : original[key] = LastGiven(key)
    BY ScalarIsLast
  <1>3. \A option \in {"dryRun", "failFast", "parallel", "retry", "strict"} :
            run.runtime[option] = LastGiven(option)
    <2>1. {"dryRun", "failFast", "parallel", "retry", "strict"} \subseteq Scalars
      BY DEF Scalars, Flags, Counts
    <2>2. \A option \in {"dryRun", "failFast", "parallel", "retry", "strict"} :
              run.runtime[option] = original[option]
      BY <1>1, ConvertedIs
    <2>3. QED
      BY <1>2, <2>1, <2>2
  <1>4. run.runtime.filterStacktraces <=> ~LastGiven("backtrace")
    <2>1. "backtrace" \in Scalars
      BY DEF Scalars, Flags
    <2>2. original.backtrace = LastGiven("backtrace")
      BY <1>2, <2>1
    <2>3. run.runtime.filterStacktraces = ~original.backtrace
      BY <1>1, ConvertedIs
    <2>4. QED
      BY <2>2, <2>3
  <1>5. started.adapter = "parallel" <=> LastGiven("parallel") # 0
    <2>1. "parallel" \in Scalars /\ "parallel" \in Counts
      BY DEF Scalars, Counts
    <2>2. LastGiven("parallel") \in Nat /\ run.runtime.parallel = LastGiven("parallel")
      BY <1>3, <2>1, ScalarIsLast
    <2>3. started.adapter = MakeAdapter(run.runtime)
      BY <1>1 DEF HasStarted
    <2>4. QED
      BY <2>2, <2>3 DEF MakeAdapter
  <1>6. /\ run.sources.order = LastGiven("order") /\ run.sources.shard = LastGiven("shard")
        /\ run.sources.defaultDialect = LastGiven("language")
    <2>1. {"order", "shard", "language"} \subseteq Scalars
      BY DEF Scalars
    <2>2. run.sources = ISourcesCoordinates(original)
      BY <1>1, ConvertedIs
    <2>3. QED
      BY <1>2, <2>1, <2>2 DEF ISourcesCoordinates
  <1>7. run.formats.publish # <<>> <=> LastGiven("publish") \/ input.env.enabled \/ input.env.token # None
    <2>1. "publish" \in Scalars
      BY DEF Scalars, Flags
    <2>2. original.publish = LastGiven("publish")
      BY <1>2, <2>1
    <2>3. run.formats.publish = MakePublishConfig(original, input.env)
      BY <1>1, ConvertedIs
    <2>4. <<input.env.token>> # <<>>
      OBVIOUS
    <2>5. run.formats.publish # <<>> <=> IsPublishing(original, input.env)
      BY <2>3, <2>4 DEF MakePublishConfig
    <2>6. QED
      BY <2>2, <2>5 DEF IsPublishing
  <1>8. /\ DOMAIN started.formatters = targets \cup {""}
        /\ \A target \in targets :
               started.formatters[target] =
                   InitializeFormatter(LastFor(target), target = "" /\ input.env.isTTY, options)
        /\ "" \notin targets =>
               started.formatters[""] = InitializeFormatter("progress", input.env.isTTY, options)
    BY FormattersAreLast
  <1>9. ASSUME NEW target \in targets
        PROVE  LET last == LastFor(target)
               IN started.formatters[target].name =
                      IF last = "progress-bar" /\ (target # "" \/ ~input.env.isTTY)
                      THEN "progress" ELSE last
    <2> HIDE DEF targets
    <2>1. started.formatters[target].name =
              IF LastFor(target) = "progress-bar" /\ ~(target = "" /\ input.env.isTTY)
              THEN "progress" ELSE LastFor(target)
      <3>1. PICK tty : tty = (target = "" /\ input.env.isTTY)
        OBVIOUS
      <3>2. started.formatters[target] = InitializeFormatter(LastFor(target), tty, options)
        BY <1>8, <1>9, <3>1
      <3>3. started.formatters[target].name =
                IF LastFor(target) = "progress-bar" /\ ~tty THEN "progress" ELSE LastFor(target)
        BY <3>2 DEF InitializeFormatter
      <3>4. QED
        BY <3>1, <3>3
    <2>2. QED
      BY <2>1
  <1>10. ASSUME NEW option \in Objects, NEW path, Agreed(option, path)
         PROVE  LET tree == CASE option = "worldParameters" -> run.runtime.worldParameters
                              [] option = "workerOptions" -> run.runtime.workerOptions
                              [] option = "formatOptions" -> options
                              [] option = "pluginOptions" -> run.plugins.options
                IN /\ path \in DOMAIN tree <=> path \in PathsGiven(option)
                   /\ path \in PathsGiven(option) /\ Decided(option, path) =>
                          tree[path] = LastGivenFor(option, path)
    <2>1. option \in {"worldParameters", "workerOptions", "formatOptions", "pluginOptions"}
      BY DEF Objects
    <2>2. /\ run.runtime.worldParameters = original.worldParameters
          /\ run.runtime.workerOptions = original.workerOptions
          /\ options = original.formatOptions
          /\ run.plugins = IRunOptionsPlugins(original)
      BY <1>1, ConvertedIs
    <2>3. run.plugins.options = original.pluginOptions
      BY <2>2 DEF IRunOptionsPlugins
    <2>4. /\ path \in DOMAIN original[option] <=> path \in PathsGiven(option)
          /\ path \in PathsGiven(option) /\ Decided(option, path) =>
                 original[option][path] = LastGivenFor(option, path)
      BY <1>10, ObjectIsMerged
    <2> HIDE DEF options
    <2>5. CASE option = "worldParameters"
      BY <2>2, <2>4, <2>5
    <2>6. CASE option = "workerOptions"
      BY <2>2, <2>4, <2>6
    <2>7. CASE option = "formatOptions"
      BY <2>2, <2>4, <2>7
    <2>8. CASE option = "pluginOptions"
      BY <2>3, <2>4, <2>8
    <2>9. QED
      BY <2>1, <2>5, <2>6, <2>7, <2>8
  <1>11. ASSUME NEW f \in Range(started.formatters),
                f.implementation = "function" \/ f.name \in TerminalFormatters
         PROVE  LET paths == AttachmentPaths(f.name)
                    given == {n \in DOMAIN paths : paths[n] \in PathsGiven("formatOptions")}
                    first == paths[Min(given)]
                IN /\ \A n \in DOMAIN paths : Agreed("formatOptions", paths[n])
                   /\ given # {} => Decided("formatOptions", first)
                   => f.options.includeAttachments =
                          IF given # {} THEN <<LastGivenFor("formatOptions", first)>>
                          ELSE IF f.implementation = "function" THEN <<Scalar(TRUE)>> ELSE <<>>
    <2> DEFINE paths == AttachmentPaths(f.name)
               given == {n \in DOMAIN paths : paths[n] \in PathsGiven("formatOptions")}
               first == paths[Min(given)]
    <2> SUFFICES ASSUME \A n \in DOMAIN paths : Agreed("formatOptions", paths[n]),
                        given # {} => Decided("formatOptions", first)
                 PROVE  f.options.includeAttachments =
                            IF given # {} THEN <<LastGivenFor("formatOptions", first)>>
                            ELSE IF f.implementation = "function" THEN <<Scalar(TRUE)>> ELSE <<>>
      OBVIOUS
    <2>1. PICK specifier, isTTY : f = InitializeFormatter(specifier, isTTY, options)
      <3>1. PICK target \in DOMAIN started.formatters : f = started.formatters[target]
        BY <1>11 DEF Range
      <3> HIDE DEF targets, options
      <3>2. CASE target \in targets
        BY <1>8, <3>1, <3>2
      <3>3. CASE target \notin targets
        BY <1>8, <3>1, <3>3
      <3>4. QED
        BY <3>2, <3>3
    <2>2. /\ f.implementation = ResolveImplementation(f.name)
          /\ f.options = FormatterOptions(f.name, options)
      BY <2>1 DEF InitializeFormatter
    <2>3. "formatOptions" \in Objects
      BY DEF Objects
    <2> HIDE DEF options, paths
    <2>4. \A n \in DOMAIN paths : paths[n] \in DOMAIN options <=> paths[n] \in PathsGiven("formatOptions")
      BY <1>10, <2>3
    <2>5. {n \in DOMAIN paths : paths[n] \in DOMAIN options} = given
      BY <2>4
    <2>6. given # {} => Min(given) \in given
      <3>1. given \in SUBSET Nat
        BY DEF paths, AttachmentPaths
      <3> HIDE DEF given
      <3>2. QED
        BY <3>1, LeastOfNaturals
    <2>7. given # {} => options[first] = LastGivenFor("formatOptions", first)
      <3>1. given # {} => first \in PathsGiven("formatOptions") /\ Agreed("formatOptions", first)
        BY <2>6
      <3> HIDE DEF given, first
      <3>2. QED
        BY <1>10, <2>3, <3>1
    <2>8. FormatterOptions(f.name, options).includeAttachments =
              IF given # {} THEN <<options[first]>>
              ELSE IF ResolveImplementation(f.name) = "function" THEN <<Scalar(TRUE)>> ELSE <<>>
      <3>1. ResolveImplementation(f.name) = "function" \/ f.name \in TerminalFormatters
        BY <1>11, <2>2
      <3>2. QED
        BY <2>5, <3>1, AttachmentsAreIncluded DEF paths
    <2> HIDE DEF given, first
    <2>9. QED
      BY <2>2, <2>7, <2>8
  <1>12. \A object \in {<<"worldParameters", run.runtime.worldParameters>>,
                          <<"workerOptions", run.runtime.workerOptions>>,
                          <<"formatOptions", run.formats.options>>,
                          <<"pluginOptions", run.plugins.options>>} :
             /\ \A path \in DOMAIN object[2] \cup PathsGiven(object[1]) :
                    Agreed(object[1], path) =>
                        (path \in DOMAIN object[2] <=> path \in PathsGiven(object[1]))
             /\ \A path \in PathsGiven(object[1]) :
                    Decided(object[1], path) =>
                        object[2][path] = LastGivenFor(object[1], path)
    <2>1. /\ "worldParameters" \in Objects /\ "workerOptions" \in Objects
          /\ "formatOptions" \in Objects /\ "pluginOptions" \in Objects
      BY DEF Objects
    <2>2. \A option, path : Decided(option, path) => Agreed(option, path)
      BY DEF Decided
    <2>3. QED
      BY <1>10, <2>1, <2>2
  <1>13. QED
    BY <1>3, <1>4, <1>5, <1>6, <1>7, <1>8, <1>9, <1>11, <1>12 DEF LaterLayerWins

(* src/configuration/: whatever files and arguments there are, the last    *)
(* layer that gives an option decides it, and the last object, however     *)
(* deep, what it gives more of than an object to merge.                    *)
THEOREM LaterLayersWin == ConfigurationSpec => []LaterLayerWins
  <1>1. QED
    BY LaterLayerWinsInAny, ConfigurationInvariance, PTL
-----------------------------------------------------------------------------
(* Paths. *)

(* Paths that match files stand for these, each of them once.              *)
LEMMA PathsAreExpanded ==
    ASSUME NEW uris, IsSequence(uris), ToSet(uris) \subseteq DOMAIN Glob
    PROVE  /\ IsSequence(ExpandPaths(uris))
           /\ ToSet(ExpandPaths(uris)) = UNION {ToSet(Glob[uri]) : uri \in ToSet(uris)}
           /\ \A k, l \in DOMAIN ExpandPaths(uris) : ExpandPaths(uris)[k] = ExpandPaths(uris)[l] => k = l
  <1> DEFINE N == Len(uris)
             s == [i \in DOMAIN uris |-> Glob[uris[i]]]
             S == UNION {ToSet(Glob[uri]) : uri \in ToSet(uris)}
             all == FlattenSeq(s)
  <1>1. N \in Nat /\ DOMAIN uris = 1 .. N /\ \A i \in 1 .. N : uris[i] \in ToSet(uris)
    BY DEF IsSequence, ToSet
  <1>2. DOMAIN s = 1 .. N /\ Len(s) = N /\ \A i \in 1 .. N : s[i] = Glob[uris[i]]
    BY <1>1
  <1>3. ASSUME NEW i \in 1 .. N
        PROVE  s[i] \in Seq(S)
    <2>1. Glob[uris[i]] \in Seq(ToSet(Glob[uris[i]])) /\ ToSet(Glob[uris[i]]) \subseteq S
      BY <1>1, ConfigurationAssumption DEF IsSequence
    <2> HIDE DEF S, s
    <2>2. QED
      BY <1>2, <2>1
  <1> HIDE DEF s, S
  <1>4. all \in Seq(S) /\ ToSet(all) = UNION {ToSet(s[i]) : i \in 1 .. N}
    BY <1>1, <1>2, <1>3, FlattenedSet
  <1>5. UNION {ToSet(s[i]) : i \in 1 .. N} = S
    BY <1>1, <1>2 DEF S, ToSet
  <1>6. ExpandPaths(uris) = Distinct(all)
    BY DEF ExpandPaths, s
  <1> HIDE DEF all
  <1>7. /\ Distinct(all) \in Seq(S) /\ ToSet(Distinct(all)) = ToSet(all)
        /\ \A k, l \in DOMAIN Distinct(all) : Distinct(all)[k] = Distinct(all)[l] => k = l
    BY <1>4, DistinctSet, DistinctOnce
  <1>8. QED
    BY <1>4, <1>5, <1>6, <1>7 DEF IsSequence, S

(* The paths of features that are given, those of rerun files among them.  *)
LEMMA SourcePathsAre ==
    ASSUME NEW args, IsSequence(args), \A arg \in ToSet(args) : IsPathArgument(arg)
    PROVE  /\ IsSequence(GetUnexpandedSourcePaths(args))
           /\ \A path \in ToSet(GetUnexpandedSourcePaths(args)) : path.uri \in DOMAIN Glob
  <1> DEFINE N == Len(args)
             s == [i \in DOMAIN args |-> PathsOf(args[i])]
             S == UNION {ToSet(PathsOf(args[i])) : i \in DOMAIN args}
             paths == FlattenSeq(s)
  <1>1. N \in Nat /\ DOMAIN args = 1 .. N /\ \A i \in 1 .. N : IsPathArgument(args[i])
    BY DEF IsSequence, ToSet
  <1>2. DOMAIN s = 1 .. N /\ Len(s) = N /\ \A i \in 1 .. N : s[i] = PathsOf(args[i])
    BY <1>1
  <1>3. ASSUME NEW i \in 1 .. N
        PROVE  /\ IsSequence(PathsOf(args[i]))
               /\ \A path \in ToSet(PathsOf(args[i])) : path.uri \in DOMAIN Glob \cup {""}
    <2>1. CASE "rerun" \in DOMAIN args[i]
      BY <1>1, <2>1 DEF IsPathArgument, PathsOf
    <2>2. CASE "rerun" \notin DOMAIN args[i]
      <3>1. PathsOf(args[i]) = <<args[i]>> /\ args[i].uri \in DOMAIN Glob \cup {""}
        BY <1>1, <2>2 DEF IsPathArgument, PathsOf
      <3>2. ToSet(<<args[i]>>) = {args[i]} /\ IsSequence(<<args[i]>>)
        BY SingleIsSequence
      <3>3. QED
        BY <3>1, <3>2
    <2>3. QED
      BY <2>1, <2>2
  <1>4. ASSUME NEW i \in 1 .. N
        PROVE  s[i] \in Seq(S)
    <2>1. PathsOf(args[i]) \in Seq(ToSet(PathsOf(args[i]))) /\ ToSet(PathsOf(args[i])) \subseteq S
      BY <1>1, <1>3 DEF IsSequence
    <2> HIDE DEF S, s
    <2>2. QED
      BY <1>2, <2>1
  <1>5. \A path \in S : path.uri \in DOMAIN Glob \cup {""}
    BY <1>1, <1>3
  <1> HIDE DEF s, S
  <1>6. paths \in Seq(S)
    BY <1>1, <1>2, <1>4, FlattenedSet
  <1>7. GetUnexpandedSourcePaths(args) = IF paths = <<>> THEN DefaultPaths ELSE Named(paths)
    BY DEF GetUnexpandedSourcePaths, s
  <1> HIDE DEF paths
  <1>8. /\ Named(paths) \in Seq(S)
        /\ ToSet(Named(paths)) = {paths[i] : i \in {k \in DOMAIN paths : paths[k].uri # ""}}
    <2> DEFINE P == {i \in DOMAIN paths : paths[i].uri # ""}
    <2>1. P \in SUBSET (1 .. Len(paths))
      <3>1. DOMAIN paths = 1 .. Len(paths)
        BY <1>6
      <3>2. QED
        BY <3>1
    <2>2. Named(paths) = Keep(paths, P)
      BY DEF Named
    <2> HIDE DEF P
    <2>3. Named(paths) \in Seq(S) /\ ToSet(Named(paths)) = {paths[i] : i \in P}
      BY <1>6, <2>1, <2>2, KeepIsPart
    <2>4. P = {k \in DOMAIN paths : paths[k].uri # ""}
      BY DEF P
    <2>5. QED
      BY <2>3, <2>4
  <1>9. \A path \in ToSet(Named(paths)) : path.uri \in DOMAIN Glob
    <2> SUFFICES ASSUME NEW path \in ToSet(Named(paths)) PROVE path.uri \in DOMAIN Glob
      OBVIOUS
    <2>1. PICK i \in DOMAIN paths : paths[i].uri # "" /\ path = paths[i]
      BY <1>8
    <2>2. paths[i] \in S
      BY <1>6
    <2>3. QED
      BY <1>5, <2>1, <2>2
  <1>10. IsSequence(Named(paths))
    <2> DEFINE named == Named(paths)
    <2>1. named \in Seq(S)
      BY <1>8
    <2> HIDE DEF named
    <2>2. named \in Seq(ToSet(named))
      BY <2>1 DEF ToSet
    <2>3. QED
      BY <2>2 DEF IsSequence, named
  <1>11. QED
    BY <1>7, <1>9, <1>10, ConfigurationAssumption
-----------------------------------------------------------------------------
(* The pickles of the files, as they are kept file by file.                *)
OfFiles(files) ==
    FlattenSeq([i \in DOMAIN files |-> Keep(Pickles, {p \in DOMAIN Pickles : Pickles[p].uri = files[i]})])

(* They are the pickles of the files, each of them once.                   *)
LEMMA PicklesOfFiles ==
    ASSUME NEW files, IsSequence(files), \A k, l \in DOMAIN files : files[k] = files[l] => k = l
    PROVE  /\ OfFiles(files) \in Seq(ToSet(Pickles))
           /\ ToSet(OfFiles(files)) = {pickle \in ToSet(Pickles) : pickle.uri \in ToSet(files)}
           /\ \A k, l \in 1 .. Len(OfFiles(files)) : OfFiles(files)[k] = OfFiles(files)[l] => k = l
  <1> DEFINE N == Len(files)
             S == ToSet(Pickles)
             places(i) == {p \in DOMAIN Pickles : Pickles[p].uri = files[i]}
             s == [i \in DOMAIN files |-> Keep(Pickles, places(i))]
  <1>1. N \in Nat /\ DOMAIN files = 1 .. N
    BY DEF IsSequence
  <1>2. /\ Pickles \in Seq(S) /\ DOMAIN Pickles = 1 .. Len(Pickles)
        /\ \A i, j \in 1 .. Len(Pickles) : Pickles[i] = Pickles[j] => i = j
    <2>1. Pickles \in Seq(S)
      BY ConfigurationAssumption DEF IsSequence
    <2> HIDE DEF S
    <2>2. DOMAIN Pickles = 1 .. Len(Pickles)
      BY <2>1
    <2>3. QED
      BY <2>1, <2>2, ConfigurationAssumption
  <1>3. DOMAIN s = 1 .. N /\ Len(s) = N /\ \A i \in 1 .. N : s[i] = Keep(Pickles, places(i))
    BY <1>1
  <1>4. OfFiles(files) = FlattenSeq(s)
    BY DEF OfFiles
  <1> HIDE DEF s, S
  <1>5. ASSUME NEW i \in 1 .. N
        PROVE  /\ s[i] \in Seq(S) /\ ToSet(s[i]) = {pickle \in S : pickle.uri = files[i]}
               /\ \A k, l \in DOMAIN s[i] : s[i][k] = s[i][l] => k = l
    <2>1. places(i) \in SUBSET (1 .. Len(Pickles))
      BY <1>2
    <2>2. {Pickles[p] : p \in places(i)} = {pickle \in S : pickle.uri = files[i]}
      BY DEF S, ToSet
    <2> HIDE DEF places
    <2>3. /\ Keep(Pickles, places(i)) \in Seq(S)
          /\ ToSet(Keep(Pickles, places(i))) = {Pickles[p] : p \in places(i)}
          /\ \A k, l \in DOMAIN Keep(Pickles, places(i)) :
                 Keep(Pickles, places(i))[k] = Keep(Pickles, places(i))[l] => k = l
      BY <1>2, <2>1, KeepIsPart
    <2>4. QED
      BY <1>3, <2>2, <2>3
  <1> HIDE DEF places, N
  <1>6. FlattenSeq(s) \in Seq(S) /\ ToSet(FlattenSeq(s)) = UNION {ToSet(s[i]) : i \in 1 .. N}
    BY <1>1, <1>3, <1>5, FlattenedSet
  <1>7. UNION {ToSet(s[i]) : i \in 1 .. N} = {pickle \in S : pickle.uri \in ToSet(files)}
    <2>1. ToSet(files) = {files[i] : i \in 1 .. N}
      BY <1>1 DEF ToSet
    <2>2. QED
      BY <1>5, <2>1
  <1>8. ASSUME NEW i \in 1 .. N, NEW j \in 1 .. N, NEW k \in DOMAIN s[i], NEW l \in DOMAIN s[j], s[i][k] = s[j][l]
        PROVE  i = j /\ k = l
    <2>1. s[i][k] \in ToSet(s[i]) /\ s[j][l] \in ToSet(s[j])
      BY DEF ToSet
    <2>2. s[i][k].uri = files[i] /\ s[j][l].uri = files[j]
      BY <1>5, <2>1
    <2>3. i = j
      BY <1>1, <1>8, <2>2
    <2>4. QED
      BY <1>5, <1>8, <2>3
  <1>9. \A k, l \in 1 .. Len(FlattenSeq(s)) : FlattenSeq(s)[k] = FlattenSeq(s)[l] => k = l
    <2>1. \A i \in 1 .. N : s[i] \in Seq(S)
      BY <1>5
    <2>2. \A i, j \in 1 .. N : \A k \in DOMAIN s[i] : \A l \in DOMAIN s[j] :
              s[i][k] = s[j][l] => i = j /\ k = l
      BY <1>8
    <2>3. QED
      BY <1>1, <1>3, <2>1, <2>2, FlattenedOnce
  <1>10. QED
    BY <1>4, <1>6, <1>7, <1>9 DEF S

(* Filtered, they are those that match, each of them once.                 *)
LEMMA FilteredAre ==
    ASSUME NEW filter, NEW S, NEW pickles \in Seq(S),
           \A k, l \in 1 .. Len(pickles) : pickles[k] = pickles[l] => k = l
    PROVE  /\ FilterPickles(filter, pickles) \in Seq(S)
           /\ ToSet(FilterPickles(filter, pickles)) =
                  {pickle \in ToSet(pickles) : /\ MatchesAnyLine(filter, pickle)
                                               /\ MatchesAnyName(filter, pickle)
                                               /\ MatchesAllTagExpressions(filter.tagExpression, pickle)}
           /\ Cardinality(ToSet(FilterPickles(filter, pickles))) = Len(FilterPickles(filter, pickles))
  <1> DEFINE Matches(pickle) == /\ MatchesAnyLine(filter, pickle)
                                /\ MatchesAnyName(filter, pickle)
                                /\ MatchesAllTagExpressions(filter.tagExpression, pickle)
             P == {i \in DOMAIN pickles : Matches(pickles[i])}
             kept == Keep(pickles, P)
  <1>1. FilterPickles(filter, pickles) = kept
    BY DEF FilterPickles
  <1>2. P \in SUBSET (1 .. Len(pickles)) /\ DOMAIN pickles = 1 .. Len(pickles)
    OBVIOUS
  <1>3. {pickles[i] : i \in P} = {pickle \in ToSet(pickles) : Matches(pickle)}
    BY DEF ToSet
  <1> HIDE DEF P
  <1>4. /\ kept \in Seq(S) /\ ToSet(kept) = {pickles[i] : i \in P}
        /\ \A k, l \in DOMAIN kept : kept[k] = kept[l] => k = l
    BY <1>2, KeepIsPart
  <1> HIDE DEF kept
  <1>5. Cardinality(ToSet(kept)) = Len(kept)
    <2>1. DOMAIN kept = 1 .. Len(kept)
      BY <1>4
    <2>2. QED
      BY <1>4, <2>1, NothingTwice
  <1>6. QED
    BY <1>1, <1>3, <1>4, <1>5

(* What a filter of tags lets pass, which comes from what is given.        *)
LEMMA TagFilterIs ==
    ASSUME NEW text, NEW given, IsSequence(given), Filters(text, given), NEW pickle \in ToSet(Pickles)
    PROVE  pickle.tags \in TagFilter(text) <=> \A one \in ToSet(Effective(given)) : pickle.tags \in Meaning(one)
  <1>1. ToSet(Effective(given)) = StillGiven(given)
    BY EffectiveIs
  <1>2. CASE text = <<>>
    BY <1>1, <1>2 DEF Filters, TagFilter
  <1>3. CASE text # <<>>
    BY <1>1, <1>3 DEF Filters, TagFilter
  <1>4. QED
    BY <1>2, <1>3

(* The lines that are wanted of a file.                                    *)
LEMMA LinesAre ==
    ASSUME NEW paths, NEW filter, filter.lines = GetFeatureUriToLinesMapping(paths), NEW pickle
    PROVE  LET lines == UNION {path.lines : path \in {p \in ToSet(paths) : p.uri = pickle.uri}}
           IN MatchesAnyLine(filter, pickle) <=> (lines # {} => lines \cap pickle.lines # {})
  <1> DEFINE uri == pickle.uri
             ofLines == {path \in ToSet(paths) : path.lines # {}}
             lines == UNION {path.lines : path \in {p \in ToSet(paths) : p.uri = uri}}
             some == UNION {path.lines : path \in {p \in ofLines : p.uri = uri}}
  <1>1. lines = some
    OBVIOUS
  <1>2. filter.lines = [u \in {path.uri : path \in ofLines} |-> UNION {path.lines : path \in {p \in ofLines : p.uri = u}}]
    BY DEF GetFeatureUriToLinesMapping
  <1>3. uri \in DOMAIN filter.lines <=> uri \in {path.uri : path \in ofLines}
    BY <1>2
  <1>4. uri \in DOMAIN filter.lines => filter.lines[uri] = some
    BY <1>2
  <1>5. uri \in {path.uri : path \in ofLines} <=> some # {}
    OBVIOUS
  <1> HIDE DEF lines, some, ofLines
  <1>6. QED
    BY <1>1, <1>3, <1>4, <1>5 DEF MatchesAnyLine, lines
-----------------------------------------------------------------------------
(* What the tag expressions that are given come down to.                   *)
LEMMA TagsAreNarrowed ==
    ASSUME ConfigurationInv, stage = "run", NEW key \in TagExpressions, TakenFrom(Layers, key)
    PROVE  \A pickle \in ToSet(Pickles) :
               pickle.tags \in TagFilter(original[key]) <=>
                   \A text \in ToSet(Effective(Given(key))) : pickle.tags \in Meaning(text)
  <1>1. key \in Options
    BY DEF Options
  <1>2. OptionSays(original, key, Layers, Given(key)) /\ IsSequence(Given(key))
    BY <1>1, OptionsAreSaid
  <1>3. Filters(original[key], Given(key))
    BY <1>2 DEF OptionSays, SaysTags
  <1>4. QED
    BY <1>2, <1>3, TagFilterIs

(* The files that are run, and the pickles that are selected of them.      *)
LEMMA SelectedAre ==
    ASSUME ConfigurationInv, stage = "run", TakenFrom(Layers, "tags")
    PROVE  LET paths == ToSet(GetUnexpandedSourcePaths(Given("paths")))
           IN /\ \A pickle : pickle \in ToSet(started.pickles) <=>
                     /\ pickle \in ToSet(Pickles)
                     /\ \E path \in paths : pickle.uri \in ToSet(Glob[path.uri])
                     /\ LET lines == UNION {path.lines : path \in {p \in paths : p.uri = pickle.uri}}
                        IN lines # {} => lines \cap pickle.lines # {}
                     /\ \A text \in ToSet(Effective(Given("tags"))) : pickle.tags \in Meaning(text)
                     /\ Given("name") = <<>> \/ pickle.name \in ToSet(Given("name"))
              /\ started.pickles \in Seq(ToSet(Pickles))
              /\ Cardinality(ToSet(started.pickles)) = Len(started.pickles)
  <1> DEFINE given == Given("paths")
             unexpanded == GetUnexpandedSourcePaths(given)
             uris == [i \in DOMAIN unexpanded |-> unexpanded[i].uri]
             files == ExpandPaths(uris)
             filter == [lines |-> GetFeatureUriToLinesMapping(unexpanded), names |-> ToSet(Given("name")),
                        tagExpression |-> TagFilter(original["tags"])]
             Lines(pickle) == UNION {path.lines : path \in {p \in ToSet(unexpanded) : p.uri = pickle.uri}}
             Allowed(pickle) == \A text \in ToSet(Effective(Given("tags"))) : pickle.tags \in Meaning(text)
  <1>1. /\ original["paths"] = given /\ IsSequence(given) /\ \A arg \in ToSet(given) : IsPathArgument(arg)
        /\ original["name"] = Given("name") /\ IsSequence(Given("name"))
    <2>1. "paths" \in AdditiveArrays /\ "name" \in AdditiveArrays
      BY DEF AdditiveArrays
    <2>2. QED
      BY <2>1, AdditiveIsAll DEF IsItem
  <1>2. started.pickles = FilterPickles(filter, OfFiles(files))
    <2>1. run = ConvertConfiguration(original, input.env) /\ HasStarted
      BY DEF ConfigurationInv
    <2>2. run.sources = ISourcesCoordinates(original)
      BY <2>1, ConvertedIs
    <2>3. /\ run.sources.paths = given /\ run.sources.names = ToSet(Given("name"))
          /\ run.sources.tagExpression = original["tags"]
      BY <1>1, <2>2 DEF ISourcesCoordinates
    <2> DEFINE paths == ResolvePaths(run.sources.paths, run.support.requirePaths, run.support.importPaths)
    <2>4. paths.unexpandedSourcePaths = unexpanded /\ paths.sourcePaths = files
      BY <2>3 DEF ResolvePaths, ExpandSourcePaths
    <2>5. started.pickles = SelectPickles(run.sources, paths)
      BY <2>1 DEF HasStarted
    <2> HIDE DEF paths, files, unexpanded
    <2>6. QED
      BY <2>3, <2>4, <2>5 DEF SelectPickles, OfFiles
  <1>3. IsSequence(unexpanded) /\ \A path \in ToSet(unexpanded) : path.uri \in DOMAIN Glob
    BY <1>1, SourcePathsAre
  <1>4. \A pickle \in ToSet(Pickles) : pickle.tags \in TagFilter(original["tags"]) <=> Allowed(pickle)
    <2>1. "tags" \in TagExpressions
      BY DEF TagExpressions
    <2>2. QED
      BY <2>1, TagsAreNarrowed
  <1> HIDE DEF given, unexpanded
  <1>5. IsSequence(uris) /\ ToSet(uris) = {path.uri : path \in ToSet(unexpanded)}
    <2>1. Len(unexpanded) \in Nat /\ DOMAIN unexpanded = 1 .. Len(unexpanded)
      BY <1>3 DEF IsSequence
    <2>2. uris \in Seq({unexpanded[i].uri : i \in DOMAIN unexpanded})
      BY <2>1
    <2>3. ToSet(uris) = {unexpanded[i].uri : i \in DOMAIN unexpanded}
      BY <2>1 DEF ToSet
    <2>4. {unexpanded[i].uri : i \in DOMAIN unexpanded} = {path.uri : path \in ToSet(unexpanded)}
      BY DEF ToSet
    <2> HIDE DEF uris
    <2>5. QED
      BY <2>2, <2>3, <2>4 DEF IsSequence
  <1> HIDE DEF uris
  <1>6. /\ IsSequence(files) /\ \A k, l \in DOMAIN files : files[k] = files[l] => k = l
        /\ ToSet(files) = UNION {ToSet(Glob[uri]) : uri \in ToSet(uris)}
    <2>1. ToSet(uris) \subseteq DOMAIN Glob
      BY <1>3, <1>5
    <2>2. QED
      BY <1>5, <2>1, PathsAreExpanded
  <1>7. \A file_ : file_ \in ToSet(files) <=> \E path \in ToSet(unexpanded) : file_ \in ToSet(Glob[path.uri])
    BY <1>5, <1>6
  <1> HIDE DEF files
  <1>8. /\ OfFiles(files) \in Seq(ToSet(Pickles))
        /\ ToSet(OfFiles(files)) = {pickle \in ToSet(Pickles) : pickle.uri \in ToSet(files)}
        /\ \A k, l \in 1 .. Len(OfFiles(files)) : OfFiles(files)[k] = OfFiles(files)[l] => k = l
    BY <1>6, PicklesOfFiles
  <1>9. /\ started.pickles \in Seq(ToSet(Pickles))
        /\ ToSet(started.pickles) =
               {pickle \in ToSet(OfFiles(files)) : /\ MatchesAnyLine(filter, pickle)
                                                   /\ MatchesAnyName(filter, pickle)
                                                   /\ MatchesAllTagExpressions(filter.tagExpression, pickle)}
        /\ Cardinality(ToSet(started.pickles)) = Len(started.pickles)
    <2> HIDE DEF filter
    <2>1. QED
      BY <1>2, <1>8, FilteredAre
  <1>10. \A pickle : MatchesAnyLine(filter, pickle) <=> (Lines(pickle) # {} => Lines(pickle) \cap pickle.lines # {})
    <2>1. filter.lines = GetFeatureUriToLinesMapping(unexpanded)
      OBVIOUS
    <2> HIDE DEF filter
    <2>2. QED
      BY <2>1, LinesAre
  <1>11. \A pickle : MatchesAnyName(filter, pickle) <=> Given("name") = <<>> \/ pickle.name \in ToSet(Given("name"))
    <2> DEFINE names == Given("name")
    <2>1. names \in Seq(ToSet(names))
      BY <1>1 DEF IsSequence
    <2>2. filter.names = ToSet(names)
      OBVIOUS
    <2> HIDE DEF names, filter
    <2>3. ToSet(names) = {} <=> names = <<>>
      <3>1. ToSet(names) = {names[i] : i \in 1 .. Len(names)} /\ Len(names) \in Nat
        BY <2>1 DEF ToSet
      <3>2. ASSUME NEW T, NEW s \in Seq(T), s # <<>>
            PROVE  1 \in 1 .. Len(s)
        BY <3>2
      <3>3. CASE names = <<>>
        <4>1. ToSet(<<>>) = {}
          BY DEF ToSet
        <4>2. QED
          BY <3>3, <4>1
      <3>4. CASE names # <<>>
        BY <2>1, <3>1, <3>2, <3>4
      <3>5. QED
        BY <3>3, <3>4
    <2>4. QED
      BY <2>2, <2>3 DEF MatchesAnyName, names
  <1>12. \A pickle \in ToSet(Pickles) :
            MatchesAllTagExpressions(filter.tagExpression, pickle) <=> Allowed(pickle)
    BY <1>4 DEF MatchesAllTagExpressions
  <1> HIDE DEF filter, Lines, Allowed
  <1>13. \A pickle : pickle \in ToSet(started.pickles) <=>
             /\ pickle \in ToSet(Pickles)
             /\ \E path \in ToSet(unexpanded) : pickle.uri \in ToSet(Glob[path.uri])
             /\ Lines(pickle) # {} => Lines(pickle) \cap pickle.lines # {}
             /\ Allowed(pickle)
             /\ Given("name") = <<>> \/ pickle.name \in ToSet(Given("name"))
    BY <1>7, <1>8, <1>9, <1>10, <1>11, <1>12
  <1>14. QED
    BY <1>9, <1>13 DEF unexpanded, given, Lines, Allowed

(* That is what the property says, with the retries.                       *)
LEMMA FiltersNarrowAny ==
    ASSUME ConfigurationInv
    PROVE  FiltersNarrow
  <1> SUFFICES ASSUME stage = "run", TakenFrom(Layers, "tags") PROVE FiltersNarrow
    BY DEF FiltersNarrow, TakenFrom
  <1> DEFINE Allowed(key, pickle) == \A text \in ToSet(Effective(Given(key))) : pickle.tags \in Meaning(text)
             paths == ToSet(GetUnexpandedSourcePaths(Given("paths")))
             InFiles(pickle) == \E path \in paths : pickle.uri \in ToSet(Glob[path.uri])
             OnLines(pickle) ==
                 LET lines == UNION {path.lines : path \in {p \in paths : p.uri = pickle.uri}}
                 IN lines # {} => lines \cap pickle.lines # {}
  <1>1. /\ \A pickle : pickle \in ToSet(started.pickles) <=>
               /\ pickle \in ToSet(Pickles) /\ InFiles(pickle) /\ OnLines(pickle) /\ Allowed("tags", pickle)
               /\ Given("name") = <<>> \/ pickle.name \in ToSet(Given("name"))
        /\ started.pickles \in Seq(ToSet(Pickles))
        /\ Cardinality(ToSet(started.pickles)) = Len(started.pickles)
    BY SelectedAre
  <1>2. ASSUME TakenFrom(Layers, "retryTagFilter"), NEW i \in DOMAIN started.pickles
        PROVE  started.retries[i] =
                   IF Allowed("retryTagFilter", started.pickles[i]) THEN LastGiven("retry") ELSE 0
    <2>1. run = ConvertConfiguration(original, input.env) /\ HasStarted
      BY DEF ConfigurationInv
    <2>2. /\ run.runtime["retryTagFilter"] = original["retryTagFilter"]
          /\ run.runtime["retry"] = original["retry"]
      BY <2>1, ConvertedIs
    <2>3. original["retry"] = LastGiven("retry")
      <3>1. "retry" \in Scalars
        BY DEF Scalars, Counts
      <3>2. QED
        BY <3>1, ScalarIsLast
    <2>4. started.retries = [k \in DOMAIN started.pickles |-> RetriesForPickle(started.pickles[k], run.runtime)]
      BY <2>1 DEF HasStarted
    <2>5. started.pickles[i] \in ToSet(Pickles)
      BY <1>1
    <2>6. started.pickles[i].tags \in TagFilter(original["retryTagFilter"]) <=>
              Allowed("retryTagFilter", started.pickles[i])
      <3>1. "retryTagFilter" \in TagExpressions
        BY DEF TagExpressions
      <3>2. QED
        BY <1>2, <2>5, <3>1, TagsAreNarrowed
    <2> HIDE DEF Allowed
    <2>7. started.retries[i] = RetriesForPickle(started.pickles[i], run.runtime)
      BY <2>4
    <2>8. QED
      BY <2>2, <2>3, <2>6, <2>7 DEF RetriesForPickle, MatchesAllTagExpressions
  <1> HIDE DEF InFiles, OnLines, Allowed
  <1>3. ToSet(started.pickles) =
            {pickle \in ToSet(Pickles) : /\ InFiles(pickle) /\ OnLines(pickle) /\ Allowed("tags", pickle)
                                         /\ Given("name") = <<>> \/ pickle.name \in ToSet(Given("name"))}
    BY <1>1
  <1>4. QED
    BY <1>1, <1>2, <1>3 DEF FiltersNarrow, TakenFrom, InFiles, OnLines, Allowed

(* src/pickle_filter.ts and the merging of tag expressions: in any run the *)
(* pickles selected and retried are those that match everything given.     *)
THEOREM FiltersNarrowEach == ConfigurationSpec => []FiltersNarrow
  <1>1. QED
    BY FiltersNarrowAny, ConfigurationInvariance, PTL
-----------------------------------------------------------------------------
(* What is joined begins with its first part.                              *)
LEMMA PrefixOfJoined ==
    ASSUME NEW a, NEW b, IsSequence(a), IsSequence(b)
    PROVE  IsPrefix(a, a \o b)
  <1> DEFINE c == a \o b
             n == Len(a)
  <1>1. /\ n \in Nat /\ Len(b) \in Nat /\ DOMAIN a = 1 .. n /\ Len(c) = n + Len(b)
        /\ DOMAIN c = 1 .. n + Len(b) /\ \A i \in 1 .. n : c[i] = a[i]
    BY Joined
  <1>2. a \in Seq(ToSet(a)) /\ c \in Seq(ToSet(c))
    BY Joined DEF IsSequence
  <1> HIDE DEF c
  <1>3. SubSeq(a, 1, n) = [i \in 1 .. n |-> a[i]] /\ SubSeq(c, 1, n) = [i \in 1 .. n |-> c[i]]
    <2>1. ASSUME NEW S, NEW s \in Seq(S), n <= Len(s)
          PROVE  SubSeq(s, 1, n) = [i \in 1 .. n |-> s[i]]
      <3> DEFINE sub == SubSeq(s, 1, n)
      <3>1. Len(s) \in Nat /\ sub \in Seq(S) /\ Len(sub) = n /\ \A i \in 1 .. n : sub[i] = s[i]
        BY <1>1, <2>1
      <3> HIDE DEF sub
      <3>2. DOMAIN sub = 1 .. n /\ sub = [i \in DOMAIN sub |-> sub[i]]
        BY <3>1
      <3>3. sub = [i \in 1 .. n |-> s[i]]
        BY <3>1, <3>2
      <3>4. QED
        BY <3>3 DEF sub
    <2>2. n <= Len(a) /\ n <= Len(c)
      BY <1>1
    <2> HIDE DEF n
    <2>3. QED
      BY <1>2, <2>1, <2>2
  <1>4. SubSeq(a, 1, n) = SubSeq(c, 1, n) /\ n <= Len(c)
    BY <1>1, <1>3
  <1>5. QED
    BY <1>4 DEF IsPrefix, c

(* What is found is of one of the kinds that are looked for.               *)
LEMMA FoundIsOfKind ==
    ASSUME NEW specifier \in DOMAIN Exporting, NEW kinds,
           FindRecursive(ImportCode(specifier), kinds) # "none"
    PROVE  \E depth \in DOMAIN Exporting[specifier] : Exporting[specifier][depth] \in kinds
  <1> DEFINE imported == Exporting[specifier]
             found == {depth \in DOMAIN imported : depth <= 3 /\ imported[depth] \in kinds}
  <1>1. ImportCode(specifier) = imported
    BY DEF ImportCode
  <1>2. found # {}
    BY <1>1 DEF FindRecursive
  <1>3. QED
    BY <1>2

(* Plugins and formatters that have started are what they are asked to be. *)
LEMMA CodeIsOfKind ==
    ASSUME ConfigurationInv, stage = "run", NEW key \in {"plugin", "formatter"},
           NEW specifier \in
               IF key = "plugin" THEN ToSet(run.plugins.specifiers)
               ELSE {f.name : f \in Range(started.formatters)} \ (DOMAIN Builtin \cup DOMAIN Packages),
           specifier \in DOMAIN Exporting
    PROVE  \E depth \in DOMAIN Exporting[specifier] :
               Exporting[specifier][depth] \in {key, IF key = "formatter" THEN "function" ELSE key}
  <1>1. HasStarted
    BY DEF ConfigurationInv
  <1>2. CASE key = "plugin"
    <2>1. FindPlugin(specifier) = "plugin"
      BY <1>1, <1>2 DEF HasStarted
    <2>2. FindRecursive(ImportCode(specifier), {"plugin"}) # "none"
      BY <2>1 DEF FindPlugin
    <2>3. \E depth \in DOMAIN Exporting[specifier] : Exporting[specifier][depth] \in {"plugin"}
      BY <2>2, FoundIsOfKind
    <2>4. QED
      BY <1>2, <2>3
  <1>3. CASE key = "formatter"
    <2>1. PICK target \in DOMAIN started.formatters : specifier = started.formatters[target].name
      <3>1. PICK f \in Range(started.formatters) : specifier = f.name
        BY <1>3
      <3>2. QED
        BY <3>1 DEF Range
    <2>2. /\ started.formatters = InitializeFormatters(run.formats, input.env.isTTY)
          /\ Starts(started.formatters[target], target, run.formats.options)
      BY <1>1, <2>1 DEF HasStarted
    <2>3. started.formatters[target].implementation = ResolveImplementation(specifier)
      <3>1. PICK s, isTTY : started.formatters[target] = InitializeFormatter(s, isTTY, run.formats.options)
        BY <2>1, <2>2 DEF InitializeFormatters
      <3>2. QED
        BY <2>1, <3>1 DEF InitializeFormatter
    <2>4. specifier \notin DOMAIN Builtin /\ specifier \notin DOMAIN Packages
      BY <1>3
    <2>5. ResolveImplementation(specifier) # "none"
      BY <2>2, <2>3 DEF Starts
    <2>6. FindRecursive(ImportCode(specifier), {"function", "formatter"}) # "none"
      BY <2>4, <2>5 DEF ResolveImplementation, FindClassOrPlugin
    <2>7. \E depth \in DOMAIN Exporting[specifier] : Exporting[specifier][depth] \in {"function", "formatter"}
      BY <2>6, FoundIsOfKind
    <2>8. QED
      BY <1>3, <2>7
  <1>4. QED
    BY <1>2, <1>3

(* The support code of a run.                                              *)
LEMMA SupportIsAllThere ==
    ASSUME ConfigurationInv, stage = "run"
    PROVE  /\ started.support.loaders = Given("loader")
           /\ IsPrefix(Given("requireModule"), started.support.require)
           /\ \A key \in {"require", "import"} : \A i \in DOMAIN Given(key) :
                  ToSet(Glob[Given(key)[i]]) \subseteq ToSet(started.support[key])
  <1> DEFINE require == Given("require")
             import == Given("import")
             modules == Given("requireModule")
             unexpanded == GetUnexpandedSourcePaths(run.sources.paths)
             paths == DeriveSupportPaths(ExpandSourcePaths(unexpanded), require, import)
  <1>1. /\ original["require"] = require /\ original["import"] = import
        /\ original["loader"] = Given("loader") /\ original["requireModule"] = modules
        /\ IsSequence(require) /\ IsSequence(import) /\ IsSequence(modules)
        /\ ToSet(require) \subseteq DOMAIN Glob /\ ToSet(import) \subseteq DOMAIN Glob
    <2>1. {"require", "import", "loader", "requireModule"} \subseteq AdditiveArrays
      BY DEF AdditiveArrays
    <2>2. \A key \in {"require", "import", "loader", "requireModule"} :
              original[key] = Given(key) /\ IsSequence(Given(key)) /\ \A item \in ToSet(Given(key)) : IsItem(key, item)
      BY <2>1, AdditiveIsAll
    <2>3. ASSUME NEW key \in {"require", "import"}
          PROVE  ToSet(Given(key)) \subseteq DOMAIN Glob
      BY <2>2, <2>3 DEF IsItem
    <2>4. QED
      BY <2>2, <2>3
  <1>2. /\ started.support.require = modules \o paths.require
        /\ started.support.import = paths.import /\ started.support.loaders = Given("loader")
    <2>1. run = ConvertConfiguration(original, input.env) /\ HasStarted
      BY DEF ConfigurationInv
    <2>2. run.support = ISupportCodeCoordinates(original)
      BY <2>1, ConvertedIs
    <2>3. /\ run.support.requirePaths = require /\ run.support.importPaths = import
          /\ run.support.requireModules = modules /\ run.support.loaders = Given("loader")
      BY <1>1, <2>2 DEF ISupportCodeCoordinates
    <2> DEFINE all == ResolvePaths(run.sources.paths, run.support.requirePaths, run.support.importPaths)
    <2>4. all.require = paths.require /\ all.import = paths.import
      BY <2>3 DEF ResolvePaths
    <2>5. started.support = GetSupportCode(all, run.support)
      BY <2>1 DEF HasStarted
    <2> HIDE DEF all, paths
    <2>6. QED
      BY <2>3, <2>4, <2>5 DEF GetSupportCode
  <1>3. CASE require = <<>> /\ import = <<>>
    <2>1. paths.require = <<>>
      BY <1>3 DEF DeriveSupportPaths
    <2>2. IsPrefix(modules, started.support.require)
      BY <1>1, <1>2, <2>1, EmptyIsSequence, PrefixOfJoined
    <2>3. DOMAIN require = {} /\ DOMAIN import = {}
      BY <1>3
    <2>4. QED
      BY <1>2, <2>2, <2>3
  <1>4. CASE ~(require = <<>> /\ import = <<>>)
    <2>1. paths.require = ExpandPaths(require) /\ paths.import = ExpandPaths(import)
      BY <1>4 DEF DeriveSupportPaths
    <2> HIDE DEF paths, modules
    <2>2. /\ IsSequence(ExpandPaths(require)) /\ IsSequence(ExpandPaths(import))
          /\ ToSet(ExpandPaths(require)) = UNION {ToSet(Glob[uri]) : uri \in ToSet(require)}
          /\ ToSet(ExpandPaths(import)) = UNION {ToSet(Glob[uri]) : uri \in ToSet(import)}
      BY <1>1, PathsAreExpanded
    <2>3. IsPrefix(modules, started.support.require)
      BY <1>1, <1>2, <2>1, <2>2, PrefixOfJoined
    <2>4. /\ ToSet(started.support.require) = ToSet(modules) \cup ToSet(ExpandPaths(require))
          /\ ToSet(started.support.import) = ToSet(ExpandPaths(import))
      BY <1>1, <1>2, <2>1, <2>2, Joined
    <2>5. /\ \A i \in DOMAIN require : require[i] \in ToSet(require)
          /\ \A i \in DOMAIN import : import[i] \in ToSet(import)
      BY DEF ToSet
    <2> HIDE DEF require, import
    <2>6. /\ \A i \in DOMAIN require : ToSet(Glob[require[i]]) \subseteq ToSet(started.support.require)
          /\ \A i \in DOMAIN import : ToSet(Glob[import[i]]) \subseteq ToSet(started.support.import)
      BY <2>2, <2>4, <2>5
    <2>7. QED
      BY <1>2, <2>3, <2>6 DEF require, import, modules
  <1>5. QED
    BY <1>3, <1>4

(* All three, and the plugins, when only one layer gives any.              *)
LEMMA RepeatedOptionsKeptAny ==
    ASSUME ConfigurationInv
    PROVE  RepeatedOptionsKept
  <1> SUFFICES ASSUME stage = "run" PROVE RepeatedOptionsKept
    BY DEF RepeatedOptionsKept
  <1>1. ASSUME Cardinality({i \in DOMAIN Layers : Gives(Layers[i], "plugin") # <<>>}) <= 1
        PROVE  started.plugins = <<"filter", "sharding">> \o Given("plugin") \o <<"publish">>
    <2> DEFINE giving == {i \in DOMAIN Layers : Gives(Layers[i], "plugin") # <<>>}
    <2>1. "plugin" \in Options
      BY DEF Options
    <2>2. OptionSays(original, "plugin", Layers, Given("plugin")) /\ \E n \in Nat : DOMAIN Layers = 1 .. n
      BY <2>1, OptionsAreSaid
    <2>3. PICK n \in Nat : DOMAIN Layers = 1 .. n
      BY <2>2
    <2>4. IsFiniteSet(giving)
      <3>1. IsFiniteSet(1 .. n) /\ giving \subseteq 1 .. n
        BY <2>3, FS_Interval
      <3> HIDE DEF giving
      <3>2. QED
        BY <3>1, FS_Subset
    <2> HIDE DEF giving
    <2>5. ASSUME NEW i \in giving, NEW j \in giving
          PROVE  i = j
      <3>1. CASE i # j
        <4>1. Cardinality({i, j}) = 2
          <5>1. IsFiniteSet({i}) /\ Cardinality({i}) = 1
            BY FS_Singleton
          <5>2. {i, j} = {i} \cup {j} /\ j \notin {i}
            BY <3>1
          <5>3. QED
            BY <5>1, <5>2, FS_AddElement
        <4>2. Cardinality({i, j}) <= Cardinality(giving) /\ Cardinality(giving) \in Nat
          <5>1. {i, j} \subseteq giving
            OBVIOUS
          <5>2. QED
            BY <2>4, <5>1, FS_Subset, FS_CardinalityType
        <4>3. QED
          BY <1>1, <4>1, <4>2 DEF giving
      <3>2. QED
        BY <3>1
    <2>6. GivenOnce(Layers, "plugin")
      BY <2>5 DEF GivenOnce, giving
    <2>7. original["plugin"] = Given("plugin")
      BY <2>2, <2>6 DEF OptionSays, SaysAll
    <2>8. run = ConvertConfiguration(original, input.env) /\ HasStarted
      BY DEF ConfigurationInv
    <2>9. run.plugins = IRunOptionsPlugins(original)
      BY <2>8, ConvertedIs
    <2>10. run.plugins.specifiers = Given("plugin")
      BY <2>7, <2>9 DEF IRunOptionsPlugins
    <2>11. started.plugins = InitializePlugins(run.plugins.specifiers)
      BY <2>8 DEF HasStarted
    <2>12. QED
      BY <2>10, <2>11 DEF InitializePlugins
  <1>2. \A key \in {"plugin", "formatter"} :
            LET given == IF key = "plugin" THEN ToSet(run.plugins.specifiers)
                         ELSE {f.name : f \in Range(started.formatters)} \ (DOMAIN Builtin \cup DOMAIN Packages)
            IN \A specifier \in given \cap DOMAIN Exporting :
                   \E depth \in DOMAIN Exporting[specifier] :
                       Exporting[specifier][depth] \in {key, IF key = "formatter" THEN "function" ELSE key}
    BY CodeIsOfKind
  <1>3. QED
    BY <1>1, <1>2, SupportIsAllThere DEF RepeatedOptionsKept

(* src/configuration/ and src/api/: in any run, what is given more than    *)
(* once is all there, in order, and of the kind it has to be.              *)
THEOREM RepeatedOptionsAreKept == ConfigurationSpec => []RepeatedOptionsKept
  <1>1. QED
    BY RepeatedOptionsKeptAny, ConfigurationInvariance, PTL

-----------------------------------------------------------------------------
(* The lifecycle of a run. *)

Running == operation = "runCucumber"

(* The way from the first step to the last, of each of the functions.      *)
OnItsWay ==
    /\ operation = "loadSources" =>
           at \in {"plugins", "paths", "sources", "filter", "order", "cleanup", "return", "returned"}
    /\ operation = "loadSupport" =>
           at \in {"plugins", "paths", "support", "cleanup", "return", "returned"}
    /\ returned = "no" <=> at # "returned"

(* When parse errors, failures and broken streams can have been seen.      *)
VerdictsInOrder ==
    /\ at # "returned" /\ parseErrors =>
           at \in {"filter", "order", "endFormatters", "endingFormatters", "cleanup", "return"}
    /\ at # "returned" /\ ~runSuccess =>
           /\ Running /\ ~parseErrors
           /\ at \in {"run", "finished", "cleanup", "endFormatters", "endingFormatters", "return"}
    /\ errored # {} => formatterStreamError

Joining == {"plugins", "paths", "support", "formatters"}

(* Nothing is emitted before everybody is there to hear it.                *)
EveryoneJoins ==
    /\ Running /\ at \notin Joining \cup {"returned"} => joined = Plugins \cup Formatters
    /\ at \in Joining => emitted = {} /\ \A l \in Listeners : heard[l] = {}
    /\ ~Running => joined = {} /\ report = "none"

(* Everybody has heard what was emitted so far, or the run has failed.     *)
HeardByAll == \A l \in Listening : heard[l] \ {"attachment"} = emitted \ {"attachment"}

HeardSoFar == Running /\ at # "returned" /\ runSuccess => HeardByAll

(* What must have been emitted, by where the function is.                  *)
EmittedSoFar ==
    /\ Running /\ at \notin Joining \cup {"meta", "returned"} => "meta" \in emitted
    /\ at \in {"run", "finished"} => "started" \in emitted
    /\ Running /\ ~parseErrors
         /\ at \in {"cleanup", "endFormatters", "endingFormatters", "return"} =>
           {"started", "finished"} \subseteq emitted

(* Where the streams of files are on each way to the end.                  *)
StreamsInOrder ==
    \A f \in FileFormatters :
        /\ at \notin {"endingFormatters", "cleanup", "return", "returned"} \/ ~Running
             \/ (at = "cleanup" /\ ~parseErrors)
             => streams[f] \in {"none", "open"}
        /\ Running /\ (at = "return" \/ (at = "cleanup" /\ parseErrors)) => streams[f] = "ended"

(* Where the cleanups are, and that of a report.                           *)
CleanupsInOrder ==
    /\ at \notin {"cleanup", "endFormatters", "endingFormatters", "return", "returned"} =>
           cleaned = {}
    /\ at = "return" \/ (~parseErrors /\ at \in {"endFormatters", "endingFormatters"})
         => cleaned = cleanupFns
    /\ report = "reserved" /\ at # "returned" => publishPlugin \in cleanupFns \ cleaned

IInv ==
    /\ TypeOK
    /\ OnItsWay
    /\ VerdictsInOrder
    /\ EveryoneJoins
    /\ HeardSoFar
    /\ EmittedSoFar
    /\ StreamsInOrder
    /\ CleanupsInOrder
    /\ HeardByEveryone
    /\ SuccessIsWhole
    /\ CleanedUpInOrder

-----------------------------------------------------------------------------
(* The step after each step of each function.                              *)
LEMMA Onwards ==
    /\ operation = "loadSources" =>
           /\ After("plugins") = "paths" /\ After("paths") = "sources"
           /\ After("sources") = "filter" /\ After("filter") = "order"
           /\ After("order") = "cleanup" /\ After("cleanup") = "return"
    /\ operation = "loadSupport" =>
           /\ After("plugins") = "paths" /\ After("paths") = "support"
           /\ After("support") = "cleanup" /\ After("cleanup") = "return"
    /\ operation = "runCucumber" =>
           /\ After("plugins") = "paths" /\ After("paths") = "support"
           /\ After("support") = "formatters" /\ After("formatters") = "meta"
           /\ After("meta") = "sources" /\ After("sources") = "filter"
           /\ After("filter") = "order"
           /\ After("supportMessages") = "makeRuntime" /\ After("makeRuntime") = "started"
           /\ After("started") = "run" /\ After("run") = "finished"
           /\ After("endFormatters") = "endingFormatters"
           /\ After("order") = IF parseErrors THEN "endFormatters" ELSE "supportMessages"
           /\ After("endingFormatters") = IF parseErrors THEN "cleanup" ELSE "return"
           /\ After("cleanup") = IF parseErrors THEN "return" ELSE "endFormatters"
           /\ ~parseErrors => After("finished") = "cleanup"
  BY DEF After, LoadSources, LoadSupport, AfterParseErrors, AfterRun, Forward

(* Plugins and formatters are different participants, and none is the      *)
(* caller.                                                                 *)
LEMMA Participants ==
    /\ Plugins \cap Formatters = {} /\ 0 \notin Managed
    /\ FileFormatters \subseteq Formatters /\ Managed \subseteq Plugins \cup Formatters
    /\ Plugins \cup Formatters \subseteq Listeners /\ 0 \in Listeners
    /\ publishPlugin \in Plugins /\ publishPlugin \in Managed
    /\ \A l \in Listeners : Place(l) < Place(Nobody)
  BY RunLifecycleAssumption DEF Plugins, Formatters, Managed, FileFormatters, Listeners, onMessage,
     publishPlugin, Place, Nobody, ClassFormatters

(* The invariant holds before the first step.                              *)
LEMMA InitIInv == Init => IInv
  <1> SUFFICES ASSUME Init PROVE IInv
    OBVIOUS
  <1> USE DEF Init
  <1>1. TypeOK
    BY Participants DEF TypeOK, Touch, Upload, PluginOperation, Steps
  <1>2. OnItsWay /\ VerdictsInOrder /\ EveryoneJoins /\ CleanupsInOrder
    BY DEF OnItsWay, VerdictsInOrder, EveryoneJoins, CleanupsInOrder, Joining, Running
  <1>3. HeardSoFar
    <2>1. Listening \subseteq Listeners
      BY Participants DEF Listening, onMessage
    <2>2. QED
      BY <2>1 DEF HeardSoFar, HeardByAll
  <1>4. StreamsInOrder /\ EmittedSoFar
    BY DEF StreamsInOrder, EmittedSoFar, Joining
  <1>5. HeardByEveryone /\ SuccessIsWhole /\ CleanedUpInOrder
    BY DEF HeardByEveryone, SuccessIsWhole, CleanedUpInOrder
  <1>6. QED
    BY <1>1, <1>2, <1>3, <1>4, <1>5 DEF IInv

(* When the call has returned, or the process has ended, nothing is done.  *)
LEMMA NothingAfterwards ==
    ASSUME IInv, [Next]_vars, at = "returned"
    PROVE  UNCHANGED vars
  BY DEF IInv, OnItsWay, Next, Returned, Goes, Rejects, Awaits, AwaitPaths,
     GetSupportCodeLibrary, Transform, CoordinatorTransformKey, MakeRuntime, InitCoordinator, Joins, FailsToJoin,
     RegistersUnknownEvent, InitPublishPlugin, Touch, Joins, FailsToJoin, StartFormatter,
     InitFormatter, BuildFormatter, Joins, FailsToJoin, RegistersUnknownEvent, Initialized, Emits,
     Emit, GetPickles, Emit, RuntimeEmits, Emit, HandlerRejects, RuntimeReturns, CallCleanup,
     NextCleanup, CleanupSettles, PublishSettles, Upload, TempFileFails, CleanedUp, EndFormatters,
     StreamEnds, StreamError, EndRejects, FormattersEnded, Return, Success

(* Every step goes to the next one of its function or ends the call.       *)
LEMMA OnItsWayStep ==
    ASSUME IInv, [Next]_vars
    PROVE  OnItsWay'
  <1> USE DEF IInv, TypeOK, Touch, Upload, PluginOperation, OnItsWay, VerdictsInOrder, Running, Goes, Ends, Rejects, Awaits,
         setupVars, cleanupVars, streamVars, messageVars, verdictVars
  <1>1. CASE AwaitPaths
    BY <1>1, Onwards DEF AwaitPaths
  <1>2. CASE GetSupportCodeLibrary
    BY <1>2, Onwards DEF GetSupportCodeLibrary
  <1>3. CASE \E event \in CoordinatorTransformKey : Transform(event)
    BY <1>3, Onwards DEF Transform, CoordinatorTransformKey
  <1>4. CASE MakeRuntime
    BY <1>4, Onwards DEF MakeRuntime
  <1>5. CASE \E p \in Plugins : InitCoordinator(p)
    BY <1>5, Onwards DEF InitCoordinator, Joins, FailsToJoin, RegistersUnknownEvent
  <1>6. CASE InitPublishPlugin
    BY <1>6, Onwards DEF InitPublishPlugin, Joins, FailsToJoin
  <1>7. CASE \E f \in Formatters : StartFormatter(f)
    BY <1>7, Onwards DEF StartFormatter, InitFormatter, BuildFormatter, Joins, FailsToJoin,
       RegistersUnknownEvent
  <1>8. CASE Initialized
    BY <1>8, Onwards DEF Initialized
  <1>9. CASE \E step \in {"meta", "supportMessages", "started", "finished"} : Emits(step)
    BY <1>9, Onwards DEF Emits, Emit
  <1>10. CASE GetPickles
    BY <1>10, Onwards DEF GetPickles, Emit
  <1>11. CASE \E kind \in {"case", "attachment"} : RuntimeEmits(kind)
    BY <1>11, Onwards DEF RuntimeEmits, Emit
  <1>12. CASE HandlerRejects
    BY <1>12, Onwards DEF HandlerRejects
  <1>13. CASE RuntimeReturns
    BY <1>13, Onwards DEF RuntimeReturns
  <1>14. CASE \E p \in Managed : CallCleanup(p)
    BY <1>14, Onwards DEF CallCleanup, NextCleanup
  <1>15. CASE CleanupSettles
    BY <1>15, Onwards DEF CleanupSettles
  <1>16. CASE PublishSettles
    BY <1>16, Onwards DEF PublishSettles
  <1>17. CASE TempFileFails
    BY <1>17, Onwards DEF TempFileFails
  <1>18. CASE CleanedUp
    BY <1>18, Onwards DEF CleanedUp
  <1>19. CASE EndFormatters
    BY <1>19, Onwards DEF EndFormatters
  <1>20. CASE \E f \in FileFormatters : StreamEnds(f)
    BY <1>20, Onwards DEF StreamEnds
  <1>21. CASE \E f \in FileFormatters : StreamError(f)
    BY <1>21, Onwards DEF StreamError
  <1>22. CASE EndRejects
    BY <1>22, Onwards DEF EndRejects
  <1>23. CASE FormattersEnded
    BY <1>23, Onwards DEF FormattersEnded
  <1>24. CASE Return
    BY <1>24, Onwards DEF Return, Success
  <1>25. CASE UNCHANGED vars
    BY <1>25, Onwards DEF vars
  <1>26. QED
    BY <1>1, <1>2, <1>3, <1>4, <1>5, <1>6, <1>7, <1>8, <1>9, <1>10, <1>11, <1>12, <1>13, <1>14,
       <1>15, <1>16, <1>17, <1>18, <1>19, <1>20, <1>21, <1>22, <1>23, <1>24, <1>25 DEF Next,
       Returned

(* Parse errors are seen before there is a run, and only the run fails.    *)
LEMMA VerdictsInOrderStep ==
    ASSUME IInv, [Next]_vars
    PROVE  VerdictsInOrder'
  <1> USE DEF IInv, TypeOK, Touch, Upload, PluginOperation, OnItsWay, VerdictsInOrder, Running, Goes, Ends, Rejects, Awaits,
         setupVars, cleanupVars, streamVars, messageVars, verdictVars
  <1>1. CASE AwaitPaths
    BY <1>1, Onwards DEF AwaitPaths
  <1>2. CASE GetSupportCodeLibrary
    BY <1>2, Onwards DEF GetSupportCodeLibrary
  <1>3. CASE \E event \in CoordinatorTransformKey : Transform(event)
    BY <1>3, Onwards DEF Transform, CoordinatorTransformKey
  <1>4. CASE MakeRuntime
    BY <1>4, Onwards DEF MakeRuntime
  <1>5. CASE \E p \in Plugins : InitCoordinator(p)
    BY <1>5, Onwards DEF InitCoordinator, Joins, FailsToJoin, RegistersUnknownEvent
  <1>6. CASE InitPublishPlugin
    BY <1>6, Onwards DEF InitPublishPlugin, Joins, FailsToJoin
  <1>7. CASE \E f \in Formatters : StartFormatter(f)
    BY <1>7, Onwards DEF StartFormatter, InitFormatter, BuildFormatter, Joins, FailsToJoin,
       RegistersUnknownEvent
  <1>8. CASE Initialized
    BY <1>8, Onwards DEF Initialized
  <1>9. CASE \E step \in {"meta", "supportMessages", "started", "finished"} : Emits(step)
    BY <1>9, Onwards DEF Emits, Emit
  <1>10. CASE GetPickles
    BY <1>10, Onwards DEF GetPickles, Emit
  <1>11. CASE \E kind \in {"case", "attachment"} : RuntimeEmits(kind)
    <2>1. at = "run" /\ Running /\ ~parseErrors
      BY <1>11 DEF RuntimeEmits
    <2>2. at' \in {"run", "finished", "returned"}
      BY <1>11, <2>1, Onwards DEF RuntimeEmits
    <2>3. UNCHANGED <<operation, parseErrors, errored, formatterStreamError>>
      BY <1>11 DEF RuntimeEmits
    <2>4. QED
      BY <2>1, <2>2, <2>3
  <1>12. CASE HandlerRejects
    BY <1>12, Onwards DEF HandlerRejects
  <1>13. CASE RuntimeReturns
    BY <1>13, Onwards DEF RuntimeReturns
  <1>14. CASE \E p \in Managed : CallCleanup(p)
    BY <1>14, Onwards DEF CallCleanup, NextCleanup
  <1>15. CASE CleanupSettles
    BY <1>15, Onwards DEF CleanupSettles
  <1>16. CASE PublishSettles
    BY <1>16, Onwards DEF PublishSettles
  <1>17. CASE TempFileFails
    BY <1>17, Onwards DEF TempFileFails
  <1>18. CASE CleanedUp
    BY <1>18, Onwards DEF CleanedUp
  <1>19. CASE EndFormatters
    BY <1>19, Onwards DEF EndFormatters
  <1>20. CASE \E f \in FileFormatters : StreamEnds(f)
    BY <1>20, Onwards DEF StreamEnds
  <1>21. CASE \E f \in FileFormatters : StreamError(f)
    BY <1>21, Onwards DEF StreamError
  <1>22. CASE EndRejects
    BY <1>22, Onwards DEF EndRejects
  <1>23. CASE FormattersEnded
    BY <1>23, Onwards DEF FormattersEnded
  <1>24. CASE Return
    BY <1>24, Onwards DEF Return, Success
  <1>25. CASE UNCHANGED vars
    BY <1>25, Onwards DEF vars
  <1>26. QED
    BY <1>1, <1>2, <1>3, <1>4, <1>5, <1>6, <1>7, <1>8, <1>9, <1>10, <1>11, <1>12, <1>13, <1>14,
       <1>15, <1>16, <1>17, <1>18, <1>19, <1>20, <1>21, <1>22, <1>23, <1>24, <1>25 DEF Next,
       Returned

(* They join before anything is emitted.                                   *)
LEMMA EveryoneJoinsStep ==
    ASSUME IInv, [Next]_vars
    PROVE  EveryoneJoins'
  <1> USE DEF IInv, TypeOK, Touch, Upload, PluginOperation, OnItsWay, VerdictsInOrder, EveryoneJoins, Joining, Running, Goes,
         Ends, Rejects, Awaits, setupVars, cleanupVars, streamVars, messageVars, verdictVars
  <1>1. CASE AwaitPaths
    BY <1>1, Onwards DEF AwaitPaths
  <1>2. CASE GetSupportCodeLibrary
    BY <1>2, Onwards DEF GetSupportCodeLibrary
  <1>3. CASE \E event \in CoordinatorTransformKey : Transform(event)
    BY <1>3, Onwards DEF Transform, CoordinatorTransformKey
  <1>4. CASE MakeRuntime
    BY <1>4, Onwards DEF MakeRuntime
  <1>5. CASE \E p \in Plugins : InitCoordinator(p)
    BY <1>5, Onwards DEF InitCoordinator, Joins, FailsToJoin, RegistersUnknownEvent
  <1>6. CASE InitPublishPlugin
    BY <1>6, Onwards DEF InitPublishPlugin, Joins, FailsToJoin
  <1>7. CASE \E f \in Formatters : StartFormatter(f)
    BY <1>7, Onwards DEF StartFormatter, InitFormatter, BuildFormatter, Joins, FailsToJoin,
       RegistersUnknownEvent
  <1>8. CASE Initialized
    BY <1>8, Onwards DEF Initialized
  <1>9. CASE \E step \in {"meta", "supportMessages", "started", "finished"} : Emits(step)
    BY <1>9, Onwards DEF Emits, Emit
  <1>10. CASE GetPickles
    BY <1>10, Onwards DEF GetPickles, Emit
  <1>11. CASE \E kind \in {"case", "attachment"} : RuntimeEmits(kind)
    BY <1>11, Onwards DEF RuntimeEmits, Emit
  <1>12. CASE HandlerRejects
    BY <1>12, Onwards DEF HandlerRejects
  <1>13. CASE RuntimeReturns
    BY <1>13, Onwards DEF RuntimeReturns
  <1>14. CASE \E p \in Managed : CallCleanup(p)
    BY <1>14, Onwards DEF CallCleanup, NextCleanup
  <1>15. CASE CleanupSettles
    BY <1>15, Onwards DEF CleanupSettles
  <1>16. CASE PublishSettles
    BY <1>16, Onwards DEF PublishSettles
  <1>17. CASE TempFileFails
    BY <1>17, Onwards DEF TempFileFails
  <1>18. CASE CleanedUp
    BY <1>18, Onwards DEF CleanedUp
  <1>19. CASE EndFormatters
    BY <1>19, Onwards DEF EndFormatters
  <1>20. CASE \E f \in FileFormatters : StreamEnds(f)
    BY <1>20, Onwards DEF StreamEnds
  <1>21. CASE \E f \in FileFormatters : StreamError(f)
    BY <1>21, Onwards DEF StreamError
  <1>22. CASE EndRejects
    BY <1>22, Onwards DEF EndRejects
  <1>23. CASE FormattersEnded
    BY <1>23, Onwards DEF FormattersEnded
  <1>24. CASE Return
    BY <1>24, Onwards DEF Return, Success
  <1>25. CASE UNCHANGED vars
    BY <1>25, Onwards DEF vars
  <1>26. QED
    BY <1>1, <1>2, <1>3, <1>4, <1>5, <1>6, <1>7, <1>8, <1>9, <1>10, <1>11, <1>12, <1>13, <1>14,
       <1>15, <1>16, <1>17, <1>18, <1>19, <1>20, <1>21, <1>22, <1>23, <1>24, <1>25 DEF Next,
       Returned

(* Streams are ended where the function gets to it, and waited for.        *)
LEMMA StreamsInOrderStep ==
    ASSUME IInv, [Next]_vars
    PROVE  StreamsInOrder'
  <1> USE DEF IInv, TypeOK, Touch, Upload, PluginOperation, OnItsWay, VerdictsInOrder, StreamsInOrder, Running, Goes, Ends,
         Rejects, Awaits, setupVars, cleanupVars, streamVars, messageVars, verdictVars
  <1>1. CASE AwaitPaths
    BY <1>1, Onwards DEF AwaitPaths
  <1>2. CASE GetSupportCodeLibrary
    BY <1>2, Onwards DEF GetSupportCodeLibrary
  <1>3. CASE \E event \in CoordinatorTransformKey : Transform(event)
    BY <1>3, Onwards DEF Transform, CoordinatorTransformKey
  <1>4. CASE MakeRuntime
    BY <1>4, Onwards DEF MakeRuntime
  <1>5. CASE \E p \in Plugins : InitCoordinator(p)
    BY <1>5, Onwards DEF InitCoordinator, Joins, FailsToJoin, RegistersUnknownEvent
  <1>6. CASE InitPublishPlugin
    BY <1>6, Onwards DEF InitPublishPlugin, Joins, FailsToJoin
  <1>7. CASE \E f \in Formatters : StartFormatter(f)
    BY <1>7, Onwards DEF StartFormatter, InitFormatter, BuildFormatter, Joins, FailsToJoin,
       RegistersUnknownEvent
  <1>8. CASE Initialized
    BY <1>8, Onwards DEF Initialized
  <1>9. CASE \E step \in {"meta", "supportMessages", "started", "finished"} : Emits(step)
    BY <1>9, Onwards DEF Emits, Emit
  <1>10. CASE GetPickles
    BY <1>10, Onwards DEF GetPickles, Emit
  <1>11. CASE \E kind \in {"case", "attachment"} : RuntimeEmits(kind)
    BY <1>11, Onwards DEF RuntimeEmits, Emit
  <1>12. CASE HandlerRejects
    BY <1>12, Onwards DEF HandlerRejects
  <1>13. CASE RuntimeReturns
    BY <1>13, Onwards DEF RuntimeReturns
  <1>14. CASE \E p \in Managed : CallCleanup(p)
    BY <1>14, Onwards DEF CallCleanup, NextCleanup
  <1>15. CASE CleanupSettles
    BY <1>15, Onwards DEF CleanupSettles
  <1>16. CASE PublishSettles
    BY <1>16, Onwards DEF PublishSettles
  <1>17. CASE TempFileFails
    BY <1>17, Onwards DEF TempFileFails
  <1>18. CASE CleanedUp
    BY <1>18, Onwards DEF CleanedUp
  <1>19. CASE EndFormatters
    BY <1>19, Onwards DEF EndFormatters
  <1>20. CASE \E f \in FileFormatters : StreamEnds(f)
    BY <1>20, Onwards DEF StreamEnds
  <1>21. CASE \E f \in FileFormatters : StreamError(f)
    BY <1>21, Onwards DEF StreamError
  <1>22. CASE EndRejects
    BY <1>22, Onwards DEF EndRejects
  <1>23. CASE FormattersEnded
    BY <1>23, Onwards DEF FormattersEnded
  <1>24. CASE Return
    BY <1>24, Onwards DEF Return, Success
  <1>25. CASE UNCHANGED vars
    BY <1>25, Onwards DEF vars
  <1>26. QED
    BY <1>1, <1>2, <1>3, <1>4, <1>5, <1>6, <1>7, <1>8, <1>9, <1>10, <1>11, <1>12, <1>13, <1>14,
       <1>15, <1>16, <1>17, <1>18, <1>19, <1>20, <1>21, <1>22, <1>23, <1>24, <1>25 DEF Next,
       Returned

(* Cleanups have all settled when the function goes on.                    *)
LEMMA CleanupsInOrderStep ==
    ASSUME IInv, [Next]_vars
    PROVE  CleanupsInOrder'
  <1> USE DEF IInv, TypeOK, Touch, Upload, PluginOperation, OnItsWay, VerdictsInOrder, EveryoneJoins, CleanupsInOrder, Joining,
         Running, Goes, Ends, Rejects, Awaits, setupVars, cleanupVars, streamVars, messageVars,
         verdictVars
  <1>1. CASE AwaitPaths
    BY <1>1, Onwards, Participants DEF AwaitPaths
  <1>2. CASE GetSupportCodeLibrary
    BY <1>2, Onwards, Participants DEF GetSupportCodeLibrary
  <1>3. CASE \E event \in CoordinatorTransformKey : Transform(event)
    BY <1>3, Onwards, Participants DEF Transform, CoordinatorTransformKey
  <1>4. CASE MakeRuntime
    BY <1>4, Onwards, Participants DEF MakeRuntime
  <1>5. CASE \E p \in Plugins : InitCoordinator(p)
    BY <1>5, Onwards, Participants DEF InitCoordinator, Joins, FailsToJoin, RegistersUnknownEvent
  <1>6. CASE InitPublishPlugin
    <2>1. at = "plugins" /\ cleaned = {} /\ UNCHANGED <<cleaned, operation, parseErrors>>
      BY <1>6 DEF InitPublishPlugin, Joins, FailsToJoin
    <2>2. at' \in {"plugins", "returned"} /\ cleanupFns \subseteq cleanupFns'
      BY <1>6 DEF InitPublishPlugin, Joins, FailsToJoin
    <2>3. report' = "reserved" => report = "reserved" \/ publishPlugin \in cleanupFns'
      BY <1>6 DEF InitPublishPlugin, Joins
    <2>4. QED
      BY <2>1, <2>2, <2>3
  <1>7. CASE \E f \in Formatters : StartFormatter(f)
    BY <1>7, Onwards, Participants DEF StartFormatter, InitFormatter, BuildFormatter, Joins,
       FailsToJoin, RegistersUnknownEvent
  <1>8. CASE Initialized
    BY <1>8, Onwards, Participants DEF Initialized
  <1>9. CASE \E step \in {"meta", "supportMessages", "started", "finished"} : Emits(step)
    BY <1>9, Onwards, Participants DEF Emits, Emit
  <1>10. CASE GetPickles
    BY <1>10, Onwards, Participants DEF GetPickles, Emit
  <1>11. CASE \E kind \in {"case", "attachment"} : RuntimeEmits(kind)
    BY <1>11, Onwards, Participants DEF RuntimeEmits, Emit
  <1>12. CASE HandlerRejects
    BY <1>12, Onwards, Participants DEF HandlerRejects
  <1>13. CASE RuntimeReturns
    BY <1>13, Onwards, Participants DEF RuntimeReturns
  <1>14. CASE \E p \in Managed : CallCleanup(p)
    BY <1>14, Onwards, Participants DEF CallCleanup, NextCleanup
  <1>15. CASE CleanupSettles
    BY <1>15, Onwards, Participants DEF CleanupSettles
  <1>16. CASE PublishSettles
    BY <1>16, Onwards, Participants DEF PublishSettles
  <1>17. CASE TempFileFails
    BY <1>17, Onwards, Participants DEF TempFileFails
  <1>18. CASE CleanedUp
    BY <1>18, Onwards, Participants DEF CleanedUp
  <1>19. CASE EndFormatters
    BY <1>19, Onwards, Participants DEF EndFormatters
  <1>20. CASE \E f \in FileFormatters : StreamEnds(f)
    BY <1>20, Onwards, Participants DEF StreamEnds
  <1>21. CASE \E f \in FileFormatters : StreamError(f)
    BY <1>21, Onwards, Participants DEF StreamError
  <1>22. CASE EndRejects
    BY <1>22, Onwards, Participants DEF EndRejects
  <1>23. CASE FormattersEnded
    BY <1>23, Onwards, Participants DEF FormattersEnded
  <1>24. CASE Return
    BY <1>24, Onwards, Participants DEF Return, Success
  <1>25. CASE UNCHANGED vars
    BY <1>25, Onwards, Participants DEF vars
  <1>26. QED
    BY <1>1, <1>2, <1>3, <1>4, <1>5, <1>6, <1>7, <1>8, <1>9, <1>10, <1>11, <1>12, <1>13, <1>14,
       <1>15, <1>16, <1>17, <1>18, <1>19, <1>20, <1>21, <1>22, <1>23, <1>24, <1>25 DEF Next,
       Returned


(* Whoever hears of an envelope hears of one there is.                     *)
LEMMA EmitType ==
    ASSUME TypeOK, NEW kind \in Envelopes, NEW thrower, Emit(kind, thrower)
    PROVE  emitted' \subseteq Envelopes /\ heard' \in [Listeners -> SUBSET Envelopes]
  BY DEF TypeOK, Touch, Upload, PluginOperation, Emit

(* Who joins becomes a participant, and may have a cleanup.                *)
LEMMA JoinsType ==
    ASSUME TypeOK, NEW p \in Plugins \cup Formatters, NEW cleanups,
           \A fns \in cleanups : fns \subseteq {p} \cap Managed,
           Joins(p, cleanups)
    PROVE  /\ joined' \subseteq Plugins \cup Formatters
           /\ cleanupFns' \subseteq Managed \cap joined' /\ cleanupFns \subseteq cleanupFns'
           /\ UNCHANGED <<at, operation, parallel, returned>>
  BY DEF TypeOK, Touch, Upload, PluginOperation, Joins

(* Every step keeps every variable in its type.                            *)
LEMMA TypeStep ==
    ASSUME IInv, [Next]_vars
    PROVE  TypeOK'
  <1> USE DEF IInv, TypeOK, Touch, Upload, PluginOperation, OnItsWay, VerdictsInOrder, Steps, Running, Goes, Ends, Rejects,
         Awaits, setupVars, cleanupVars, streamVars, messageVars, verdictVars
  <1>1. CASE AwaitPaths
    BY <1>1, Onwards, Participants DEF AwaitPaths
  <1>2. CASE GetSupportCodeLibrary
    BY <1>2, Onwards, Participants DEF GetSupportCodeLibrary
  <1>3. CASE \E event \in CoordinatorTransformKey : Transform(event)
    BY <1>3, Onwards, Participants DEF Transform, CoordinatorTransformKey
  <1>4. CASE MakeRuntime
    BY <1>4, Onwards, Participants DEF MakeRuntime
  <1>5. CASE \E p \in Plugins : InitCoordinator(p)
    <2>1. PICK p \in Plugins : InitCoordinator(p)
      BY <1>5
    <2>2. CASE Joins(p, {{}, {p}})
      <3>1. p \in Managed
        BY DEF Managed
      <3>2. /\ joined' \subseteq Plugins \cup Formatters
            /\ cleanupFns' \subseteq Managed \cap joined' /\ cleanupFns \subseteq cleanupFns'
            /\ UNCHANGED <<at, operation, parallel, returned>>
        BY <2>2, <3>1, JoinsType
      <3>3. QED
        BY <2>1, <3>2 DEF InitCoordinator
    <2>3. CASE FailsToJoin(p, "rejected") \/ RegistersUnknownEvent(p)
      BY <2>1, <2>3 DEF InitCoordinator, FailsToJoin, RegistersUnknownEvent
    <2>4. QED
      BY <2>1, <2>2, <2>3 DEF InitCoordinator
  <1>6. CASE InitPublishPlugin
    BY <1>6, Onwards, Participants DEF InitPublishPlugin, Joins, FailsToJoin
  <1>7. CASE \E f \in Formatters : StartFormatter(f)
    <2>1. PICK f \in Formatters : StartFormatter(f)
      BY <1>7
    <2>2. streams' \in [FileFormatters -> {"none", "open", "ending", "ended"}]
      BY <2>1 DEF StartFormatter
    <2>3. CASE (f \in PluginFormatters /\ Joins(f, {{}, {f}})) \/ Joins(f, {{}})
      <3>1. f \in PluginFormatters => f \in Managed
        BY DEF Managed
      <3>2. /\ joined' \subseteq Plugins \cup Formatters
            /\ cleanupFns' \subseteq Managed \cap joined' /\ cleanupFns \subseteq cleanupFns'
            /\ UNCHANGED <<at, operation, parallel, returned>>
        BY <2>3, <3>1, JoinsType
      <3>3. QED
        BY <2>1, <2>2, <3>2 DEF StartFormatter
    <2>4. CASE FailsToJoin(f, "rejected") \/ RegistersUnknownEvent(f)
      BY <2>1, <2>2, <2>4 DEF StartFormatter, FailsToJoin, RegistersUnknownEvent
    <2>5. QED
      BY <2>1, <2>3, <2>4 DEF StartFormatter, InitFormatter, BuildFormatter
  <1>8. CASE Initialized
    BY <1>8, Onwards, Participants DEF Initialized
  <1>9. CASE \E step \in {"meta", "supportMessages", "started", "finished"} : Emits(step)
    <2>1. emitted' \subseteq Envelopes /\ heard' \in [Listeners -> SUBSET Envelopes]
      BY <1>9, EmitType DEF Emits, Envelopes
    <2>2. QED
      BY <1>9, <2>1, Onwards DEF Emits
  <1>10. CASE GetPickles
    <2>1. emitted' \subseteq Envelopes /\ heard' \in [Listeners -> SUBSET Envelopes]
      BY <1>10, EmitType DEF GetPickles, Envelopes
    <2>2. at' \in Steps /\ returned' \in {"no", "rejected", "crashed"} /\ parseErrors' \in BOOLEAN
      BY <1>10, Onwards DEF GetPickles
    <2>3. QED
      BY <1>10, <2>1, <2>2 DEF GetPickles
  <1>11. CASE \E kind \in {"case", "attachment"} : RuntimeEmits(kind)
    <2>1. emitted' \subseteq Envelopes /\ heard' \in [Listeners -> SUBSET Envelopes]
      BY <1>11, EmitType DEF RuntimeEmits, Envelopes
    <2>2. at' \in Steps /\ returned' \in {"no", "crashed"}
      BY <1>11, Onwards DEF RuntimeEmits
    <2>3. runSuccess' \in BOOLEAN
      BY <1>11 DEF RuntimeEmits
    <2>4. QED
      BY <1>11, <2>1, <2>2, <2>3 DEF RuntimeEmits
  <1>12. CASE HandlerRejects
    BY <1>12, Onwards, Participants DEF HandlerRejects
  <1>13. CASE RuntimeReturns
    BY <1>13, Onwards, Participants DEF RuntimeReturns
  <1>14. CASE \E p \in Managed : CallCleanup(p)
    BY <1>14, Onwards, Participants DEF CallCleanup, NextCleanup
  <1>15. CASE CleanupSettles
    BY <1>15, Onwards, Participants DEF CleanupSettles
  <1>16. CASE PublishSettles
    BY <1>16, Onwards, Participants DEF PublishSettles
  <1>17. CASE TempFileFails
    BY <1>17, Onwards, Participants DEF TempFileFails
  <1>18. CASE CleanedUp
    BY <1>18, Onwards, Participants DEF CleanedUp
  <1>19. CASE EndFormatters
    BY <1>19, Onwards, Participants DEF EndFormatters
  <1>20. CASE \E f \in FileFormatters : StreamEnds(f)
    BY <1>20, Onwards, Participants DEF StreamEnds
  <1>21. CASE \E f \in FileFormatters : StreamError(f)
    BY <1>21, Onwards, Participants DEF StreamError
  <1>22. CASE EndRejects
    BY <1>22, Onwards, Participants DEF EndRejects
  <1>23. CASE FormattersEnded
    BY <1>23, Onwards, Participants DEF FormattersEnded
  <1>24. CASE Return
    BY <1>24, Onwards, Participants DEF Return, Success
  <1>25. CASE UNCHANGED vars
    BY <1>25, Onwards, Participants DEF vars
  <1>26. QED
    BY <1>1, <1>2, <1>3, <1>4, <1>5, <1>6, <1>7, <1>8, <1>9, <1>10, <1>11, <1>12, <1>13, <1>14,
       <1>15, <1>16, <1>17, <1>18, <1>19, <1>20, <1>21, <1>22, <1>23, <1>24, <1>25 DEF Next,
       Returned


(* All who listen are there, and hear what nobody throws at.               *)
LEMMA ListenersAreThere == ASSUME TypeOK PROVE Listening \subseteq Listeners
  BY Participants DEF TypeOK, Listening, onMessage

(* When no listener throws, an envelope is heard by all who listen.        *)
LEMMA EverybodyHears ==
    ASSUME TypeOK, NEW kind, Emit(kind, Nobody)
    PROVE  emitted' = emitted \cup {kind} /\ \A l \in Listening : heard'[l] = heard[l] \cup {kind}
  BY ListenersAreThere, Participants DEF Emit

(* A listener may only throw at an attachment, so the others miss          *)
(* attachments at most.                                                    *)
LEMMA AttachmentsAside ==
    ASSUME TypeOK, NEW thrower, Emit("attachment", thrower)
    PROVE  /\ emitted' = emitted \cup {"attachment"}
           /\ \A l \in Listening : heard'[l] \ {"attachment"} = heard[l] \ {"attachment"}
  BY ListenersAreThere DEF Emit

(* Which function was called is fixed.                                     *)
LEMMA Fixed ==
    ASSUME [Next]_vars
    PROVE  UNCHANGED operation
  BY DEF Next, Returned, vars, setupVars, Goes, Ends, Rejects, Awaits, AwaitPaths,
     GetSupportCodeLibrary, Transform, CoordinatorTransformKey, MakeRuntime, InitCoordinator, Joins, FailsToJoin,
     RegistersUnknownEvent, InitPublishPlugin, Touch, Joins, FailsToJoin, StartFormatter,
     InitFormatter, BuildFormatter, Joins, FailsToJoin, RegistersUnknownEvent, Initialized, Emits,
     Emit, GetPickles, Emit, RuntimeEmits, Emit, HandlerRejects, RuntimeReturns, CallCleanup,
     NextCleanup, CleanupSettles, PublishSettles, Upload, TempFileFails, CleanedUp, EndFormatters,
     StreamEnds, StreamError, EndRejects, FormattersEnded, Return, Success

(* Nobody misses an envelope but in a run that fails for it.               *)
LEMMA HeardByAllStep ==
    ASSUME IInv, [Next]_vars, Running, at' # "returned", runSuccess'
    PROVE  HeardByAll'
  <1>1. UNCHANGED operation /\ at # "returned"
    BY Fixed, NothingAfterwards DEF vars
  <1>2. runSuccess => HeardByAll
    BY <1>1 DEF IInv, HeardSoFar, HeardByAll
  <1>3. CASE /\ UNCHANGED <<heard, emitted, joined, runSuccess>>
             /\ UNCHANGED report \/ (report = "reserved" /\ report' \in Upload)
    BY <1>1, <1>2, <1>3 DEF HeardByAll, Listening
  <1>4. CASE at \in Joining /\ UNCHANGED messageVars
    <2>1. Listening' \subseteq Listeners
      BY TypeStep, Participants DEF TypeOK, Listening, onMessage
    <2>2. QED
      BY <1>4, <2>1 DEF IInv, EveryoneJoins, HeardByAll, messageVars
  <1>5. CASE /\ UNCHANGED <<joined, report>> /\ (runSuccess' => runSuccess)
             /\ \E kind \in Envelopes : Emit(kind, Nobody)
    <2>1. UNCHANGED Listening
      BY <1>1, <1>5 DEF Listening
    <2>2. QED
      BY <1>2, <1>5, <2>1, EverybodyHears DEF HeardByAll, IInv
  <1>6. CASE /\ UNCHANGED <<joined, report>> /\ (runSuccess' => runSuccess)
             /\ \E thrower \in Listeners : Emit("attachment", thrower)
    <2>1. UNCHANGED Listening
      BY <1>1, <1>6 DEF Listening
    <2>2. QED
      BY <1>2, <1>6, <2>1, AttachmentsAside DEF HeardByAll, IInv
  <1>7. CASE \E p \in Plugins : InitCoordinator(p)
    BY <1>4, <1>7 DEF InitCoordinator, Joining
  <1>8. CASE InitPublishPlugin
    BY <1>4, <1>8 DEF InitPublishPlugin, Touch, Joining
  <1>9. CASE \E f \in Formatters : StartFormatter(f)
    BY <1>4, <1>9 DEF StartFormatter, Joining
  <1>10. CASE \E step \in {"meta", "supportMessages", "started", "finished"} : Emits(step)
    BY <1>5, <1>10 DEF Emits, Envelopes, Rejects, Ends, setupVars, streamVars, verdictVars
  <1>11. CASE GetPickles
    BY <1>3, <1>5, <1>11 DEF GetPickles, Envelopes, Rejects, Ends, setupVars, streamVars, messageVars
  <1>12. CASE \E kind \in {"case", "attachment"} : RuntimeEmits(kind)
    <2>1. PICK kind \in {"case", "attachment"} : RuntimeEmits(kind)
      BY <1>12
    <2>2. UNCHANGED <<joined, report>> /\ (runSuccess' => runSuccess)
      BY <2>1 DEF RuntimeEmits, setupVars, streamVars
    <2>3. Throwers \subseteq Listeners
      BY ListenersAreThere DEF IInv, Throwers
    <2>4. Emit(kind, Nobody) \/ \E thrower \in Listeners : kind = "attachment" /\ Emit(kind, thrower)
      BY <2>1, <2>3 DEF RuntimeEmits, Ends
    <2>5. QED
      BY <1>5, <1>6, <2>2, <2>4 DEF Envelopes
  <1>13. CASE HandlerRejects \/ RuntimeReturns
    <2>1. UNCHANGED <<heard, emitted, joined, report>>
      BY <1>13 DEF HandlerRejects, RuntimeReturns, messageVars, setupVars, streamVars
    <2>2. runSuccess' => runSuccess
      BY <1>13 DEF HandlerRejects, RuntimeReturns
    <2>3. QED
      BY <1>1, <1>2, <2>1, <2>2 DEF HeardByAll, Listening
  <1>14. CASE PublishSettles
    BY <1>3, <1>14 DEF PublishSettles, Upload, Ends, messageVars, setupVars, verdictVars
  <1>15. QED
    BY <1>3, <1>7, <1>8, <1>9, <1>10, <1>11, <1>12, <1>13, <1>14 DEF Next, Returned, vars,
       setupVars, cleanupVars, streamVars, messageVars, verdictVars, AwaitPaths,
       GetSupportCodeLibrary, Transform, CoordinatorTransformKey, MakeRuntime, Initialized, CallCleanup, NextCleanup,
       CleanupSettles, TempFileFails, CleanedUp, EndFormatters, StreamEnds, StreamError,
       EndRejects, FormattersEnded, Return, Success

(* What was emitted so far follows from the way.                           *)
LEMMA EmittedSoFarStep ==
    ASSUME IInv, [Next]_vars
    PROVE  EmittedSoFar'
  <1> USE DEF IInv, TypeOK, Touch, Upload, PluginOperation, OnItsWay, VerdictsInOrder, EmittedSoFar, Joining, Running, Goes, Ends,
         Rejects, Awaits, setupVars, cleanupVars, streamVars, messageVars, verdictVars
  <1>1. CASE AwaitPaths
    BY <1>1, Onwards DEF AwaitPaths
  <1>2. CASE GetSupportCodeLibrary
    BY <1>2, Onwards DEF GetSupportCodeLibrary
  <1>3. CASE \E event \in CoordinatorTransformKey : Transform(event)
    BY <1>3, Onwards DEF Transform, CoordinatorTransformKey
  <1>4. CASE MakeRuntime
    BY <1>4, Onwards DEF MakeRuntime
  <1>5. CASE \E p \in Plugins : InitCoordinator(p)
    BY <1>5, Onwards DEF InitCoordinator, Joins, FailsToJoin, RegistersUnknownEvent
  <1>6. CASE InitPublishPlugin
    BY <1>6, Onwards DEF InitPublishPlugin, Joins, FailsToJoin
  <1>7. CASE \E f \in Formatters : StartFormatter(f)
    BY <1>7, Onwards DEF StartFormatter, InitFormatter, BuildFormatter, Joins, FailsToJoin,
       RegistersUnknownEvent
  <1>8. CASE Initialized
    BY <1>8, Onwards DEF Initialized
  <1>9. CASE \E step \in {"meta", "supportMessages", "started", "finished"} : Emits(step)
    BY <1>9, Onwards DEF Emits, Emit
  <1>10. CASE GetPickles
    BY <1>10, Onwards DEF GetPickles, Emit
  <1>11. CASE \E kind \in {"case", "attachment"} : RuntimeEmits(kind)
    BY <1>11, Onwards DEF RuntimeEmits, Emit
  <1>12. CASE HandlerRejects
    BY <1>12, Onwards DEF HandlerRejects
  <1>13. CASE RuntimeReturns
    BY <1>13, Onwards DEF RuntimeReturns
  <1>14. CASE \E p \in Managed : CallCleanup(p)
    BY <1>14, Onwards DEF CallCleanup, NextCleanup
  <1>15. CASE CleanupSettles
    BY <1>15, Onwards DEF CleanupSettles
  <1>16. CASE PublishSettles
    BY <1>16, Onwards DEF PublishSettles
  <1>17. CASE TempFileFails
    BY <1>17, Onwards DEF TempFileFails
  <1>18. CASE CleanedUp
    BY <1>18, Onwards DEF CleanedUp
  <1>19. CASE EndFormatters
    BY <1>19, Onwards DEF EndFormatters
  <1>20. CASE \E f \in FileFormatters : StreamEnds(f)
    BY <1>20, Onwards DEF StreamEnds
  <1>21. CASE \E f \in FileFormatters : StreamError(f)
    BY <1>21, Onwards DEF StreamError
  <1>22. CASE EndRejects
    BY <1>22, Onwards DEF EndRejects
  <1>23. CASE FormattersEnded
    BY <1>23, Onwards DEF FormattersEnded
  <1>24. CASE Return
    BY <1>24, Onwards DEF Return, Success
  <1>25. CASE UNCHANGED vars
    BY <1>25, Onwards DEF vars
  <1>26. QED
    BY <1>1, <1>2, <1>3, <1>4, <1>5, <1>6, <1>7, <1>8, <1>9, <1>10, <1>11, <1>12, <1>13, <1>14,
       <1>15, <1>16, <1>17, <1>18, <1>19, <1>20, <1>21, <1>22, <1>23, <1>24, <1>25 DEF Next,
       Returned

(* The run fails of a listener that misses an envelope.                    *)
LEMMA HeardSoFarStep ==
    ASSUME IInv, [Next]_vars
    PROVE  HeardSoFar'
  BY HeardByAllStep, Fixed DEF HeardSoFar, Running

-----------------------------------------------------------------------------
(* What holds when the call has returned. *)

(* The only way to return something is to get to the end, or to load no    *)
(* source.                                                                 *)
LEMMA OnlyReturn ==
    ASSUME IInv, [Next]_vars, returned' \in {"success", "failure"}
    PROVE  \/ UNCHANGED vars
           \/ /\ at = "return" /\ UNCHANGED <<setupVars, cleanupVars, streams, streamVars>>
              /\ UNCHANGED <<messageVars, verdictVars>>
              /\ Running => (returned' = "success" <=> Success)
           \/ operation = "loadSources" /\ at = "paths" /\ UNCHANGED <<operation, cleanupVars>>
              /\ UNCHANGED <<cleanupFns, report, streams>>
  <1>1. CASE Return
    BY <1>1 DEF Return, Ends, Running
  <1>2. CASE AwaitPaths
    BY <1>2 DEF IInv, OnItsWay, AwaitPaths, setupVars, streamVars, Goes, Ends, Rejects, Awaits
  <1>3. CASE UNCHANGED vars
    BY <1>3
  <1>4. QED
    BY <1>1, <1>2, <1>3 DEF IInv, OnItsWay, Next, Returned, Goes, Ends, Rejects, Awaits,
       GetSupportCodeLibrary, Transform, CoordinatorTransformKey, MakeRuntime, InitCoordinator, Joins, FailsToJoin,
       RegistersUnknownEvent, InitPublishPlugin, Touch, Joins, FailsToJoin, StartFormatter,
       InitFormatter, BuildFormatter, Joins, FailsToJoin, RegistersUnknownEvent, Initialized,
       Emits, Emit, GetPickles, Emit, RuntimeEmits, Emit, HandlerRejects, RuntimeReturns,
       CallCleanup, NextCleanup, CleanupSettles, PublishSettles, Upload, TempFileFails, CleanedUp,
       EndFormatters, StreamEnds, StreamError, EndRejects, FormattersEnded

(* A call that returns has joined all its plugins and formatters before    *)
(* the first envelope, and all of them have heard the same.                *)
LEMMA HeardByEveryoneStep ==
    ASSUME IInv, [Next]_vars
    PROVE  HeardByEveryone'
  <1> SUFFICES ASSUME (Running /\ (returned = "success" \/ (returned = "failure" /\ parseErrors)))'
               PROVE  /\ joined' = Plugins \cup Formatters
                      /\ \A l \in Listening' : heard'[l] \ {"attachment"} = emitted' \ {"attachment"}
                      /\ "meta" \in emitted'
                      /\ returned' = "success" => {"started", "finished"} \subseteq emitted'
    BY DEF HeardByEveryone, Running
  <1>1. CASE UNCHANGED vars
    <2>1. UNCHANGED <<Listening, operation>>
      BY <1>1 DEF vars, setupVars, streamVars, Listening
    <2>2. QED
      BY <1>1, <2>1 DEF vars, setupVars, messageVars, verdictVars, IInv, HeardByEveryone, Running
  <1>2. CASE /\ at = "return" /\ UNCHANGED <<setupVars, streamVars, messageVars, verdictVars>>
             /\ Running => (returned' = "success" <=> Success)
    <2>1. UNCHANGED <<operation, joined, report, heard, emitted, parseErrors, runSuccess>>
      BY <1>2 DEF setupVars, streamVars, messageVars, verdictVars
    <2>2. UNCHANGED Listening
      BY <2>1 DEF Listening
    <2>3. Running /\ runSuccess
      BY <1>2, <2>1 DEF Running, Success, IInv, VerdictsInOrder
    <2>4. HeardByAll
      BY <1>2, <2>3 DEF IInv, HeardSoFar
    <2>5. joined = Plugins \cup Formatters /\ "meta" \in emitted
      BY <1>2, <2>3 DEF IInv, EveryoneJoins, EmittedSoFar, Joining
    <2>6. returned' = "success" => {"started", "finished"} \subseteq emitted
      BY <1>2, <2>3 DEF IInv, EmittedSoFar, Success
    <2>7. QED
      BY <2>1, <2>2, <2>4, <2>5, <2>6 DEF HeardByAll
  <1>3. operation # "loadSources"
    BY Fixed DEF Running
  <1>4. QED
    BY <1>1, <1>2, <1>3, OnlyReturn

(* A call only returns success when nothing has thrown, every file has     *)
(* been written to its end and the run was a success.                      *)
LEMMA SuccessIsWholeStep ==
    ASSUME IInv, [Next]_vars
    PROVE  SuccessIsWhole'
  <1> SUFFICES ASSUME Running', returned' = "success"
               PROVE  /\ errored' = {} /\ \A f \in FileFormatters : streams'[f] = "ended"
                      /\ runSuccess'
    BY DEF SuccessIsWhole, Running
  <1>1. Running
    BY Fixed DEF Running
  <1>2. CASE UNCHANGED vars
    BY <1>1, <1>2 DEF vars, streamVars, verdictVars, IInv, SuccessIsWhole, Running
  <1>3. CASE /\ at = "return" /\ UNCHANGED <<streams, streamVars, verdictVars>>
             /\ Running => (returned' = "success" <=> Success)
    <2>1. Success
      BY <1>1, <1>3
    <2>2. errored = {} /\ \A f \in FileFormatters : streams[f] = "ended"
      BY <1>1, <1>3, <2>1 DEF Success, IInv, VerdictsInOrder, StreamsInOrder
    <2>3. QED
      BY <1>3, <2>1, <2>2 DEF Success, streamVars, verdictVars
  <1>4. QED
    BY <1>1, <1>2, <1>3, OnlyReturn DEF Running

(* Formatters are cleaned up before their streams end, unless a parse      *)
(* error made the call return early, and plugins after them.               *)
LEMMA CleanedUpInOrderStep ==
    ASSUME IInv, [Next]_vars
    PROVE  CleanedUpInOrder'
  <1>1. \A f \in FileFormatters \cap cleanupFns' :
            streams'[f] \in {"ending", "ended"} => parseErrors' \/ f \in cleaned'
    <2>1. CASE /\ UNCHANGED <<cleanupFns, streams>> /\ (parseErrors => parseErrors')
               /\ cleaned \subseteq cleaned'
      BY <2>1 DEF IInv, CleanedUpInOrder
    <2>2. CASE /\ \A f \in FileFormatters : streams[f] \in {"none", "open"}
               /\ \A f \in FileFormatters : streams'[f] \in {"open", streams[f]}
      BY <2>2
    <2>3. CASE EndFormatters
      <3>1. at = "endFormatters" /\ UNCHANGED <<cleanupFns, cleaned, parseErrors>>
        BY <2>3 DEF EndFormatters, Goes, setupVars, cleanupVars, verdictVars
      <3>2. QED
        BY <3>1 DEF IInv, CleanupsInOrder
    <2>4. CASE \E f \in FileFormatters : StreamEnds(f)
      BY <2>4 DEF StreamEnds, setupVars, cleanupVars, verdictVars, IInv, TypeOK, CleanedUpInOrder
    <2>5. CASE \/ \E p \in Plugins : InitCoordinator(p)
               \/ InitPublishPlugin
               \/ \E f \in Formatters : StartFormatter(f)
               \/ GetPickles
      <3>1. at \in {"plugins", "formatters", "sources"}
        BY <2>5 DEF InitCoordinator, InitPublishPlugin, Touch, StartFormatter, GetPickles
      <3>2. \A f \in FileFormatters : streams[f] \in {"none", "open"}
        BY <3>1 DEF IInv, StreamsInOrder
      <3>3. \A f \in FileFormatters : streams'[f] \in {"open", streams[f]}
        BY <2>5 DEF InitCoordinator, InitPublishPlugin, Touch, StartFormatter, GetPickles
      <3>4. QED
        BY <2>2, <3>2, <3>3
    <2>6. CASE CleanupSettles \/ PublishSettles
      BY <2>1, <2>6 DEF CleanupSettles, PublishSettles, setupVars, verdictVars
    <2>7. CASE UNCHANGED <<cleanupFns, streams, cleaned, parseErrors>>
      BY <2>1, <2>7
    <2>8. QED
      BY <2>3, <2>4, <2>5, <2>6, <2>7 DEF Next, Returned, vars, setupVars, cleanupVars,
         streamVars, messageVars, verdictVars, AwaitPaths, GetSupportCodeLibrary, Transform,
         MakeRuntime, Initialized, Emits, Emit, RuntimeEmits, Emit, HandlerRejects,
         RuntimeReturns, CallCleanup, NextCleanup, TempFileFails, CleanedUp, StreamError,
         EndRejects, FormattersEnded, Return, Success
  <1>2. returned' \in {"success", "failure"} =>
            /\ cleaned' = cleanupFns'
            /\ operation' = "runCucumber" => \A f \in FileFormatters : streams'[f] = "ended"
            /\ report' # "reserved"
    <2> SUFFICES ASSUME returned' \in {"success", "failure"}
                 PROVE  /\ cleaned' = cleanupFns'
                        /\ operation' = "runCucumber" =>
                               \A f \in FileFormatters : streams'[f] = "ended"
                        /\ report' # "reserved"
      OBVIOUS
    <2>1. CASE UNCHANGED vars
      BY <2>1 DEF vars, setupVars, cleanupVars, streamVars, IInv, CleanedUpInOrder
    <2>2. CASE at = "return" /\ UNCHANGED <<setupVars, cleanupVars, streams, streamVars>>
      BY <2>2 DEF setupVars, cleanupVars, streamVars, IInv, CleanupsInOrder, StreamsInOrder, Running
    <2>3. CASE /\ operation = "loadSources" /\ at = "paths"
               /\ UNCHANGED <<operation, cleanupVars, cleanupFns, report>>
      BY <2>3 DEF cleanupVars, IInv, TypeOK, EveryoneJoins, Running
    <2>4. QED
      BY <2>1, <2>2, <2>3, OnlyReturn
  <1>3. QED
    BY <1>1, <1>2 DEF CleanedUpInOrder

-----------------------------------------------------------------------------
(* Theorems. *)

(* The invariant is one: it holds whatever throws, and when.               *)
THEOREM Invariance == Spec => []IInv
  <1>1. IInv /\ [Next]_vars => IInv'
    BY TypeStep, OnItsWayStep, VerdictsInOrderStep, EveryoneJoinsStep, HeardSoFarStep,
       EmittedSoFarStep, StreamsInOrderStep, CleanupsInOrderStep, HeardByEveryoneStep,
       SuccessIsWholeStep, CleanedUpInOrderStep DEF IInv
  <1>2. QED
    BY <1>1, InitIInv, PTL DEF Spec

(* Every variable of a call stays in its type.                             *)
THEOREM TypeCorrectness == Spec => []TypeOK
  <1>1. IInv => TypeOK
    BY DEF IInv
  <1>2. QED
    BY <1>1, Invariance, PTL

(* runCucumber: what it reports of was heard by everyone from the meta     *)
(* message on.                                                             *)
THEOREM EveryoneHears == Spec => []HeardByEveryone
  <1>1. IInv => HeardByEveryone
    BY DEF IInv
  <1>2. QED
    BY <1>1, Invariance, PTL

(* runCucumber: a success has passed its test cases and written its files. *)
THEOREM SuccessIsNeverPartial == Spec => []SuccessIsWhole
  <1>1. IInv => SuccessIsWhole
    BY DEF IInv
  <1>2. QED
    BY <1>1, Invariance, PTL

(* cleanup() of the plugin manager and of the formatters: all is cleaned   *)
(* up, and in order, on each way to a result.                              *)
THEOREM CleansUpInOrder == Spec => []CleanedUpInOrder
  <1>1. IInv => CleanedUpInOrder
    BY DEF IInv
  <1>2. QED
    BY <1>1, Invariance, PTL
=============================================================================
