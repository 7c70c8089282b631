--------------------------- MODULE PickleSelection ----------------------------
(***************************************************************************)
(* Which pickles of a plan one run executes, and in which order            *)
(* (src/src/pickle_filter.ts, filter/, sharding/).  A pickle is a record   *)
(* of its uri, the lines of its AST nodes, its name and its tags.          *)
(***************************************************************************)
EXTENDS Subsequences, SequencesExt

(* filter.lines maps the paths given with line numbers to these.           *)
MatchesAnyLine(filter, pickle) ==
    pickle.uri \in DOMAIN filter.lines => filter.lines[pickle.uri] \cap pickle.lines # {}

(* filter.names are the names that match one of the expressions given.     *)
MatchesAnyName(filter, pickle) == filter.names = {} \/ pickle.name \in filter.names

(* A tag expression is the set of sets of tags it is true of.              *)
MatchesAllTagExpressions(tagExpression, pickle) == pickle.tags \in tagExpression

FilterPickles(filter, pickles) ==
    LET Matches(pickle) ==
            /\ MatchesAnyLine(filter, pickle)
            /\ MatchesAnyName(filter, pickle)
            /\ MatchesAllTagExpressions(filter.tagExpression, pickle)
    IN Keep(pickles, {i \in DOMAIN pickles : Matches(pickles[i])})

(* Every total-th pickle, from the index-th one.                           *)
ShardPickles(index, total, pickles) ==
    [k \in 1 .. (Len(pickles) + total - index) \div total |-> pickles[(k - 1) * total + index]]

(* What ordering may result in.                                            *)
OrderPickles(order, pickles) ==
    CASE order = "defined" -> {pickles}
      [] order = "reverse" -> {Reverse(pickles)}
      [] order = "random" ->
            {[i \in DOMAIN pickles |-> pickles[shuffle[i]]] :
                shuffle \in {f \in [DOMAIN pickles -> DOMAIN pickles] :
                                \A i, j \in DOMAIN pickles : f[i] = f[j] => i = j}}

(* The transforms of the filter plugin, and of the sharding plugin, which  *)
(* is initialised after it: all that filter come before all that order.    *)
\* Wrong variant: shards are taken of what has been ordered.
Select_OrderFirst(filter, order, index, total, pickles) ==
    {ShardPickles(index, total, ordered) :
        ordered \in OrderPickles(order, FilterPickles(filter, pickles))}

Select(filter, order, index, total, pickles) ==
    OrderPickles(order, ShardPickles(index, total, FilterPickles(filter, pickles)))
=============================================================================
