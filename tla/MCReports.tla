------------------------------- MODULE MCReports -------------------------------
(***************************************************************************)
(* An instance of Reports for TLC: a feature with a background and, in a   *)
(* rule, an outline of two rows under two sets of examples, whose second   *)
(* step no definition matches in one row and two in the other; and a       *)
(* feature with two scenarios that have no steps, one of them with a hook.  *)
(***************************************************************************)
EXTENDS Reports

(* Cells that are easily printed alike, a placeholder, and equal keys. *)
Table ==
    [kind |-> "dataTable",
     rows |-> << <<<<Backslash, "n">>, <<Newline>>>>, <<<<"<x>">>, <<Backslash>>>>,
                 <<<<Backslash, "n">>, <<"y">>>>>>]

WideTable ==
    [kind |-> "dataTable", rows |-> << <<<<"k">>, <<"l">>, <<"k">>>>, <<<<"1">>, <<"2">>, <<"3">>>> >>]

DocString == [kind |-> "docString", content |-> "<x>", line |-> 5]

Step(id, line, keyword, text, argument) ==
    [id |-> id, line |-> line, keyword |-> keyword, text |-> text, argument |-> argument]

MCTag(id, line, name) == [id |-> id, line |-> line, name |-> name]

Examples(tag, id, line, text) ==
    [tags |-> <<tag>>, rows |-> <<[id |-> id, line |-> line, replaces |-> "<x>" :> text]>>]

Outline ==
    [kind |-> "scenario", id |-> "s1", line |-> 6, name |-> "outline", tags |-> <<>>,
     steps |-> <<Step("p2", 7, "and", "<x>", <<Table>>)>>,
     examples |-> <<Examples(MCTag("g1", 8, "before"), "r1", 10, "unknown"),
                    Examples(MCTag("g2", 11, "after"), "r2", 13, "twice")>>]

Stepless(id, line, tags) ==
    [kind |-> "scenario", id |-> id, line |-> line, name |-> "none", tags |-> tags,
     steps |-> <<>>, examples |-> <<>>]

MCDocuments ==
    <<[uri |-> "a", name |-> "A", tags |-> <<MCTag("g3", 1, "feature")>>, children |->
          <<[kind |-> "background", steps |-> <<Step("p1", 4, "when", "once", <<DocString>>)>>],
            [kind |-> "rule", name |-> "R", tags |-> <<MCTag("g4", 5, "rule")>>,
             children |-> <<Outline>>]>>],
      [uri |-> "b", name |-> "B", tags |-> <<>>, children |->
          <<[kind |-> "background", steps |-> <<Step("p3", 3, "given", "once", <<WideTable>>)>>],
            Stepless("s2", 5, <<>>), Stepless("s3", 7, <<MCTag("g5", 6, "after")>>)>>]>>

(* The pickles of these documents. *)
Pickle(uri, name, lines, astNodeIds, tags, steps) ==
    [uri |-> uri, name |-> name, lines |-> lines, astNodeIds |-> astNodeIds,
     pickleTags |-> tags, tags |-> {tag.name : tag \in ToSet(tags)}, steps |-> steps]

PickleStep(text, astNodeIds, argument) ==
    [text |-> text, astNodeIds |-> astNodeIds, argument |-> <<argument>>, type |-> "action"]

Row(id, line, text, tag) ==
    Pickle("a", "outline", {6, line}, <<"s1", id>>,
           <<MCTag("g3", 1, "feature"), MCTag("g4", 5, "rule"), tag>>,
           <<PickleStep("once", <<"p1">>, DocString),
             PickleStep(text, <<"p2", id>>, [Table EXCEPT !.rows[2][1] = <<text>>])>>)

MCPickles ==
    <<Row("r1", 10, "unknown", MCTag("g1", 8, "before")), Row("r2", 13, "twice", MCTag("g2", 11, "after")),
      Pickle("b", "none", {5}, <<"s2">>, <<>>, <<>>),
      Pickle("b", "none", {7}, <<"s3">>, <<MCTag("g5", 6, "after")>>, <<>>)>>

MCTestCases == 1 .. 4

MCStepDefinitions == {"d1", "d2", "d3"}

Matching(text) ==
    CASE text = "once" -> {"d1"} [] text = "twice" -> {"d1", "d2"} [] text = "unknown" -> {}

Hook(kind, tag, pickle) ==
    IF tag \in pickle.tags THEN <<[kind |-> kind, definitions |-> {kind}, pickleStep |-> 0]>> ELSE <<>>

MCTestStepsOf ==
    [t \in MCTestCases |->
        LET pickle == MCPickles[t]
        IN Hook("before", "before", pickle)
           \o [i \in DOMAIN pickle.steps |->
                  [kind |-> "step", definitions |-> Matching(pickle.steps[i].text), pickleStep |-> i]]
           \o Hook("after", "after", pickle)]

(* One step may be pending, and what comes first may skip the undefined or *)
(* ambiguous step, without which the run could not succeed.                *)
MCStepStatuses ==
    [t \in MCTestCases |-> [i \in DOMAIN MCTestStepsOf[t] |->
        {"PASSED", IF t = 2 /\ i = 1 THEN "SKIPPED" ELSE "FAILED"}
            \cup IF t = 1 THEN {IF MCTestStepsOf[t][i].kind = "step" THEN "PENDING" ELSE "SKIPPED"} ELSE {}]]

Generated(source, parameterName) == [source |-> source, parameterNames |-> <<parameterName>>]

MCGenerateExpressions ==
    [text \in {"once", "twice", "unknown"} |-> <<Generated("float", "float"), Generated("word", "string")>>]

MCTook == [t \in MCTestCases |-> [i \in DOMAIN MCTestStepsOf[t] |-> 10 * t + i]]

(* An error the user's code has thrown and caused itself, one with a longer *)
(* chain of causes that ends in a value that is none, one of cucumber, and  *)
(* a value thrown that is no error.                                        *)
At(file) == [file |-> file, line |-> 1]

MCFramesOf ==
    ("user" :> <<At("node:a"), At("user"), At("node:internal/a"), At("cucumber"), At("node:a")>>)
    @@ ("caused" :> <<At("none"), At("user"), At("user")>>)
    @@ ("deep" :> <<At("user"), At("cucumber"), At("user")>>)
    @@ ("deeper" :> << >>)
    @@ ("cucumber" :> <<At("node:a"), At("cucumber"), At("user")>>)

MCCauseOf ==
    [error \in DOMAIN MCFramesOf |->
        CASE error = "user" -> "caused"
          [] error = "caused" -> "user"
          [] error = "deep" -> "deeper"
          [] error = "deeper" -> "cucumber"
          [] error = "cucumber" -> "reason"]

MCThrown ==
    [t \in MCTestCases |-> [i \in DOMAIN MCTestStepsOf[t] |->
        CASE i = 1 /\ t # 2 -> "user" [] t = 2 -> "deep" [] i = 2 /\ t # 2 -> "cucumber"
          [] OTHER -> "text"]]

(* A text that is in base64 already, a screenshot that takes its time, a   *)
(* buffer that is refused for want of a media type, and plain text.        *)
Attach(attached, given) == [method |-> "attach", data |-> attached, given |-> given]

MCCalls ==
    <<Attach(AsText(Base64(Plain(<<"a">>))),
             [as |-> "mediaType", mediaType |-> [base64 |-> TRUE, type |-> "image/png"]]),
      Attach([kind |-> "stream", chunks |-> <<<<"a">>, <<"b">>>>, fails |-> FALSE],
             [as |-> "options", mediaType |-> MediaType("image/png"), fileName |-> "screenshot"]),
      Attach([kind |-> "buffer", buffer |-> Plain(<<"a">>)], [as |-> "nothing"]),
      Attach(AsText(Plain(<<"c">>)), [as |-> "nothing"])>>

MCAttaching == <<1, 2, 2>> :> MCCalls @@ <<4, 1, 1>> :> <<[method |-> "link", urls |-> <<<<"a">>, <<"b">>>>]>>

MCGlob == [uri \in {"a", "b"} |-> <<uri>>]

MCDirectoryOf == [uri \in {"a", "b"} |-> uri]

MCDefaultPaths == <<[uri |-> "a", lines |-> {}], [uri |-> "b", lines |-> {}]>>
=============================================================================
