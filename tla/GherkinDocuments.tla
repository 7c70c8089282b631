--------------------------- MODULE GherkinDocuments ---------------------------
(***************************************************************************)
(* Where things are in a feature file                                      *)
(* (src/src/formatter/helpers/gherkin_document_parser.ts, pickle_parser.ts *)
(* and keyword_type.ts).                                                   *)
(*                                                                         *)
(* A document is a record of its uri, the name and tags of its feature and *)
(* its children, each of kind "background", "scenario" or "rule"; a rule   *)
(* has children itself.  A scenario with examples stands for one pickle    *)
(* for each of their rows.                                                 *)
(***************************************************************************)
EXTENDS Naturals, SequencesExt, TLC

ChildrenOf(child) == IF child.kind = "rule" THEN child.children ELSE <<child>>

(* Backgrounds and scenarios, those of rules included.                     *)
Containers(document) ==
    ToSet(FlattenSeq([i \in DOMAIN document.children |-> ChildrenOf(document.children[i])]))

ById(nodes) == [id \in {node.id : node \in nodes} |-> CHOOSE node \in nodes : node.id = id]

GetGherkinStepMap(document) ==
    ById(UNION {ToSet(container.steps) : container \in Containers(document)})

GetGherkinScenarioMap(document) ==
    ById({container \in Containers(document) : container.kind = "scenario"})

GetGherkinExampleRuleMap(document) ==
    LET rules == {child \in ToSet(document.children) : child.kind = "rule"}
        InRule(rule) == {child.id : child \in {c \in ToSet(rule.children) : c.kind = "scenario"}}
    IN [id \in UNION {InRule(rule) : rule \in rules} |->
           CHOOSE rule \in rules : id \in InRule(rule)]

Rows(scenario) == UNION {ToSet(examples.rows) : examples \in ToSet(scenario.examples)}

GetGherkinScenarioLocationMap(document) ==
    LET scenarios == GetGherkinScenarioMap(document)
        rows == ById(UNION {Rows(scenarios[id]) : id \in DOMAIN scenarios})
    IN [id \in DOMAIN scenarios |-> scenarios[id].line] @@ [id \in DOMAIN rows |-> rows[id].line]

(* The line of the row, or of the scenario if it has none.                 *)
GetPickleLocation(document, pickle) ==
    GetGherkinScenarioLocationMap(document)[Last(pickle.astNodeIds)]

(* The step of the document that a step of a pickle comes from.            *)
GherkinStepOf(document, pickleStep) == GetGherkinStepMap(document)[Head(pickleStep.astNodeIds)]

\* Wrong variant: "and" and "but" go on with nothing.
GetStepKeywordType_Standalone(keyword, previousKeywordType) ==
    CASE keyword = "when" -> "event"
      [] keyword = "then" -> "outcome"
      [] OTHER -> "precondition"

(* "and" and "but" go on with what the test step before them was; "*" is   *)
(* one of the keywords for "given".                                        *)
GetStepKeywordType(keyword, previousKeywordType) ==
    CASE keyword = "when" -> "event"
      [] keyword = "then" -> "outcome"
      [] keyword \in {"and", "but"} /\ previousKeywordType # "none" -> previousKeywordType
      [] OTHER -> "precondition"

-----------------------------------------------------------------------------
(* What the Gherkin parser makes of a document (external). *)

Backgrounds(children) == SelectSeq(children, LAMBDA child : child.kind = "background")

StepsOf(containers) == FlattenSeq([i \in DOMAIN containers |-> containers[i].steps])

(* A conjunction is of the type of the step before it.                     *)
PickleStepType(steps, i) ==
    LET said == {j \in 1 .. i : steps[j].keyword \notin {"and", "but"}}
        keyword == IF said = {} THEN "*" ELSE steps[Max(said)].keyword
    IN CASE keyword = "given" -> "context"
         [] keyword = "when" -> "action"
         [] keyword = "then" -> "outcome"
         [] OTHER -> "unknown"

NoRow == [id |-> "none", line |-> 0, replaces |-> << >>, tags |-> <<>>]

(* A scenario without steps has not even those of the backgrounds.         *)
PickleOfRow(document, rule, scenario, row) ==
    LET background == StepsOf(Backgrounds(document.children) \o Backgrounds(rule.children))
        ids(node) == IF row = NoRow THEN <<node.id>> ELSE <<node.id, row.id>>
        Replaced(text) == IF text \in DOMAIN row.replaces THEN row.replaces[text] ELSE text
        ReplacedCell(cell) == [i \in DOMAIN cell |-> Replaced(cell[i])]
        ReplacedArgument(argument) ==
            CASE argument.kind = "docString" -> [argument EXCEPT !.content = Replaced(@)]
              [] argument.kind = "dataTable" ->
                     [argument EXCEPT !.rows = [i \in DOMAIN @ |->
                         [j \in DOMAIN @[i] |-> ReplacedCell(@[i][j])]]]
        tags == document.tags \o rule.tags \o scenario.tags \o row.tags
        locations == GetGherkinScenarioLocationMap(document)
        steps == background \o scenario.steps
    IN [uri |-> document.uri, name |-> scenario.name, astNodeIds |-> ids(scenario),
        lines |-> {locations[id] : id \in ToSet(ids(scenario))},
        pickleTags |-> tags, tags |-> {tag.name : tag \in ToSet(tags)},
        steps |->
            IF scenario.steps = <<>> THEN <<>>
            ELSE [i \in DOMAIN steps |->
                     LET inBackground == i <= Len(background)
                     IN [astNodeIds |-> IF inBackground THEN <<steps[i].id>> ELSE ids(steps[i]),
                         text |-> IF inBackground THEN steps[i].text ELSE Replaced(steps[i].text),
                         argument |->
                             IF inBackground THEN steps[i].argument
                             ELSE [k \in DOMAIN steps[i].argument |-> ReplacedArgument(steps[i].argument[k])],
                         type |-> PickleStepType(steps, i)]]]

PicklesOfScenario(document, rule, scenario) ==
    IF scenario.examples = <<>> THEN <<PickleOfRow(document, rule, scenario, NoRow)>>
    ELSE FlattenSeq([i \in DOMAIN scenario.examples |->
             LET examples == scenario.examples[i]
             IN [j \in DOMAIN examples.rows |->
                    PickleOfRow(document, rule, scenario,
                                [tags |-> examples.tags] @@ examples.rows[j])]])

NoRule == [kind |-> "none", name |-> "none", tags |-> <<>>, children |-> <<>>]

PicklesOf(document) ==
    LET Under(rule, child) ==
            IF child.kind = "scenario" THEN PicklesOfScenario(document, rule, child) ELSE <<>>
    IN FlattenSeq([i \in DOMAIN document.children |->
           LET child == document.children[i]
           IN IF child.kind = "rule"
              THEN FlattenSeq([j \in DOMAIN child.children |-> Under(child, child.children[j])])
              ELSE Under(NoRule, child)])
=============================================================================
