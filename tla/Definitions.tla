------------------------------ MODULE Definitions ------------------------------
(***************************************************************************)
(* The functions of step definitions and hooks: how many parameters they   *)
(* may have and what a call makes of them (src/src/models,                 *)
(* src/src/runtime/step_runner.ts), and the function that is generated for *)
(* an undefined step (src/src/formatter/step_definition_snippet_builder).  *)
(*                                                                         *)
(* A pickle step has one argument or none, as in StepArguments.            *)
(***************************************************************************)
EXTENDS Naturals, SequencesExt

CONSTANT GenerateExpressions    \* the expressions generated for each text (external)

SnippetInterfaces == {"async-await", "callback", "promise", "synchronous"}

ASSUME DefinitionsAssumption ==
    \A text \in DOMAIN GenerateExpressions :
        LET expressions == GenerateExpressions[text]
        IN /\ expressions \in Seq(ToSet(expressions)) \ {<<>>}
           /\ \A generated \in ToSet(expressions) :
                  /\ DOMAIN generated = {"source", "parameterNames"}
                  /\ generated.parameterNames \in Seq(ToSet(generated.parameterNames))
           /\ \A generated, other \in ToSet(expressions) :
                  generated.source = other.source => generated = other

-----------------------------------------------------------------------------
(* Calls. *)

(* parseStepArgument.                                                      *)
ArgumentOf(pickleStep) == pickleStep.argument

(* What the expression has captured and the argument of the step.          *)
GetInvocationParameters(captured, pickleStep) == captured \o ArgumentOf(pickleStep)

ValidCodeLengths(parameters) == {Len(parameters), Len(parameters) + 1}

(* The callback comes after all parameters.                                *)
CallbackInterface(length, parameters) == length = Len(parameters) + 1

(* What a call has come to whose code says "pending" in one of the ways of *)
(* the snippet interfaces: it returns that, a promise of that or gives it  *)
(* to its callback.                                                        *)
RunStep(saying, length, parameters) ==
    CASE length \notin ValidCodeLengths(parameters) -> "FAILED"
      [] CallbackInterface(length, parameters) ->
             IF saying = "callback" THEN "PENDING" ELSE "FAILED"
      [] OTHER -> IF saying = "callback" THEN "FAILED" ELSE "PENDING"

-----------------------------------------------------------------------------
(* Snippets. *)

\* Wrong variant: the argument of the step is left out.
GetStepParameterNames_TextOnly(pickleStep) == <<>>

GetStepParameterNames(pickleStep) ==
    [i \in DOMAIN pickleStep.argument |-> pickleStep.argument[i].kind]

(* The first expression is live code, the others stand in comments.        *)
SnippetSyntax(interface, functionName, generatedExpressions, stepParameterNames) ==
    [choices |-> [i \in DOMAIN generatedExpressions |->
         [functionName |-> functionName, source |-> generatedExpressions[i].source,
          live |-> i = 1,
          parameters |-> generatedExpressions[i].parameterNames \o stepParameterNames
                             \o (IF interface = "callback" THEN <<"callback">> ELSE <<>>)]],
     saying |-> interface]

GetFunctionName(keywordType) ==
    CASE keywordType = "event" -> "When"
      [] keywordType = "outcome" -> "Then"
      [] keywordType = "precondition" -> "Given"

BuildSnippet(interface, keywordType, pickleStep) ==
    SnippetSyntax(interface, GetFunctionName(keywordType),
                  GenerateExpressions[pickleStep.text], GetStepParameterNames(pickleStep))

(* One for each expression.                                                *)
BuildSnippets(interface, keywordType, pickleStep) ==
    LET generated == GenerateExpressions[pickleStep.text]
    IN [i \in DOMAIN generated |->
           SnippetSyntax(interface, GetFunctionName(keywordType), <<generated[i]>>,
                         GetStepParameterNames(pickleStep))]

(* What the runtime suggests for an undefined step, by the type that the   *)
(* Gherkin parser has given it.                                            *)
KeywordTypeOf(pickleStepType) ==
    CASE pickleStepType = "action" -> "event"
      [] pickleStepType = "outcome" -> "outcome"
      [] OTHER -> "precondition"

MakeSuggestion(interface, pickleStep) ==
    BuildSnippets(interface, KeywordTypeOf(pickleStep.type), pickleStep)

(* What the step comes to once its snippet is pasted: the expression then  *)
(* captures what it was generated from.                                    *)
PastedStatus(snippet, pickleStep) ==
    LET choice == CHOOSE c \in ToSet(snippet.choices) : c.live
        generated == CHOOSE g \in ToSet(GenerateExpressions[pickleStep.text]) : g.source = choice.source
    IN RunStep(snippet.saying, Len(choice.parameters),
               GetInvocationParameters(generated.parameterNames, pickleStep))
=============================================================================
