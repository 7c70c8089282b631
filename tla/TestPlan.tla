------------------------------- MODULE TestPlan -------------------------------
(***************************************************************************)
(* From support code and pickles to the test cases a run executes: the     *)
(* selection of pickles, the support code messages                         *)
(* (src/src/api/emit_support_code_messages.ts), the assembly of test cases *)
(* (assemble/assemble_test_cases.ts) and what a worker finds by their ids. *)
(*                                                                         *)
(* The same suite is run by one job per shard, each with its own shuffle;  *)
(* the run that is followed further is that of one of them.                *)
(***************************************************************************)
EXTENDS SupportCode, PickleSelection

CONSTANTS
    Pickles,     \* all pickles of the suite, in the order of the sources
    Filters,     \* the filters it may be run with
    MaxShards    \* bound: into how many shards

(* A pickle has an id that no other has, and a list of steps.              *)
ASSUME TestPlanAssumption ==
    /\ Pickles \in Seq(ToSet(Pickles)) /\ IsInjective(Pickles)
    /\ \A pickle \in ToSet(Pickles) : pickle.steps \in Seq(ToSet(pickle.steps))
    /\ MaxShards \in Nat \ {0}

VARIABLES
    stage,        \* "load", "failed", "select", "emit", "setup", "run"
    filter,       \* the filter chosen
    plans,        \* the pickles each shard executes, in order
    envelopes,    \* the support code messages, in order
    testCases     \* the assembled test cases of the first shard

vars == <<supportVars, stage, filter, plans, envelopes, testCases>>

(* makeSourceReference, of what the main thread has defined.               *)
SourceReference(order) == GetDefinitionLineAndUri(Configs("main")[order].stack)

EnvelopeOf(kind, order, id) ==
    [kind |-> kind, order |-> order, id |-> id, sourceReference |-> SourceReference(order)]

TypeOK ==
    /\ status \in [Threads -> {"PENDING", "OPEN", "FINALIZED"}]
    /\ \A t \in Threads :
           /\ Len(calls[t]) <= MaxCalls /\ ToSet(calls[t]) \subseteq SupportCode
           /\ DOMAIN settings[t] = Settings
           /\ DOMAIN library[t] = Kinds \cup Settings
    /\ stage \in {"load", "failed", "select", "emit", "setup", "run"}
    /\ filter \in Filters
    /\ \A shard \in DOMAIN plans : ToSet(plans[shard]) \subseteq ToSet(Pickles)
    /\ \A e \in ToSet(envelopes) : e.kind \in {"step", "parameterType", "undefinedParameterType"} \cup HookKinds
    /\ \A c \in ToSet(testCases) :
           \A s \in ToSet(c.testSteps) : s.type \in {"hook", "step"} /\ ToSet(s.ids) \subseteq
               Threads \X (1 .. MaxCalls)

Init ==
    /\ SupportInit
    /\ stage = "load"
    /\ filter \in Filters
    /\ plans = <<>>
    /\ envelopes = <<>>
    /\ testCases = <<>>

(* getSupportCodeLibrary.                                                  *)
Load ==
    /\ stage = "load"
    /\ \/ Reset("main") /\ UNCHANGED stage
       \/ \E call \in SupportCode : (Define("main", call) \/ Set("main", call)) /\ UNCHANGED stage
       \/ \E call \in SupportCode : Refuse("main", call) /\ stage' = "failed"
       \/ Finalize("main") /\ stage' = "select"
    /\ UNCHANGED <<filter, plans, envelopes, testCases>>

(* Every job selects its shard and orders it.                              *)
SelectPickles ==
    /\ stage = "select"
    /\ \E total \in 1 .. MaxShards, order \in {"defined", "reverse", "random"} :
           plans' \in {p \in [1 .. total -> UNION {Select(filter, order, index, total, Pickles) :
                                                   index \in 1 .. total}] :
                          \A index \in 1 .. total :
                              p[index] \in Select(filter, order, index, total, Pickles)}
    /\ stage' = "emit"
    /\ UNCHANGED <<supportVars, filter, envelopes, testCases>>

-----------------------------------------------------------------------------
(* The messages. *)

ParameterTypeEnvelopes ==
    LET types == Collection("main", "parameterType")
    IN [i \in DOMAIN types |-> EnvelopeOf("parameterType", types[i], NewId("main", types[i]))]

DefinitionEnvelopes(kind) ==
    LET definitions == library["main"][kind]
    IN [i \in DOMAIN definitions |-> EnvelopeOf(kind, definitions[i].order, definitions[i].id)]

Announced ==
    ParameterTypeEnvelopes \o DefinitionEnvelopes("step")
        \o DefinitionEnvelopes("before") \o DefinitionEnvelopes("after")
        \o DefinitionEnvelopes("beforeAll") \o DefinitionEnvelopes("afterAll")

\* Wrong variant: kind after kind.
OrderedEnvelopes_ByKind == Announced

OrderedEnvelopes == SortBy(Announced, [i \in DOMAIN Announced |-> Announced[i].order])

(* For each step whose expression could not be built; it has no id.        *)
UndefinedParameterTypeEnvelopes ==
    LET collection == Collection("main", "step")
        steps == Keep(collection, {i \in DOMAIN collection : HasUndefinedParameterType("main", collection[i])})
    IN [i \in DOMAIN steps |-> EnvelopeOf("undefinedParameterType", steps[i], Undefined)]

EmitSupportCodeMessages ==
    /\ stage = "emit"
    /\ envelopes' = OrderedEnvelopes \o UndefinedParameterTypeEnvelopes
    /\ stage' = "setup"
    /\ UNCHANGED <<supportVars, filter, plans, testCases>>

(* What the summary says of them: each name once, with the latest          *)
(* expression that needs it.                                               *)
FormatUndefinedParameterTypes ==
    LET told == {i \in DOMAIN envelopes : envelopes[i].kind = "undefinedParameterType"}
        NameAt(i) == Configs("main")[envelopes[i].order].type
    IN [name \in {NameAt(i) : i \in told} |-> envelopes[Max({i \in told : NameAt(i) = name})].order]

-----------------------------------------------------------------------------
(* Assembly, and the library of a worker. *)

AppliesToTestCase(hook, pickle) == pickle.tags \in Configs("main")[hook.order].for

MatchesStepName(definition, text) == text \in Configs("main")[definition.order].for

MakeHookSteps(kind, pickle) ==
    LET hooks == Keep(library["main"][kind], {i \in DOMAIN library["main"][kind] :
                                                 AppliesToTestCase(library["main"][kind][i], pickle)})
    IN [i \in DOMAIN hooks |-> [type |-> "hook", ids |-> <<hooks[i].id>>]]

MakeSteps(pickle) ==
    [i \in DOMAIN pickle.steps |->
        [type |-> "step",
         ids |-> IdsOf(Keep(library["main"]["step"], {j \in DOMAIN library["main"]["step"] :
                                MatchesStepName(library["main"]["step"][j], pickle.steps[i])}))]]

TestStepsOf(pickle) ==
    MakeHookSteps("before", pickle) \o MakeSteps(pickle) \o Reverse(MakeHookSteps("after", pickle))

AssembleTestCases ==
    /\ stage = "setup" /\ status["worker"] = "FINALIZED"
    /\ testCases' = [i \in DOMAIN plans[1] |->
           [pickle |-> plans[1][i], testSteps |-> TestStepsOf(plans[1][i])]]
    /\ stage' = "run"
    /\ UNCHANGED <<supportVars, filter, plans, envelopes>>

(* A worker is started by the runtime and loads before test cases are      *)
(* assembled.                                                              *)
LoadWorker ==
    /\ stage = "setup"
    /\ \/ Reset("worker")
       \/ \E call \in SupportCode : Define("worker", call) \/ Set("worker", call)
       \/ Finalize("worker")
    /\ UNCHANGED <<stage, filter, plans, envelopes, testCases>>

(* The hooks of the run that the coordinator, or each worker, executes.    *)
TestRunHooksOf(t, kind) ==
    Keep(library[t][kind], {i \in DOMAIN library[t][kind] :
            library[t][kind][i].on = IF t = "main" THEN "COORDINATOR" ELSE "WORKER"})

Done == stage \in {"run", "failed"} /\ UNCHANGED vars

Next ==
    \/ Load
    \/ SelectPickles
    \/ EmitSupportCodeMessages
    \/ LoadWorker
    \/ AssembleTestCases
    \/ Done

Spec == Init /\ [][Next]_vars

-----------------------------------------------------------------------------
(* Properties. *)

(* docs/sharding.md: the jobs of all shards execute every pickle the       *)
(* filter leaves, each pickle in one of them, although each job shuffles   *)
(* on its own, and no shard is more than one pickle larger than another.   *)
ShardsPartition ==
    stage \in {"emit", "setup", "run"} =>
        LET shards == DOMAIN plans
            Executed(shard) == ToSet(plans[shard])
        IN /\ UNION {Executed(shard) : shard \in shards} = ToSet(FilterPickles(filter, Pickles))
           /\ \A a, b \in shards :
                  /\ Len(plans[a]) = Cardinality(Executed(a))
                  /\ a # b => Executed(a) \cap Executed(b) = {}
                  /\ Len(plans[a]) <= Len(plans[b]) + 1

NothingUndefined == ~\E order \in DOMAIN Configs("main") : HasUndefinedParameterType("main", order)

(* What a worker finds under an id of the main thread.                     *)
RunsTheSameCode ==
    status["worker"] = "FINALIZED" =>
        \A kind \in {"step"} \cup HookKinds : \A d \in ToSet(library["main"][kind]) :
            \E found \in ToSet(FindDefinition("worker", kind, d.id)) :
                found.order = d.order /\ found.code = d.code

LastSetting(setting) ==
    LET made == {i \in DOMAIN calls["main"] : calls["main"][i].kind = setting}
    IN IF made = {} THEN InitialSettings[setting] ELSE calls["main"][Max(made)].value

(* When every parameter type is defined, a worker finds under each id of   *)
(* the main thread the code that has this id there.  Whether a definition  *)
(* or a setting came first in the files, its code is called as it was      *)
(* written to be, with a callback or without, in the wrapper that was set  *)
(* last, and with the timeout, the World and the rule that were.  A hook   *)
(* of the run is executed by the coordinator or by each worker, not both.  *)
WorkerRunsTheSameCode ==
    /\ NothingUndefined => RunsTheSameCode
    /\ \A t \in Threads : status[t] = "FINALIZED" =>
           /\ \A kind \in Kinds : \A d \in ToSet(library[t][kind]) :
                  /\ \A parameters \in 0 .. 2 :
                         CalledAs(kind, d.code.length, parameters)
                             = CalledAs(kind, Configs("main")[d.order].codeLength, parameters)
                  /\ d.code.wrapped # "none" => d.code.wrapped = LastSetting("definitionFunctionWrapper")
           /\ \A setting \in Settings : library[t][setting] = LastSetting(setting)
    /\ status["worker"] = "FINALIZED" =>
           \A kind \in RunHookKinds : \A order \in ToSet(Collection("main", kind)) :
               Cardinality({t \in Threads : \E hook \in ToSet(TestRunHooksOf(t, kind)) : hook.order = order}) = 1

(* Every id a test case names belongs to a message sent before it, and the *)
(* messages of definitions come in the order of the source, before those   *)
(* of undefined parameter types, and lead to the line of the user's code   *)
(* that called cucumber.  Each definition of a step that has become none   *)
(* is for a parameter type the summary names, with such a definition.      *)
NamesWhatWasAnnounced ==
    /\ \A i, j \in DOMAIN envelopes :
           i < j /\ envelopes[j].kind # "undefinedParameterType"
               => envelopes[i].order < envelopes[j].order /\ envelopes[i].id # Undefined
    /\ \A e \in ToSet(envelopes) :
           LET stack == Configs("main")[e.order].stack
               users == {i \in DOMAIN stack : stack[i].file = "user"}
           IN e.sourceReference = [uri |-> "user", line |-> stack[Min(users)].line]
    /\ stage \in {"setup", "run"} =>
           LET named == FormatUndefinedParameterTypes
               defined == {d.order : d \in ToSet(library["main"]["step"])}
           IN /\ \A order \in ToSet(Collection("main", "step")) :
                     order \in defined <=> Configs("main")[order].type \notin DOMAIN named
              /\ \A name \in DOMAIN named : Configs("main")[named[name]].type = name
    /\ \A c \in ToSet(testCases) : \A s \in ToSet(c.testSteps) : \A id \in ToSet(s.ids) :
           \E e \in ToSet(envelopes) : e.id = id

(* index_spec.ts: "uses the canonical ids provided in order".              *)
CanonicalIdsInOrder == RunsTheSameCode
=============================================================================
