----------------------------- MODULE SupportCode ------------------------------
(***************************************************************************)
(* The support code library (src/src/support_code_library_builder): the    *)
(* main thread builds one, every worker builds its own from the same files *)
(* and gives its definitions the ids they have on the main thread.         *)
(*                                                                         *)
(* The builder is a singleton of its thread.  The worker here stands for   *)
(* any of them; they share nothing.                                        *)
(***************************************************************************)
EXTENDS Subsequences, SequencesExt, StackTraces

CONSTANTS
    SupportCode,      \* the calls the support code may make
    Wrappers,         \* the function wrappers that return another function
    MaxCalls          \* bound: how many calls it makes

-----------------------------------------------------------------------------
(* The methods.  A definition is of a kind and is for something: the texts *)
(* of steps, or the tag expression of a hook.  It defines, or its pattern  *)
(* needs, a parameter type.  Of what it is called with, the types count.   *)

HookKinds == {"before", "after", "beforeAll", "afterAll"}

RunHookKinds == {"beforeAll", "afterAll"}

StepHookKinds == {"beforeStep", "afterStep"}

Kinds == {"step"} \cup HookKinds \cup StepHookKinds

TaggedKinds == {"before", "after"} \cup StepHookKinds

Settings == {"defaultTimeout", "definitionFunctionWrapper", "World", "parallelCanAssign"}

Arguments ==
    [pattern : {"string", "regexp", "undefined", "number"},
     options : {"function", "string", "object", "undefined", "number"},
     tags : {"undefined", "string", "object"},
     timeout : {"undefined", "number", "string"},
     code : {"function", "undefined", "object"}]

ASSUME SupportCodeAssumption ==
    /\ \A call \in SupportCode :
           /\ call.kind \in Kinds \cup {"parameterType"} \cup Settings
           /\ call.kind \in Kinds => call.arguments \in Arguments /\ call.codeLength \in Nat
           /\ call.kind \in RunHookKinds => call.on \in {"undefined", "COORDINATOR", "WORKER"}
           /\ call.kind \notin Settings => call.stack \in Seq(StackFrame)
    /\ MaxCalls \in Nat

(* Options may be left out, and be just the tags of a hook.                *)
Overloaded(call) ==
    LET given == call.arguments
    IN CASE given.options = "function" ->
                [given EXCEPT !.code = "function", !.options = "object",
                              !.tags = "undefined", !.timeout = "undefined"]
         [] given.options = "string" /\ call.kind \in TaggedKinds ->
                [given EXCEPT !.options = "object", !.tags = "string", !.timeout = "undefined"]
         [] OTHER -> given

ValidateArguments(kind, given) ==
    /\ kind = "step" => given.pattern \in {"regexp", "string"}
    /\ given.options = "object"
    /\ kind \in TaggedKinds => given.tags \in {"undefined", "string"}
    /\ given.timeout \in {"undefined", "number"}
    /\ given.code = "function"

-----------------------------------------------------------------------------
Threads == {"main", "worker"}

VARIABLES
    status,     \* of each builder
    calls,      \* what has been called on each thread since reset()
    settings,   \* what has been set there
    library     \* what finalize() has returned there

supportVars == <<status, calls, settings, library>>

(* The definitions made on a thread, in definitionOrder.                   *)
Configs(t) == Keep(calls[t], {i \in DOMAIN calls[t] : calls[t][i].kind \notin Settings})

(* Step hooks get an id from newId() on every thread, definitions of other *)
(* kinds only on the main thread; a list of ids that is too short has      *)
(* undefined after its end.  What newId() returns is named by the thread   *)
(* and the definition it is for.                                           *)
Undefined == <<"undefined", 0>>

NewId(thread, order) == <<thread, order>>

InitialSettings ==
    [defaultTimeout |-> "5000", definitionFunctionWrapper |-> "none",
     World |-> "World", parallelCanAssign |-> "always"]

(* A library holds the definitions of each kind and the settings.          *)
LibraryOf(definitions, set) ==
    [key \in Kinds \cup Settings |-> IF key \in Kinds THEN definitions[key] ELSE set[key]]

SupportInit ==
    /\ status = [t \in Threads |-> "PENDING"]
    /\ calls = [t \in Threads |-> <<>>]
    /\ settings = [t \in Threads |-> InitialSettings]
    /\ library = [t \in Threads |-> LibraryOf([kind \in Kinds |-> <<>>], InitialSettings)]

Reset(t) ==
    /\ status[t] = "PENDING"
    /\ status' = [status EXCEPT ![t] = "OPEN"]
    /\ calls' = [calls EXCEPT ![t] = <<>>]
    /\ settings' = [settings EXCEPT ![t] = InitialSettings]
    /\ UNCHANGED library

(* The main thread runs the files, and a worker runs the same ones.  A     *)
(* call after finalize() is accepted, but what it adds to is not read      *)
(* again.                                                                  *)
MayCall(t, call) ==
    /\ status[t] = "OPEN"
    /\ IF t = "main"
       THEN Len(calls[t]) < MaxCalls
       ELSE Len(calls[t]) < Len(calls["main"]) /\ call = calls["main"][Len(calls[t]) + 1]

(* Arguments that cannot be used, a parameter type that is already         *)
(* defined, and a call that cannot be located end in an exception.         *)
Accepts(t, call) ==
    /\ IsLocated(call.stack)
    /\ IF call.kind = "parameterType"
       THEN ~\E e \in ToSet(calls[t]) : e.kind = "parameterType" /\ e.type = call.type
       ELSE ValidateArguments(call.kind, Overloaded(call))

(* Given, Before, defineParameterType ...                                  *)
Define(t, call) ==
    /\ call.kind \notin Settings
    /\ MayCall(t, call) /\ Accepts(t, call)
    /\ calls' = [calls EXCEPT ![t] = Append(@, call)]
    /\ UNCHANGED <<status, settings, library>>

(* It throws out of the file it is in, and there is no library.            *)
Refuse(t, call) ==
    /\ call.kind \notin Settings
    /\ MayCall(t, call) /\ ~Accepts(t, call)
    /\ UNCHANGED supportVars

(* setDefaultTimeout, setDefinitionFunctionWrapper, setWorldConstructor,   *)
(* setParallelCanAssign.                                                   *)
Set(t, call) ==
    /\ call.kind \in Settings
    /\ MayCall(t, call)
    /\ settings' = [settings EXCEPT ![t][call.kind] = call.value]
    /\ calls' = [calls EXCEPT ![t] = Append(@, call)]
    /\ UNCHANGED <<status, library>>

-----------------------------------------------------------------------------
(* One of the collections of the builder, as places in configs.            *)
Collection(t, kind) ==
    LET configs == Configs(t)
    IN InOrder({i \in DOMAIN configs : configs[i].kind = kind})

(* Expressions are built by finalize(), so a parameter type may be defined *)
(* after the step that needs it.                                           *)
HasUndefinedParameterType(t, order) ==
    LET step == Configs(t)[order]
    IN /\ step.kind = "step" /\ step.type # "none"
       /\ ~\E d \in ToSet(Configs(t)) : d.kind = "parameterType" /\ d.type = step.type

(* The function the last wrapper has returned for the code, if another one,*)
(* is made to take as many parameters as the code.                         *)
WrapCode(wrapper, codeLength) ==
    [wrapped |-> IF wrapper \in Wrappers THEN wrapper ELSE "none", length |-> codeLength]

(* The index of a definition in its collection is its index in the list of *)
(* ids, also when definitions before it are left out.                      *)
\* Wrong variant: ids are counted over all kinds.
IdAt_DefinitionOrder(ids, collection, index) ==
    IF collection[index] <= Len(ids) THEN ids[collection[index]] ELSE Undefined

IdAt(ids, collection, index) ==
    IF index <= Len(ids) THEN ids[index] ELSE Undefined

(* Of the run, the hooks are for workers unless they say otherwise.        *)
HookTarget(config) == IF config.on = "undefined" THEN "WORKER" ELSE config.on

NewDefinition(config, order, code, id) ==
    IF config.kind \in RunHookKinds
    THEN [order |-> order, code |-> code, id |-> id, on |-> HookTarget(config)]
    ELSE [order |-> order, code |-> code, id |-> id]

(* What the build functions make of a collection.                          *)
Build(t, kind, canonicalIds) ==
    LET collection == Collection(t, kind)
        built == InOrder({k \in DOMAIN collection : ~HasUndefinedParameterType(t, collection[k])})
        ConfigOf(j) == Configs(t)[collection[built[j]]]
    IN [j \in DOMAIN built |->
           NewDefinition(ConfigOf(j), collection[built[j]],
                         WrapCode(settings[t]["definitionFunctionWrapper"], ConfigOf(j).codeLength),
                         IF t = "main" \/ kind \in StepHookKinds
                         THEN NewId(t, collection[built[j]])
                         ELSE IdAt(canonicalIds, collection, built[j]))]

IdsOf(definitions) == [i \in DOMAIN definitions |-> definitions[i].id]

(* finalize(), on a worker with the ids of the library of the main thread. *)
Finalize(t) ==
    /\ status[t] = "OPEN"
    /\ t = "worker" => calls[t] = calls["main"]
    /\ status' = [status EXCEPT ![t] = "FINALIZED"]
    /\ library' = [library EXCEPT ![t] =
           LibraryOf([kind \in Kinds |-> Build(t, kind, IdsOf(library["main"][kind]))], settings[t])]
    /\ UNCHANGED <<calls, settings>>

(* The definitions with an id, findStepDefinition's and findHookDefinition's. *)
WithId(t, kind, id) ==
    Keep(library[t][kind], {i \in DOMAIN library[t][kind] : library[t][kind][i].id = id})

FindDefinition(t, kind, id) ==
    IF WithId(t, kind, id) = <<>> THEN <<>> ELSE <<Head(WithId(t, kind, id))>>

(* How a function is called with a number of parameters: hooks of test     *)
(* cases and of steps, which have one, need not take it, and hooks of the  *)
(* run, which have none, may take what they like.                          *)
TestCaseHookCodeLengths == {0, 1, 2}

TestStepHookCodeLengths == {0, 1, 2}

ValidCodeLengths(kind, parameters) ==
    CASE kind = "step" -> {parameters, parameters + 1}
      [] kind \in {"before", "after"} -> TestCaseHookCodeLengths
      [] kind \in StepHookKinds -> TestStepHookCodeLengths
      [] OTHER -> Nat

CalledAs(kind, codeLength, parameters) ==
    CASE codeLength \notin ValidCodeLengths(kind, parameters) -> "failure"
      [] codeLength = parameters + 1 -> "callback"
      [] OTHER -> "promise"
=============================================================================
