----------------------------- MODULE RunLifecycle -----------------------------
(***************************************************************************)
(* One call of runCucumber (src/src/api/run_cucumber.ts) with its plugins  *)
(* (plugin_manager.ts, api/plugins.ts, publish_plugin.ts) and formatters   *)
(* (api/formatters.ts, create_stream.ts): who is there to hear what is     *)
(* emitted, and in which order things are cleaned up on each way out.  Or  *)
(* a call of loadSources or loadSupport, which go part of the same way.    *)
(*                                                                         *)
(* Everything that is not cucumber's own - plugins, formatters, support    *)
(* code, the caller's onMessage - may throw whenever it is called, or      *)
(* reject when nobody waits for it.  The filter and the sharding plugin do *)
(* neither, hear no envelope and need no cleanup: they are left out.       *)
(***************************************************************************)
EXTENDS Naturals, FiniteSets

CONSTANTS
    NumPlugins,         \* how many plugins, the last one publishes
    NumFormatters,      \* how many formatters, the first one writes to stdout
    PluginFormatters    \* the formatters that are plugins, not classes

(* The three functions of the API that plugins take part in.               *)
PluginOperation == {"runCucumber", "loadSources", "loadSupport"}

(* What plugins may transform: the pickles that run, and their order.      *)
CoordinatorTransformKey == {"filter", "order"}

(* What the report service answers: it takes no report, or keeps a place   *)
(* for one; and what becomes of a report that is sent there.               *)
Touch == {"refused", "reserved"}

Upload == {"uploaded", "lost"}

Plugins == 1 .. NumPlugins

Formatters == NumPlugins + 1 .. NumPlugins + NumFormatters

ASSUME RunLifecycleAssumption ==
    /\ NumPlugins \in Nat \ {0}
    /\ NumFormatters \in Nat \ {0}
    /\ PluginFormatters \subseteq Formatters

(* Participants are numbered in the order they are initialised in.         *)
publishPlugin == NumPlugins

stdoutFormatter == NumPlugins + 1

FileFormatters == Formatters \ {stdoutFormatter}

ClassFormatters == Formatters \ PluginFormatters

Managed == Plugins \cup PluginFormatters

onMessage == 0

Listeners == {onMessage} \cup Plugins \cup Formatters

VARIABLES
    operation,             \* which function was called, fixed from the start
    at,                    \* the step it is making
    joined,                \* the participants that are initialised
    cleanupFns,            \* the ones that gave the plugin manager a cleanup
    cleaning,              \* the one whose cleanup is awaited, 0 if none
    cleaned,               \* the ones whose cleanup has settled
    streams,               \* what has become of the stream of each file
    errored,               \* the streams that have emitted 'error'
    formatterStreamError,
    parallel,              \* are test cases run by workers?
    report,                \* what has become of publishing
    parseErrors,           \* was there a parse error?
    runSuccess,            \* what the runtime has returned
    emitted,               \* the kinds of envelopes that were emitted
    heard,                 \* the ones each listener has handled
    returned               \* how the call ended

setupVars == <<operation, parallel, joined, cleanupFns>>
cleanupVars == <<cleaning, cleaned>>
streamVars == <<errored, formatterStreamError, report>>
messageVars == <<emitted, heard>>
verdictVars == <<parseErrors, runSuccess>>

vars == <<at, setupVars, cleanupVars, streams, streamVars, messageVars, verdictVars, returned>>

Steps == {"plugins", "paths", "support", "formatters", "meta", "sources", "filter",
          "order", "supportMessages", "makeRuntime", "started", "run", "finished", "cleanup",
          "endFormatters", "endingFormatters", "return", "returned"}

Envelopes == {"meta", "sources", "supportMessages", "started", "case", "attachment",
              "finished"}

TypeOK ==
    /\ operation \in PluginOperation
    /\ at \in Steps
    /\ report \in {"none"} \cup Touch \cup Upload
    /\ joined \subseteq Plugins \cup Formatters
    /\ cleanupFns \subseteq Managed \cap joined
    /\ cleaning \in cleanupFns \cup {0}
    /\ cleaned \subseteq cleanupFns
    /\ streams \in [FileFormatters -> {"none", "open", "ending", "ended"}]
    /\ errored \subseteq FileFormatters
    /\ formatterStreamError \in BOOLEAN
    /\ parallel \in BOOLEAN
    /\ parseErrors \in BOOLEAN
    /\ runSuccess \in BOOLEAN
    /\ emitted \subseteq Envelopes
    /\ heard \in [Listeners -> SUBSET Envelopes]
    /\ returned \in {"no", "success", "failure", "rejected", "crashed"}

Init ==
    /\ operation \in PluginOperation
    /\ at = "plugins"
    /\ report = "none"
    /\ joined = {}
    /\ cleanupFns = {}
    /\ cleaning = 0
    /\ cleaned = {}
    /\ streams = [f \in FileFormatters |-> "none"]
    /\ errored = {}
    /\ formatterStreamError = FALSE
    /\ parallel = FALSE
    /\ parseErrors = FALSE
    /\ runSuccess = TRUE
    /\ emitted = {}
    /\ heard = [l \in Listeners |-> {}]
    /\ returned = "no"

-----------------------------------------------------------------------------
(* The way through runCucumber, and through the other two. *)

(* The step after each step: up to the end of the run, and from there, or  *)
(* from the parse errors, to the end.                                      *)
\* Wrong variant: the meta message goes out before formatters are there.
Forward_MetaEarly ==
    [plugins |-> "paths", paths |-> "support", support |-> "meta", meta |-> "formatters",
     formatters |-> "sources", sources |-> "filter", filter |-> "order",
     order |-> "supportMessages", supportMessages |-> "makeRuntime",
     makeRuntime |-> "started", started |-> "run", run |-> "finished"]

Forward ==
    [plugins |-> "paths", paths |-> "support", support |-> "formatters",
     formatters |-> "meta", meta |-> "sources", sources |-> "filter", filter |-> "order",
     order |-> "supportMessages", supportMessages |-> "makeRuntime",
     makeRuntime |-> "started", started |-> "run", run |-> "finished"]

\* Wrong variant: streams are ended first.
AfterRun_StreamsFirst ==
    [finished |-> "endFormatters", endFormatters |-> "endingFormatters",
     endingFormatters |-> "cleanup", cleanup |-> "return"]

AfterRun ==
    [finished |-> "cleanup", cleanup |-> "endFormatters",
     endFormatters |-> "endingFormatters", endingFormatters |-> "return"]

AfterParseErrors ==
    [order |-> "endFormatters", endFormatters |-> "endingFormatters",
     endingFormatters |-> "cleanup", cleanup |-> "return"]

LoadSources ==
    [plugins |-> "paths", paths |-> "sources", sources |-> "filter", filter |-> "order",
     order |-> "cleanup", cleanup |-> "return"]

LoadSupport ==
    [plugins |-> "paths", paths |-> "support", support |-> "cleanup", cleanup |-> "return"]

After(step) ==
    LET onwards == CASE operation = "loadSources" -> LoadSources
                     [] operation = "loadSupport" -> LoadSupport
                     [] OTHER -> IF parseErrors THEN AfterParseErrors ELSE AfterRun
    IN IF step \in DOMAIN onwards THEN onwards[step] ELSE Forward[step]

Goes(step) == at = step /\ at' = After(step) /\ UNCHANGED returned

Ends(how) == at' = "returned" /\ returned' = how

(* What is awaited throws; nothing in runCucumber catches it.              *)
Rejects(step) == at = step /\ Ends("rejected")

Awaits(step) == Goes(step) \/ Rejects(step)

(* A 'paths:resolve' handler may throw.  loadSources has nothing to do     *)
(* without paths, and returns at once.                                     *)
AwaitPaths ==
    /\ \/ Awaits("paths")
       \/ at = "paths" /\ operation = "loadSources" /\ Ends("success")
    /\ UNCHANGED <<setupVars, cleanupVars, streams, streamVars, messageVars, verdictVars>>

GetSupportCodeLibrary ==
    /\ Awaits("support")
    /\ UNCHANGED <<setupVars, cleanupVars, streams, streamVars, messageVars, verdictVars>>

(* The transformers of an event, one after another.                        *)
Transform(event) ==
    /\ Awaits(event)
    /\ UNCHANGED <<setupVars, cleanupVars, streams, streamVars, messageVars, verdictVars>>

(* The snippet syntax is a class of the user's that may not load.          *)
MakeRuntime ==
    /\ Awaits("makeRuntime")
    /\ parallel' \in BOOLEAN
    /\ UNCHANGED <<operation, joined, cleanupFns, cleanupVars, streams, streamVars>>
    /\ UNCHANGED <<messageVars, verdictVars>>

-----------------------------------------------------------------------------
(* Plugins and formatters. *)

(* It is the turn of one to join, and it does so with or without a cleanup. *)
Joins(p, cleanups) ==
    /\ p = Cardinality(joined) + 1
    /\ joined' = joined \cup {p}
    /\ cleanupFns' \in {cleanupFns \cup fns : fns \in cleanups}
    /\ UNCHANGED <<at, operation, parallel, returned>>

FailsToJoin(p, how) ==
    /\ p = Cardinality(joined) + 1
    /\ Ends(how)
    /\ UNCHANGED setupVars

(* on() and transform() are asynchronous: the refusal of an event there is *)
(* not reaches nobody.                                                     *)
RegistersUnknownEvent(p) == FailsToJoin(p, "crashed")

(* A plugin of the user's is initialised: it may return a cleanup, or      *)
(* throw.                                                                  *)
InitCoordinator(p) ==
    /\ at = "plugins" /\ operation = "runCucumber" /\ p \in Plugins \ {publishPlugin}
    /\ Joins(p, {{}, {p}}) \/ FailsToJoin(p, "rejected") \/ RegistersUnknownEvent(p)
    /\ UNCHANGED <<cleanupVars, streams, streamVars, messageVars, verdictVars>>

(* Publishing is off, or refused (which the cleanup tells), or a report is *)
(* reserved, which other plugins hear of, and may be filled.               *)
InitPublishPlugin ==
    /\ at = "plugins" /\ operation = "runCucumber"
    /\ \/ Joins(publishPlugin, {{}}) /\ UNCHANGED report
       \/ Joins(publishPlugin, {{publishPlugin}}) /\ report' \in Touch
       \/ FailsToJoin(publishPlugin, "rejected") /\ UNCHANGED report
    /\ UNCHANGED <<cleanupVars, streams, errored, formatterStreamError, messageVars, verdictVars>>

(* A formatter that is a plugin may return a cleanup; a class is resolved, *)
(* given a snippet builder and constructed.                                *)
InitFormatter(f) ==
    f \in PluginFormatters /\ (Joins(f, {{}, {f}}) \/ RegistersUnknownEvent(f))

BuildFormatter(f) == f \in ClassFormatters /\ Joins(f, {{}})

(* A formatter of a file gets its stream first.                            *)
StartFormatter(f) ==
    /\ at = "formatters" /\ f \in Formatters
    /\ InitFormatter(f) \/ BuildFormatter(f) \/ FailsToJoin(f, "rejected")
    /\ streams' = [g \in FileFormatters |-> IF g = f THEN "open" ELSE streams[g]]
    /\ UNCHANGED <<cleanupVars, streamVars, messageVars, verdictVars>>

Initialized ==
    /\ \/ Goes("plugins") /\ (operation = "runCucumber" => joined = Plugins)
       \/ Goes("formatters") /\ joined = Plugins \cup Formatters
    /\ UNCHANGED <<setupVars, cleanupVars, streams, streamVars, messageVars, verdictVars>>

-----------------------------------------------------------------------------
(* Envelopes. *)

(* The broadcaster calls onMessage, then the plugin manager, which calls   *)
(* its handlers in order, then the formatters that are classes.            *)
Place(l) == IF l \in ClassFormatters THEN l + NumPlugins + NumFormatters ELSE l

Nobody == 2 * (NumPlugins + NumFormatters) + 1

(* Nobody calls loadSources with a listener, and the publish plugin only   *)
(* listens once a report is reserved.                                      *)
Listening ==
    IF operation # "runCucumber" THEN {}
    ELSE {onMessage} \cup (joined \ IF report \in {"none", "refused"} THEN {publishPlugin} ELSE {})

(* Who may throw: the publish plugin only writes to a stream.              *)
Throwers == Listening \ {publishPlugin}

(* The first handler that throws is the last one called.                   *)
Emit(kind, thrower) ==
    /\ emitted' = emitted \cup {kind}
    /\ heard' = [l \in Listeners |->
           IF l \in Listening /\ Place(l) < Place(thrower)
           THEN heard[l] \cup {kind} ELSE heard[l]]

(* An envelope runCucumber emits itself.                                   *)
Emits(step) ==
    /\ \/ Emit(step, Nobody) /\ Goes(step)
       \/ \E l \in Throwers : Emit(step, l) /\ Rejects(step)
    /\ UNCHANGED <<setupVars, cleanupVars, streams, streamVars, verdictVars>>

(* Sources are read, unless there are none.  The handlers run in a stream: *)
(* what they throw either is its error or nobody catches.                  *)
GetPickles ==
    /\ at = "sources"
    /\ \/ /\ operation = "runCucumber"
          /\ at' = "supportMessages" /\ UNCHANGED <<parseErrors, messageVars, returned>>
       \/ Emit("sources", Nobody) /\ parseErrors' \in BOOLEAN /\ Goes("sources")
       \/ /\ \E l \in Throwers : Emit("sources", l)
          /\ Ends("rejected") \/ Ends("crashed")
          /\ UNCHANGED parseErrors
       \/ Rejects("sources") /\ UNCHANGED <<parseErrors, messageVars>>
    /\ UNCHANGED <<setupVars, cleanupVars, streams, streamVars, runSuccess>>

(* The runtime emits.  On the main thread, where test cases are assembled  *)
(* and some run hooks run even when workers run the cases, an exception of *)
(* a handler fails the run, which goes on with testRunFinished, or comes   *)
(* out of attach() in user code, which may catch it.  A worker's envelope  *)
(* is emitted from a message handler, where nobody does.                   *)
RuntimeEmits(kind) ==
    /\ at = "run" /\ kind \notin emitted
    /\ \/ Emit(kind, Nobody) /\ UNCHANGED <<at, runSuccess, returned>>
       \/ /\ \E l \in Throwers : Emit(kind, l)
          /\ \/ parallel /\ Ends("crashed") /\ UNCHANGED runSuccess
             \/ kind = "case" /\ runSuccess' = FALSE /\ Goes("run")
             \/ kind = "attachment" /\ runSuccess' \in {runSuccess, FALSE}
                /\ UNCHANGED <<at, returned>>
    /\ UNCHANGED <<setupVars, cleanupVars, streams, streamVars, parseErrors>>

(* Nobody waits for a handler that is asynchronous.  When it rejects, the  *)
(* process ends, or the user code that happens to be running on the main   *)
(* thread - run hooks at least - fails.                                    *)
HandlerRejects ==
    /\ at # "returned"
    /\ \E l \in Throwers : heard[l] # {} \/ (l \in Plugins /\ at \notin {"plugins", "paths"})
    /\ \/ Ends("crashed") /\ UNCHANGED runSuccess
       \/ at = "run" /\ runSuccess' \in {runSuccess, FALSE} /\ UNCHANGED <<at, returned>>
    /\ UNCHANGED <<setupVars, cleanupVars, streams, streamVars, messageVars, parseErrors>>

RuntimeReturns ==
    /\ Goes("run")
    /\ runSuccess' \in {runSuccess, FALSE}
    /\ UNCHANGED <<setupVars, cleanupVars, streams, streamVars, messageVars, parseErrors>>

-----------------------------------------------------------------------------
(* Cleaning up. *)

(* The cleanups of the plugin manager run one after another, in the order  *)
(* they were registered in.                                                *)
NextCleanup(p) == p \in cleanupFns \ cleaned /\ \A q \in cleanupFns \ cleaned : p <= q

CallCleanup(p) ==
    /\ at = "cleanup" /\ cleaning = 0
    /\ NextCleanup(p)
    /\ cleaning' = p
    /\ UNCHANGED <<at, setupVars, cleaned, streams, streamVars, messageVars, verdictVars>>
    /\ UNCHANGED returned

(* It settles.  One that throws is the last one called.                    *)
CleanupSettles ==
    /\ at = "cleanup" /\ cleaning \notin {0, publishPlugin}
    /\ cleaned' = cleaned \cup {cleaning}
    /\ cleaning' = 0
    /\ UNCHANGED <<at, returned>> \/ Ends("rejected")
    /\ UNCHANGED <<setupVars, streams, streamVars, messageVars, verdictVars>>

(* That of the publish plugin writes what it was refused with, or closes   *)
(* the temporary file and uploads it, which may be refused too.  It never  *)
(* throws: what fails in there is a rejection nobody handles.              *)
PublishSettles ==
    /\ at = "cleanup" /\ cleaning = publishPlugin
    /\ cleaned' = cleaned \cup {publishPlugin}
    /\ cleaning' = 0
    /\ \/ report = "reserved" /\ report' \in Upload /\ UNCHANGED <<at, returned>>
       \/ report = "refused" /\ UNCHANGED <<report, at, returned>>
       \/ report = "reserved" /\ Ends("crashed") /\ UNCHANGED report
    /\ UNCHANGED <<setupVars, streams, errored, formatterStreamError, messageVars, verdictVars>>

(* Writing the temporary file fails, which nobody handles before it is     *)
(* closed.                                                                 *)
TempFileFails ==
    /\ report = "reserved" /\ at # "returned"
    /\ Ends("crashed")
    /\ UNCHANGED <<setupVars, cleanupVars, streams, streamVars, messageVars, verdictVars>>

CleanedUp ==
    /\ Goes("cleanup")
    /\ cleaning = 0 /\ cleanupFns = cleaned
    /\ UNCHANGED <<setupVars, cleanupVars, streams, streamVars, messageVars, verdictVars>>

(* All streams of files are ended at once.  Ending one that has failed is  *)
(* an error, and so is what the finished() of a class may throw.           *)
EndFormatters ==
    /\ Goes("endFormatters")
    /\ streams' = [f \in FileFormatters |-> "ending"]
    /\ UNCHANGED <<setupVars, cleanupVars, streamVars, messageVars, verdictVars>>

StreamEnds(f) ==
    /\ at = "endingFormatters"
    /\ streams[f] = "ending" /\ f \notin errored
    /\ streams' = [streams EXCEPT ![f] = "ended"]
    /\ UNCHANGED <<at, setupVars, cleanupVars, streamVars, messageVars, verdictVars, returned>>

EndRejects ==
    /\ Rejects("endingFormatters")
    /\ ClassFormatters # {} \/ \E f \in errored : streams[f] = "ending"
    /\ UNCHANGED <<setupVars, cleanupVars, streams, streamVars, messageVars, verdictVars>>

FormattersEnded ==
    /\ Goes("endingFormatters")
    /\ \A f \in FileFormatters : streams[f] = "ended"
    /\ UNCHANGED <<setupVars, cleanupVars, streams, streamVars, messageVars, verdictVars>>

(* A stream fails to open, to write or, when it has ended, to close.       *)
StreamError(f) ==
    /\ at # "returned"
    /\ streams[f] # "none" /\ f \notin errored
    /\ errored' = errored \cup {f}
    /\ formatterStreamError' = TRUE
    /\ UNCHANGED <<at, setupVars, cleanupVars, streams, report, messageVars, verdictVars>>
    /\ UNCHANGED returned

\* Wrong variant: a stream that failed does not count.
Success_WithoutStreams == ~parseErrors /\ runSuccess

Success == ~parseErrors /\ runSuccess /\ ~formatterStreamError

(* runCucumber tells whether the run was a success, the other two return   *)
(* what they have found.                                                   *)
Return ==
    /\ at = "return"
    /\ Ends(IF operation = "runCucumber" => Success THEN "success" ELSE "failure")
    /\ UNCHANGED <<setupVars, cleanupVars, streams, streamVars, messageVars, verdictVars>>

-----------------------------------------------------------------------------
Returned == at = "returned" /\ UNCHANGED vars

Next ==
    \/ AwaitPaths
    \/ GetSupportCodeLibrary
    \/ \E event \in CoordinatorTransformKey : Transform(event)
    \/ MakeRuntime
    \/ \E p \in Plugins : InitCoordinator(p)
    \/ InitPublishPlugin
    \/ \E f \in Formatters : StartFormatter(f)
    \/ Initialized
    \/ \E step \in {"meta", "supportMessages", "started", "finished"} : Emits(step)
    \/ GetPickles
    \/ \E kind \in {"case", "attachment"} : RuntimeEmits(kind)
    \/ HandlerRejects
    \/ RuntimeReturns
    \/ \E p \in Managed : CallCleanup(p)
    \/ CleanupSettles
    \/ PublishSettles
    \/ TempFileFails
    \/ CleanedUp
    \/ EndFormatters
    \/ \E f \in FileFormatters : StreamEnds(f) \/ StreamError(f)
    \/ EndRejects
    \/ FormattersEnded
    \/ Return
    \/ Returned

Spec == Init /\ [][Next]_vars

-----------------------------------------------------------------------------
(* Properties. *)

(* A run that succeeds, or that reports parse errors, was heard from its   *)
(* first envelope to its last by the caller, every plugin, every formatter *)
(* and the report that is published.  (What user code attaches is left     *)
(* out: it may catch what a listener throws at it.)                        *)
HeardByEveryone ==
    /\ operation = "runCucumber"
    /\ returned = "success" \/ (returned = "failure" /\ parseErrors)
    =>
        /\ joined = Plugins \cup Formatters
        /\ \A l \in Listening : heard[l] \ {"attachment"} = emitted \ {"attachment"}
        /\ "meta" \in emitted
        /\ returned = "success" => {"started", "finished"} \subseteq emitted

(* Success is never returned when a stream has failed or not ended by      *)
(* then, or when a test case has failed.  (A stream that ends and then     *)
(* fails to close may say so only after the call has returned: that comes  *)
(* too late for the verdict, and is not covered.)                          *)
SuccessIsWhole ==
    operation = "runCucumber" /\ returned = "success" =>
        /\ errored = {} /\ \A f \in FileFormatters : streams[f] = "ended"
        /\ runSuccess

(* The stream of a formatter is not ended before the formatter's cleanup   *)
(* has settled, when there was no parse error; and when runCucumber        *)
(* returns, on either way out, every cleanup has settled, every stream has *)
(* ended, and a report that was reserved has been sent.                    *)
CleanedUpInOrder ==
    /\ \A f \in FileFormatters \cap cleanupFns :
           streams[f] \in {"ending", "ended"} => parseErrors \/ f \in cleaned
    /\ returned \in {"success", "failure"} =>
           /\ cleaned = cleanupFns
           /\ operation = "runCucumber" => \A f \in FileFormatters : streams[f] = "ended"
           /\ report # "reserved"
=============================================================================
