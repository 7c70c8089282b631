# cucumber-js in TLA+

A model of cucumber-js: how a run is configured, its support code loaded, its pickles
selected and handed out to worker threads, how they are executed, retried and reported,
and how all of it is brought to an end. Paths below are relative to the repository's root
(`src/runtime/...`); `PROJECT.json` maps every definition that stands for code to the
lines it stands for.

## The system

| component | code | state | operations |
|---|---|---|---|
| Configuration and CLI | `src/configuration/`, `src/cli/`, `src/api/load_configuration.ts` | layers of options | parse argv, locate and read a file, merge profiles, validate, convert, exit |
| Paths | `src/paths/`, `src/pickle_filter.ts` | none | expand paths, rerun files and lines, derive support paths |
| Run lifecycle | `src/api/run_cucumber.ts`, `load_sources.ts`, `load_support.ts` | locals of one async function | init plugins, resolve paths, load support code, init formatters, parse, filter, order, run, clean up |
| Plugin manager, publish plugin | `src/plugin/`, `src/publish/` | handlers, transformers, cleanups | init, emit, transform, cleanup; upload of a report |
| Support code builder, assembly | `src/support_code_library_builder/`, `src/assemble/` | definitions in order, ids | define, set, finalize, assemble |
| Pickle selection | `src/pickle_filter.ts`, `src/filter/`, `src/sharding/` | none | filter, order, shard |
| Coordinator | `src/runtime/coordinator.ts` | stage of `run()`, success of each phase | setup, BeforeAll hooks, test cases, AfterAll hooks, teardown |
| Serial adapter | `src/runtime/serial/adapter.ts` | `failing` | the same, on the main thread |
| Parallel adapter | `src/runtime/parallel/adapter.ts` | workers and their ready flags, `running`, `phase`, `readiness`, `tearingDown` | setup, startPhase, handlers of worker messages, `error` and `exit`, fail, teardown |
| Phases | `.../test_cases_phase.ts`, `.../test_run_hooks_phase.ts` | queue, running set, `waiting`, `failing`, a promise | fill, next, reject |
| Worker | `.../parallel/worker.mts` | what it has loaded, the commands it is executing | load, take a command, post envelopes and FINISHED |
| Executor | `src/runtime/executor.ts` | none of its own, loops over hooks | runBeforeAllHooks, runTestCase, runAfterAllHooks |
| Test case runner | `src/runtime/test_case_runner.ts`, `step_runner.ts` | attempt, results so far, current step, World | attempts, hooks, steps, step hooks |
| User code runner, scopes, attachments | `src/user_code_runner.ts`, `time.ts`, `src/runtime/scope/`, `.../attachment_manager/` | a race of promises, a timer, a process listener, the World of each attempt | run, attach, log, link |
| Event data collector, formatters | `src/formatter/` | maps of envelopes by id | parseEnvelope, print |

How they interact: the CLI turns its arguments into one run configuration and awaits
`runCucumber`; that makes one adapter and calls `Coordinator.run`; the coordinator awaits
the adapter's phases; the serial adapter awaits the executor on the same thread; the
parallel adapter posts commands to worker threads and is called back by their messages,
and each worker owns an executor. What executes a test case emits envelopes; a worker's
envelopes are posted to the main thread and emitted there again, so formatters and the
event data collector see one stream. What they write may be the input of the next run (the
rerun file). Where behaviour is hard: workers finish in any order and only the one that
finishes is offered work; a thread may exit at any moment; two teardowns may overlap;
promises are settled by handlers while one coroutine awaits them; test cases fail, skip
and retry with user code at every await, and user code goes on after its call is over;
streams, uploads and cleanups fail in any order; options come in layers that are joined,
overridden or merged, each in a way of its own.

What makes each component correct, and where it would go wrong unseen by a test, is the
list of `hazards` in `PROJECT.json`, each at its line.

## The modules

| module | models | state and actions |
|---|---|---|
| `Statuses` | result statuses, `getWorstTestStepResult`, `shouldCauseFailure` | operators only |
| `Coordinator` | `Coordinator.run` | `stage`, `successByPhase`, `result`; one action per await that settles |
| `Executor` | test run hooks, skip and verdict of a test case | `hooksLeft`, `hooksOk`; one action per hook |
| `TestRun` | the abstract contract of any run towards its listeners | `period`, `reported`, `verdict` |
| `TestCasesPhase` | both kinds of phase | the promise (`settled`), `queue`, `inProgress`, `waiting`, `failing` |
| `ParallelAssignment` | `atMostOnePicklePerTag` | an operator that builds a rule |
| `ParallelRuntime` | adapter, worker threads and channels, composed with the four above | see below |
| `ParallelInvariant` | the inductive invariant of `ParallelRuntime` | |
| `SerialRuntime` | serial adapter composed with Coordinator and Executor | one action per hook and per start and end of a case |
| `TestCaseRunner` | `TestCaseRunner.run` down to `runStep` | `pc`, results of the attempt, one action per call of user code |
| `UserCode` | `UserCodeRunner.run`, timeouts, process listeners, scopes, transformers, and what is attached when | who may still answer, throw, attach or write; one action per turn of the event loop |
| `RunLifecycle` | `runCucumber`, `loadSources`, `loadSupport`, plugin manager, publish plugin, formatters and their streams | `at`, one action per await, emission and cleanup |
| `PickleSelection`, `Subsequences` | filters, order and shards; what filtering and sorting a sequence come to | operators only |
| `StackTraces` | frames, the filter of stack traces, `getDefinitionLineAndUri` | operators only |
| `SupportCode` | the support code library builder, of the main thread and of a worker | `status`, `calls`, `settings`, `library` per thread; reset, define, set, refuse, finalize |
| `TestPlan` | support code and pickles up to assembled test cases, composing the two above | `stage`, `plans`, `envelopes`, `testCases` |
| `Attachments` | `attach`, `log`, `link` and their encodings | operators only |
| `EventData` | the stream of a run down to test steps, and `EventDataCollector` | `attempts` (what happens), `data` (what is remembered) |
| `GherkinDocuments`, `StepArguments`, `Definitions`, `Errors` | lines and keywords of a feature file, tables and doc strings, arity and snippets, errors with their causes | operators only |
| `Reports` | summary, issues, progress, JSON, usage, snippets and rerun formatters | `output`; one action, which prints from the `data` of `EventData` |
| `Paths`, `Implementations` | paths, lines and rerun files; plugins, formatters and snippet syntaxes by their specifiers | operators only |
| `ObjectTrees` | objects of options and how `lodash.merge` and `lodash.mergewith` merge them, in depth (other packages' code) | operators only |
| `Configuration` | from argv, file, profiles and environment to what is started, and to the exit code | `stage`, one action per step of the CLI |
| `ParallelRuntime_proofs`, `SerialRuntime_proofs`, `TestCaseRunner_proofs`, `UserCode_proofs`, `Runs_proofs`, `TestPlan_proofs`, `Reports_proofs`, `Subsequences_proofs` | theorems and their proofs, see "What is proved" | |

`Coordinator`, `Executor` and `TestCasesPhase` have variables and actions of their own; the
two runtimes EXTEND them and conjoin their actions with what the adapter does.
`EventData` EXTENDS `TestRun`, the contract both runtimes are shown to implement, and
refines each case of it to attempts and test steps: what the reports are checked against is
any stream of either runtime, not one of its own.

### ParallelRuntime

The main thread is one event loop. `awaiting` is what the coordinator's coroutine is
suspended on. While a promise it awaits has settled, the continuation runs before any
other event is taken: every event handler has `MainThreadIdle` in its guard and every
continuation is an action of `Continue`. `startPhase` hands out work to the workers in
order without an await between them; it is unrolled into one `Fill(w)` per worker, during
which no handler can run. Workers (`Work`, `WorkerLost`) interleave with all of this.

- A channel is a pair of sequences (`toWorker`, `fromWorker`). A port delivers in order
  and loses nothing but what is posted to a thread that is gone. What a lost thread had
  posted is still delivered; its unread commands are not.
- `jobs[w]` is the set of commands the worker has started: its message handler is
  asynchronous and does not wait for an earlier command. That there is never more than one
  is a property (`OneCommandPerWorker`), not an assumption.
- A command, an envelope and an event carry what the properties tell apart: the case, the
  failing flag, the outcome. Of a case's envelopes the first and the last are kept.
- A test case is its position in the assembled order. The queue is only ever removed from,
  so it is the set of positions left, read in ascending order.
- `CanAssign` is any Boolean function of a case and the set of cases running.
- `WorkerLost` is `process.exit` in user code (`exit`) or an error nobody handles (`error`
  then `exit`), possible in every state of a thread.
- `fail()` starts a teardown that nobody awaits and `run()` one of its own. Terminating a
  thread twice is harmless, so the two advance as one (`tornDown`).

### SerialRuntime and TestCaseRunner

`SerialRuntime` is sequential; a case's outcome is any the test case runner can produce
under the current `skip` (`TestCaseSuccesses`), and `FinalStatusJudged` checks that the
test case runner produces no other. A World constructor that throws rejects the run.

`TestCaseRunner` starts from any sequence of test steps in `Shapes`. A call of user code
ends in any of `UserCodeStatuses`, which is all `step_runner.ts` makes of one. History
variables (`bodyRan`, `failedStepHooks`, `threw`, `told`, `lastFinished`) record what has run,
which step hooks have failed, and what was announced to which hook; no guard reads them.

### UserCode

One thread with one event loop. `NextCall` to `Return` is the runner; `turn` is the call
whose code the event loop runs at the moment, inside its call or long after it. A turn may
answer (call the callback, settle the promise), throw, attach, start a stream, or write to
its World. Continuations run before the next event, and rejections that nobody has handled
are raised as exceptions when they have run (`ReportRejections`). `GapAfter` are the calls
after which the thread goes back to the event loop (a worker waits for a command, a runner
for a file); between other calls there is only a chain of promises. A call is made for a
step of an attempt at a test case or for a hook of the run (`scope`), and `worlds` has, for
each attempt, the calls whose writing its World has. A transformer of a parameter type is
awaited before the function is applied, with no timer and no listener (`Transforming`).
`crashed` is the end of the process, or, in a worker, the `WorkerLost` of `ParallelRuntime`.

### RunLifecycle

Participants are numbered in the order they join: plugins, the publish plugin last, then
formatters. `Forward`, `AfterRun` and `AfterParseErrors` are the order of the awaits; each
step may throw, and then the call rejects. `loadSources` and `loadSupport` are the same
state machine with fewer steps (`operation`). An envelope is its kind; `Emit` calls the
listeners in the order they are registered in and stops at the first that throws. `report`
is what has become of publishing, from the address asked for to the upload. The test
run itself is one step here: `Coordinator` and the runtimes are its detail, and an
exception of a handler comes out of it in one of two ways. On the main thread, which
assembles the test cases and executes hooks of the run even when workers execute the cases
(`coordinator.ts:38`), it fails the run; out of a worker's message it ends the process.

### SupportCode and TestPlan

A call of the support code is a record of its kind, what it is for, the overload it uses,
the types of its arguments and its stack; `calls[t]` has the calls of a thread in order.
Definitions are the ones that add to a collection of the builder, settings overwrite
(`settings`), and what cannot be used is refused with an exception (`Accepts`). An id is
named by the thread that made it and the definition it was made for, so that "the same id"
and "the same code" can be told apart. A worker runs the same files as the main thread and
is given the ids of its library. A tag expression is the set of sets of tags it is true of,
a step definition the set of texts it matches. `plans` has a job for every shard of the
suite, each with a shuffle of its own.

### EventData and Reports

`attempts` is what the runtime does: the attempts at each case with their results, what
was attached and how each ended. `data` is what the collector keeps of the envelopes.
Cases of several workers interleave, and an `Abort` may come between any two envelopes. The
formatters are operators on `data` and the feature files: they read nothing else, and
`OnTestRunFinished` prints them (`output`) as soon as the run has returned, in whichever way.
Every property of `Reports` compares `output` with `attempts`, that is, with what happened,
and not with the data it was computed from. Summary and progress are the classes that custom
formatters extend; the built-in formatters of these names are plugins of another package.

A feature file is a tree with lines, keywords and tags. Its pickles are given with it
(`Pickles`) and assumed to be what @cucumber/gherkin compiles it to (`PicklesOf`). A printed line is what it
says, an error message the errors it tells of with the frames left of their stacks, a
snippet the choices it offers with the parameters of its function. `PastedStatus` is what the
steps come to when the snippet is pasted into the support code, so that `SnippetsFit` can say what a user would get.

### Configuration

`input` is chosen once: arguments, the files that exist with what each exports, and the
environment. The actions are the steps of `Cli.run`, each of which may exit. A layer is a
function from the options it gives; a tag expression is its text as far as joining texts
can tell them apart, because that is what merging does to it; of each factor that is whether
it starts with `(` and whether it ends with `)` (`opens`, `closes`): `not (@b)` only ends so.
An object of options (`ObjectTrees`) is a function from paths of keys to objects, arrays and
scalars, so that a merge in depth is one function of two such functions. An order is given
without its seed, and null is not among the scalars. What the command line gives is parsed
(`ArgumentParses`), merged over its arguments (`MergeJson`) and checked with the schema like
any object (`CheckSchema` in `Merge`); a profile written as arguments is only parsed
(`parse_configuration.ts:15`). `started` is what the API
functions make of the run configuration: plugins, formatters with their options, support
code, pickles with their retries, and the adapter.

## The runs

| run | instance | shows |
|---|---|---|
| `parallel` | 3 workers, 4 cases, two hooks of each kind of which one is the coordinator's, fail fast, strict, at most 1 lost worker | all safety properties, refinement of `TestRun`, and that the run returns |
| `parallel_loss` | 2 workers, 2 cases, 1 loss | finding 1 |
| `serial` | 5 cases, 2 hooks of each kind, fail fast | order, verdict, refinement of `TestRun` |
| `test_case` | up to 2 Before and 1 or 2 After hooks, every sequence of up to 2 steps and 3 steps after two definitions, 1 BeforeStep and 1 AfterStep hook, 0 to 2 retries, skipped or not | skipping, hooks, retries, end |
| `test_case_error` | two steps and an After hook | finding 2 |
| `test_case_nosteps` | a Before and an After hook, no step | finding 3 |
| `user_code` | 3 calls: two attempts at one test case and one at another, or a hook of the run and two steps; the last without a timeout | what a call returns, what it leaves behind, what reaches later calls |
| `lifecycle` | a plugin, the publish plugin, formatters on stdout (plugin) and two files (class and plugin) | who hears what, when streams end, what success means |
| `test_plan` | up to 3 calls out of 14, 4 pickles, 3 filters, up to 3 shards | who executes what, and that an id means the same code everywhere |
| `test_plan_ids` | the same | finding 4 |
| `reports` | 2 feature files with 4 pickles, 2 attempts, 2 cases at once | what the reports say of what happened |
| `configuration` | 23 lists of arguments after 5 choices of profiles, no file or one of 5 kinds with up to two profiles of 12 kinds, 3 environments | which layer decides, what is selected and loaded |

Why the bounds are enough. Three workers let one finish, one be lost and one go on. Of
four cases, 1 and 2 exclude each other (`atMostOnePicklePerTag`) and 4 is refused always,
so that a case is passed over, a worker goes idle while others run, and a case has to be
forced when nothing runs. One hook on each side of `OnCoordinator` gives each loop a hook
that may fail; with two in the serial run the order of the loop and a failure before the
last hook matter. One loss at any of its moments covers the handlers of `error` and `exit`
in every stage; a second loss only meets a run that is already torn down. In `test_case`
two Before and two After hooks let one fail and another still run; two steps and a third
after two definitions let a result be followed by each kind of step, and two retries are
a retry that is not the last one. In `user_code` the code of
the first call may come late into the second, which follows at once in the same test case
or after a gap, and the code of both into the third, which has no timer of its own; the
attempts are two of one case and one of another, the three ways two Worlds can be related.
In `lifecycle` every kind of
participant occurs, and both an earlier and a later one of each kind of listener and of
cleanup; parse errors, a run without sources and both kinds of runtime are choices. In `test_plan`
three calls let one be left out between two others, let a hook come between steps and a
setting between definitions; three shards of four, three and one pickles are equal, unequal
and empty. In `reports` one outline has an undefined step in one row and an ambiguous one
in the other, under a background and a rule with tags of their own, and two scenarios have
no step, one of them a hook; two cases at once with a retry each interleave in every order, and an
abort may leave each of them anywhere; the first step may skip its case, so that all can
pass. The usage table shows fewer rows (`MaxShown`) than
there are uses, and the chains of causes are shorter than, as long as and longer than
`MaxCauseDepth`, and circular. In `configuration` each option occurs in two layers or is
repeated in one, and each kind of file content in both of its ways to fail. Objects meet in
each way there is: an object and an object one level and two levels down, an array of
objects and another, by index, a list under the name of an option, a scalar in the place of
an object and the other way round, and the same over two arguments; the options of the
pretty formatter are given under its own name, under the common one, and under both.

The bounds are `MaxLosses`, `MaxCalls`, `MaxShards`, `MaxAttempts`, `MaxRunning`, the choices a run
may make (`Shapes`, `Retries`, `Plans`, `StepStatuses`, `Attaching`, `Filters`,
`SupportCode`, `CommandLines`, `ConfigFiles`, `Environments`) and the sizes of the
instances; nothing else is capped. `MaxShown` and `MaxCauseDepth` are limits of the code
itself, made smaller.

`CHECK_DEADLOCK FALSE` is set in the two parallel runs because the system really stops
there: after finding 1 no event is left that could settle the phase. The other runs check
deadlock; what has returned, ended or exited stutters explicitly.

### Fairness

`Fairness` in `ParallelRuntime` is weak fairness of the coroutine's continuations, of each
coordinator hook, and for each worker of the main thread's handlers, of teardown and of
the thread's own steps. The event loop takes every event, the operating system runs every
thread, and user code ends: `user_code_runner.ts` gives every call a timeout. (A timeout
of -1 switches it off, and then no run needs to end.) Nothing forces a worker to be lost.
`TestCaseRunner` needs weak fairness of its only process. `UserCode` needs weak fairness of the
runner's continuations and of code that is running, which ends, and strong fairness of
`TimerFires`: the event loop visits its timers in every round, so other events cannot keep
one from firing although each of them disables it for a while. Nothing makes user code
answer. The other modules have no liveness property and no fairness: streams, requests and
cleanups of others may hang, and then so does the call.

### Properties, in words

`parallel` and `serial`:

- `IInv`: the inductive invariant of the proofs, see below; it contains the types.
- `OneCommandPerWorker`: counting channel, jobs and FINISHED events, a worker has at most
  one command, and none when the adapter believes it idle.
- `EveryCaseAccountedFor`: queued cases have not been announced, cases in progress belong
  to exactly one worker, every other has been reported to its end.
- `OpenPhaseHasWork`: an awaited phase that is pending has a worker that can settle it.
- `NoRefusedPairTogether`: cases that refuse each other are never executed together, the
  forced ones included.
- `RunHooksBracketCases`: across threads, every BeforeAll hook has ended before a case
  starts and every case before an AfterAll hook starts.
- `FailFastDrains` (action property): once a failure is known no further case is handed
  out for real.
- `KeepsRunContract`: refinement of `TestRun` - announcements only in the test cases
  phase, each case starts and ends once, success only if every case was seen to pass,
  nothing announced after the run has returned. Both runtimes implement the same contract.
- `HeardLossFailsRun`, `RunReturns` (liveness): a rejection is returned as an exception;
  without a loss the run returns.
- `NothingExecutesAfterFailure`, `VerdictAfterEveryHook`: fail fast and hooks, serially.

`test_case` and `user_code`:

- `NoStepAfterUnpassed`, `SkippedStillJudged`, `EveryAttemptIsWhole`, `RetryAsAnnounced`,
  `FinalStatusJudged`, `Finishes`: one test case, its skipping, its hooks, its retries.
  The code of a step runs when all earlier test steps have passed, no step hook has failed,
  and none of its own BeforeStep hooks has: that one of these was skipped or is pending does
  not hold it back (`test_case_runner.ts:362`), and neither a doc nor a test says whether it should. A hook told
  `willBeRetried` sees a retry; one that is not told so may be followed by one only if it
  had not been told of a failure, and it or a hook behind it has failed then.
- `ListensWhileAwaited` (action property): the listener of uncaught exceptions is on the
  process exactly while a call is awaited, so no exception ends the process then, whoever
  threw it, and nothing of a call stays behind.
- `PassedByOwnAnswer`, `TimedCallReturns`: late answers of earlier calls settle nothing, and
  a timeout comes although the event loop is busy.
- `AttachedWhileOpen`: an attachment goes out between the start and the end of the step it
  names, which is of the test case that attached it. (It may be attached by the code of an
  earlier step or attempt: then it names the wrong one.)
- `WorldsKeptApart`: what the code of an attempt writes reaches its own World only, whenever
  it is written; what hooks of the run write reaches every later one.

`lifecycle`, `configuration` and `test_plan`:

- `HeardByEveryone`, `SuccessIsWhole`, `CleanedUpInOrder`: what a result of `runCucumber`
  says of listeners, files, cleanups and the published report. A stream that ends and fails
  to close after the call has returned is not covered: nothing in the code waits for it.
- `LaterLayerWins`: each option of the run is that of the last layer that gives it, and the
  formatter of each target is the last one given for it. Of objects it speaks path by path
  (`PathsGiven`, `LastGivenFor`): what is given anywhere is there, with the last value given
  for it, and what is beside it stays. Two things are left out by name. `Agreed`: no two
  layers take what leads to the path for an object here and for an array or a scalar there.
  The code then drops one or the other, and merging in depth is not associative there, so
  that which is dropped depends on what is in a profile and what in an argument. `Decided`:
  an empty object that is given after a scalar or an array is merged with it or replaces
  it, and decides nothing; and keys named like options are concatenated or joined.
- `FiltersNarrow`: the pickles that run match the tags, names and lines given anywhere. Left
  out are the texts of `OrOfParentheses`: `(@a) or (@b)`, and `(@a) or not (@b)` just as much.
- `RepeatedOptionsKept`: what can be given several times is all there, in order.
- `ShardsPartition`: the jobs of all shards together execute what the filter leaves, each
  pickle once, although each shuffles on its own.
- `WorkerRunsTheSameCode`, `NamesWhatWasAnnounced`: an id in a test case was announced, in
  the order of the source, and stands for the same code in a worker; each hook of the run is
  executed by the coordinator or by each worker; undefined parameter types are named.

`reports`:

- `SummaryMatchesVerdict`: the summary blames just the cases that made the run fail, and some
  if it failed without an exception; it counts each case and step once, there is one progress
  mark for each result, and one issue for each attempt in trouble, which shows its steps.
- `ReportTellsWhatHappened`: the JSON report has each scenario once, with the results and
  attachments of its last attempt, at the lines and in the words of the feature file.
- `ErrorsAreTold`: whatever FAILED tells what it threw and each cause once, with the frames
  of the user.
- `ArgumentsComeThrough`: tables arrive in step functions and in reports as they were written.
- `UsesAreCounted`, `SnippetsFit`: the use of every definition, and a snippet that fits for
  every undefined step.
- `RerunRoundTrip`: the next run, given the rerun file, runs just what has not passed in its
  last attempt, or was being executed when its worker was lost. A case whose worker was lost
  after an attempt that is to be retried, and before the next, is not rerun.

Each module's type invariant is `TypeOK`; a run lists only that of `ParallelRuntime`, within `IInv`.

## What the model shows of the code

Findings, each with a run that has TLC exhibit it (`LossEndsRun`, `AfterHookToldError`,
`AfterHooksRunEvenWithoutSteps` and `CanonicalIdsInOrder`, in this order):

1. **A worker lost while the coordinator runs its own hooks hangs the run**
   (`adapter.ts:210`). `fail()` rejects the promises of readiness and of the phase; between
   phases there is neither. The workers are terminated, the next phase posts to threads
   that are gone and nothing settles it. `features/parallel.feature` promises that "a
   worker exiting unexpectedly fails the run". `HeardLossFailsRun` shows that the loss is
   handled whenever something of the workers is awaited.
2. **After hooks lose the error when the failed step is not the last one**
   (`test_case_runner.ts:260`). The skipped step that follows overwrites `error`.
3. **After hooks of a scenario without steps are skipped when a Before hook fails**
   (`test_case_runner.ts:252`). Before and After hooks are told apart by whether a step has
   run. `EveryAttemptIsWhole` shows that hooks are right for every scenario that has a step.
4. **One undefined parameter type gives later step definitions the wrong ids in workers**
   (`support_code_library_builder/index.ts:376`): the index into the list of ids counts the
   definition that was left out of the list. A parallel run then executes other code than
   the serial one. `WorkerRunsTheSameCode` shows that ids agree when nothing is undefined.

Observations: behaviour the model has because the code has it, which a property excludes by
a named condition or describes as it is, and which a reader may not expect.

- *Scenarios without steps.* The runner calls one PASSED (`test_case_runner.ts:139-145`), the
  collector UNKNOWN, so it is in every rerun file (`docs/rerun.md:47`). If it has an After
  hook and is in trouble, printing its issue throws, and so does the snippets formatter
  (`test_case_attempt_parser.ts:76-92`); the JSON report labels that hook "Before".
- *Step hooks.* A BeforeStep hook that returns "skipped" or "pending" does not keep the code of
  its step from running (`test_case_runner.ts:362`); a step behind it is skipped.
- *Retries.* A hook is told `willBeRetried` from the results so far: false when nothing has
  failed yet, although it or a later After hook may fail (`test_case_runner.ts:245`).
- *Aborted runs.* Cases that were never started, or lost between two attempts, are missing
  from the rerun file. Steps of an aborted attempt count as executed with 0 ms in usage.
- *Reports.* Tags of a Rule have no line in JSON (`json_formatter.ts:353-368`). A `*` step
  gets a Given snippet. An ambiguous step prints no message (`getAmbiguousStepException` is
  never called). A printed table does not escape "|" (`step_argument_formatter.ts:31`). A
  chain of causes that closes exactly at the depth limit is called truncated. Issues print
  only text/plain attachments, so not what `log()` wrote, and those that came as a buffer or as
  `base64:text/plain` as their base64 text.
- *Attachments.* What a failed attempt attaches late goes to the step that runs in the next
  attempt of the same case. A buffer or stream whose media type starts with `base64:` keeps
  that prefix (`attachment_manager/index.ts:61-104`).
- *User code.* A transformer that returns a promise is outside timeout and exception
  handling, and a stream that ends between two steps throws in its own listener, uncaught.
  Parameters a BeforeAll hook of the coordinator updates are not seen on workers
  (`docs/support_files/hooks.md:127`).
- *Support code.* A definition called by native code has no second frame and throws a
  TypeError (`get_definition_line_and_uri.ts:16`). `on` of a run hook is not validated: any
  other value runs nowhere in parallel.
- *Configuration.* `(@a) or (@b)` and `(@a) or not (@b)` are taken for texts in parentheses and
  joined without any (`docs/filtering.md:37`). Plugins of two layers are merged by index
  (`docs/configuration.md:91`), and so are arrays in world parameters, whose keys named like
  options are concatenated (`docs/profiles.md:155`). An ES module without a default export throws (`from_file.ts:40`).
  The schema, which the parsed command line is checked with as well
  (`load_configuration.ts:36`), refuses the order "reverse" (`check_schema.ts:31`), which the
  help offers (`argv_parser.ts:117`) and `order_pickles.ts:15` implements: it can only be had
  in a profile written as arguments, which is not checked with it. It lets `forceExit`,
  `loader` and `shard` through unchecked, and a profile written as
  arguments may name a language there is not, which only the parser of the feature files
  would notice. A later `printAttachments` does not override an earlier
  `includeAttachments`.
- *Plugins.* `on()` and `transform()` with an unknown event reject a promise nobody handles
  (`plugin_manager.ts:54-80`). After parse errors streams are ended before formatters are
  cleaned up (`run_cucumber.ts:123`, `docs/custom_formatters.md:26`). No cleanup runs when
  anything throws (`run_cucumber.ts:163`, `docs/plugins.md:55`); `CleanedUpInOrder` shows
  that they do whenever `runCucumber` returns.

## What is proved

Eight modules hold proofs. They use the assumptions on constants that the modules they
extend declare by name, and no bound: the number of workers, cases, hooks, steps, calls,
plugins, pickles, shards, losses, arguments, profiles and paths is any there can be. Every
invariant and every action property of a passing run is proved.

| module | theorems | properties |
|---|---|---|
| `ParallelRuntime_proofs` | `WorkInvariance`, `TypeCorrectness`, `OneCommandAtATime`, `OpenPhasesHaveWork`, `Invariance`, `CasesAccountedFor`, `HooksBracketCases`, `RefusedPairsKeptApart`, `TaggedCasesKeptApart`, `FailFastHolds`, `ImplementsTestRun` | all of `parallel` but the liveness (`TypeOK`, `OneCommandPerWorker`, `OpenPhaseHasWork`, `IInv`, `EveryCaseAccountedFor`, `RunHooksBracketCases`, `NoRefusedPairTogether`, `FailFastDrains`, `KeepsRunContract`) |
| `SerialRuntime_proofs` | `Invariance`, `TypeCorrectness`, `FailFastHolds`, `VerdictIsEarned`, `ImplementsTestRun` | `NothingExecutesAfterFailure`, `VerdictAfterEveryHook`, `KeepsRunContract` |
| `TestCaseRunner_proofs` | `Invariance`, `TypeCorrectness`, `StepsRunBehindPasses`, `SkippingExecutesNothing`, `AttemptsAreWhole`, `RetriesAreAnnounced`, `EndsJudged` | all of `test_case` but `Finishes` |
| `UserCode_proofs` | `Invariance`, `TypeCorrectness`, `AnswersAreOwn`, `AwaitedCallsAreSafe`, `AttachmentsGoToOpenSteps`, `WorldsStayApart` | all of `user_code` but `TimedCallReturns` |
| `Runs_proofs` | of `RunLifecycle`: `Invariance`, `TypeCorrectness`, `EveryoneHears`, `SuccessIsNeverPartial`, `CleansUpInOrder`; of `Configuration`: `ConfigurationInvariance`, `LaterLayersWin`, `FiltersNarrowEach`, `RepeatedOptionsAreKept` | all of `lifecycle` and of `configuration` (`LaterLayerWins`, `FiltersNarrow`, `RepeatedOptionsKept`) |
| `TestPlan_proofs` | `ShardsAreFair`, `Invariance`, `WorkersRunTheSameCode`, `NamesAreAnnounced` | all of `test_plan` |
| `Reports_proofs` | `Invariance`, `StreamIsOfARun`, `SummaryIsTrue`, `ErrorsReachTheReader`, `ReportIsTrue`, `SnippetsAreRight`, `RerunRunsWhatFailed`, `TablesComeThrough`, `UsesAreAllCounted` | all of `reports` (`SummaryMatchesVerdict`, `ErrorsAreTold`, `ReportTellsWhatHappened`, `SnippetsFit`, `RerunRoundTrip`, `ArgumentsComeThrough`, `UsesAreCounted`) |
| `Subsequences_proofs` | lemmas on what filtering, sorting and flattening a sequence come to, for the three above | |

Each module has its inductive invariant, `Init => IInv` and one lemma for each conjunct,
with one step per action that can disturb it. TLC has checked every one of them on the
instance of the module's run; `parallel` lists `IInv` as a property.

### The parallel runtime

None of the properties is inductive. `WorkInv` (in `ParallelInvariant`) says where the work
is. A FINISHED event that arrives frees a worker; that nothing else of its command is left
needs to know where a command can be. Besides the types it says:

- `CommandInOnePlace`: the last command of a worker is posted, or taken, or finished (a
  FINISHED event that is the last of its channel), or gone with a dead thread; an idle
  worker has nothing anywhere.
- `LoadingIsQuiet`: a thread that is still loading has neither jobs nor FINISHED events.
- `RunningOfPhase`: what is running belongs to the current phase; a hooks phase waits for
  exactly the busy workers, a test cases phase has in progress exactly their cases.
- `PhaseOfStage`: which `awaiting`, `stage` and `phase` go together; this is what makes the
  adapter's `phase!` safe when FINISHED is handled.
- `FillProgress`: while `startPhase` hands out work, the workers it has not reached are
  idle and the phase has not been settled.
- `ResolvedIsDrained`: a phase that resolved has no busy worker, and nothing queued.
- `PendingIsBusy`: a pending phase has a busy worker, or has one yet to be filled.

`ResolvedIsDrained` is the step from one phase to the next (`FillProgress` of the new phase
needs idle workers), and `PendingIsBusy` needs that `select` forces the head of the queue
when nothing runs, whatever the rule says.

`IInv` adds what has been told of the work. `ToldInOrder` is the heart of it: what
listeners have heard of a worker's case and what is still in its channel make up, together,
the beginning of "started, its outcome, FINISHED". With `CasesHeard` (cases neither queued
nor running have been heard to end, and to pass unless the phase knows of a failure) this
gives `EveryCaseAccountedFor` and the refinement of `TestRun`; with `HooksOfPhases` (which
hooks each worker has behind it) and `EveryoneReady` it gives `RunHooksBracketCases`.
`EndsInOrder` is for what comes after an abort. `PairsLetRun` says that of two cases in
progress one was let run beside the other. That follows from what the code does only if the
rule decides by pairs: `select` asks the rule about a case and all the running ones at
once, and a rule may allow a case beside two others and refuse it beside one of them. So
`RefusedPairsKeptApart` has the hypothesis `RuleIsPairwise`. `TaggedCasesKeptApart` shows that
the rule which comes with the library, `atMostOnePicklePerTag`, satisfies it, and concludes
what docs/parallel.md:73 promises of it.

`ImplementsTestRun` is proved for both runtimes by a step simulation: each action is one of
`TestRun` or leaves `period`, `reported` and `verdict` as they are. For the parallel one this
rests on `IInv`: an envelope is only handled while `TestRun` lets cases be announced, and
says what may come next of its case.

### The serial runtime and a test case

The invariant of `SerialRuntime` says that hooks and cases before the current one are over and
those behind it have not begun, and what the coordinator remembers of each phase. That of
`TestCaseRunner` says what the place in the code says of the test step (`WhereItIs`), which
code has run by then (`WhatHasRun`), that a step with a failed step hook has failed or will
have (`FailuresKept`), that a retry which was announced is still to come, and that one which
was not comes of a failure since (`RetryIsKept`). Assumed is, besides `StatusOptionsAssumption`, that After hooks come behind
the steps of a pickle, which is how `assemble_test_cases.ts:44` puts them together.

### User code and the lifecycle

In `UserCode` the invariant ties the process listener, the timers, the race and the current
call together (`OnlyTheAwaited`, `RacesAreOwn`): this is what keeps the late answer of an
earlier call from settling a later one. `WorldsHoldTheirOwn` is the part that makes
`WorldsKeptApart` hold: what is in a World was written by its own attempt, or by a hook of
the run before it was made.

In `RunLifecycle` the invariant follows the function: by `at`, who has joined, what has been
emitted and heard by all (`HeardSoFar`, unless the run has failed by then), where the
streams are and what has been cleaned up, on the way of a parse error and on the other one.
The first attempt at it failed for a reason: a cleanup and an upload could settle while
nothing awaited them, a step the model allowed and the code does not have; both actions
(`CleanupSettles`, `PublishSettles`) now have that guard.

### Pickles and support code

`ShardsAreFair` is arithmetic: places `i`, `i + total`, `i + 2 * total`, ... of a sequence of
pickles belong to shard `i`, every place to one shard, and no shard is more than one longer
than another. It needs that filtering keeps no pickle twice and ordering permutes; pickles
are assumed to be distinct, each having an id of its own.

The invariant of the builders (`BuildersInv`) says that the state of a builder is a function
of the calls it has had: `SettingsAreLast` (a setting is what the last call made it) and
`LibrariesAreBuilt` (a library is what `Build` makes of the calls of its thread and, in a
worker, of the ids in the library of the main thread). With it `WorkersRunTheSameCode`
compares the two libraries: with nothing undefined the definitions of a kind are the same
places of `configs` on both sides, so an id taken by its index is the id of the same code.
What `filter` keeps and how `sort` arranges it is defined by positions (`Subsequences`), about
which there are lemmas.

`NamesAreAnnounced` adds to that invariant what has been sent and assembled: calls that were
accepted could be located (`CallsAreLocated`), the messages are those of the library
(`MessagesAreSent`) and test cases have ids of definitions in it (`TestCasesNameDefinitions`);
`MainIsFixed` is the reason they last: a worker that loads does not touch the library of the
main thread. Its lemmas go along the code: each kind of definition is announced once
(`Announces`), the kinds together (`AllAnnounced`), sorting arranges them by their order and
loses none (`SortingArranges`), and behind them come just the steps that got no definition
(`UndefinedAreTold`, `MissingAreNamed`). It has one hypothesis, `CalledByUsers`: the first
frame outside cucumber of a call that is accepted is in a file of the user. It is about what
support code does: if that hands `Given` to a timer of Node.js, the message leads there. The
instance of `test_plan` satisfies it. Each pickle having a list of steps is the only other
assumption that was added.

### Reports

Reports are printed from what the collector has stored of envelopes, and judged by what
happened. So the invariant is about the two, in every state of a stream in which cases
interleave and may be aborted at any envelope:

- `DataTellAttempts`: `data` is a function of `attempts`. Each entry has one result per test
  step (UNKNOWN where none has come), the attachments under the step that was open, the worst
  result as soon as the attempt is over, and nothing is stored for what never happened.
- `AttemptsInOrder`: only the last attempt of a case is not retried, and one is retried only
  if it FAILED. `ReportedAsAttempted`: what listeners of the run are told of a case is what
  has become of its last attempt.
- `PeriodsInOrder`: a run that was not aborted has executed all cases or none.
- `PrintedAtTheEnd`: every report that has been printed was printed from these `data`.

`StreamIsOfARun` is the refinement of `TestRun` by the stream. The other seven follow from
the invariant without another step of the system, by what the formatters make of `data`:

- `SummaryIsTrue`: each finished case has exactly one attempt that is not retried, so the
  counts by status are a partition of the finished cases and their sum is the number of
  them; the counts of steps are a bijection between the results that were stored and those
  that happened; and issues are told apart by feature, line and attempt, so that there are
  as many as there are attempts in trouble.
- `ErrorsReachTheReader`: the chain of causes is a function that is defined by recursion up
  to `MaxCauseDepth` (`CausesAreFollowed`); what is told of it ends before the first cause that
  was seen, at the depth where there is none, or with the words that there are more. What a
  filter leaves of a stack is the beginning of it, up to cucumber (`StackIsFiltered`).
- `ReportIsTrue`: the last attempt of a case is unique, what it has attached is embedded as
  it was meant (`EmbeddedAsMeant`), with all lines of a list of links (`LinesAreJoined`), and
  the hooks of a scenario lie before or behind its steps (`HooksAreNamed`).
- `SnippetsAreRight`: the type of a step is that of the nearest keyword before it that has
  one (`KeywordTypesFollow`), on the side of the pickle as on that of the formatter, and a
  snippet has as many parameters as its expression, and one more for an argument
  (`PastedIsPending`).
- `RerunRunsWhatFailed`: the paths in the file, expanded, are the failed files and no
  other; the lines in it select, of the pickles of each, those that failed
  (`RerunIsOfLines`).
- `TablesComeThrough`: a table is transposed twice into itself, a hash has at each column the
  cell under its header, and two different cells are escaped differently: of the
  characters that can be printed at a place one is the other (`EscapedApart`), so two cells
  that are printed alike agree as far as they go (`LaidOutAlike`).
- `UsesAreAllCounted`: a sum over a set is the value of a function on its parts that is
  defined by recursion; `SumsExist` and `SumsAreUnique` find it, and `SumOfPart` that uses
  which took no time do not count. Sorting by how many are slower puts none before a slower
  one because being slower is an order (`SlowerIsAnOrder`, by cross-multiplication), and
  the first `MaxShown` of an order are that many, if there are (`FirstAreFirst`).

What is assumed of the constants, all of which TLC evaluates on the instance of `reports`:

- `PicklesAssumption`, `TestStepsAssumption`, `PickleStepsAssumption`: the line that stands
  for a pickle selects it and no other of its file; steps of a pickle are test steps, in
  their order, between the Before and the After hooks; the ids and types of pickle steps
  are those gherkin gives them.
- `UrisAssumption`: no character in the path of a feature file has a meaning for a glob.
  The code does not escape it (`paths.ts:37`), so a rerun file of `a[1].feature` would name
  another file; this is a limit of the code that the theorem states as its assumption.
- `TablesAssumption`: a table has rows, rows have cells, and as many as the first. Gherkin
  refuses a table whose rows differ.
- `CallsAssumption`: what user code attaches in base64 it declares to be, and nothing else;
  the code cannot tell, and what it is told is in the report.
- `ErrorsAssumption`, `DefinitionsAssumption`: the frames of an error and the generated
  expressions of a text are finite sequences, there is one expression at least, and two
  with the same source are the same.
- `ReportsAssumption`: there are finitely many step definitions, which take as long as they
  take, and each test step has an error to throw.

The first attempts failed for a reason here, too. The cases of `Create` overlapped for a
buffer or stream without a media type, where the code throws; a result of a step behind
a SKIPPED one could be one that only a step that is looked up has; an attempt could have
attachments of calls that attach nothing. The table of uses was sorted by an operator that
is not defined where two definitions are as slow as each other: `GetUsage` now keeps those
in the order of the definitions, as `Array.sort` does. `UsesAreCounted` was true of
steps that take time only, and now says what it says of steps that take none. `Distinct`,
`Named` and `Rerun` are defined by the places they keep (`Subsequences`), because no prover
knows anything of `SelectSeq` or of folds over sequences.

### Configuration

The invariant is short (`ConfigurationInv`): what each stage of the CLI has is what the ones
before it made of the input. The work is in what the merged configuration then says, for
any number of layers and arguments. The code folds them, one into the next, with a rule
for each kind of option; the properties speak of everything that has been given, one after the
other. `OptionSays` relates the two for each option, by its kind: all of it in order
(`SaysAll`), the last of it or the default, for an object that it is merged from all that
were given (`SaysKeys`, `MergedFrom`), and a tag expression that is true where all texts still in force are
(`SaysTags`).

- `MergedStepwise` and `ParsedStepwise` turn the recursive functions into their steps, which
  `DefinedByRecursion` allows. One lemma per kind says that a merge keeps what is said
  (`AllMerged`, `LastMerged`, `KeysMerged`, `TagsMerged`, `PluginMerged`), others that a layer
  and a list of arguments say what they give (`ArgumentsAreRead`, `DefinitionSays`).
  `LayersAreMerged` goes through the layers and puts the defaults under them, and
  `OptionsAreSaid` is the result for a run.
- `MergedFrom` says of a tree and the objects it is made of, for each path they agree on, that it
  is there just if one of them has it, and what the last of them gives. It is kept by
  a merge of two such trees (`TreesMerged`, with `TreesAreMergedInDepth` for one path and
  `AboveAbove` for those that lead to it), whichever of them was merged before: so it holds
  for the arguments of a layer, for the layers, and for all of them together.
- Tag expressions are joined as texts, so that their meaning depends on the parentheses:
  `AndIs` says what "and" between two texts means when neither is an "or" outside
  parentheses, and `WrappedIs` that wrapping makes it so, unless a layer gives
  `(@a) or (@b)` or its like, which is what `OrOfParentheses` excludes. An empty text lifts the filters of
  the layers before it (`EffectiveIs`).
- `LaterLayersWin` follows through the conversion: `FormattersAreLast`, and
  `AttachmentsAreIncluded` for what each kind of formatter makes of its options.
- `FiltersNarrowEach` adds the selection: the files are each taken once (`PathsAreExpanded`),
  the parts of the list of pickles have nothing in common (`PicklesOfFiles`), and filtering keeps
  those that match (`SelectedAre`).
- `RepeatedOptionsAreKept`: support code that is asked for is all there (`SupportIsAllThere`),
  and what has started is of the kind it was looked for (`CodeIsOfKind`).

`ConfigurationAssumption` says what can be given at all: only options there are; sequences
for those that are arrays; texts with no factor missing; natural numbers for counts in a
layer, any integer in an argument; paths and globs that stand for some sequence of files; and
pickles that are distinct. A value no option allows may be given wherever the code would
reject it; `loader` is not checked by the schema, and a malformed one in a profile would
reach the loader, so it is left out there.

The attempt to prove `LaterLayerWins` showed that it was wrong: it said of every formatter
what is only true of classes and of those that print to a terminal, since other
plugins are given the options as they are. No formatter of the instance was such a plugin
beside that option; one is now. It was wrong once more as long as the model merged objects
one level deep: it then said that the last object given decides a key whole, which the code
does not do (`docs/profiles.md:141` has a nested parameter).

### What is only model-checked

Liveness and its fairness (`HeardLossFailsRun`, `RunReturns`, `Finishes`,
`TimedCallReturns`) and anything with ENABLED are out of the proof system's reach. The
runs that expect a violation show one behaviour each, and there is nothing in them to prove.

## Not modelled, and the plan

- Other packages: gherkin parsing, matching of cucumber expressions, evaluation of tag
  expressions, the query behind plugin-based formatters. A definition comes with the texts
  it matches, a tag expression with the tags it is true of.
- Pure output: layout, colours and wording, help and version of the CLI, the console logger,
  i18n lists, and the HTML, message, JUnit and pretty formatters, which hand envelopes to
  other packages.
- Time as a quantity: the stopwatch, timestamps and durations are constants of each test
  step; that a timer may fire before or after an answer is modelled in `UserCode`.
- Type declarations, which make up much of `src/`, and the tests, which were read as
  documentation.
- A `canAssign` of the user that throws: it does so in a message handler, outside any
  promise, and ends the process; there is nothing of the model left to check after it. It is
  in the list of hazards.

The plan is carried out.
