--------------------------- MODULE ParallelRuntime ---------------------------
(***************************************************************************)
(* A run with worker threads: the coordinator, the WorkerThreadsAdapter    *)
(* (src/src/runtime/parallel/adapter.ts) with its phases, and the workers  *)
(* (src/src/runtime/parallel/worker.mts), each joined to the adapter by a  *)
(* message channel that delivers in order.                                 *)
(*                                                                         *)
(* The main thread is one event loop.  Between two events it runs every    *)
(* continuation whose promise has settled, so an event handler is enabled  *)
(* only in MainThreadIdle; the workers run beside it at all times.         *)
(***************************************************************************)
EXTENDS Coordinator, Executor, TestCasesPhase, Sequences, FiniteSets

CONSTANTS
    NumWorkers,    \* options.parallel
    MaxLosses      \* bound: how many workers may exit unexpectedly

ASSUME ParallelAssumption ==
    /\ NumWorkers \in Nat \ {0}
    /\ MaxLosses \in Nat

Workers == 1 .. NumWorkers

VARIABLES
    awaiting,      \* what the coordinator's coroutine is suspended on
    readiness,     \* the promise setup() awaits
    ready,         \* the workers whose ready flag is set
    workersOk,     \* workersSuccess of runAfterAllHooks
    running,       \* WorkerThreadsAdapter.running
    filled,        \* how many workers startPhase has asked for work for
    tearingDown,   \* WorkerThreadsAdapter.tearingDown
    tornDown       \* how many workers teardown has terminated, in order

adapterVars ==
    <<awaiting, readiness, ready, workersOk, running, filled, tearingDown, tornDown>>

VARIABLES
    thread,        \* the state of each worker thread
    jobs,          \* the commands each worker has taken and not finished
    toWorker,      \* commands posted and not taken
    fromWorker,    \* events posted and not handled
    signals,       \* 'error' and 'exit' events of the thread not yet handled
    lost,          \* the workers that exited without being asked to
    hooksDone      \* the hook commands each worker has finished

workerVars == <<thread, jobs, toWorker, fromWorker, signals, lost, hooksDone>>

VARIABLE reported  \* what the envelopes re-emitted so far say of each test case

vars == <<coordinatorVars, executorVars, phaseVars, adapterVars, workerVars, reported>>

-----------------------------------------------------------------------------
(* Commands, and the events that come back. *)

NoCase == 0

Command ==
    [type : {"TEST_CASE"}, case : TestCases, failing : BOOLEAN]
        \cup [type : HooksPhases, case : {NoCase}, failing : {FALSE}]

NoCommand == [type |-> "none", case |-> NoCase, failing |-> FALSE]

\* Wrong variant: workers are not told that the run is failing.
RunTestCase_Untold(t, fails) == [type |-> "TEST_CASE", case |-> t, failing |-> FALSE]

RunTestCase(t, fails) == [type |-> "TEST_CASE", case |-> t, failing |-> fails]

RunHooks(type) == [type |-> type, case |-> NoCase, failing |-> FALSE]

Outcome(success) == IF success THEN "passed" ELSE "failed"

Event ==
    [type : {"READY"}, case : {NoCase}, says : {"ready"}]
        \cup [type : {"ENVELOPE"}, case : TestCases, says : {"started", "passed", "failed"}]
        \cup [type : {"FINISHED"}, case : {NoCase}, says : {"passed", "failed"}]

Ready == [type |-> "READY", case |-> NoCase, says |-> "ready"]

Envelope(t, says) == [type |-> "ENVELOPE", case |-> t, says |-> says]

Finished(success) == [type |-> "FINISHED", case |-> NoCase, says |-> Outcome(success)]

-----------------------------------------------------------------------------
AdapterTypeOK ==
    /\ awaiting \in {"readiness", "hooks", "fill", "phase", "teardown", "none"}
    /\ readiness \in {"pending", "resolved", "rejected", "deleted"}
    /\ ready \subseteq Workers
    /\ workersOk \in BOOLEAN
    /\ running \in [Workers -> Command \cup {NoCommand}]
    /\ filled \in 0 .. NumWorkers
    /\ tearingDown \in BOOLEAN
    /\ tornDown \in 0 .. NumWorkers

WorkersTypeOK ==
    /\ thread \in [Workers -> {"loading", "listening", "dead"}]
    /\ jobs \in [Workers -> SUBSET Command]
    /\ toWorker \in [Workers -> Seq(Command)]
    /\ fromWorker \in [Workers -> Seq(Event)]
    /\ signals \in [Workers -> SUBSET {"error", "exit"}]
    /\ lost \subseteq Workers
    /\ hooksDone \in [Workers -> SUBSET HooksPhases]

ReportedTypeOK == reported \in [TestCases -> {"no", "started", "passed", "failed"}]

TypeOK ==
    /\ CoordinatorTypeOK
    /\ ExecutorTypeOK
    /\ PhaseTypeOK
    /\ AdapterTypeOK
    /\ WorkersTypeOK
    /\ ReportedTypeOK

Init ==
    /\ CoordinatorInit
    /\ ExecutorInit
    /\ PhaseInit
    /\ awaiting = "readiness"
    /\ readiness = "pending"
    /\ ready = {}
    /\ workersOk = FALSE
    /\ running = [w \in Workers |-> NoCommand]
    /\ filled = 0
    /\ tearingDown = FALSE
    /\ tornDown = 0
    /\ thread = [w \in Workers |-> "loading"]
    /\ jobs = [w \in Workers |-> {}]
    /\ toWorker = [w \in Workers |-> << >>]
    /\ fromWorker = [w \in Workers |-> << >>]
    /\ signals = [w \in Workers |-> {}]
    /\ lost = {}
    /\ hooksDone = [w \in Workers |-> {}]
    /\ reported = [t \in TestCases |-> "no"]

(* No continuation is runnable: the event loop takes its next event.       *)
MainThreadIdle ==
    \/ awaiting = "readiness" /\ readiness = "pending"
    \/ awaiting = "hooks" /\ hooksLeft # {}
    \/ awaiting = "phase" /\ settled = "pending"
    \/ awaiting = "teardown" /\ tornDown < NumWorkers
    \/ awaiting = "none"

(* A port whose other end was closed, or whose thread is gone, swallows    *)
(* what is posted to it.                                                   *)
Post(w, command) ==
    toWorker' = [toWorker EXCEPT ![w] =
                    IF thread[w] = "dead" THEN @ ELSE Append(@, command)]

(* issueCommandToWorker                                                    *)
Issue(w, command) ==
    /\ running' = [running EXCEPT ![w] = command]
    /\ Post(w, command)

-----------------------------------------------------------------------------
(* The coordinator's coroutine: its continuations. *)

UNCHANGED_workers == UNCHANGED <<workerVars, reported>>

(* setup() resolves; runBeforeAllHooks starts with the coordinator's hooks. *)
SetupResolves ==
    /\ awaiting = "readiness" /\ readiness = "resolved"
    /\ readiness' = "deleted"
    /\ SetupSettled
    /\ BeginHooks(BeforeTestRunHooks \cap OnCoordinator)
    /\ awaiting' = "hooks"
    /\ UNCHANGED <<phaseVars, ready, workersOk, running, filled, tearingDown, tornDown>>
    /\ UNCHANGED_workers

(* One hook of the coordinator runs to its end; no phase is set meanwhile. *)
RunCoordinatorHook ==
    /\ awaiting = "hooks"
    /\ \/ stage = "beforeAllHooks" /\ RunBeforeAllHook
       \/ stage = "afterAllHooks" /\ RunAfterAllHook
    /\ UNCHANGED <<coordinatorVars, phaseVars, adapterVars>>
    /\ UNCHANGED_workers

(* A new phase is set and startPhase entered.                              *)
StartPhase == awaiting' = "fill" /\ filled' = 0

StartBeforeAllHooksPhase ==
    /\ awaiting = "hooks" /\ hooksLeft = {} /\ stage = "beforeAllHooks"
    /\ NewHooksPhase("BEFOREALL_HOOKS")
    /\ StartPhase
    /\ UNCHANGED <<coordinatorVars, executorVars>>
    /\ UNCHANGED <<readiness, ready, workersOk, running, tearingDown, tornDown>>
    /\ UNCHANGED_workers

(* startPhase asks the phase for work for the next worker.                 *)
FillHooks(w) ==
    /\ phase \in HooksPhases
    /\ waiting' = waiting + 1
    /\ Issue(w, RunHooks(phase))
    /\ UNCHANGED <<phase, settled, queue, inProgress, failing>>

FillTestCases(w) ==
    /\ phase = "TEST_CASE"
    /\ \/ \E t \in Select(inProgress) :
             /\ Dequeue(t, inProgress)
             /\ Issue(w, RunTestCase(t, failing))
       \/ /\ Select(inProgress) = {}
          /\ UNCHANGED <<queue, inProgress, running, toWorker>>
    /\ UNCHANGED <<phase, settled, waiting, failing>>

Fill(w) ==
    /\ awaiting = "fill" /\ w = filled + 1
    /\ FillHooks(w) \/ FillTestCases(w)
    /\ filled' = w
    /\ awaiting' = IF w = NumWorkers THEN "phase" ELSE "fill"
    /\ UNCHANGED <<coordinatorVars, executorVars>>
    /\ UNCHANGED <<readiness, ready, workersOk, tearingDown, tornDown>>
    /\ UNCHANGED <<thread, jobs, fromWorker, signals, lost, hooksDone, reported>>

PhaseResolved == awaiting = "phase" /\ settled \in {"success", "failure"}

PhaseOk == settled = "success"

(* runBeforeAllHooks returns; the coordinator goes on to the test cases    *)
(* (assembling them takes no event) or straight to the AfterAll hooks.     *)
BeforeAllHooksResolve ==
    /\ PhaseResolved /\ stage = "beforeAllHooks"
    /\ BeforeAllHooksSettled(hooksOk /\ PhaseOk)
    /\ IF hooksOk /\ PhaseOk THEN NewTestCasesPhase ELSE NewHooksPhase("AFTERALL_HOOKS")
    /\ StartPhase
    /\ UNCHANGED executorVars
    /\ UNCHANGED <<readiness, ready, workersOk, running, tearingDown, tornDown>>
    /\ UNCHANGED_workers

TestCasesResolve ==
    /\ PhaseResolved /\ stage = "testCases"
    /\ TestCasesSettled(PhaseOk)
    /\ NewHooksPhase("AFTERALL_HOOKS")
    /\ StartPhase
    /\ UNCHANGED executorVars
    /\ UNCHANGED <<readiness, ready, workersOk, running, tearingDown, tornDown>>
    /\ UNCHANGED_workers

(* The workers' AfterAll hooks are done; the coordinator's follow.         *)
AfterAllHooksPhaseResolves ==
    /\ PhaseResolved /\ stage = "afterAllHooks"
    /\ DeletePhase
    /\ workersOk' = PhaseOk
    /\ BeginHooks(AfterTestRunHooks \cap OnCoordinator)
    /\ awaiting' = "hooks"
    /\ UNCHANGED coordinatorVars
    /\ UNCHANGED <<readiness, ready, running, filled, tearingDown, tornDown>>
    /\ UNCHANGED_workers

(* run() enters its finally block.                                         *)
EnterTeardown == awaiting' = "teardown" /\ tearingDown' = TRUE

AfterAllHooksResolve ==
    /\ awaiting = "hooks" /\ hooksLeft = {} /\ stage = "afterAllHooks"
    /\ AfterAllHooksSettled(hooksOk /\ workersOk)
    /\ EnterTeardown
    /\ UNCHANGED <<executorVars, phaseVars>>
    /\ UNCHANGED <<readiness, ready, workersOk, running, filled, tornDown>>
    /\ UNCHANGED_workers

(* The awaited promise was rejected.  The phase is not deleted.            *)
Rejected ==
    /\ \/ awaiting = "readiness" /\ readiness = "rejected"
       \/ awaiting = "phase" /\ settled = "rejected"
    /\ Caught
    /\ EnterTeardown
    /\ UNCHANGED <<executorVars, phaseVars>>
    /\ UNCHANGED <<readiness, ready, workersOk, running, filled, tornDown>>
    /\ UNCHANGED_workers

Return ==
    /\ awaiting = "teardown" /\ tornDown = NumWorkers
    /\ TeardownSettled
    /\ awaiting' = "none"
    /\ UNCHANGED <<executorVars, phaseVars>>
    /\ UNCHANGED <<readiness, ready, workersOk, running, filled, tearingDown, tornDown>>
    /\ UNCHANGED_workers

(* teardown: the next worker is terminated and its port closed.  fail()    *)
(* starts a teardown nobody awaits and run() one of its own; the later one *)
(* finds threads already terminated, so the two advance as one.            *)
TeardownWorker(w) ==
    /\ tearingDown /\ MainThreadIdle /\ w = tornDown + 1
    /\ tornDown' = w
    /\ thread' = [thread EXCEPT ![w] = "dead"]
    /\ jobs' = [jobs EXCEPT ![w] = {}]
    /\ toWorker' = [toWorker EXCEPT ![w] = << >>]
    /\ fromWorker' = [fromWorker EXCEPT ![w] = << >>]
    /\ UNCHANGED <<coordinatorVars, executorVars, phaseVars>>
    /\ UNCHANGED <<awaiting, readiness, ready, workersOk, running, filled, tearingDown>>
    /\ UNCHANGED <<signals, lost, hooksDone, reported>>

-----------------------------------------------------------------------------
(* The adapter's event handlers. *)

Arrived(w) == MainThreadIdle /\ fromWorker[w] # << >>

Consume(w) == fromWorker' = [fromWorker EXCEPT ![w] = Tail(@)]

(* READY: setup() resolves once every worker has reported.                 *)
HandleReady(w) ==
    /\ Arrived(w) /\ Head(fromWorker[w]).type = "READY"
    /\ Consume(w)
    /\ ready' = ready \cup {w}
    /\ readiness' = IF ready' = Workers /\ readiness = "pending" THEN "resolved" ELSE readiness
    /\ UNCHANGED <<coordinatorVars, executorVars, phaseVars>>
    /\ UNCHANGED <<awaiting, workersOk, running, filled, tearingDown, tornDown>>
    /\ UNCHANGED <<thread, jobs, toWorker, signals, lost, hooksDone, reported>>

(* ENVELOPE: emitted again on the main thread's broadcaster.               *)
HandleEnvelope(w) ==
    /\ Arrived(w) /\ Head(fromWorker[w]).type = "ENVELOPE"
    /\ Consume(w)
    /\ reported' = [reported EXCEPT ![Head(fromWorker[w]).case] = Head(fromWorker[w]).says]
    /\ UNCHANGED <<coordinatorVars, executorVars, phaseVars, adapterVars>>
    /\ UNCHANGED <<thread, jobs, toWorker, signals, lost, hooksDone>>

(* TestRunHooksPhase.next                                                  *)
\* Wrong variant: the first worker to finish settles the phase.
NextHooks_FirstSettles(w, success) ==
    /\ phase \in HooksPhases
    /\ failing' = (failing \/ ~success)
    /\ waiting' = waiting - 1
    /\ Settle(Verdict(failing'))
    /\ running' = [running EXCEPT ![w] = NoCommand]
    /\ UNCHANGED <<phase, queue, inProgress, toWorker>>

NextHooks(w, success) ==
    /\ phase \in HooksPhases
    /\ failing' = (failing \/ ~success)
    /\ waiting' = waiting - 1
    /\ IF waiting = 1 THEN Settle(Verdict(failing')) ELSE UNCHANGED settled
    /\ running' = [running EXCEPT ![w] = NoCommand]
    /\ UNCHANGED <<phase, queue, inProgress, toWorker>>

(* TestCasesPhase.next: only the worker that finished is offered work.     *)
\* Wrong variant: the case may go to a worker other than the one that is free.
NextTestCase_AnyWorker(w, success) ==
    LET left == inProgress \ {running[w].case}
    IN  /\ phase = "TEST_CASE"
        /\ failing' = (failing \/ ~success)
        /\ \/ /\ Select(left) = {}
              /\ IF queue = {} /\ left = {} THEN Settle(Verdict(failing')) ELSE UNCHANGED settled
              /\ inProgress' = left
              /\ running' = [running EXCEPT ![w] = NoCommand]
              /\ UNCHANGED <<queue, toWorker>>
           \/ \E t \in Select(left), v \in Workers :
                 /\ Dequeue(t, left)
                 /\ Issue(v, RunTestCase(t, failing'))
                 /\ UNCHANGED settled
        /\ UNCHANGED <<phase, waiting>>

NextTestCase(w, success) ==
    LET left == inProgress \ {running[w].case}
    IN  /\ phase = "TEST_CASE"
        /\ failing' = (failing \/ ~success)
        /\ \/ /\ queue = {} /\ left = {}
              /\ Settle(Verdict(failing'))
              /\ inProgress' = left
              /\ running' = [running EXCEPT ![w] = NoCommand]
              /\ UNCHANGED <<queue, toWorker>>
           \/ /\ queue # {} \/ left # {}
              /\ Select(left) = {}
              /\ inProgress' = left
              /\ running' = [running EXCEPT ![w] = NoCommand]
              /\ UNCHANGED <<settled, queue, toWorker>>
           \/ /\ \E t \in Select(left) :
                    /\ Dequeue(t, left)
                    /\ Issue(w, RunTestCase(t, failing'))
              /\ UNCHANGED settled
        /\ UNCHANGED <<phase, waiting>>

(* FINISHED: handed to the current phase; there always is one, since only  *)
(* its commands can finish.                                                *)
HandleFinished(w) ==
    /\ Arrived(w) /\ Head(fromWorker[w]).type = "FINISHED"
    /\ Consume(w)
    /\ LET success == Head(fromWorker[w]).says = "passed"
       IN  NextHooks(w, success) \/ NextTestCase(w, success)
    /\ UNCHANGED <<coordinatorVars, executorVars>>
    /\ UNCHANGED <<awaiting, readiness, ready, workersOk, filled, tearingDown, tornDown>>
    /\ UNCHANGED <<thread, jobs, signals, lost, hooksDone, reported>>

(* fail(): rejects whatever is awaited of the workers, and tears down.     *)
Fail ==
    /\ readiness' = IF readiness = "pending" THEN "rejected" ELSE readiness
    /\ IF phase # "none" THEN Settle("rejected") ELSE UNCHANGED settled
    /\ tearingDown' = TRUE
    /\ UNCHANGED <<phase, waiting, queue, inProgress, failing>>

(* An 'error' always fails the run; it is followed by an 'exit'.           *)
HandleError(w) ==
    /\ MainThreadIdle /\ "error" \in signals[w]
    /\ signals' = [signals EXCEPT ![w] = @ \ {"error"}]
    /\ Fail
    /\ UNCHANGED <<coordinatorVars, executorVars>>
    /\ UNCHANGED <<awaiting, ready, workersOk, running, filled, tornDown>>
    /\ UNCHANGED <<thread, jobs, toWorker, fromWorker, lost, hooksDone, reported>>

(* An 'exit' is expected while tearing down and fails the run otherwise.   *)
HandleExit(w) ==
    /\ MainThreadIdle /\ signals[w] = {"exit"}
    /\ signals' = [signals EXCEPT ![w] = {}]
    /\ \/ tearingDown /\ UNCHANGED <<readiness, tearingDown, phaseVars>>
       \/ ~tearingDown /\ Fail
    /\ UNCHANGED <<coordinatorVars, executorVars>>
    /\ UNCHANGED <<awaiting, ready, workersOk, running, filled, tornDown>>
    /\ UNCHANGED <<thread, jobs, toWorker, fromWorker, lost, hooksDone, reported>>

-----------------------------------------------------------------------------
(* The workers. *)

UNCHANGED_main == UNCHANGED <<coordinatorVars, executorVars, phaseVars, adapterVars, reported>>

(* The support code is loaded and the port listened on.                    *)
WorkerReady(w) ==
    /\ thread[w] = "loading"
    /\ thread' = [thread EXCEPT ![w] = "listening"]
    /\ fromWorker' = [fromWorker EXCEPT ![w] = Append(@, Ready)]
    /\ UNCHANGED <<jobs, toWorker, signals, lost, hooksDone>>
    /\ UNCHANGED_main

(* The 'message' handler starts the command and returns: nothing in the    *)
(* worker itself keeps a second command from starting beside the first.    *)
WorkerTakes(w) ==
    /\ thread[w] = "listening" /\ toWorker[w] # << >>
    /\ LET command == Head(toWorker[w])
       IN  /\ jobs' = [jobs EXCEPT ![w] = @ \cup {command}]
           /\ fromWorker' = [fromWorker EXCEPT ![w] =
                  IF command.type = "TEST_CASE"
                  THEN Append(@, Envelope(command.case, "started")) ELSE @]
    /\ toWorker' = [toWorker EXCEPT ![w] = Tail(@)]
    /\ UNCHANGED <<thread, signals, lost, hooksDone>>
    /\ UNCHANGED_main

(* A test case ends: its last envelope is posted before FINISHED.          *)
\* Wrong variant: FINISHED is posted before the last envelope.
WorkerFinishesCase_FinishedFirst(w, command) ==
    /\ command.type = "TEST_CASE"
    /\ \E success \in TestCaseSuccesses(command.failing) :
           fromWorker' = [fromWorker EXCEPT ![w] =
               Append(Append(@, Finished(success)), Envelope(command.case, Outcome(success)))]
    /\ UNCHANGED hooksDone

WorkerFinishesCase(w, command) ==
    /\ command.type = "TEST_CASE"
    /\ \E success \in TestCaseSuccesses(command.failing) :
           fromWorker' = [fromWorker EXCEPT ![w] =
               Append(Append(@, Envelope(command.case, Outcome(success))), Finished(success))]
    /\ UNCHANGED hooksDone

(* The worker's own BeforeAll or AfterAll hooks, the ones not on the       *)
(* coordinator, have all run.                                              *)
WorkerHooks(type) ==
    (IF type = "BEFOREALL_HOOKS" THEN BeforeTestRunHooks ELSE AfterTestRunHooks) \ OnCoordinator

WorkerFinishesHooks(w, command) ==
    /\ command.type \in HooksPhases
    /\ \E success \in HookLoopSuccesses(WorkerHooks(command.type)) :
           fromWorker' = [fromWorker EXCEPT ![w] = Append(@, Finished(success))]
    /\ hooksDone' = [hooksDone EXCEPT ![w] = @ \cup {command.type}]

WorkerFinishes(w) ==
    \E command \in jobs[w] :
        /\ WorkerFinishesCase(w, command) \/ WorkerFinishesHooks(w, command)
        /\ jobs' = [jobs EXCEPT ![w] = @ \ {command}]
        /\ UNCHANGED <<thread, toWorker, signals, lost>>
        /\ UNCHANGED_main

(* User code calls process.exit, or an error nobody handles ends the       *)
(* thread.  What it has posted is still delivered.                         *)
WorkerLost(w) ==
    /\ thread[w] # "dead"
    /\ Cardinality(lost) < MaxLosses
    /\ thread' = [thread EXCEPT ![w] = "dead"]
    /\ \E cause \in {{"exit"}, {"error", "exit"}} : signals' = [signals EXCEPT ![w] = cause]
    /\ lost' = lost \cup {w}
    /\ jobs' = [jobs EXCEPT ![w] = {}]
    /\ toWorker' = [toWorker EXCEPT ![w] = << >>]
    /\ UNCHANGED <<fromWorker, hooksDone>>
    /\ UNCHANGED_main

-----------------------------------------------------------------------------
Continue ==
    \/ SetupResolves
    \/ StartBeforeAllHooksPhase
    \/ \E w \in Workers : Fill(w)
    \/ BeforeAllHooksResolve
    \/ TestCasesResolve
    \/ AfterAllHooksPhaseResolves
    \/ AfterAllHooksResolve
    \/ Rejected
    \/ Return

Handle(w) ==
    \/ HandleReady(w)
    \/ HandleEnvelope(w)
    \/ HandleFinished(w)
    \/ HandleError(w)
    \/ HandleExit(w)

Work(w) ==
    \/ WorkerReady(w)
    \/ WorkerTakes(w)
    \/ WorkerFinishes(w)

(* The run has returned: the process may idle.                             *)
Returned == stage = "returned" /\ UNCHANGED vars

Next ==
    \/ Continue
    \/ RunCoordinatorHook
    \/ \E w \in Workers :
          \/ TeardownWorker(w)
          \/ Handle(w)
          \/ Work(w)
          \/ WorkerLost(w)
    \/ Returned

(* The event loop takes every event, a thread that runs goes on running,   *)
(* and user code ends (by its timeout if not otherwise).  Nothing makes a  *)
(* worker exit.                                                            *)
Fairness ==
    /\ WF_vars(Continue)
    /\ WF_vars(RunCoordinatorHook)
    /\ \A w \in Workers :
          /\ WF_vars(TeardownWorker(w))
          /\ WF_vars(Handle(w))
          /\ WF_vars(Work(w))

Spec == Init /\ [][Next]_vars

FairSpec == Spec /\ Fairness

-----------------------------------------------------------------------------
(* Properties. *)

Executing(w) == {c.case : c \in {d \in jobs[w] : d.type = "TEST_CASE"}}

FinishedEvents(w) == {i \in DOMAIN fromWorker[w] : fromWorker[w][i].type = "FINISHED"}

(* A worker is never handed a second command before the adapter has taken  *)
(* note of its first: worker.mts would run both at once, on one World and  *)
(* one current step.  Holds because `running`, the phase and the FINISHED  *)
(* events agree, whatever the order in which workers finish.               *)
OneCommandPerWorker ==
    \A w \in Workers :
        /\ Len(toWorker[w]) + Cardinality(jobs[w]) + Cardinality(FinishedEvents(w)) <= 1
        /\ running[w] = NoCommand =>
               Len(toWorker[w]) + Cardinality(jobs[w]) + Cardinality(FinishedEvents(w)) = 0

(* During the test cases phase no case is lost or handed out twice: one    *)
(* still queued has not been announced, one in progress is what exactly    *)
(* one worker was last told to run, and every other has been reported to   *)
(* its end (the envelopes of a case overtake its FINISHED event).          *)
EveryCaseAccountedFor ==
    phase = "TEST_CASE" =>
        /\ \A t \in queue : t \notin inProgress /\ reported[t] = "no"
        /\ \A t \in inProgress :
               /\ \E w \in Workers : running[w].case = t
               /\ \A v, w \in Workers : running[v].case = t /\ running[w].case = t => v = w
        /\ \A t \in TestCases \ (queue \cup inProgress) : reported[t] \in {"passed", "failed"}

(* A phase that is still open has work in some worker's hands: nothing but *)
(* a FINISHED event can settle it, so one without work would never end,    *)
(* with no test case at all just as when every queued one is refused.      *)
OpenPhaseHasWork ==
    awaiting = "phase" /\ settled = "pending" => \E w \in Workers : running[w] # NoCommand

(* Two test cases that each refuse to run beside the other are never       *)
(* executed at the same time, whichever workers are free when: a refused   *)
(* case is only forced when nothing at all is running.                     *)
NoRefusedPairTogether ==
    \A v, w \in Workers : v # w =>
        \A t \in Executing(v), u \in Executing(w) :
            CanAssign[t, {u}] \/ CanAssign[u, {t}]

(* Hooks of the run keep their place across threads, whoever is slow or    *)
(* fails first: every worker has finished its BeforeAll hooks before a     *)
(* test case runs on any, and none starts its AfterAll hooks while one     *)
(* still runs; the coordinator's own run before any worker does anything   *)
(* for the run and after all have finished (docs/support_files/hooks.md:   *)
(* "they wrap the entire run").                                            *)
RunHooksBracketCases ==
    /\ \A v, w \in Workers :
           Executing(w) # {} =>
               /\ "BEFOREALL_HOOKS" \in hooksDone[v]
               /\ "AFTERALL_HOOKS" \notin hooksDone[v] \cup {c.type : c \in jobs[v]}
    /\ awaiting = "hooks" =>
           \A w \in Workers :
               /\ jobs[w] = {} /\ toWorker[w] = << >>
               /\ stage = "beforeAllHooks" => hooksDone[w] = {}

(* The test cases a worker has been told to run for real and not finished. *)
RealWork ==
    UNION { {c.case : c \in {d \in jobs[w] : d.type = "TEST_CASE" /\ ~Skips(d.failing)}}
              \cup {toWorker[w][i].case : i \in {j \in DOMAIN toWorker[w] :
                        toWorker[w][j].type = "TEST_CASE" /\ ~Skips(toWorker[w][j].failing)}}
            : w \in Workers }

(* Fail fast in parallel: once the adapter has heard of a failure, the     *)
(* cases still to be executed for real are only those already handed out.  *)
FailFastDrains ==
    [][FailFast /\ phase = "TEST_CASE" /\ failing => RealWork' \subseteq RealWork]_vars

(* What the run tells its listeners is what any run promises (TestRun).    *)
Period ==
    CASE stage \in {"setup", "beforeAllHooks"} -> "before"
      [] stage = "testCases" -> "cases"
      [] stage = "afterAllHooks" -> "after"
      [] stage = "teardown" -> "closing"
      [] stage = "returned" -> "ended"

Run == INSTANCE TestRun WITH period <- Period, verdict <- result

KeepsRunContract == Run!TestRunSpec

(* A loss the adapter hears of while it awaits the workers ends the run    *)
(* with an exception: no phase is left open behind a rejected one.         *)
HeardLossFailsRun ==
    (readiness = "rejected" \/ (awaiting = "phase" /\ settled = "rejected"))
        ~> (stage = "returned" /\ result = "exception")

(* Unless a worker is lost the run returns, whatever the assignment rule   *)
(* refuses and although only the worker that finishes is offered work.     *)
RunReturns == <>(stage = "returned" \/ lost # {})

(* features/parallel.feature: "a worker exiting unexpectedly fails the     *)
(* run" - so, at the least, the run comes to an end.                       *)
LossEndsRun == lost # {} ~> stage = "returned"
=============================================================================
