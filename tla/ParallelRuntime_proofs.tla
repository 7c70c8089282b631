------------------------ MODULE ParallelRuntime_proofs ------------------------
(***************************************************************************)
(* Safety of the parallel runtime, and what it tells its listeners, for    *)
(* every number of workers and of test cases, every assignment rule and    *)
(* every set of hooks, with any number of workers lost.                    *)
(***************************************************************************)
EXTENDS ParallelInvariant, ParallelAssignment, SequenceTheorems, FiniteSetTheorems, WellFoundedInduction, TLAPS

-----------------------------------------------------------------------------
(* The channel from a worker to the adapter. *)

(* Posting or delivering an event other than FINISHED adds none.           *)
LEMMA NoFinishedAppend ==
    ASSUME NEW events \in Seq(Event), NEW e \in Event, NoFinishedIn(events), ~IsFinished(e)
    PROVE  NoFinishedIn(Append(events, e))
  BY AppendProperties DEF NoFinishedIn

(* Taking the head of a channel adds no FINISHED event to what is left.    *)
LEMMA NoFinishedTail ==
    ASSUME NEW events \in Seq(Event), events # << >>, NoFinishedIn(events)
    PROVE  NoFinishedIn(Tail(events))
  BY HeadTailProperties DEF NoFinishedIn

(* A FINISHED event posted to a channel without one is its last.           *)
LEMMA FinishedAppend ==
    ASSUME NEW events \in Seq(Event), NEW e \in Event, NoFinishedIn(events), IsFinished(e)
    PROVE  FinishedLastIn(Append(events, e))
  BY AppendProperties DEF NoFinishedIn, FinishedLastIn

(* At the head it is alone; until then it stays the last.                  *)
LEMMA TailElements ==
    ASSUME NEW events \in Seq(Event), events # << >>
    PROVE  /\ Tail(events) \in Seq(Event)
           /\ Len(events) \in Nat \ {0}
           /\ Len(Tail(events)) = Len(events) - 1
           /\ \A i \in 1 .. Len(Tail(events)) : Tail(events)[i] = events[i + 1]
           /\ Head(events) = events[1]
  BY HeadTailProperties, LenProperties, EmptySeq

(* A FINISHED event that is last and at the head leaves none behind.       *)
LEMMA FinishedTailAlone ==
    ASSUME NEW events \in Seq(Event), FinishedLastIn(events), IsFinished(Head(events))
    PROVE  NoFinishedIn(Tail(events))
  <1>1. events # << >>
    BY DEF FinishedLastIn
  <1>2. Len(events) \in Nat \ {0} /\ Head(events) = events[1]
    BY <1>1, TailElements
  <1>3. Len(events) = 1
    BY <1>2 DEF FinishedLastIn
  <1>4. Len(Tail(events)) = 0
    BY <1>1, <1>3, TailElements
  <1>5. QED
    BY <1>4 DEF NoFinishedIn

(* While it is not at the head, the tail still ends with it.               *)
LEMMA FinishedTailLast ==
    ASSUME NEW events \in Seq(Event), FinishedLastIn(events), ~IsFinished(Head(events))
    PROVE  FinishedLastIn(Tail(events))
  <1>1. events # << >>
    BY DEF FinishedLastIn
  <1>2. Len(events) # 1
    BY <1>1, TailElements DEF FinishedLastIn
  <1>3. Tail(events) # << >>
    <2>1. Len(Tail(events)) # 0
      BY <1>1, <1>2, TailElements
    <2>2. Len(<< >>) = 0
      BY EmptySeq
    <2>3. QED
      BY <2>1, <2>2
  <1>4. IsFinished(Tail(events)[Len(Tail(events))])
    BY <1>1, <1>2, TailElements DEF FinishedLastIn
  <1>5. ASSUME NEW i \in 1 .. Len(Tail(events)), IsFinished(Tail(events)[i])
        PROVE  i = Len(Tail(events))
    BY <1>1, <1>5, TailElements DEF FinishedLastIn
  <1>6. QED
    BY <1>3, <1>4, <1>5 DEF FinishedLastIn

-----------------------------------------------------------------------------
(* Types. *)

(* The commands that the phases issue are commands.                        *)
LEMMA CommandTypes ==
    /\ \A t \in TestCases, b \in BOOLEAN : RunTestCase(t, b) \in Command
    /\ \A type \in HooksPhases : RunHooks(type) \in Command
    /\ NoCommand \notin Command
    /\ \A c \in Command : c.type \in HooksPhases \cup {"TEST_CASE"}
    /\ \A c \in Command : c.type = "TEST_CASE" => c.case \in TestCases
  BY DEF RunTestCase, RunHooks, NoCommand, Command, HooksPhases, NoCase

(* The events that the workers post are events.                            *)
LEMMA EventTypes ==
    /\ Ready \in Event
    /\ \A t \in TestCases : Envelope(t, "started") \in Event
    /\ \A t \in TestCases, b \in BOOLEAN : Envelope(t, Outcome(b)) \in Event
    /\ \A b \in BOOLEAN : Finished(b) \in Event
  BY DEF Ready, Envelope, Finished, Outcome, Event

(* A test case or a loop of hooks ends with a Boolean outcome.             *)
LEMMA SuccessTypes ==
    /\ \A fails : TestCaseSuccesses(fails) \subseteq BOOLEAN
    /\ \A hooks : HookLoopSuccesses(hooks) \subseteq BOOLEAN
  BY DEF TestCaseSuccesses, ShouldCauseFailure, HookLoopSuccesses

-----------------------------------------------------------------------------
(* The initial states. *)

(* The invariant holds before anything has happened.                       *)
LEMMA InitWorkInv == Init => WorkInv
  <1> SUFFICES ASSUME Init PROVE WorkInv
    OBVIOUS
  <1> USE ParallelAssumption, TestCasesAssumption, ExecutorAssumption
  <1>1. TypeOK
    <2>1. CoordinatorTypeOK /\ ExecutorTypeOK /\ PhaseTypeOK /\ ReportedTypeOK
      BY DEF Init, CoordinatorInit, CoordinatorTypeOK, ExecutorInit, ExecutorTypeOK,
             PhaseInit, PhaseTypeOK, ReportedTypeOK, Stages, Phases, Results
    <2>2. AdapterTypeOK
      <3>1. running \in [Workers -> Command \cup {NoCommand}]
        BY DEF Init
      <3>2. filled \in 0 .. NumWorkers /\ tornDown \in 0 .. NumWorkers
        BY DEF Init
      <3>3. QED
        BY <3>1, <3>2 DEF Init, AdapterTypeOK
    <2>3. WorkersTypeOK
      BY DEF Init, WorkersTypeOK
    <2>4. QED
      BY <2>1, <2>2, <2>3 DEF TypeOK
  <1>2. Busy = {}
    BY DEF Init, Busy
  <1>3. CommandInOnePlace /\ LoadingIsQuiet
    BY DEF Init, CommandInOnePlace, LoadingIsQuiet, InOnePlace, QuietWhileLoading, WorkerIdle,
           NoFinishedIn
  <1>4. RunningOfPhase
    BY <1>2 DEF Init, PhaseInit, RunningOfPhase, HooksPhases
  <1>5. PhaseOfStage /\ FillProgress /\ ResolvedIsDrained /\ PendingIsBusy
    BY DEF Init, PhaseInit, CoordinatorInit, PhaseOfStage, FillProgress, ResolvedIsDrained,
           PendingIsBusy
  <1>6. QED
    BY <1>1, <1>3, <1>4, <1>5 DEF WorkInv

-----------------------------------------------------------------------------
(* Types are preserved. *)

(* Every step keeps the coordinator's variables in their types.            *)
LEMMA CoordinatorTypeStep ==
    ASSUME CoordinatorTypeOK, [Next]_vars
    PROVE  CoordinatorTypeOK'
  <1> USE DEF CoordinatorTypeOK, Stages, Phases, Results
  <1>1. CASE UNCHANGED coordinatorVars
    BY <1>1 DEF coordinatorVars
  <1>2. CASE SetupResolves
    BY <1>2 DEF SetupResolves, SetupSettled
  <1>3. CASE BeforeAllHooksResolve
    BY <1>3 DEF BeforeAllHooksResolve, BeforeAllHooksSettled
  <1>4. CASE TestCasesResolve
    BY <1>4 DEF TestCasesResolve, TestCasesSettled, PhaseOk
  <1>5. CASE AfterAllHooksResolve
    BY <1>5 DEF AfterAllHooksResolve, AfterAllHooksSettled
  <1>6. CASE Rejected
    BY <1>6 DEF Rejected, Caught
  <1>7. CASE Return
    BY <1>7 DEF Return, TeardownSettled
  <1>8. QED
    BY <1>1, <1>2, <1>3, <1>4, <1>5, <1>6, <1>7
    DEF Next, Continue, Handle, Work, vars, UNCHANGED_main, Returned,
        StartBeforeAllHooksPhase, Fill, AfterAllHooksPhaseResolves, RunCoordinatorHook,
        TeardownWorker, HandleReady, HandleEnvelope, HandleFinished, HandleError, HandleExit,
        WorkerReady, WorkerTakes, WorkerFinishes, WorkerLost

(* Every step keeps the executor's variables in their types.               *)
LEMMA ExecutorTypeStep ==
    ASSUME ExecutorTypeOK, [Next]_vars
    PROVE  ExecutorTypeOK'
  <1> USE DEF ExecutorTypeOK
  <1>1. CASE UNCHANGED executorVars
    BY <1>1 DEF executorVars
  <1>2. CASE SetupResolves
    BY <1>2 DEF SetupResolves, BeginHooks
  <1>3. CASE AfterAllHooksPhaseResolves
    BY <1>3 DEF AfterAllHooksPhaseResolves, BeginHooks
  <1>4. CASE RunCoordinatorHook
    BY <1>4 DEF RunCoordinatorHook, RunBeforeAllHook, RunAfterAllHook, RunTestRunHook
  <1>5. QED
    BY <1>1, <1>2, <1>3, <1>4
    DEF Next, Continue, Handle, Work, vars, UNCHANGED_main, Returned,
        StartBeforeAllHooksPhase, BeforeAllHooksResolve, TestCasesResolve, AfterAllHooksResolve,
        Rejected, Return, Fill,
        TeardownWorker, HandleReady, HandleEnvelope, HandleFinished, HandleError, HandleExit,
        WorkerReady, WorkerTakes, WorkerFinishes, WorkerLost

(* Issuing a command keeps `running` and the channels to workers typed.    *)
LEMMA IssueTypes ==
    ASSUME TypeOK, NEW w \in Workers, NEW c \in Command, Issue(w, c)
    PROVE  /\ running' \in [Workers -> Command \cup {NoCommand}]
           /\ toWorker' \in [Workers -> Seq(Command)]
  BY DEF Issue, Post, TypeOK, AdapterTypeOK, WorkersTypeOK

(* What the current phase may ask for: a queued case, with what the phase  *)
(* knows by then of failures, or its hooks.                                *)
OfPhase(c) ==
    /\ c \in Command
    /\ c.type = phase
    /\ phase = "TEST_CASE" => c.case \in queue /\ c.failing = failing'

(* What a worker is given next is one command, if it is given any.         *)
LEMMA FillIssues ==
    ASSUME TypeOK, NEW w \in Workers, Fill(w)
    PROVE  \/ \E c \in Command : Issue(w, c) /\ OfPhase(c)
           \/ UNCHANGED <<running, toWorker>>
  <1>1. CASE FillHooks(w)
    BY <1>1, CommandTypes DEF FillHooks, RunHooks, OfPhase, HooksPhases
  <1>2. CASE FillTestCases(w)
    <2>1. Select(inProgress) \subseteq queue /\ queue \subseteq TestCases
      BY DEF Select, Candidates, TypeOK, PhaseTypeOK
    <2>2. CASE Select(inProgress) = {}
      BY <1>2, <2>2 DEF FillTestCases
    <2>3. CASE Select(inProgress) # {}
      <3>1. PICK t \in queue : Issue(w, RunTestCase(t, failing)) /\ phase = "TEST_CASE"
        BY <1>2, <2>1, <2>3 DEF FillTestCases
      <3>2. RunTestCase(t, failing) \in Command
        BY <2>1, <3>1, CommandTypes DEF TypeOK, PhaseTypeOK
      <3>3. OfPhase(RunTestCase(t, failing))
        BY <1>2, <3>1, <3>2 DEF RunTestCase, OfPhase, FillTestCases
      <3>4. QED
        BY <3>1, <3>2, <3>3
    <2>4. QED
      BY <2>2, <2>3
  <1>3. QED
    BY <1>1, <1>2 DEF Fill

(* When a phase hears that a worker is done it frees it or issues one more. *)
LEMMA FinishedIssues ==
    ASSUME TypeOK, NEW w \in Workers, HandleFinished(w)
    PROVE  \/ \E c \in Command : Issue(w, c) /\ OfPhase(c)
           \/ running' = [running EXCEPT ![w] = NoCommand] /\ UNCHANGED toWorker
  <1> DEFINE success == Head(fromWorker[w]).says = "passed"
             left == inProgress \ {running[w].case}
  <1>1. CASE NextHooks(w, success)
    BY <1>1 DEF NextHooks
  <1>2. CASE NextTestCase(w, success)
    <2>1. Select(left) \subseteq queue /\ queue \subseteq TestCases
      BY DEF Select, Candidates, TypeOK, PhaseTypeOK
    <2>2. failing' \in BOOLEAN /\ phase = "TEST_CASE"
      BY <1>2 DEF NextTestCase, TypeOK, PhaseTypeOK
    <2>3. ASSUME NEW t \in Select(left), Issue(w, RunTestCase(t, failing'))
          PROVE  \E c \in Command : Issue(w, c) /\ OfPhase(c)
      <3>1. RunTestCase(t, failing') \in Command
        BY <2>1, <2>2, CommandTypes
      <3>2. OfPhase(RunTestCase(t, failing'))
        BY <2>1, <2>2, <3>1 DEF RunTestCase, OfPhase
      <3>3. QED
        BY <2>3, <3>1, <3>2
    <2>4. QED
      BY <1>2, <2>3 DEF NextTestCase
  <1>3. QED
    BY <1>1, <1>2 DEF HandleFinished

(* Every step keeps the workers and their channels in their types.         *)
LEMMA WorkersTypeStep ==
    ASSUME TypeOK, [Next]_vars
    PROVE  WorkersTypeOK'
  <1> USE DEF TypeOK, WorkersTypeOK
  <1>1. CASE UNCHANGED workerVars
    BY <1>1 DEF workerVars
  <1>2. ASSUME NEW w \in Workers, Fill(w)
        PROVE  WorkersTypeOK'
    BY <1>2, FillIssues, IssueTypes DEF Fill
  <1>3. ASSUME NEW w \in Workers, TeardownWorker(w)
        PROVE  WorkersTypeOK'
    BY <1>3 DEF TeardownWorker
  <1>4. ASSUME NEW w \in Workers, HandleReady(w) \/ HandleEnvelope(w)
        PROVE  WorkersTypeOK'
    <2>1. fromWorker' \in [Workers -> Seq(Event)]
      <3>1. fromWorker[w] \in Seq(Event) /\ fromWorker[w] # << >> /\ Consume(w)
        BY <1>4 DEF HandleReady, HandleEnvelope, Arrived
      <3>2. Tail(fromWorker[w]) \in Seq(Event)
        BY <3>1, TailElements
      <3>3. QED
        BY <3>1, <3>2 DEF Consume
    <2>2. QED
      BY <1>4, <2>1 DEF HandleReady, HandleEnvelope
  <1>5. ASSUME NEW w \in Workers, HandleFinished(w)
        PROVE  WorkersTypeOK'
    <2>1. toWorker' \in [Workers -> Seq(Command)]
      BY <1>5, FinishedIssues, IssueTypes
    <2>2. fromWorker' \in [Workers -> Seq(Event)]
      BY <1>5, TailElements DEF HandleFinished, Arrived, Consume
    <2>3. QED
      BY <1>5, <2>1, <2>2 DEF HandleFinished
  <1>6. ASSUME NEW w \in Workers, HandleError(w) \/ HandleExit(w)
        PROVE  WorkersTypeOK'
    BY <1>6 DEF HandleError, HandleExit
  <1>7. ASSUME NEW w \in Workers, WorkerReady(w)
        PROVE  WorkersTypeOK'
    BY <1>7, EventTypes DEF WorkerReady
  <1>8. ASSUME NEW w \in Workers, WorkerTakes(w)
        PROVE  WorkersTypeOK'
    <2>1. toWorker[w] \in Seq(Command) /\ toWorker[w] # << >>
      BY <1>8 DEF WorkerTakes
    <2>2. Head(toWorker[w]) \in Command /\ Tail(toWorker[w]) \in Seq(Command)
      BY <2>1, HeadTailProperties
    <2>3. jobs' \in [Workers -> SUBSET Command] /\ toWorker' \in [Workers -> Seq(Command)]
      BY <1>8, <2>2 DEF WorkerTakes
    <2>4. fromWorker' \in [Workers -> Seq(Event)]
      BY <1>8, <2>2, CommandTypes, EventTypes DEF WorkerTakes
    <2>5. QED
      BY <1>8, <2>3, <2>4 DEF WorkerTakes
  <1>9. ASSUME NEW w \in Workers, WorkerFinishes(w)
        PROVE  WorkersTypeOK'
    <2>1. PICK command \in jobs[w] :
              /\ WorkerFinishesCase(w, command) \/ WorkerFinishesHooks(w, command)
              /\ jobs' = [jobs EXCEPT ![w] = @ \ {command}]
              /\ UNCHANGED <<thread, toWorker, signals, lost>>
      BY <1>9 DEF WorkerFinishes
    <2>2. command \in Command
      BY <2>1
    <2>3. CASE WorkerFinishesCase(w, command)
      <3>1. PICK success \in BOOLEAN :
                fromWorker' = [fromWorker EXCEPT ![w] =
                    Append(Append(@, Envelope(command.case, Outcome(success))), Finished(success))]
        BY <2>3, SuccessTypes DEF WorkerFinishesCase
      <3>2. Envelope(command.case, Outcome(success)) \in Event /\ Finished(success) \in Event
        BY <2>2, <2>3, CommandTypes, EventTypes DEF WorkerFinishesCase
      <3>3. fromWorker' \in [Workers -> Seq(Event)]
        BY <3>1, <3>2
      <3>4. QED
        BY <2>1, <2>3, <3>3 DEF WorkerFinishesCase
    <2>4. CASE WorkerFinishesHooks(w, command)
      <3>1. fromWorker' \in [Workers -> Seq(Event)]
        BY <2>4, SuccessTypes, EventTypes DEF WorkerFinishesHooks
      <3>2. hooksDone' \in [Workers -> SUBSET HooksPhases]
        BY <2>4 DEF WorkerFinishesHooks
      <3>3. QED
        BY <2>1, <3>1, <3>2
    <2>5. QED
      BY <2>1, <2>3, <2>4
  <1>10. ASSUME NEW w \in Workers, WorkerLost(w)
        PROVE  WorkersTypeOK'
    <2>1. thread' \in [Workers -> {"loading", "listening", "dead"}]
          /\ signals' \in [Workers -> SUBSET {"error", "exit"}]
      <3>1. thread' = [thread EXCEPT ![w] = "dead"]
        BY <1>10 DEF WorkerLost
      <3>2. PICK cause \in {{"exit"}, {"error", "exit"}} : signals' = [signals EXCEPT ![w] = cause]
        BY <1>10 DEF WorkerLost
      <3>3. cause \in SUBSET {"error", "exit"}
        OBVIOUS
      <3>4. QED
        BY <3>1, <3>2, <3>3
    <2>2. /\ jobs' \in [Workers -> SUBSET Command]
          /\ toWorker' \in [Workers -> Seq(Command)]
      BY <1>10 DEF WorkerLost
    <2>3. QED
      BY <1>10, <2>1, <2>2 DEF WorkerLost
  <1>11. QED
    BY <1>1, <1>2, <1>3, <1>4, <1>5, <1>6, <1>7, <1>8, <1>9, <1>10
    DEF Next, Continue, Handle, Work, vars, UNCHANGED_workers, Returned,
        SetupResolves, RunCoordinatorHook, StartBeforeAllHooksPhase, BeforeAllHooksResolve,
        TestCasesResolve, AfterAllHooksPhaseResolves, AfterAllHooksResolve, Rejected, Return

(* Every step keeps what is reported of each test case in its type.        *)
LEMMA ReportedTypeStep ==
    ASSUME TypeOK, [Next]_vars
    PROVE  ReportedTypeOK'
  <1> USE DEF TypeOK, ReportedTypeOK
  <1>1. CASE UNCHANGED reported
    BY <1>1
  <1>2. ASSUME NEW w \in Workers, HandleEnvelope(w)
        PROVE  ReportedTypeOK'
    <2>1. Head(fromWorker[w]) \in Event
      BY <1>2, HeadTailProperties DEF HandleEnvelope, Arrived, WorkersTypeOK
    <2>2. /\ Head(fromWorker[w]).case \in TestCases
          /\ Head(fromWorker[w]).says \in {"started", "passed", "failed"}
      BY <1>2, <2>1 DEF HandleEnvelope, Event
    <2>3. QED
      BY <1>2, <2>2 DEF HandleEnvelope
  <1>3. QED
    BY <1>1, <1>2
    DEF Next, Continue, Handle, Work, vars, UNCHANGED_workers, UNCHANGED_main, Returned,
        SetupResolves, RunCoordinatorHook, StartBeforeAllHooksPhase, BeforeAllHooksResolve,
        TestCasesResolve, AfterAllHooksPhaseResolves, AfterAllHooksResolve, Rejected, Return,
        Fill, TeardownWorker, HandleReady, HandleFinished, HandleError, HandleExit,
        WorkerReady, WorkerTakes, WorkerFinishes, WorkerLost

(* Every step keeps the adapter's variables in their types.                *)
LEMMA AdapterTypeStep ==
    ASSUME TypeOK, [Next]_vars
    PROVE  AdapterTypeOK'
  <1> USE DEF TypeOK, AdapterTypeOK
  <1>1. CASE UNCHANGED adapterVars
    BY <1>1 DEF adapterVars
  <1>3. ASSUME NEW w \in Workers, Fill(w)
        PROVE  AdapterTypeOK'
    <2>1. running' \in [Workers -> Command \cup {NoCommand}]
      BY <1>3, FillIssues, IssueTypes
    <2>2. filled' \in 0 .. NumWorkers
      BY <1>3, ParallelAssumption DEF Fill, Workers
    <2>3. QED
      BY <1>3, <2>1, <2>2 DEF Fill
  <1>4. ASSUME NEW w \in Workers, TeardownWorker(w)
        PROVE  AdapterTypeOK'
    BY <1>4, ParallelAssumption DEF TeardownWorker, Workers
  <1>5. ASSUME NEW w \in Workers, HandleReady(w) \/ HandleError(w) \/ HandleExit(w)
        PROVE  AdapterTypeOK'
    BY <1>5 DEF HandleReady, HandleError, HandleExit, Fail
  <1>6. ASSUME NEW w \in Workers, HandleFinished(w)
        PROVE  AdapterTypeOK'
    <2>1. running' \in [Workers -> Command \cup {NoCommand}]
      BY <1>6, FinishedIssues, IssueTypes
    <2>2. QED
      BY <1>6, <2>1 DEF HandleFinished
  <1>7. CASE Continue
    <2>1. CASE SetupResolves
      BY <2>1 DEF SetupResolves
    <2>2. CASE StartBeforeAllHooksPhase
      BY <2>2, ParallelAssumption DEF StartBeforeAllHooksPhase, StartPhase
    <2>3. CASE BeforeAllHooksResolve
      BY <2>3, ParallelAssumption DEF BeforeAllHooksResolve, StartPhase
    <2>4. CASE TestCasesResolve
      BY <2>4, ParallelAssumption DEF TestCasesResolve, StartPhase
    <2>5. CASE AfterAllHooksPhaseResolves
      BY <2>5 DEF AfterAllHooksPhaseResolves, PhaseOk
    <2>6. CASE AfterAllHooksResolve
      BY <2>6 DEF AfterAllHooksResolve, EnterTeardown
    <2>7. CASE Rejected
      BY <2>7 DEF Rejected, EnterTeardown
    <2>8. CASE Return
      BY <2>8 DEF Return
    <2>9. QED
      BY <1>3, <1>7, <2>1, <2>2, <2>3, <2>4, <2>5, <2>6, <2>7, <2>8 DEF Continue
  <1>8. QED
    BY <1>1, <1>4, <1>5, <1>6, <1>7
    DEF Next, Handle, Work, vars, UNCHANGED_main, Returned, RunCoordinatorHook,
        HandleEnvelope, WorkerReady, WorkerTakes, WorkerFinishes, WorkerLost

-----------------------------------------------------------------------------
(* The workers the current phase has given work to. *)

(* The busy workers are finitely many, and counted zero only if there are none. *)
LEMMA BusyCounts ==
    /\ IsFiniteSet(Busy)
    /\ Cardinality(Busy) \in Nat
    /\ Cardinality(Busy) = 0 <=> Busy = {}
  <1>1. IsFiniteSet(Workers)
    BY FS_Interval, ParallelAssumption DEF Workers
  <1>2. IsFiniteSet(Busy)
    BY <1>1, FS_Subset DEF Busy
  <1>3. QED
    BY <1>2, FS_CardinalityType, FS_EmptySet

(* A FINISHED event at the head of a channel ends the command that was     *)
(* last issued to that worker, and is the only trace of it.                *)
LEMMA FinishedEndsCommand ==
    ASSUME WorkInv, NEW w \in Workers, HandleFinished(w)
    PROVE  /\ w \in Busy
           /\ running[w] \in Command
           /\ running[w].type = phase
           /\ CommandFinished(w)
           /\ NoFinishedIn(Tail(fromWorker[w]))
  <1> USE DEF WorkInv, TypeOK
  <1>1. /\ fromWorker[w] \in Seq(Event)
        /\ fromWorker[w] # << >>
        /\ IsFinished(Head(fromWorker[w]))
    BY DEF HandleFinished, Arrived, IsFinished, WorkersTypeOK
  <1>2. ~NoFinishedIn(fromWorker[w])
    BY <1>1, TailElements DEF NoFinishedIn
  <1>3. CommandFinished(w) /\ running[w] # NoCommand
    BY <1>2 DEF CommandInOnePlace, InOnePlace, WorkerIdle, CommandPosted, CommandTaken
  <1>4. NoFinishedIn(Tail(fromWorker[w]))
    BY <1>1, <1>3, FinishedTailAlone DEF CommandFinished
  <1>5. QED
    BY <1>3, <1>4 DEF Busy, RunningOfPhase, AdapterTypeOK

(* `select` only ever picks what is queued.                                *)
LEMMA SelectQueued ==
    \A beside : Select(beside) \subseteq queue
  BY DEF Select, Candidates

(* Every step keeps the phase typed: `waiting` never goes below zero.      *)
LEMMA PhaseTypeStep ==
    ASSUME WorkInv, [Next]_vars
    PROVE  PhaseTypeOK'
  <1> PhaseTypeOK
    BY DEF WorkInv, TypeOK
  <1> USE DEF PhaseTypeOK
  <1>1. CASE UNCHANGED phaseVars
    BY <1>1 DEF phaseVars
  <1>2. ASSUME NEW type \in HooksPhases, NewHooksPhase(type)
        PROVE  PhaseTypeOK'
    BY <1>2 DEF NewHooksPhase
  <1>3. CASE StartBeforeAllHooksPhase \/ TestCasesResolve \/ BeforeAllHooksResolve
    <2>1. CASE NewTestCasesPhase
      BY <2>1 DEF NewTestCasesPhase
    <2>2. "BEFOREALL_HOOKS" \in HooksPhases /\ "AFTERALL_HOOKS" \in HooksPhases
      BY DEF HooksPhases
    <2>3. QED
      BY <1>2, <1>3, <2>1, <2>2
      DEF StartBeforeAllHooksPhase, TestCasesResolve, BeforeAllHooksResolve
  <1>4. CASE AfterAllHooksPhaseResolves
    BY <1>4 DEF AfterAllHooksPhaseResolves, DeletePhase
  <1>5. ASSUME NEW w \in Workers, Fill(w)
        PROVE  PhaseTypeOK'
    <2>1. CASE FillHooks(w)
      BY <2>1 DEF FillHooks
    <2>2. CASE FillTestCases(w)
      BY <2>2, SelectQueued DEF FillTestCases, Dequeue
    <2>3. QED
      BY <1>5, <2>1, <2>2 DEF Fill
  <1>6. ASSUME NEW w \in Workers, HandleFinished(w)
        PROVE  PhaseTypeOK'
    <2> DEFINE success == Head(fromWorker[w]).says = "passed"
    <2>1. CASE NextHooks(w, success)
      <3>1. waiting \in Nat \ {0}
        BY <1>6, <2>1, FinishedEndsCommand, BusyCounts
        DEF NextHooks, WorkInv, RunningOfPhase
      <3>2. QED
        BY <2>1, <3>1 DEF NextHooks, Settle, Verdict
    <2>2. CASE NextTestCase(w, success)
      <3> DEFINE left == inProgress \ {running[w].case}
      <3>1. failing' \in BOOLEAN /\ UNCHANGED <<phase, waiting>>
        BY <2>2 DEF NextTestCase
      <3>2. settled' \in {"pending", "success", "failure", "rejected"}
        BY <2>2 DEF NextTestCase, Settle, Verdict
      <3>3. queue' \subseteq TestCases /\ inProgress' \subseteq TestCases
        BY <2>2, SelectQueued DEF NextTestCase, Dequeue
      <3>4. QED
        BY <3>1, <3>2, <3>3
    <2>3. QED
      BY <1>6, <2>1, <2>2 DEF HandleFinished
  <1>7. ASSUME NEW w \in Workers, HandleError(w) \/ HandleExit(w)
        PROVE  PhaseTypeOK'
    BY <1>7 DEF HandleError, HandleExit, Fail, Settle, phaseVars
  <1>8. QED
    BY <1>1, <1>2, <1>3, <1>4, <1>5, <1>6, <1>7
    DEF Next, Continue, Handle, Work, vars, UNCHANGED_main, Returned,
        SetupResolves, RunCoordinatorHook, AfterAllHooksResolve, Rejected, Return,
        TeardownWorker, HandleReady, HandleEnvelope,
        WorkerReady, WorkerTakes, WorkerFinishes, WorkerLost

(* Together: every step keeps the type invariant.                          *)
LEMMA TypeStep ==
    ASSUME WorkInv, [Next]_vars
    PROVE  TypeOK'
  BY CoordinatorTypeStep, ExecutorTypeStep, WorkersTypeStep, ReportedTypeStep,
     AdapterTypeStep, PhaseTypeStep
  DEF WorkInv, TypeOK

-----------------------------------------------------------------------------
(* A command is in one place only. *)

(* The continuations of the coordinator that post nothing.                 *)
Continuation ==
    \/ SetupResolves
    \/ RunCoordinatorHook
    \/ StartBeforeAllHooksPhase
    \/ BeforeAllHooksResolve
    \/ TestCasesResolve
    \/ AfterAllHooksPhaseResolves
    \/ AfterAllHooksResolve
    \/ Rejected
    \/ Return

(* The coroutine's own continuations leave workers and channels alone.     *)
LEMMA ContinuationLeavesWorkers ==
    ASSUME Continuation
    PROVE  UNCHANGED <<workerVars, running>>
  BY DEF Continuation, UNCHANGED_workers, adapterVars, SetupResolves, RunCoordinatorHook,
         StartBeforeAllHooksPhase, BeforeAllHooksResolve, TestCasesResolve,
         AfterAllHooksPhaseResolves, AfterAllHooksResolve, Rejected, Return

(* What happens at one worker leaves the commands of the others in place.  *)
LEMMA ElsewhereUnchanged ==
    ASSUME NEW v \in Workers, InOnePlace(v), QuietWhileLoading(v),
           running'[v] = running[v], thread'[v] = thread[v], jobs'[v] = jobs[v],
           toWorker'[v] = toWorker[v], fromWorker'[v] = fromWorker[v]
    PROVE  InOnePlace(v)' /\ QuietWhileLoading(v)'
  BY DEF InOnePlace, QuietWhileLoading, WorkerIdle, CommandPosted, CommandTaken,
         CommandFinished

(* An event at one worker leaves the other workers alone.                  *)
LEMMA OtherWorkersUnchanged ==
    ASSUME TypeOK, NEW v \in Workers, NEW w \in Workers, w # v,
           Fill(w) \/ TeardownWorker(w) \/ Handle(w) \/ Work(w) \/ WorkerLost(w)
    PROVE  /\ thread'[v] = thread[v] /\ jobs'[v] = jobs[v] /\ fromWorker'[v] = fromWorker[v]
           /\ running'[v] = running[v] /\ toWorker'[v] = toWorker[v]
  <1> USE DEF TypeOK, AdapterTypeOK, WorkersTypeOK
  <1>1. thread'[v] = thread[v] /\ jobs'[v] = jobs[v] /\ fromWorker'[v] = fromWorker[v]
    BY DEF Fill, TeardownWorker, Handle, Work, WorkerLost, HandleReady, HandleEnvelope,
           HandleFinished, HandleError, HandleExit, Consume, WorkerReady, WorkerTakes,
           WorkerFinishes, WorkerFinishesCase, WorkerFinishesHooks
  <1>2. CASE Fill(w) \/ HandleFinished(w)
    <2>1. \/ \E c \in Command : Issue(w, c)
          \/ UNCHANGED <<running, toWorker>>
          \/ running' = [running EXCEPT ![w] = NoCommand] /\ UNCHANGED toWorker
      BY <1>2, FillIssues, FinishedIssues
    <2>2. QED
      BY <1>1, <2>1 DEF Issue, Post
  <1>3. CASE ~Fill(w) /\ ~HandleFinished(w)
    BY <1>1, <1>3
    DEF TeardownWorker, Handle, Work, WorkerLost, HandleReady, HandleEnvelope,
        HandleError, HandleExit, WorkerReady, WorkerTakes, WorkerFinishes,
        UNCHANGED_main, adapterVars
  <1>4. QED
    BY <1>2, <1>3

(* A command issued to an idle worker is in one place: its channel.        *)
LEMMA IssueInOnePlace ==
    ASSUME TypeOK, NEW w \in Workers, NEW c \in Command, Issue(w, c),
           toWorker[w] = << >>, jobs'[w] = {}, NoFinishedIn(fromWorker'[w]), thread' = thread
    PROVE  InOnePlace(w)'
  <1>1. running'[w] = c /\ c # NoCommand
    BY CommandTypes DEF Issue, TypeOK, AdapterTypeOK
  <1>2. toWorker'[w] = IF thread[w] = "dead" THEN << >> ELSE <<c>>
    BY DEF Issue, Post, TypeOK, WorkersTypeOK
  <1>3. QED
    BY <1>1, <1>2 DEF InOnePlace, WorkerIdle, CommandPosted

(* startPhase only fills workers that have nothing.                        *)
LEMMA FillsTheIdle ==
    ASSUME WorkInv, NEW w \in Workers, Fill(w)
    PROVE  w \notin Busy
  <1>1. filled \in Nat /\ w = filled + 1 /\ awaiting = "fill"
    BY ParallelAssumption DEF Fill, WorkInv, TypeOK, AdapterTypeOK
  <1>2. w > filled
    BY <1>1
  <1>3. running[w] = NoCommand
    BY <1>1, <1>2 DEF WorkInv, FillProgress
  <1>4. QED
    BY <1>3 DEF Busy

(* Every step keeps each command in one place.                             *)
LEMMA InOnePlaceStep ==
    ASSUME WorkInv, [Next]_vars
    PROVE  CommandInOnePlace' /\ LoadingIsQuiet'
  <1> TypeOK /\ AdapterTypeOK /\ WorkersTypeOK
    BY DEF WorkInv, TypeOK
  <1> USE DEF AdapterTypeOK, WorkersTypeOK
  <1>1. SUFFICES ASSUME NEW v \in Workers
                 PROVE  InOnePlace(v)' /\ QuietWhileLoading(v)'
    BY DEF CommandInOnePlace, LoadingIsQuiet
  <1>2. InOnePlace(v) /\ QuietWhileLoading(v)
    BY DEF WorkInv, CommandInOnePlace, LoadingIsQuiet
  <1>3. CASE UNCHANGED <<workerVars, running>>
    BY <1>2, <1>3, ElsewhereUnchanged DEF workerVars
  <1>4. CASE Fill(v)
    <2>1. WorkerIdle(v)
      BY <1>2, <1>4, FillsTheIdle DEF InOnePlace, Busy
    <2>2. UNCHANGED <<thread, jobs, fromWorker>>
      BY <1>4 DEF Fill
    <2>3. CASE UNCHANGED <<running, toWorker>>
      BY <1>2, <2>2, <2>3, ElsewhereUnchanged
    <2>4. ASSUME NEW c \in Command, Issue(v, c)
          PROVE  InOnePlace(v)'
      BY <2>1, <2>2, <2>4, IssueInOnePlace DEF WorkerIdle
    <2>5. QuietWhileLoading(v)'
      BY <1>2, <2>2 DEF QuietWhileLoading
    <2>6. QED
      BY <1>4, <2>3, <2>4, <2>5, FillIssues
  <1>5. CASE TeardownWorker(v)
    BY <1>2, <1>5
    DEF TeardownWorker, InOnePlace, QuietWhileLoading, WorkerIdle, NoFinishedIn
  <1>6. CASE HandleReady(v) \/ HandleEnvelope(v)
    <2>1. /\ fromWorker[v] \in Seq(Event)
          /\ fromWorker[v] # << >>
          /\ ~IsFinished(Head(fromWorker[v]))
      BY <1>6 DEF HandleReady, HandleEnvelope, Arrived, IsFinished
    <2>2. fromWorker'[v] = Tail(fromWorker[v])
      BY <1>6 DEF HandleReady, HandleEnvelope, Consume
    <2>3. NoFinishedIn(fromWorker[v]) => NoFinishedIn(fromWorker'[v])
      BY <2>1, <2>2, NoFinishedTail
    <2>4. FinishedLastIn(fromWorker[v]) => FinishedLastIn(fromWorker'[v])
      BY <2>1, <2>2, FinishedTailLast
    <2>5. UNCHANGED <<thread, jobs, toWorker, running>>
      BY <1>6 DEF HandleReady, HandleEnvelope, adapterVars
    <2>6. QED
      BY <1>2, <2>3, <2>4, <2>5
      DEF InOnePlace, QuietWhileLoading, WorkerIdle, CommandPosted, CommandTaken,
          CommandFinished
  <1>7. CASE HandleFinished(v)
    <2>1. CommandFinished(v) /\ NoFinishedIn(Tail(fromWorker[v]))
      BY <1>7, FinishedEndsCommand
    <2>2. fromWorker'[v] = Tail(fromWorker[v]) /\ UNCHANGED <<thread, jobs>>
      BY <1>7 DEF HandleFinished, Consume
    <2>3. CASE running' = [running EXCEPT ![v] = NoCommand] /\ UNCHANGED toWorker
      <3>1. running'[v] = NoCommand /\ toWorker'[v] = << >> /\ jobs'[v] = {}
        BY <2>1, <2>2, <2>3 DEF CommandFinished
      <3>2. NoFinishedIn(fromWorker'[v])
        BY <2>1, <2>2
      <3>3. QED
        BY <2>1, <2>2, <3>1, <3>2
        DEF InOnePlace, WorkerIdle, QuietWhileLoading, CommandFinished
    <2>4. ASSUME NEW c \in Command, Issue(v, c)
          PROVE  InOnePlace(v)'
      BY <2>1, <2>2, <2>4, IssueInOnePlace DEF CommandFinished
    <2>5. QuietWhileLoading(v)'
      BY <2>1, <2>2 DEF QuietWhileLoading, CommandFinished
    <2>6. QED
      BY <1>7, <2>3, <2>4, <2>5, FinishedIssues
  <1>8. CASE HandleError(v) \/ HandleExit(v)
    BY <1>2, <1>8, ElsewhereUnchanged DEF HandleError, HandleExit
  <1>9. CASE WorkerReady(v)
    <2>1. NoFinishedIn(fromWorker[v]) /\ jobs[v] = {}
      BY <1>2, <1>9 DEF WorkerReady, QuietWhileLoading
    <2>2. fromWorker'[v] = Append(fromWorker[v], Ready) /\ thread'[v] = "listening"
      BY <1>9 DEF WorkerReady
    <2>3. NoFinishedIn(fromWorker'[v])
      BY <2>1, <2>2, NoFinishedAppend, EventTypes DEF IsFinished, Ready
    <2>4. UNCHANGED <<jobs, toWorker, running>>
      BY <1>9 DEF WorkerReady, UNCHANGED_main, adapterVars
    <2>5. fromWorker[v] # << >> => ~FinishedLastIn(fromWorker[v])
      BY <2>1, LenProperties, EmptySeq DEF NoFinishedIn, FinishedLastIn
    <2>6. InOnePlace(v)'
      BY <1>2, <1>9, <2>1, <2>3, <2>4, <2>5
      DEF InOnePlace, WorkerIdle, CommandPosted, CommandTaken, CommandFinished,
          FinishedLastIn, WorkerReady
    <2>7. QED
      BY <2>2, <2>6 DEF QuietWhileLoading
  <1>10. CASE WorkerTakes(v)
    <2>1. CommandPosted(v)
      BY <1>2, <1>10 DEF WorkerTakes, InOnePlace, WorkerIdle, CommandTaken, CommandFinished
    <2>2. Head(toWorker[v]) = running[v] /\ Tail(toWorker[v]) = << >>
      BY <2>1 DEF CommandPosted
    <2>3. toWorker'[v] = << >> /\ jobs'[v] = {running[v]}
      BY <1>10, <2>1, <2>2 DEF WorkerTakes, CommandPosted
    <2>4. NoFinishedIn(fromWorker'[v])
      <3>1. CASE running[v].type = "TEST_CASE"
        <4> DEFINE started == Envelope(running[v].case, "started")
        <4>1. running[v] \in Command
          BY <2>1, <2>2, <1>10, HeadTailProperties DEF WorkerTakes
        <4>2. started \in Event
          BY <3>1, <4>1, CommandTypes, EventTypes
        <4>3. ~IsFinished(started)
          BY DEF IsFinished, Envelope
        <4>4. fromWorker'[v] = Append(fromWorker[v], started)
          BY <1>10, <2>2, <3>1 DEF WorkerTakes
        <4>5. NoFinishedIn(fromWorker[v]) /\ fromWorker[v] \in Seq(Event)
          BY <2>1 DEF CommandPosted
        <4> HIDE DEF started
        <4>6. QED
          BY <4>2, <4>3, <4>4, <4>5, NoFinishedAppend
      <3>2. CASE running[v].type # "TEST_CASE"
        BY <1>10, <2>1, <2>2, <3>2 DEF WorkerTakes, CommandPosted
      <3>3. QED
        BY <3>1, <3>2
    <2>5. UNCHANGED <<running, thread>>
      BY <1>10 DEF WorkerTakes, UNCHANGED_main, adapterVars
    <2>6. QED
      BY <1>2, <1>10, <2>1, <2>3, <2>4, <2>5
      DEF InOnePlace, QuietWhileLoading, CommandTaken, WorkerIdle, WorkerTakes
  <1>11. CASE WorkerFinishes(v)
    <2>1. PICK command \in jobs[v] :
              /\ WorkerFinishesCase(v, command) \/ WorkerFinishesHooks(v, command)
              /\ jobs' = [jobs EXCEPT ![v] = @ \ {command}]
              /\ UNCHANGED <<thread, toWorker, signals, lost>>
              /\ UNCHANGED running
      BY <1>11 DEF WorkerFinishes, UNCHANGED_main, adapterVars
    <2>2. CommandTaken(v) /\ command = running[v] /\ running[v] # NoCommand
      BY <1>2, <2>1 DEF InOnePlace, WorkerIdle, CommandPosted, CommandTaken, CommandFinished
    <2>3. jobs'[v] = {} /\ toWorker'[v] = << >>
      BY <2>1, <2>2 DEF CommandTaken
    <2>4. NoFinishedIn(fromWorker[v]) /\ fromWorker[v] \in Seq(Event) /\ command \in Command
      BY <2>1, <2>2 DEF CommandTaken
    <2>5. \A success \in BOOLEAN : Finished(success) \in Event /\ IsFinished(Finished(success))
      BY EventTypes DEF IsFinished, Finished
    <2>6. ASSUME WorkerFinishesCase(v, command)
          PROVE  FinishedLastIn(fromWorker'[v])
      <3>1. PICK success \in BOOLEAN :
                fromWorker' = [fromWorker EXCEPT ![v] =
                    Append(Append(@, Envelope(command.case, Outcome(success))), Finished(success))]
        BY <2>6, SuccessTypes DEF WorkerFinishesCase
      <3> DEFINE reports == Append(fromWorker[v], Envelope(command.case, Outcome(success)))
      <3>2. Envelope(command.case, Outcome(success)) \in Event
        BY <2>4, <2>6, CommandTypes, EventTypes DEF WorkerFinishesCase
      <3>3. ~IsFinished(Envelope(command.case, Outcome(success)))
        BY DEF IsFinished, Envelope
      <3>4. NoFinishedIn(reports) /\ reports \in Seq(Event)
        BY <2>4, <3>2, <3>3, NoFinishedAppend
      <3>5. fromWorker'[v] = Append(reports, Finished(success))
        BY <3>1
      <3> HIDE DEF reports
      <3>6. QED
        BY <2>5, <3>4, <3>5, FinishedAppend
    <2>7. ASSUME WorkerFinishesHooks(v, command)
          PROVE  FinishedLastIn(fromWorker'[v])
      <3>1. PICK success \in BOOLEAN :
                fromWorker' = [fromWorker EXCEPT ![v] = Append(@, Finished(success))]
        BY <2>7, SuccessTypes DEF WorkerFinishesHooks
      <3>2. QED
        BY <2>4, <2>5, <3>1, FinishedAppend
    <2>8. FinishedLastIn(fromWorker'[v])
      BY <2>1, <2>6, <2>7
    <2>9. thread[v] # "loading" /\ UNCHANGED <<running, thread>>
      BY <1>2, <2>1, <2>2 DEF QuietWhileLoading, CommandTaken
    <2>10. QED
      BY <2>2, <2>3, <2>8, <2>9 DEF InOnePlace, QuietWhileLoading, CommandFinished
  <1>12. CASE WorkerLost(v)
    <2>1. /\ thread'[v] = "dead" /\ jobs'[v] = {} /\ toWorker'[v] = << >>
          /\ fromWorker' = fromWorker /\ running' = running
      BY <1>12 DEF WorkerLost, UNCHANGED_main, adapterVars
    <2>2. QED
      BY <1>2, <2>1
      DEF InOnePlace, QuietWhileLoading, WorkerIdle, CommandPosted, CommandTaken,
          CommandFinished
  <1>13. ASSUME NEW w \in Workers, w # v,
                Fill(w) \/ TeardownWorker(w) \/ Handle(w) \/ Work(w) \/ WorkerLost(w)
         PROVE  InOnePlace(v)' /\ QuietWhileLoading(v)'
    BY <1>2, <1>13, OtherWorkersUnchanged, ElsewhereUnchanged
  <1>14. CASE Continuation
    BY <1>3, <1>14, ContinuationLeavesWorkers
  <1>15. CASE UNCHANGED vars
    BY <1>3, <1>15 DEF vars, adapterVars
  <1>16. QED
    BY <1>4, <1>5, <1>6, <1>7, <1>8, <1>9, <1>10, <1>11, <1>12, <1>13, <1>14, <1>15
    DEF Next, Continue, Continuation, Handle, Work, Returned

-----------------------------------------------------------------------------
(* The phase accounts for what is running. *)

(* The worker a command is issued to is busy from then on.                 *)
LEMMA BusyAfterIssue ==
    ASSUME TypeOK, NEW w \in Workers, NEW c \in Command, Issue(w, c)
    PROVE  /\ Busy' = Busy \cup {w}
           /\ running'[w] = c
           /\ \A v \in Workers \ {w} : running'[v] = running[v]
  BY CommandTypes DEF Issue, Busy, TypeOK, AdapterTypeOK

(* A worker given nothing more is no longer busy.                          *)
LEMMA BusyAfterDone ==
    ASSUME TypeOK, NEW w \in Workers, running' = [running EXCEPT ![w] = NoCommand]
    PROVE  /\ Busy' = Busy \ {w}
           /\ \A v \in Workers \ {w} : running'[v] = running[v]
  BY DEF Busy, TypeOK, AdapterTypeOK

(* Before the first phase, and between hooks, no worker is busy.           *)
LEMMA NothingRunsWithoutPhase ==
    ASSUME WorkInv, phase = "none"
    PROVE  Busy = {}
  BY CommandTypes DEF WorkInv, TypeOK, AdapterTypeOK, RunningOfPhase, Busy, HooksPhases

(* A new phase is only ever set, and one only deleted, when no worker is   *)
(* busy.                                                                   *)
LEMMA PhaseChangesWhenDrained ==
    ASSUME WorkInv, StartBeforeAllHooksPhase \/ BeforeAllHooksResolve \/ TestCasesResolve
                     \/ AfterAllHooksPhaseResolves
    PROVE  Busy = {} /\ Busy' = {}
  <1>1. Busy = {}
    BY NothingRunsWithoutPhase
    DEF WorkInv, PhaseOfStage, ResolvedIsDrained, StartBeforeAllHooksPhase,
        BeforeAllHooksResolve, TestCasesResolve, AfterAllHooksPhaseResolves, PhaseResolved
  <1>2. running' = running
    BY ContinuationLeavesWorkers DEF Continuation
  <1>3. QED
    BY <1>1, <1>2 DEF Busy

(* The cases still in progress when one has finished are those of the      *)
(* workers that are still busy.                                            *)
LEMMA LeftInProgress ==
    ASSUME WorkInv, phase = "TEST_CASE", NEW w \in Busy
    PROVE  inProgress \ {running[w].case} = {running[v].case : v \in Busy \ {w}}
  BY DEF WorkInv, RunningOfPhase

(* Every step keeps what is running the business of the current phase.     *)
LEMMA RunningOfPhaseStep ==
    ASSUME WorkInv, [Next]_vars
    PROVE  RunningOfPhase'
  <1> TypeOK /\ RunningOfPhase
    BY DEF WorkInv
  <1>1. CASE UNCHANGED <<phase, waiting, queue, inProgress, running>>
    BY <1>1 DEF RunningOfPhase, Busy
  <1>2. CASE \/ StartBeforeAllHooksPhase
             \/ BeforeAllHooksResolve
             \/ TestCasesResolve
             \/ AfterAllHooksPhaseResolves
    <2>1. Busy' = {}
      BY <1>2, PhaseChangesWhenDrained
    <2>2. phase' \in HooksPhases => waiting' = 0
      BY <1>2
      DEF StartBeforeAllHooksPhase, BeforeAllHooksResolve, TestCasesResolve,
          AfterAllHooksPhaseResolves, NewHooksPhase, NewTestCasesPhase, DeletePhase, HooksPhases
    <2>3. phase' = "TEST_CASE" => inProgress' = {}
      BY <1>2
      DEF StartBeforeAllHooksPhase, BeforeAllHooksResolve, TestCasesResolve,
          AfterAllHooksPhaseResolves, NewHooksPhase, NewTestCasesPhase, DeletePhase
    <2>4. QED
      BY <2>1, <2>2, <2>3, FS_EmptySet DEF RunningOfPhase
  <1>3. ASSUME NEW w \in Workers, Fill(w)
        PROVE  RunningOfPhase'
    <2>1. w \notin Busy
      BY <1>3, FillsTheIdle
    <2>2. CASE FillHooks(w)
      <3>1. Issue(w, RunHooks(phase)) /\ RunHooks(phase) \in Command /\ phase \in HooksPhases
        BY <2>2, CommandTypes DEF FillHooks
      <3>2. Busy' = Busy \cup {w} /\ waiting' = Cardinality(Busy')
        BY <2>1, <2>2, <3>1, BusyAfterIssue, BusyCounts, FS_AddElement
        DEF FillHooks, RunningOfPhase
      <3>3. \A v \in Busy' : running'[v].type = phase
        BY <3>1, <3>2, BusyAfterIssue DEF RunningOfPhase, RunHooks, Busy
      <3>4. QED
        BY <2>2, <3>1, <3>2, <3>3 DEF FillHooks, RunningOfPhase, HooksPhases
    <2>3. CASE FillTestCases(w) /\ running' = running
      <3>1. UNCHANGED <<phase, waiting>> /\ phase = "TEST_CASE"
        BY <2>3 DEF FillTestCases
      <3>2. \A t \in TestCases : ~Issue(w, RunTestCase(t, failing))
        BY <2>1, <2>3, BusyAfterIssue, CommandTypes DEF Busy, TypeOK, PhaseTypeOK
      <3>3. UNCHANGED <<queue, inProgress>>
        BY <2>3, <3>2, SelectQueued DEF FillTestCases, TypeOK, PhaseTypeOK
      <3>4. QED
        BY <1>1, <2>3, <3>1, <3>3
    <2>4. CASE FillTestCases(w) /\ running' # running
      <3>1. PICK t \in queue : Dequeue(t, inProgress) /\ Issue(w, RunTestCase(t, failing))
        BY <2>4, SelectQueued DEF FillTestCases
      <3>2. RunTestCase(t, failing) \in Command
        BY CommandTypes DEF TypeOK, PhaseTypeOK
      <3>3. phase = "TEST_CASE" /\ phase' = "TEST_CASE"
        BY <2>4 DEF FillTestCases
      <3>4. /\ Busy' = Busy \cup {w}
            /\ running'[w].case = t /\ running'[w].type = "TEST_CASE"
            /\ \A v \in Busy : running'[v] = running[v]
        BY <2>1, <3>1, <3>2, BusyAfterIssue DEF RunTestCase, Busy
      <3>5. \A v \in Busy : running[v].case # t
        BY <3>1, <3>3 DEF RunningOfPhase
      <3>6. QED
        BY <3>1, <3>3, <3>4, <3>5 DEF RunningOfPhase, Dequeue, HooksPhases
    <2>5. QED
      BY <1>3, <2>2, <2>3, <2>4 DEF Fill
  <1>4. ASSUME NEW w \in Workers, HandleFinished(w)
        PROVE  RunningOfPhase'
    <2> DEFINE success == Head(fromWorker[w]).says = "passed"
               left == inProgress \ {running[w].case}
    <2>1. w \in Busy
      BY <1>4, FinishedEndsCommand
    <2>2. CASE NextHooks(w, success)
      <3>1. Busy' = Busy \ {w} /\ \A v \in Busy \ {w} : running'[v] = running[v]
        BY <2>2, BusyAfterDone DEF NextHooks, Busy
      <3>2. waiting' = Cardinality(Busy')
        BY <2>1, <2>2, <3>1, BusyCounts, FS_RemoveElement DEF NextHooks, RunningOfPhase
      <3>3. QED
        BY <2>2, <3>1, <3>2 DEF NextHooks, RunningOfPhase, HooksPhases
    <2>3. CASE NextTestCase(w, success)
      <3>1. phase = "TEST_CASE" /\ phase' = "TEST_CASE" /\ failing' \in BOOLEAN
        BY <2>3 DEF NextTestCase, TypeOK, PhaseTypeOK
      <3>2. left = {running[v].case : v \in Busy \ {w}}
        BY <2>1, <3>1, LeftInProgress
      <3>3. queue \cap inProgress = {}
        BY <3>1 DEF RunningOfPhase
      <3>4. ASSUME inProgress' = left, queue' = queue,
                   running' = [running EXCEPT ![w] = NoCommand]
            PROVE  RunningOfPhase'
        <4>1. Busy' = Busy \ {w} /\ \A v \in Busy \ {w} : running'[v] = running[v]
          BY <3>4, BusyAfterDone DEF Busy
        <4>2. QED
          BY <3>1, <3>2, <3>3, <3>4, <4>1 DEF RunningOfPhase, HooksPhases
      <3>5. ASSUME NEW t \in queue, Dequeue(t, left), Issue(w, RunTestCase(t, failing'))
            PROVE  RunningOfPhase'
        <4>1. RunTestCase(t, failing') \in Command
          BY <3>1, CommandTypes DEF TypeOK, PhaseTypeOK
        <4>2. /\ Busy' = Busy
              /\ running'[w].case = t /\ running'[w].type = "TEST_CASE"
              /\ \A v \in Busy \ {w} : running'[v] = running[v]
          BY <2>1, <3>5, <4>1, BusyAfterIssue DEF RunTestCase, Busy
        <4>3. \A v \in Busy : running[v].case # t
          BY <3>1, <3>5 DEF RunningOfPhase
        <4>4. QED
          BY <2>1, <3>1, <3>2, <3>3, <3>5, <4>2, <4>3 DEF RunningOfPhase, Dequeue, HooksPhases
      <3>6. QED
        BY <2>3, <3>4, <3>5, SelectQueued DEF NextTestCase
    <2>4. QED
      BY <1>4, <2>2, <2>3 DEF HandleFinished
  <1>5. ASSUME NEW w \in Workers, HandleError(w) \/ HandleExit(w)
        PROVE  RunningOfPhase'
    BY <1>1, <1>5 DEF HandleError, HandleExit, Fail, phaseVars
  <1>6. QED
    BY <1>1, <1>2, <1>3, <1>4, <1>5
    DEF Next, Continue, Handle, Work, vars, UNCHANGED_main, adapterVars, phaseVars, Returned,
        SetupResolves, RunCoordinatorHook, AfterAllHooksResolve, Rejected, Return,
        TeardownWorker, HandleReady, HandleEnvelope,
        WorkerReady, WorkerTakes, WorkerFinishes, WorkerLost

-----------------------------------------------------------------------------
(* The coroutine, its stage and its phase. *)

(* Every step keeps the coroutine, its stage and its phase together.       *)
LEMMA PhaseOfStageStep ==
    ASSUME WorkInv, [Next]_vars
    PROVE  PhaseOfStage'
  <1> PhaseOfStage /\ stage \in Stages
    BY DEF WorkInv, TypeOK, CoordinatorTypeOK
  <1> USE DEF PhaseOfStage
  <1>1. CASE UNCHANGED <<awaiting, stage, phase, settled>>
    BY <1>1
  <1>2. CASE SetupResolves
    BY <1>2 DEF SetupResolves, SetupSettled, phaseVars
  <1>3. CASE StartBeforeAllHooksPhase
    BY <1>3 DEF StartBeforeAllHooksPhase, NewHooksPhase, StartPhase, coordinatorVars
  <1>4. ASSUME NEW w \in Workers, Fill(w)
        PROVE  PhaseOfStage'
    BY <1>4 DEF Fill, FillHooks, FillTestCases, coordinatorVars
  <1>5. CASE BeforeAllHooksResolve
    BY <1>5
    DEF BeforeAllHooksResolve, BeforeAllHooksSettled, NewHooksPhase, NewTestCasesPhase,
        StartPhase
  <1>6. CASE TestCasesResolve
    BY <1>6 DEF TestCasesResolve, TestCasesSettled, NewHooksPhase, StartPhase
  <1>7. CASE AfterAllHooksPhaseResolves
    BY <1>7 DEF AfterAllHooksPhaseResolves, DeletePhase, coordinatorVars
  <1>8. CASE AfterAllHooksResolve
    BY <1>8 DEF AfterAllHooksResolve, AfterAllHooksSettled, EnterTeardown, phaseVars
  <1>9. CASE Rejected
    BY <1>9 DEF Rejected, Caught, EnterTeardown, phaseVars
  <1>10. CASE Return
    BY <1>10 DEF Return, TeardownSettled, phaseVars
  <1>11. ASSUME NEW w \in Workers, HandleFinished(w)
         PROVE  PhaseOfStage'
    BY <1>11 DEF HandleFinished, NextHooks, NextTestCase, Settle, coordinatorVars
  <1>12. ASSUME NEW w \in Workers, HandleError(w) \/ HandleExit(w)
         PROVE  PhaseOfStage'
    BY <1>12 DEF HandleError, HandleExit, Fail, Settle, coordinatorVars, phaseVars
  <1>13. QED
    BY <1>1, <1>2, <1>3, <1>4, <1>5, <1>6, <1>7, <1>8, <1>9, <1>10, <1>11, <1>12
    DEF Next, Continue, Handle, Work, vars, UNCHANGED_main, coordinatorVars, adapterVars,
        phaseVars, Returned, RunCoordinatorHook, TeardownWorker, HandleReady, HandleEnvelope,
        WorkerReady, WorkerTakes, WorkerFinishes, WorkerLost

(* Every step keeps the workers that startPhase has not reached idle.      *)
LEMMA FillProgressStep ==
    ASSUME WorkInv, [Next]_vars
    PROVE  FillProgress'
  <1> FillProgress /\ filled \in 0 .. NumWorkers
    BY DEF WorkInv, TypeOK, AdapterTypeOK
  <1> NumWorkers \in Nat \ {0}
    BY ParallelAssumption
  <1>1. CASE UNCHANGED <<awaiting, filled, phase, settled, running>>
    BY <1>1 DEF FillProgress
  <1>2. CASE awaiting' # "fill"
    BY <1>2 DEF FillProgress
  <1>3. CASE StartBeforeAllHooksPhase \/ BeforeAllHooksResolve \/ TestCasesResolve
    <2>1. Busy' = {} /\ filled' = 0
      BY <1>3, PhaseChangesWhenDrained
      DEF StartBeforeAllHooksPhase, BeforeAllHooksResolve, TestCasesResolve, StartPhase
    <2>2. settled' = IF phase' = "TEST_CASE" /\ TestCases = {} THEN "success" ELSE "pending"
      BY <1>3
      DEF StartBeforeAllHooksPhase, BeforeAllHooksResolve, TestCasesResolve, NewHooksPhase,
          NewTestCasesPhase
    <2>3. QED
      BY <2>1, <2>2 DEF FillProgress, Busy
  <1>4. ASSUME NEW w \in Workers, Fill(w)
        PROVE  FillProgress'
    <2>1. UNCHANGED <<phase, settled>> /\ filled' = filled + 1 /\ w = filled + 1
      BY <1>4 DEF Fill, FillHooks, FillTestCases
    <2>2. \A v \in Workers \ {w} : running'[v] = running[v]
      BY <1>4, FillIssues, BusyAfterIssue DEF WorkInv
    <2>3. \A v \in Workers : v > filled' => running'[v] = NoCommand
      BY <1>4, <2>1, <2>2 DEF FillProgress, Fill, Workers
    <2>4. awaiting' = "fill" => filled' < NumWorkers
      BY <1>4, <2>1 DEF Fill, Workers
    <2>5. QED
      BY <1>4, <2>1, <2>3, <2>4 DEF FillProgress, Fill
  <1>5. ASSUME MainThreadIdle, UNCHANGED awaiting
        PROVE  FillProgress'
    BY <1>5 DEF FillProgress, MainThreadIdle
  <1>6. QED
    BY <1>1, <1>2, <1>3, <1>4, <1>5
    DEF Next, Continue, Handle, Work, vars, UNCHANGED_main, adapterVars, phaseVars, Returned,
        SetupResolves, RunCoordinatorHook, AfterAllHooksPhaseResolves, AfterAllHooksResolve,
        Rejected, Return, EnterTeardown, TeardownWorker, Arrived, HandleReady, HandleEnvelope,
        HandleFinished, HandleError, HandleExit,
        WorkerReady, WorkerTakes, WorkerFinishes, WorkerLost

-----------------------------------------------------------------------------
(* Phases settle when, and only when, their work is done. *)

(* A phase resolves only when its last worker and last case are done.      *)
LEMMA ResolvedIsDrainedStep ==
    ASSUME WorkInv, [Next]_vars
    PROVE  ResolvedIsDrained'
  <1> TypeOK /\ ResolvedIsDrained
    BY DEF WorkInv
  <1>1. CASE UNCHANGED <<phase, settled, queue, running>>
    BY <1>1 DEF ResolvedIsDrained, Busy
  <1>2. CASE \/ StartBeforeAllHooksPhase
             \/ BeforeAllHooksResolve
             \/ TestCasesResolve
             \/ AfterAllHooksPhaseResolves
    <2>1. Busy' = {}
      BY <1>2, PhaseChangesWhenDrained
    <2>2. phase' = "TEST_CASE" /\ settled' \in {"success", "failure"} => queue' = {}
      BY <1>2
      DEF StartBeforeAllHooksPhase, BeforeAllHooksResolve, TestCasesResolve,
          AfterAllHooksPhaseResolves, NewHooksPhase, NewTestCasesPhase, DeletePhase
    <2>3. QED
      BY <2>1, <2>2 DEF ResolvedIsDrained
  <1>3. ASSUME NEW w \in Workers, Fill(w)
        PROVE  ResolvedIsDrained'
    <2>1. CASE settled = "pending"
      BY <1>3, <2>1 DEF Fill, FillHooks, FillTestCases, ResolvedIsDrained
    <2>2. CASE settled # "pending"
      <3>1. phase = "TEST_CASE" /\ settled = "success"
        BY <1>3, <2>2 DEF Fill, WorkInv, FillProgress
      <3>2. queue = {} /\ Busy = {}
        BY <3>1 DEF ResolvedIsDrained
      <3>3. FillTestCases(w)
        BY <1>3, <3>1 DEF Fill, FillHooks, HooksPhases
      <3>4. UNCHANGED <<phase, settled, queue, running>>
        BY <3>2, <3>3, SelectQueued DEF FillTestCases
      <3>5. QED
        BY <1>1, <3>4
    <2>3. QED
      BY <2>1, <2>2
  <1>4. ASSUME NEW w \in Workers, HandleFinished(w)
        PROVE  ResolvedIsDrained'
    <2> DEFINE success == Head(fromWorker[w]).says = "passed"
               left == inProgress \ {running[w].case}
    <2>1. w \in Busy /\ running[w].type = phase
      BY <1>4, FinishedEndsCommand
    <2>2. settled \in {"pending", "rejected"}
      BY <2>1, CommandTypes
      DEF ResolvedIsDrained, TypeOK, PhaseTypeOK, AdapterTypeOK, Busy, HooksPhases
    <2>3. CASE NextHooks(w, success)
      <3>1. phase' \in HooksPhases /\ Busy' = Busy \ {w}
        BY <2>3, BusyAfterDone DEF NextHooks
      <3>2. settled' \in {"success", "failure"} => Busy' = {}
        BY <2>1, <2>2, <2>3, <3>1, BusyCounts, FS_RemoveElement, FS_EmptySet
        DEF NextHooks, WorkInv, RunningOfPhase
      <3>3. QED
        BY <3>1, <3>2 DEF ResolvedIsDrained, HooksPhases
    <2>4. CASE NextTestCase(w, success)
      <3>1. CASE settled' = settled
        BY <2>2, <3>1 DEF ResolvedIsDrained
      <3>2. CASE settled' # settled
        <4>1. /\ phase = "TEST_CASE" /\ queue = {} /\ left = {} /\ queue' = {}
              /\ running' = [running EXCEPT ![w] = NoCommand]
          BY <2>4, <3>2 DEF NextTestCase
        <4>2. Busy \ {w} = {}
          BY <2>1, <4>1, LeftInProgress
        <4>3. Busy' = {}
          BY <4>1, <4>2, BusyAfterDone
        <4>4. QED
          BY <4>1, <4>3 DEF ResolvedIsDrained
      <3>3. QED
        BY <3>1, <3>2
    <2>5. QED
      BY <1>4, <2>3, <2>4 DEF HandleFinished
  <1>5. ASSUME NEW w \in Workers, HandleError(w) \/ HandleExit(w)
        PROVE  ResolvedIsDrained'
    BY <1>5 DEF HandleError, HandleExit, Fail, Settle, ResolvedIsDrained, Busy, phaseVars
  <1>6. QED
    BY <1>1, <1>2, <1>3, <1>4, <1>5
    DEF Next, Continue, Handle, Work, vars, UNCHANGED_main, adapterVars, phaseVars, Returned,
        SetupResolves, RunCoordinatorHook, AfterAllHooksResolve, Rejected, Return,
        TeardownWorker, HandleReady, HandleEnvelope,
        WorkerReady, WorkerTakes, WorkerFinishes, WorkerLost

(* A nonempty set of naturals has a least element.                         *)
LEMMA NatMinimum ==
    ASSUME NEW S \in SUBSET Nat, S # {}
    PROVE  \E x \in S : \A y \in S : x <= y
  <1>1. PICK x \in S : \A y \in S : ~(<<y, x>> \in OpToRel(<, Nat))
    BY NatLessThanWellFounded, WFMin
  <1>2. \A y \in S : ~(y < x)
    BY <1>1 DEF OpToRel
  <1>3. QED
    BY <1>2

(* `select` returns something whenever a queued case may be run, and when  *)
(* nothing is running whatever the rule refuses.                           *)
LEMMA SelectFinds ==
    ASSUME TypeOK, NEW beside, Select(beside) = {}
    PROVE  Candidates(beside) = {} /\ (beside = {} => queue = {})
  <1>1. Candidates(beside) \in SUBSET Nat
    <2>1. Candidates(beside) \subseteq queue /\ queue \subseteq TestCases
      BY DEF Candidates, TypeOK, PhaseTypeOK
    <2>2. TestCases \subseteq Nat
      BY TestCasesAssumption DEF TestCases
    <2>3. QED
      BY <2>1, <2>2
  <1>2. Candidates(beside) = {}
    BY <1>1, NatMinimum DEF Select
  <1>3. QED
    BY <1>2 DEF Candidates

(* Every step keeps a pending phase supplied with a busy worker.           *)
LEMMA PendingIsBusyStep ==
    ASSUME WorkInv, [Next]_vars
    PROVE  PendingIsBusy'
  <1> TypeOK /\ RunningOfPhase /\ PendingIsBusy
    BY DEF WorkInv
  <1>1. CASE UNCHANGED <<awaiting, filled, phase, settled, queue, running>>
    BY <1>1 DEF PendingIsBusy, Busy
  <1>2. CASE SetupResolves \/ AfterAllHooksResolve \/ Rejected \/ Return
    <2>1. awaiting' \notin {"fill", "phase"} /\ UNCHANGED <<phase, settled, queue, running>>
      BY <1>2
      DEF SetupResolves, AfterAllHooksResolve, Rejected, Return, EnterTeardown, phaseVars
    <2>2. QED
      BY <2>1 DEF PendingIsBusy, Busy
  <1>3. CASE StartBeforeAllHooksPhase \/ BeforeAllHooksResolve \/ TestCasesResolve
    <2>1. awaiting' = "fill" /\ filled' = 0
      BY <1>3
      DEF StartBeforeAllHooksPhase, BeforeAllHooksResolve, TestCasesResolve, StartPhase
    <2>2. phase' = "TEST_CASE" /\ settled' = "pending" => queue' # {}
      BY <1>3
      DEF StartBeforeAllHooksPhase, BeforeAllHooksResolve, TestCasesResolve, NewHooksPhase,
          NewTestCasesPhase
    <2>3. QED
      BY <2>1, <2>2 DEF PendingIsBusy
  <1>4. CASE AfterAllHooksPhaseResolves
    BY <1>4 DEF AfterAllHooksPhaseResolves, PhaseResolved, DeletePhase, PendingIsBusy
  <1>5. ASSUME NEW w \in Workers, Fill(w)
        PROVE  PendingIsBusy'
    <2>1. CASE \E c \in Command : Issue(w, c)
      <3>1. Busy' # {}
        BY <2>1, BusyAfterIssue
      <3>2. QED
        BY <3>1 DEF PendingIsBusy
    <2>2. CASE ~\E c \in Command : Issue(w, c)
      <3>1. FillTestCases(w)
        BY <1>5, <2>2, CommandTypes DEF Fill, FillHooks
      <3>2. \A t \in queue : ~Issue(w, RunTestCase(t, failing))
        BY <2>2, CommandTypes DEF TypeOK, PhaseTypeOK
      <3>3. /\ Select(inProgress) = {}
            /\ UNCHANGED <<phase, settled, queue, inProgress, running>>
        BY <3>1, <3>2, SelectQueued DEF FillTestCases
      <3>4. inProgress = {} => queue = {}
        BY <3>3, SelectFinds
      <3>5. settled = "pending" => Busy # {}
        BY <3>1, <3>4 DEF FillTestCases, PendingIsBusy, RunningOfPhase
      <3>6. QED
        BY <3>3, <3>5 DEF PendingIsBusy, Busy
    <2>3. QED
      BY <2>1, <2>2
  <1>6. ASSUME NEW w \in Workers, HandleFinished(w)
        PROVE  PendingIsBusy'
    <2> DEFINE success == Head(fromWorker[w]).says = "passed"
               left == inProgress \ {running[w].case}
    <2>1. w \in Busy
      BY <1>6, FinishedEndsCommand
    <2>2. SUFFICES settled' = "pending" => Busy' # {}
      BY DEF PendingIsBusy
    <2>3. CASE NextHooks(w, success)
      <3>1. Busy' = Busy \ {w}
        BY <2>3, BusyAfterDone DEF NextHooks
      <3>2. Cardinality(Busy') = waiting - 1
        BY <2>1, <2>3, <3>1, BusyCounts, FS_RemoveElement DEF NextHooks, RunningOfPhase
      <3>3. settled' = "pending" => waiting # 1
        BY <2>3 DEF NextHooks, Settle, Verdict
      <3>4. QED
        <4>1. settled' = "pending" => Cardinality(Busy') # 0
          BY <2>3, <3>2, <3>3, BusyCounts DEF NextHooks, RunningOfPhase
        <4>2. Cardinality({}) = 0
          BY FS_EmptySet
        <4>3. QED
          BY <4>1, <4>2
    <2>4. CASE NextTestCase(w, success)
      <3>1. CASE \E c \in Command : Issue(w, c)
        BY <3>1, BusyAfterIssue
      <3>2. CASE ~\E c \in Command : Issue(w, c)
        <4>1. \A t \in queue : ~Issue(w, RunTestCase(t, failing'))
          BY <2>4, <3>2, CommandTypes DEF NextTestCase, TypeOK, PhaseTypeOK
        <4>2. phase = "TEST_CASE" /\ running' = [running EXCEPT ![w] = NoCommand]
          BY <2>4, <4>1, SelectQueued DEF NextTestCase
        <4>3. settled' = "pending" => (queue # {} \/ left # {}) /\ Select(left) = {}
          BY <2>4, <4>1, SelectQueued DEF NextTestCase, Settle, Verdict
        <4>4. settled' = "pending" => left # {}
          BY <4>3, SelectFinds
        <4>5. left = {running[v].case : v \in Busy \ {w}}
          BY <2>1, <4>2, LeftInProgress
        <4>6. QED
          <5>1. Busy' = Busy \ {w}
            BY <4>2, BusyAfterDone
          <5>2. settled' = "pending" => Busy \ {w} # {}
            BY <4>4, <4>5
          <5>3. QED
            BY <5>1, <5>2
      <3>3. QED
        BY <3>1, <3>2
    <2>5. QED
      BY <1>6, <2>3, <2>4 DEF HandleFinished
  <1>7. ASSUME NEW w \in Workers, HandleError(w) \/ HandleExit(w)
        PROVE  PendingIsBusy'
    <2>1. UNCHANGED <<awaiting, filled, phase, queue, running>>
      BY <1>7 DEF HandleError, HandleExit, Fail, phaseVars
    <2>2. settled' = "pending" => settled = "pending"
      BY <1>7 DEF HandleError, HandleExit, Fail, Settle, phaseVars
    <2>3. QED
      BY <2>1, <2>2 DEF PendingIsBusy, Busy
  <1>8. QED
    BY <1>1, <1>2, <1>3, <1>4, <1>5, <1>6, <1>7
    DEF Next, Continue, Handle, Work, vars, UNCHANGED_main, adapterVars, phaseVars, Returned,
        RunCoordinatorHook, TeardownWorker, HandleReady, HandleEnvelope,
        WorkerReady, WorkerTakes, WorkerFinishes, WorkerLost

-----------------------------------------------------------------------------
(* The theorems. *)

(* Every step keeps WorkInv.                                               *)
LEMMA WorkInvStep ==
    ASSUME WorkInv, [Next]_vars
    PROVE  WorkInv'
  BY TypeStep, InOnePlaceStep, RunningOfPhaseStep, PhaseOfStageStep, FillProgressStep,
     ResolvedIsDrainedStep, PendingIsBusyStep
  DEF WorkInv

(* WorkInv is inductive: it holds at first and every step keeps it.        *)
THEOREM WorkInvariance == Spec => []WorkInv
  <1>1. WorkInv /\ [Next]_vars => WorkInv'
    BY WorkInvStep
  <1>2. QED
    BY <1>1, InitWorkInv, PTL DEF Spec

(* Every variable keeps its type, whatever workers do and however many are *)
(* lost (the count a hooks phase waits for never goes below zero, in       *)
(* particular).                                                            *)
THEOREM TypeCorrectness == Spec => []TypeOK
  <1>1. WorkInv => TypeOK
    BY DEF WorkInv
  <1>2. QED
    BY <1>1, WorkInvariance, PTL

(* No worker is handed a command before the adapter has handled the        *)
(* FINISHED event of the one before (issueCommandToWorker and              *)
(* handleFinished in adapter.ts): worker.mts would run both at once.       *)
THEOREM OneCommandAtATime == Spec => []OneCommandPerWorker
  <1>1. WorkInv => OneCommandPerWorker
    <2> SUFFICES ASSUME WorkInv, NEW w \in Workers
                 PROVE  LET n == Len(toWorker[w]) + Cardinality(jobs[w])
                                    + Cardinality(FinishedEvents(w))
                        IN  n <= 1 /\ (running[w] = NoCommand => n = 0)
      BY DEF OneCommandPerWorker
    <2>1. fromWorker[w] \in Seq(Event) /\ DOMAIN fromWorker[w] = 1 .. Len(fromWorker[w])
      BY LenProperties DEF WorkInv, TypeOK, WorkersTypeOK
    <2>2. NoFinishedIn(fromWorker[w]) => Cardinality(FinishedEvents(w)) = 0
      BY <2>1, FS_EmptySet DEF NoFinishedIn, FinishedEvents, IsFinished
    <2>3. FinishedLastIn(fromWorker[w]) => Cardinality(FinishedEvents(w)) = 1
      <3> SUFFICES ASSUME FinishedLastIn(fromWorker[w])
                   PROVE  Cardinality(FinishedEvents(w)) = 1
        OBVIOUS
      <3>1. Len(fromWorker[w]) \in 1 .. Len(fromWorker[w])
        BY <2>1, TailElements DEF FinishedLastIn
      <3>2. FinishedEvents(w) = {Len(fromWorker[w])}
        BY <2>1, <3>1 DEF FinishedLastIn, FinishedEvents, IsFinished
      <3>3. QED
        BY <3>2, FS_Singleton
    <2>4. Len(<< >>) = 0 /\ Len(<<running[w]>>) = 1
      OBVIOUS
    <2>5. Cardinality({}) = 0 /\ Cardinality({running[w]}) = 1
      BY FS_EmptySet, FS_Singleton
    <2>6. InOnePlace(w)
      BY DEF WorkInv, CommandInOnePlace
    <2>7. QED
      <3>1. CASE WorkerIdle(w)
        BY <2>2, <2>4, <2>5, <3>1 DEF WorkerIdle
      <3>2. CASE CommandPosted(w) /\ running[w] # NoCommand
        BY <2>2, <2>4, <2>5, <3>2 DEF CommandPosted
      <3>3. CASE CommandTaken(w) /\ running[w] # NoCommand
        BY <2>2, <2>4, <2>5, <3>3 DEF CommandTaken
      <3>4. CASE CommandFinished(w) /\ running[w] # NoCommand
        BY <2>3, <2>4, <2>5, <3>4 DEF CommandFinished
      <3>5. QED
        BY <2>6, <3>1, <3>2, <3>3, <3>4 DEF InOnePlace
  <1>2. QED
    BY <1>1, WorkInvariance, PTL

(* A phase that has not settled has some worker at work for it, so that a  *)
(* FINISHED event can still settle it - for every assignment rule, refused *)
(* or not, and with no test case at all (test_cases_phase.ts, select).     *)
THEOREM OpenPhasesHaveWork == Spec => []OpenPhaseHasWork
  <1>1. WorkInv => OpenPhaseHasWork
    BY DEF WorkInv, PendingIsBusy, OpenPhaseHasWork, Busy
  <1>2. QED
    BY <1>1, WorkInvariance, PTL

-----------------------------------------------------------------------------
(* Short channels. *)

(* What is left of a channel of at most three events.                      *)
LEMMA ShortTails ==
    /\ \A a : <<a>> # << >> /\ Head(<<a>>) = a /\ Tail(<<a>>) = << >>
    /\ \A a, b : <<a, b>> # << >> /\ Head(<<a, b>>) = a /\ Tail(<<a, b>>) = <<b>>
    /\ \A a, b, c : /\ <<a, b, c>> # << >>
                    /\ Head(<<a, b, c>>) = a
                    /\ Tail(<<a, b, c>>) = <<b, c>>
  OBVIOUS

(* What is appended to a channel of one event.                             *)
LEMMA AppendToOne ==
    ASSUME NEW a \in Event, NEW b \in Event
    PROVE  Append(<<a>>, b) = <<a, b>>
  <1>1. Append(<<a>>, b) \in Seq(Event) /\ <<a, b>> \in Seq(Event)
    OBVIOUS
  <1>2. Len(Append(<<a>>, b)) = 2 /\ Len(<<a, b>>) = 2
    OBVIOUS
  <1>3. Append(<<a>>, b)[1] = a /\ Append(<<a>>, b)[2] = b
    OBVIOUS
  <1>4. \A i \in 1 .. Len(<<a, b>>) : Append(<<a>>, b)[i] = <<a, b>>[i]
    BY <1>2, <1>3
  <1>5. QED
    BY <1>1, <1>2, <1>4, SeqEqual

(* What is appended to a channel of two events.                            *)
LEMMA AppendToTwo ==
    ASSUME NEW a \in Event, NEW b \in Event, NEW c \in Event
    PROVE  Append(<<a, b>>, c) = <<a, b, c>>
  <1>1. <<a, b>> \in Seq(Event) /\ <<a, b, c>> \in Seq(Event)
    OBVIOUS
  <1>2. Append(<<a, b>>, c) \in Seq(Event)
    BY <1>1
  <1>3. Len(Append(<<a, b>>, c)) = 3 /\ Len(<<a, b, c>>) = 3
    OBVIOUS
  <1>4. /\ Append(<<a, b>>, c)[1] = a
        /\ Append(<<a, b>>, c)[2] = b
        /\ Append(<<a, b>>, c)[3] = c
    OBVIOUS
  <1>5. \A i \in 1 .. Len(<<a, b, c>>) : Append(<<a, b>>, c)[i] = <<a, b, c>>[i]
    BY <1>3, <1>4
  <1>6. QED
    BY <1>1, <1>2, <1>3, <1>5, SeqEqual

(* What a worker posts can be told apart.                                  *)
LEMMA EventsDiffer ==
    /\ Ready.type = "READY"
    /\ \A t, says : /\ Envelope(t, says).type = "ENVELOPE"
                    /\ Envelope(t, says).case = t
                    /\ Envelope(t, says).says = says
    /\ \A success : /\ Finished(success).type = "FINISHED"
                    /\ Finished(success).says = Outcome(success)
    /\ \A b \in BOOLEAN : Outcome(b) \in {"passed", "failed"} /\ (Outcome(b) = "passed" <=> b)
  BY DEF Ready, Envelope, Finished, Outcome

(* Whatever is running on a worker is one of the phase's commands.         *)
LEMMA KindsOfWork ==
    ASSUME WorkInv, NEW w \in Workers
    PROVE  /\ NoCommand.type = "none"
           /\ running[w] # NoCommand <=> running[w].type \in HooksPhases \cup {"TEST_CASE"}
           /\ running[w] # NoCommand =>
                  w \in Busy /\ running[w] \in Command /\ running[w].type = phase
           /\ running[w].type = "TEST_CASE" =>
                  phase = "TEST_CASE" /\ running[w].case \in inProgress
  <1>1. running[w] \in Command \cup {NoCommand}
    BY DEF WorkInv, TypeOK, AdapterTypeOK
  <1>2. NoCommand.type = "none"
    BY DEF NoCommand
  <1>3. QED
    BY <1>1, <1>2, CommandTypes DEF Busy, WorkInv, RunningOfPhase, HooksPhases

-----------------------------------------------------------------------------
(* What the event at the head of a channel means. *)

(* READY comes from a worker that was not known to be ready, before any    *)
(* phase is set.                                                           *)
LEMMA ReadyTells ==
    ASSUME IInv, NEW w \in Workers, HandleReady(w)
    PROVE  /\ w \notin ready /\ phase = "none" /\ running[w] = NoCommand
           /\ fromWorker'[w] = << >>
  <1>1. /\ fromWorker[w] # << >> /\ Head(fromWorker[w]).type = "READY"
        /\ fromWorker'[w] = Tail(fromWorker[w])
    BY DEF HandleReady, Arrived, Consume, IInv, WorkInv, TypeOK, WorkersTypeOK
  <1>2. Tells(w)
    BY DEF IInv, ToldInOrder
  <1>3. ~TellsOfHooks(w)
    BY <1>1, ShortTails, EventsDiffer DEF TellsOfHooks
  <1>4. ~TellsOfCase(w, running[w].case)
    BY <1>1, ShortTails, EventsDiffer DEF TellsOfCase, HeardOfStart, HeardOfEnd
  <1>5. running[w] = NoCommand
    BY <1>2, <1>3, <1>4, KindsOfWork DEF Tells, IInv
  <1>6. w \notin ready /\ fromWorker[w] = <<Ready>>
    BY <1>1, <1>2, <1>5 DEF Tells, SaysReadyOnce
  <1>7. phase = "none"
    BY <1>6 DEF IInv, EveryoneReady
  <1>8. QED
    BY <1>1, <1>5, <1>6, <1>7, ShortTails

(* An envelope is about the case its worker was last told to run, and says *)
(* what listeners have not yet heard of it.                                *)
LEMMA EnvelopeTells ==
    ASSUME IInv, NEW w \in Workers, HandleEnvelope(w)
    PROVE  /\ w \in Busy /\ running[w].type = "TEST_CASE"
           /\ phase = "TEST_CASE" /\ running[w].case \in inProgress
           /\ reported' = [reported EXCEPT ![running[w].case] = Head(fromWorker[w]).says]
           /\ TellsOfCase(w, running[w].case)'
           /\ \/ reported[running[w].case] = "no" /\ Head(fromWorker[w]).says = "started"
              \/ /\ reported[running[w].case] = "started"
                 /\ Head(fromWorker[w]).says \in {"passed", "failed"}
  <1> DEFINE t == running[w].case
  <1>1. /\ fromWorker[w] # << >> /\ Head(fromWorker[w]).type = "ENVELOPE"
        /\ fromWorker'[w] = Tail(fromWorker[w])
        /\ UNCHANGED <<running, toWorker, jobs, thread>>
        /\ reported' = [reported EXCEPT ![Head(fromWorker[w]).case] = Head(fromWorker[w]).says]
    BY DEF HandleEnvelope, Arrived, Consume, IInv, WorkInv, TypeOK, WorkersTypeOK, adapterVars
  <1>2. Tells(w)
    BY DEF IInv, ToldInOrder
  <1>3. running[w] # NoCommand
    BY <1>1, <1>2, ShortTails, EventsDiffer, KindsOfWork DEF Tells, SaysReadyOnce, IInv
  <1>4. ~TellsOfHooks(w)
    BY <1>1, ShortTails, EventsDiffer DEF TellsOfHooks
  <1>5. running[w].type = "TEST_CASE" /\ TellsOfCase(w, t)
    BY <1>2, <1>3, <1>4, KindsOfWork DEF Tells, IInv
  <1>6. w \in Busy /\ phase = "TEST_CASE" /\ t \in inProgress
    BY <1>3, <1>5, KindsOfWork DEF IInv
  <1>7. t \in TestCases /\ reported \in [TestCases -> {"no", "started", "passed", "failed"}]
    BY <1>6 DEF IInv, WorkInv, TypeOK, PhaseTypeOK, ReportedTypeOK
  <1> t' = t
    BY <1>1
  <1> HIDE DEF t
  <1>8. CASE HeardOfStart(w, t)
    <2>1. fromWorker[w] = <<Envelope(t, "started")>> /\ reported[t] = "no"
      BY <1>1, <1>8 DEF HeardOfStart
    <2>2. /\ Head(fromWorker[w]).case = t /\ Head(fromWorker[w]).says = "started"
          /\ fromWorker'[w] = << >>
      BY <1>1, <2>1, ShortTails, EventsDiffer
    <2>3. reported'[t] = "started"
      BY <1>1, <1>7, <2>2
    <2>4. TellsOfCase(w, t)'
      <3>1. HeardOfStart(w, t)'
        BY <2>2, <2>3 DEF HeardOfStart
      <3>2. jobs[w] # {} \/ (thread[w] = "dead" /\ toWorker[w] = << >> /\ jobs[w] = {})
        BY <1>1, <1>5, <2>1, ShortTails, EventsDiffer DEF TellsOfCase, HeardOfEnd
      <3>3. QED
        BY <1>1, <3>1, <3>2 DEF TellsOfCase
    <2>5. QED
      BY <1>1, <1>5, <1>6, <2>1, <2>2, <2>4 DEF t
  <1>9. ASSUME NEW success \in BOOLEAN, HeardOfEnd(w, t, success),
               toWorker[w] = << >>, jobs[w] = {}
        PROVE  /\ Head(fromWorker[w]).case = t /\ TellsOfCase(w, t)'
               /\ \/ reported[t] = "no" /\ Head(fromWorker[w]).says = "started"
                  \/ /\ reported[t] = "started"
                     /\ Head(fromWorker[w]).says \in {"passed", "failed"}
    <2>1. CASE reported[t] = "no"
      <3>1. fromWorker[w] = <<Envelope(t, "started"), Envelope(t, Outcome(success)),
                              Finished(success)>>
        BY <1>9, <2>1, EventsDiffer DEF HeardOfEnd
      <3>2. /\ Head(fromWorker[w]).case = t /\ Head(fromWorker[w]).says = "started"
            /\ fromWorker'[w] = <<Envelope(t, Outcome(success)), Finished(success)>>
        BY <1>1, <3>1, ShortTails, EventsDiffer
      <3>3. reported'[t] = "started"
        BY <1>1, <1>7, <3>2
      <3>4. HeardOfEnd(w, t, success)'
        BY <3>2, <3>3 DEF HeardOfEnd
      <3>5. QED
        BY <1>1, <1>9, <2>1, <3>2, <3>4 DEF TellsOfCase
    <2>2. CASE reported[t] # "no"
      <3>1. /\ reported[t] = "started"
            /\ fromWorker[w] = <<Envelope(t, Outcome(success)), Finished(success)>>
        BY <1>1, <1>9, <2>2, ShortTails, EventsDiffer DEF HeardOfEnd
      <3>2. /\ Head(fromWorker[w]).case = t /\ Head(fromWorker[w]).says = Outcome(success)
            /\ fromWorker'[w] = <<Finished(success)>>
        BY <1>1, <3>1, ShortTails, EventsDiffer
      <3>3. reported'[t] = Outcome(success)
        BY <1>1, <1>7, <3>2
      <3>4. HeardOfEnd(w, t, success)'
        BY <3>2, <3>3 DEF HeardOfEnd
      <3>5. QED
        BY <1>1, <1>9, <3>1, <3>2, <3>4, EventsDiffer DEF TellsOfCase
    <2>3. QED
      BY <2>1, <2>2
  <1>10. QED
    <2>1. HeardOfStart(w, t) \/ \E success \in BOOLEAN :
              HeardOfEnd(w, t, success) /\ toWorker[w] = << >> /\ jobs[w] = {}
      BY <1>1, <1>5 DEF TellsOfCase
    <2>2. CASE \E success \in BOOLEAN :
                  HeardOfEnd(w, t, success) /\ toWorker[w] = << >> /\ jobs[w] = {}
      <3>1. Head(fromWorker[w]).case = t
        BY <1>9, <2>2
      <3>2. QED
        BY <1>1, <1>5, <1>6, <1>9, <2>2, <3>1 DEF t
    <2>3. QED
      BY <1>8, <2>1, <2>2

(* FINISHED is the last thing a worker tells of a command, and agrees with *)
(* what listeners have heard of the case.                                  *)
LEMMA FinishedTells ==
    ASSUME IInv, NEW w \in Workers, HandleFinished(w)
    PROVE  /\ fromWorker'[w] = << >>
           /\ running[w].type = "TEST_CASE" =>
                  reported[running[w].case] = Outcome(Head(fromWorker[w]).says = "passed")
  <1>1. /\ fromWorker[w] # << >> /\ Head(fromWorker[w]).type = "FINISHED"
        /\ fromWorker'[w] = Tail(fromWorker[w])
    BY DEF HandleFinished, Arrived, Consume, IInv, WorkInv, TypeOK, WorkersTypeOK
  <1>2. Tells(w)
    BY DEF IInv, ToldInOrder
  <1>3. w \in Busy /\ running[w].type = phase /\ running[w] # NoCommand
    BY FinishedEndsCommand DEF IInv, Busy
  <1>4. CASE running[w].type \in HooksPhases
    <2>1. PICK success \in BOOLEAN : fromWorker[w] = <<Finished(success)>>
      BY <1>1, <1>2, <1>4 DEF Tells, TellsOfHooks
    <2>2. QED
      BY <1>1, <1>4, <2>1, ShortTails DEF HooksPhases
  <1>5. CASE running[w].type = "TEST_CASE"
    <2> DEFINE t == running[w].case
    <2>1. TellsOfCase(w, t)
      BY <1>2, <1>5 DEF Tells
    <2>2. ~HeardOfStart(w, t)
      BY <1>1, ShortTails, EventsDiffer DEF HeardOfStart
    <2>3. PICK success \in BOOLEAN : HeardOfEnd(w, t, success)
      BY <1>1, <2>1, <2>2, FinishedEndsCommand DEF TellsOfCase, IInv
    <2>4. reported[t] = Outcome(success) /\ fromWorker[w] = <<Finished(success)>>
      BY <1>1, <2>3, ShortTails, EventsDiffer DEF HeardOfEnd
    <2>5. Outcome(Head(fromWorker[w]).says = "passed") = Outcome(success)
      BY <2>4, ShortTails, EventsDiffer
    <2>6. QED
      BY <1>1, <2>4, <2>5, ShortTails
  <1>6. QED
    BY <1>3, <1>4, <1>5, KindsOfWork DEF IInv

-----------------------------------------------------------------------------
(* Work is given out when every worker is ready. *)

(* Every step keeps the workers ready once they have been given work.      *)
LEMMA EveryoneReadyStep ==
    ASSUME IInv, [Next]_vars
    PROVE  EveryoneReady'
  <1> EveryoneReady /\ PhaseOfStage /\ ready \subseteq Workers
    BY DEF IInv, WorkInv, TypeOK, AdapterTypeOK
  <1> USE DEF EveryoneReady
  <1>1. CASE UNCHANGED <<readiness, awaiting, phase, ready>>
    BY <1>1
  <1>2. CASE Continuation
    BY <1>2
    DEF Continuation, SetupResolves, RunCoordinatorHook, StartBeforeAllHooksPhase,
        BeforeAllHooksResolve, TestCasesResolve, AfterAllHooksPhaseResolves, PhaseResolved,
        AfterAllHooksResolve, Rejected, Return, EnterTeardown, adapterVars, phaseVars
  <1>3. ASSUME NEW w \in Workers, Fill(w)
        PROVE  EveryoneReady'
    BY <1>3 DEF Fill
  <1>4. ASSUME NEW w \in Workers, HandleReady(w)
        PROVE  EveryoneReady'
    BY <1>4 DEF HandleReady, phaseVars
  <1>5. ASSUME NEW w \in Workers, HandleFinished(w)
        PROVE  EveryoneReady'
    BY <1>5 DEF HandleFinished, NextHooks, NextTestCase
  <1>6. ASSUME NEW w \in Workers, HandleError(w) \/ HandleExit(w)
        PROVE  EveryoneReady'
    BY <1>6 DEF HandleError, HandleExit, Fail, phaseVars
  <1>7. QED
    BY <1>1, <1>2, <1>3, <1>4, <1>5, <1>6
    DEF Next, Continue, Continuation, Handle, Work, vars, UNCHANGED_main, adapterVars,
        phaseVars, Returned, TeardownWorker, HandleEnvelope, WorkerReady, WorkerTakes,
        WorkerFinishes, WorkerLost

-----------------------------------------------------------------------------
(* Workers tell of their work in order. *)

(* What is heard of one worker does not concern another.                   *)
LEMMA TellsElsewhere ==
    ASSUME NEW v \in Workers, Tells(v),
           running'[v] = running[v], thread'[v] = thread[v], jobs'[v] = jobs[v],
           toWorker'[v] = toWorker[v], fromWorker'[v] = fromWorker[v],
           v \in ready' <=> v \in ready,
           running[v].type = "TEST_CASE" =>
               reported'[running[v].case] = reported[running[v].case]
    PROVE  Tells(v)'
  BY DEF Tells, SaysReadyOnce, TellsOfHooks, TellsOfCase, HeardOfStart, HeardOfEnd

(* A worker that has just been issued a command has told nothing of it.    *)
LEMMA TellsAfterIssue ==
    ASSUME IInv, NEW v \in Workers, NEW c, Issue(v, c), OfPhase(c), phase # "none",
           toWorker[v] = << >>, jobs'[v] = {}, fromWorker'[v] = << >>,
           UNCHANGED <<thread, ready, reported>>
    PROVE  Tells(v)'
  <1>1. running'[v] = c /\ c \in Command /\ c # NoCommand
    BY CommandTypes DEF Issue, OfPhase, IInv, WorkInv, TypeOK, AdapterTypeOK
  <1>2. toWorker'[v] = IF thread[v] = "dead" THEN << >> ELSE <<c>>
    BY <1>1 DEF Issue, Post, IInv, WorkInv, TypeOK, WorkersTypeOK
  <1>3. v \in ready
    BY DEF IInv, EveryoneReady
  <1>4. SaysReadyOnce(v)'
    BY <1>1, <1>3 DEF SaysReadyOnce, IInv, ToldInOrder, Tells
  <1>5. TellsOfHooks(v)'
    BY DEF TellsOfHooks
  <1>6. running'[v].type = "TEST_CASE" => reported[c.case] = "no"
    BY <1>1 DEF OfPhase, IInv, CasesHeard
  <1>7. running'[v].type = "TEST_CASE" => TellsOfCase(v, running[v].case)'
    BY <1>1, <1>2, <1>6, ShortTails DEF TellsOfCase
  <1>8. QED
    BY <1>4, <1>5, <1>7 DEF Tells

(* Every step keeps what workers tell in order.                            *)
LEMMA ToldInOrderStep ==
    ASSUME IInv, [Next]_vars
    PROVE  ToldInOrder'
  <1> TypeOK /\ AdapterTypeOK /\ WorkersTypeOK /\ WorkInv
    BY DEF IInv, WorkInv, TypeOK
  <1> USE DEF AdapterTypeOK, WorkersTypeOK
  <1>1. SUFFICES ASSUME NEW v \in Workers
                 PROVE  Tells(v)'
    BY DEF ToldInOrder
  <1>2. Tells(v) /\ InOnePlace(v)
    BY DEF IInv, ToldInOrder, WorkInv, CommandInOnePlace
  <1>3. CASE UNCHANGED <<workerVars, running, ready, reported>>
    BY <1>2, <1>3, TellsElsewhere DEF workerVars
  <1>4. CASE Fill(v)
    <2>1. v \notin Busy /\ running[v] = NoCommand
      BY <1>4, FillsTheIdle DEF Busy
    <2>2. WorkerIdle(v)
      BY <1>2, <2>1 DEF InOnePlace
    <2>3. UNCHANGED <<thread, jobs, fromWorker, ready, reported>> /\ phase # "none"
      BY <1>4 DEF Fill, FillHooks, FillTestCases, HooksPhases
    <2>4. fromWorker[v] = << >>
      BY <1>2, <2>1, <2>3 DEF IInv, EveryoneReady, Tells, SaysReadyOnce
    <2>5. CASE UNCHANGED <<running, toWorker>>
      BY <1>2, <2>3, <2>5, TellsElsewhere
    <2>6. ASSUME NEW c \in Command, Issue(v, c), OfPhase(c)
          PROVE  Tells(v)'
      BY <2>2, <2>3, <2>4, <2>6, TellsAfterIssue DEF WorkerIdle
    <2>7. QED
      BY <1>4, <2>5, <2>6, FillIssues
  <1>5. CASE TeardownWorker(v)
    <2>1. /\ fromWorker'[v] = << >> /\ toWorker'[v] = << >> /\ jobs'[v] = {}
          /\ thread'[v] = "dead" /\ UNCHANGED <<running, ready, reported>>
      BY <1>5 DEF TeardownWorker
    <2>2. QED
      BY <2>1 DEF Tells, SaysReadyOnce, TellsOfHooks, TellsOfCase
  <1>6. CASE HandleReady(v)
    <2>1. running[v] = NoCommand /\ fromWorker'[v] = << >> /\ running' = running
      BY <1>6, ReadyTells DEF HandleReady
    <2>2. thread[v] # "loading" /\ thread' = thread
      BY <1>2, <1>6 DEF HandleReady, Arrived, Tells, SaysReadyOnce
    <2>3. QED
      BY <2>1, <2>2, KindsOfWork DEF Tells, SaysReadyOnce, HooksPhases
  <1>7. CASE HandleEnvelope(v)
    <2>1. /\ running[v].type = "TEST_CASE" /\ TellsOfCase(v, running[v].case)'
          /\ phase = "TEST_CASE" /\ v \in Busy
      BY <1>7, EnvelopeTells
    <2>2. UNCHANGED <<running, ready, thread>> /\ fromWorker[v] # << >>
      BY <1>7 DEF HandleEnvelope, adapterVars, Arrived
    <2>3. SaysReadyOnce(v)'
      BY <1>2, <2>1, <2>2 DEF Tells, SaysReadyOnce, IInv, EveryoneReady, Busy
    <2>4. QED
      BY <2>1, <2>2, <2>3 DEF Tells, HooksPhases
  <1>8. CASE HandleFinished(v)
    <2>1. /\ fromWorker'[v] = << >> /\ phase # "none"
          /\ toWorker[v] = << >> /\ jobs[v] = {}
      BY <1>8, FinishedTells, FinishedEndsCommand, CommandTypes
      DEF CommandFinished, HooksPhases
    <2>2. UNCHANGED <<thread, jobs, ready, reported>>
      BY <1>8 DEF HandleFinished
    <2>3. CASE running' = [running EXCEPT ![v] = NoCommand] /\ UNCHANGED toWorker
      <3>1. running'[v].type = "none"
        BY <2>3, KindsOfWork
      <3>2. thread[v] # "loading"
        BY <1>2, <1>8 DEF HandleFinished, Arrived, Tells, SaysReadyOnce
      <3>3. QED
        BY <2>1, <2>2, <3>1, <3>2 DEF Tells, SaysReadyOnce, HooksPhases
    <2>4. ASSUME NEW c \in Command, Issue(v, c), OfPhase(c)
          PROVE  Tells(v)'
      BY <2>1, <2>2, <2>4, TellsAfterIssue
    <2>5. QED
      BY <1>8, <2>3, <2>4, FinishedIssues
  <1>9. CASE HandleError(v) \/ HandleExit(v)
    BY <1>2, <1>9, TellsElsewhere DEF HandleError, HandleExit
  <1>10. CASE WorkerReady(v)
    <2>1. /\ v \notin ready /\ fromWorker[v] = << >> /\ phase = "none"
      BY <1>2, <1>10 DEF WorkerReady, Tells, SaysReadyOnce, IInv, EveryoneReady
    <2>2. running[v] = NoCommand
      BY <2>1, NothingRunsWithoutPhase DEF Busy
    <2>3. /\ fromWorker'[v] = <<Ready>> /\ thread'[v] = "listening"
          /\ UNCHANGED <<running, ready>>
      BY <1>10, <2>1 DEF WorkerReady, UNCHANGED_main, adapterVars
    <2>4. QED
      BY <2>1, <2>2, <2>3, KindsOfWork DEF Tells, SaysReadyOnce, HooksPhases
  <1>11. CASE WorkerTakes(v)
    <2>1. CommandPosted(v) /\ running[v] # NoCommand
      BY <1>2, <1>11
      DEF WorkerTakes, InOnePlace, WorkerIdle, CommandTaken, CommandFinished
    <2>2. /\ Head(toWorker[v]) = running[v] /\ jobs'[v] = {running[v]}
          /\ UNCHANGED <<running, ready, thread, reported>>
      BY <1>11, <2>1, ShortTails
      DEF CommandPosted, WorkerTakes, UNCHANGED_main, adapterVars
    <2>3. v \in ready
      BY <2>1, KindsOfWork, CommandTypes DEF IInv, EveryoneReady, HooksPhases
    <2>4. SaysReadyOnce(v)'
      BY <1>2, <2>1, <2>2, <2>3 DEF Tells, SaysReadyOnce
    <2>5. CASE running[v].type \in HooksPhases
      <3>1. fromWorker[v] = << >>
        BY <1>2, <2>1, <2>5, ShortTails DEF Tells, TellsOfHooks, CommandPosted
      <3>2. fromWorker'[v] = << >>
        BY <1>11, <2>2, <2>5, <3>1 DEF WorkerTakes, HooksPhases
      <3>3. QED
        BY <2>2, <2>4, <2>5, <3>2 DEF Tells, TellsOfHooks, HooksPhases
    <2>6. CASE running[v].type = "TEST_CASE"
      <3> DEFINE t == running[v].case
      <3>1. fromWorker[v] = << >> /\ reported[t] = "no"
        BY <1>2, <2>1, <2>6, ShortTails DEF Tells, TellsOfCase, CommandPosted
      <3>2. fromWorker'[v] = <<Envelope(t, "started")>>
        BY <1>11, <2>2, <2>6, <3>1 DEF WorkerTakes
      <3>3. HeardOfStart(v, t)'
        BY <2>2, <3>1, <3>2 DEF HeardOfStart
      <3>4. QED
        BY <2>2, <2>4, <2>6, <3>3 DEF Tells, TellsOfCase, HooksPhases
    <2>7. QED
      BY <2>1, <2>5, <2>6, KindsOfWork
  <1>12. CASE WorkerFinishes(v)
    <2>1. PICK command \in jobs[v] :
              /\ WorkerFinishesCase(v, command) \/ WorkerFinishesHooks(v, command)
              /\ jobs' = [jobs EXCEPT ![v] = @ \ {command}]
              /\ UNCHANGED <<thread, toWorker, running, ready, reported>>
      BY <1>12 DEF WorkerFinishes, UNCHANGED_main, adapterVars
    <2>2. CommandTaken(v) /\ command = running[v] /\ running[v] # NoCommand
      BY <1>2, <2>1 DEF InOnePlace, WorkerIdle, CommandPosted, CommandTaken, CommandFinished
    <2>3. jobs'[v] = {} /\ toWorker'[v] = << >> /\ jobs[v] # {} /\ toWorker[v] = << >>
      BY <2>1, <2>2 DEF CommandTaken
    <2>4. v \in ready
      BY <2>2, KindsOfWork, CommandTypes DEF IInv, EveryoneReady, HooksPhases
    <2>5. SaysReadyOnce(v)'
      BY <1>2, <2>1, <2>2, <2>4 DEF Tells, SaysReadyOnce
    <2>6. CASE WorkerFinishesHooks(v, command)
      <3>1. fromWorker[v] = << >> /\ running[v].type \in HooksPhases
        BY <1>2, <2>2, <2>3, <2>6 DEF Tells, TellsOfHooks, WorkerFinishesHooks
      <3>2. PICK success \in BOOLEAN : fromWorker'[v] = Append(<< >>, Finished(success))
        BY <2>6, <3>1, SuccessTypes DEF WorkerFinishesHooks
      <3>3. fromWorker'[v] = <<Finished(success)>>
        BY <3>2
      <3>4. QED
        BY <2>1, <2>3, <2>5, <3>1, <3>3 DEF Tells, TellsOfHooks, HooksPhases
    <2>7. CASE WorkerFinishesCase(v, command)
      <3> DEFINE t == running[v].case
      <3>1. PICK success \in BOOLEAN :
                fromWorker'[v] = Append(Append(fromWorker[v], Envelope(t, Outcome(success))),
                                        Finished(success))
        BY <2>2, <2>7, SuccessTypes DEF WorkerFinishesCase
      <3>2. t \in TestCases /\ running[v].type = "TEST_CASE"
        BY <2>2, <2>7, KindsOfWork, CommandTypes DEF WorkerFinishesCase
      <3>3. HeardOfStart(v, t)
        BY <1>2, <2>3, <3>2 DEF Tells, TellsOfCase
      <3>4. /\ Envelope(t, "started") \in Event /\ Envelope(t, Outcome(success)) \in Event
            /\ Finished(success) \in Event
        BY <3>2, EventTypes
      <3>5. HeardOfEnd(v, t, success)'
        <4>1. CASE reported[t] = "no" /\ fromWorker[v] = <<Envelope(t, "started")>>
          <5>1. Append(fromWorker[v], Envelope(t, Outcome(success)))
                    = <<Envelope(t, "started"), Envelope(t, Outcome(success))>>
            BY <3>4, <4>1, AppendToOne
          <5>2. fromWorker'[v] = <<Envelope(t, "started"), Envelope(t, Outcome(success)),
                                   Finished(success)>>
            BY <3>1, <3>4, <5>1, AppendToTwo
          <5>3. QED
            BY <2>1, <4>1, <5>2 DEF HeardOfEnd
        <4>2. CASE reported[t] = "started" /\ fromWorker[v] = << >>
          <5>1. Append(fromWorker[v], Envelope(t, Outcome(success)))
                    = <<Envelope(t, Outcome(success))>>
            BY <4>2
          <5>2. fromWorker'[v] = <<Envelope(t, Outcome(success)), Finished(success)>>
            BY <3>1, <3>4, <5>1, AppendToOne
          <5>3. QED
            BY <2>1, <4>2, <5>2 DEF HeardOfEnd
        <4>3. QED
          BY <3>3, <4>1, <4>2 DEF HeardOfStart
      <3>6. QED
        BY <2>1, <2>3, <2>5, <3>2, <3>5 DEF Tells, TellsOfCase, HooksPhases
    <2>8. QED
      BY <2>1, <2>6, <2>7
  <1>13. CASE WorkerLost(v)
    <2>1. /\ thread'[v] = "dead" /\ jobs'[v] = {} /\ toWorker'[v] = << >>
          /\ UNCHANGED <<fromWorker, running, ready, reported>>
      BY <1>13 DEF WorkerLost, UNCHANGED_main, adapterVars
    <2>2. SaysReadyOnce(v)' /\ (TellsOfHooks(v) => TellsOfHooks(v)')
      BY <1>2, <2>1 DEF Tells, SaysReadyOnce, TellsOfHooks
    <2>3. running[v].type = "TEST_CASE" => TellsOfCase(v, running[v].case)'
      BY <1>2, <2>1 DEF Tells, TellsOfCase, HeardOfStart, HeardOfEnd
    <2>4. QED
      BY <1>2, <2>1, <2>2, <2>3 DEF Tells
  <1>14. ASSUME NEW w \in Workers, w # v,
                Fill(w) \/ TeardownWorker(w) \/ Handle(w) \/ Work(w) \/ WorkerLost(w)
         PROVE  Tells(v)'
    <2>1. /\ thread'[v] = thread[v] /\ jobs'[v] = jobs[v] /\ fromWorker'[v] = fromWorker[v]
          /\ running'[v] = running[v] /\ toWorker'[v] = toWorker[v]
      BY <1>14, OtherWorkersUnchanged
    <2>2. v \in ready' <=> v \in ready
      BY <1>14
      DEF Fill, TeardownWorker, Handle, Work, WorkerLost, HandleReady, HandleEnvelope,
          HandleFinished, HandleError, HandleExit, WorkerReady, WorkerTakes, WorkerFinishes,
          UNCHANGED_main, adapterVars
    <2>3. CASE reported' = reported
      BY <1>2, <2>1, <2>2, <2>3, TellsElsewhere
    <2>4. CASE HandleEnvelope(w)
      <3>1. /\ w \in Busy /\ phase = "TEST_CASE"
            /\ reported' = [reported EXCEPT ![running[w].case] = Head(fromWorker[w]).says]
        BY <2>4, EnvelopeTells
      <3>2. running[v].type = "TEST_CASE" => running[v].case # running[w].case
        BY <1>14, <3>1, KindsOfWork DEF WorkInv, RunningOfPhase
      <3>3. running[v].type = "TEST_CASE" => running[v].case \in TestCases
        BY KindsOfWork, CommandTypes
      <3>4. running[v].type = "TEST_CASE" =>
                reported'[running[v].case] = reported[running[v].case]
        BY <3>1, <3>2, <3>3 DEF TypeOK, ReportedTypeOK
      <3>5. QED
        BY <1>2, <2>1, <2>2, <3>4, TellsElsewhere
    <2>5. QED
      BY <1>14, <2>3, <2>4
      DEF Fill, TeardownWorker, Handle, Work, WorkerLost, HandleReady, HandleFinished,
          HandleError, HandleExit, WorkerReady, WorkerTakes, WorkerFinishes, UNCHANGED_main
  <1>15. CASE Continuation
    BY <1>2, <1>15, ContinuationLeavesWorkers, TellsElsewhere
    DEF Continuation, UNCHANGED_workers, adapterVars, workerVars, SetupResolves,
        RunCoordinatorHook, StartBeforeAllHooksPhase, BeforeAllHooksResolve, TestCasesResolve,
        AfterAllHooksPhaseResolves, AfterAllHooksResolve, Rejected, Return
  <1>16. CASE UNCHANGED vars
    BY <1>3, <1>16 DEF vars, adapterVars
  <1>17. QED
    BY <1>4, <1>5, <1>6, <1>7, <1>8, <1>9, <1>10, <1>11, <1>12, <1>13, <1>14, <1>15, <1>16
    DEF Next, Continue, Continuation, Handle, Work, Returned

-----------------------------------------------------------------------------
(* Hooks and phases. *)

(* A phase that resolved while it was awaited had asked every worker.      *)
LEMMA ResolvedPhaseIsIdle ==
    ASSUME IInv, PhaseResolved, NEW w \in Workers
    PROVE  running[w] = NoCommand
  BY DEF IInv, WorkInv, PhaseOfStage, ResolvedIsDrained, PhaseResolved, Busy

(* Every step keeps the hooks a worker has finished those of the phases    *)
(* gone by.                                                                *)
LEMMA HooksOfPhasesStep ==
    ASSUME IInv, [Next]_vars
    PROVE  HooksOfPhases'
  <1> TypeOK /\ AdapterTypeOK /\ WorkersTypeOK /\ WorkInv /\ PhaseOfStage
    BY DEF IInv, WorkInv, TypeOK
  <1> USE DEF AdapterTypeOK, WorkersTypeOK
  <1>1. SUFFICES ASSUME NEW v \in Workers
                 PROVE  HooksOfPhase(v)'
    BY DEF HooksOfPhases
  <1>2. HooksOfPhase(v) /\ InOnePlace(v) /\ Tells(v)
    BY DEF IInv, HooksOfPhases, ToldInOrder, WorkInv, CommandInOnePlace
  <1>3. ASSUME UNCHANGED <<phase, stage, awaiting, filled>>, running'[v] = running[v],
               hooksDone'[v] = hooksDone[v], fromWorker'[v] # << >> => fromWorker[v] # << >>
        PROVE  HooksOfPhase(v)'
    BY <1>2, <1>3 DEF HooksOfPhase
  <1>4. CASE Continuation
    <2>1. UNCHANGED <<running, hooksDone, fromWorker>>
      BY <1>4, ContinuationLeavesWorkers DEF workerVars
    <2>2. CASE SetupResolves \/ RunCoordinatorHook
      BY <1>2, <2>1, <2>2
      DEF SetupResolves, SetupSettled, RunCoordinatorHook, HooksOfPhase, phaseVars,
          coordinatorVars, adapterVars
    <2>3. CASE StartBeforeAllHooksPhase
      <3>1. hooksDone[v] = {} /\ fromWorker[v] = << >>
        <4>1. phase = "none" /\ stage = "beforeAllHooks" /\ awaiting = "hooks"
          BY <2>3 DEF StartBeforeAllHooksPhase, PhaseOfStage
        <4>2. v \in ready /\ running[v] = NoCommand
          BY <4>1, NothingRunsWithoutPhase DEF Busy, IInv, EveryoneReady
        <4>3. QED
          BY <1>2, <4>1, <4>2 DEF HooksOfPhase, Tells, SaysReadyOnce
      <3>2. phase' = "BEFOREALL_HOOKS" /\ awaiting' = "fill" /\ filled' = 0
        BY <2>3 DEF StartBeforeAllHooksPhase, NewHooksPhase, StartPhase
      <3>3. QED
        BY <2>1, <3>1, <3>2 DEF HooksOfPhase, Workers
    <2>4. CASE BeforeAllHooksResolve
      <3>1. CASE hooksOk /\ PhaseOk
        <4>1. phase = "BEFOREALL_HOOKS" /\ running[v] = NoCommand /\ awaiting = "phase"
          BY <2>4, ResolvedPhaseIsIdle DEF BeforeAllHooksResolve, PhaseResolved, PhaseOfStage
        <4>2. hooksDone[v] = {"BEFOREALL_HOOKS"}
          BY <1>2, <4>1 DEF HooksOfPhase
        <4>3. phase' = "TEST_CASE"
          BY <2>4, <3>1 DEF BeforeAllHooksResolve, NewTestCasesPhase
        <4>4. QED
          BY <2>1, <4>2, <4>3 DEF HooksOfPhase
      <3>2. CASE ~(hooksOk /\ PhaseOk)
        BY <2>4, <3>2 DEF BeforeAllHooksResolve, NewHooksPhase, HooksOfPhase
      <3>3. QED
        BY <3>1, <3>2
    <2>5. CASE TestCasesResolve
      BY <2>5 DEF TestCasesResolve, NewHooksPhase, HooksOfPhase
    <2>6. CASE AfterAllHooksPhaseResolves
      BY <2>6 DEF AfterAllHooksPhaseResolves, DeletePhase, coordinatorVars, HooksOfPhase
    <2>7. CASE AfterAllHooksResolve \/ Rejected \/ Return
      <3>1. /\ stage' \in {"teardown", "returned"} /\ UNCHANGED <<phase, filled>>
            /\ awaiting' \in {"teardown", "none"} /\ awaiting # "fill"
        BY <2>7
        DEF AfterAllHooksResolve, AfterAllHooksSettled, Rejected, Caught, Return,
            TeardownSettled, EnterTeardown, phaseVars
      <3>2. QED
        BY <1>2, <2>1, <3>1 DEF HooksOfPhase
    <2>8. QED
      BY <1>4, <2>2, <2>3, <2>4, <2>5, <2>6, <2>7 DEF Continuation
  <1>5. CASE Fill(v)
    <2>1. UNCHANGED <<phase, stage, hooksDone, fromWorker>> /\ phase # "none"
      BY <1>5 DEF Fill, FillHooks, FillTestCases, coordinatorVars, HooksPhases
    <2>2. CASE phase = "BEFOREALL_HOOKS"
      <3>1. Issue(v, RunHooks(phase)) /\ RunHooks(phase) \in Command
        BY <1>5, <2>2, CommandTypes DEF Fill, FillHooks, FillTestCases, HooksPhases
      <3>2. running'[v] # NoCommand
        BY <3>1, CommandTypes DEF Issue
      <3>3. QED
        BY <1>2, <2>1, <2>2, <3>2 DEF HooksOfPhase
    <2>3. QED
      BY <1>2, <2>1, <2>2 DEF HooksOfPhase
  <1>6. ASSUME NEW w \in Workers, w # v, Fill(w)
        PROVE  HooksOfPhase(v)'
    <2>1. UNCHANGED <<phase, stage, hooksDone, fromWorker>> /\ running'[v] = running[v]
      BY <1>6, OtherWorkersUnchanged DEF Fill, FillHooks, FillTestCases, coordinatorVars
    <2>2. awaiting' = "fill" /\ v <= filled' => v <= filled
      BY <1>6 DEF Fill, Workers
    <2>3. awaiting' # "fill" => v <= filled
      BY <1>6, ParallelAssumption DEF Fill, Workers
    <2>4. awaiting = "fill"
      BY <1>6 DEF Fill
    <2>5. QED
      BY <1>2, <2>1, <2>2, <2>3, <2>4 DEF HooksOfPhase
  <1>7. CASE HandleFinished(v)
    <2>1. /\ UNCHANGED <<phase, stage, awaiting, filled, hooksDone>> /\ fromWorker[v] # << >>
          /\ running[v].type = phase /\ phase \in HooksPhases \cup {"TEST_CASE"}
      BY <1>7, FinishedEndsCommand, CommandTypes
      DEF HandleFinished, NextHooks, NextTestCase, coordinatorVars, Arrived
    <2>2. QED
      BY <1>2, <2>1 DEF HooksOfPhase, HooksPhases
  <1>8. CASE WorkerTakes(v)
    <2>1. running[v] # NoCommand /\ Head(toWorker[v]) = running[v]
      BY <1>2, <1>8, ShortTails
      DEF WorkerTakes, InOnePlace, WorkerIdle, CommandPosted, CommandTaken, CommandFinished
    <2>2. UNCHANGED <<phase, stage, awaiting, filled, hooksDone, running>>
      BY <1>8 DEF WorkerTakes, UNCHANGED_main, coordinatorVars, adapterVars, phaseVars
    <2>3. phase = "BEFOREALL_HOOKS" => fromWorker'[v] = fromWorker[v]
      BY <1>8, <2>1, KindsOfWork DEF WorkerTakes
    <2>4. QED
      BY <1>2, <2>2, <2>3 DEF HooksOfPhase
  <1>9. CASE WorkerFinishes(v)
    <2>1. PICK command \in jobs[v] :
              WorkerFinishesCase(v, command) \/ WorkerFinishesHooks(v, command)
      BY <1>9 DEF WorkerFinishes
    <2>2. command = running[v] /\ running[v] # NoCommand
      BY <1>2, <2>1 DEF InOnePlace, WorkerIdle, CommandPosted, CommandTaken, CommandFinished
    <2>3. UNCHANGED <<phase, stage, awaiting, filled, running>>
      BY <1>9 DEF WorkerFinishes, UNCHANGED_main, coordinatorVars, adapterVars, phaseVars
    <2>4. CASE phase = "BEFOREALL_HOOKS"
      <3>1. hooksDone'[v] = hooksDone[v] \cup {"BEFOREALL_HOOKS"}
        BY <2>1, <2>2, <2>4, KindsOfWork DEF WorkerFinishesCase, WorkerFinishesHooks
      <3>2. QED
        BY <1>2, <2>3, <2>4, <3>1 DEF HooksOfPhase
    <2>5. CASE phase = "TEST_CASE"
      <3>1. hooksDone' = hooksDone
        BY <2>1, <2>2, <2>5, KindsOfWork
        DEF WorkerFinishesCase, WorkerFinishesHooks, HooksPhases
      <3>2. QED
        BY <1>2, <2>3, <2>5, <3>1 DEF HooksOfPhase
    <2>6. CASE phase = "AFTERALL_HOOKS"
      BY <2>3, <2>6 DEF HooksOfPhase
    <2>7. QED
      BY <2>2, <2>4, <2>5, <2>6, KindsOfWork, CommandTypes DEF HooksPhases
  <1>10. CASE WorkerReady(v)
    <2>1. phase = "none"
      BY <1>2, <1>10 DEF WorkerReady, Tells, SaysReadyOnce, IInv, EveryoneReady
    <2>2. QED
      BY <1>2, <1>10, <2>1
      DEF WorkerReady, UNCHANGED_main, coordinatorVars, phaseVars, HooksOfPhase
  <1>11. CASE \/ TeardownWorker(v) \/ HandleReady(v) \/ HandleEnvelope(v) \/ HandleError(v)
              \/ HandleExit(v) \/ WorkerLost(v)
    BY <1>3, <1>11
    DEF TeardownWorker, HandleReady, HandleEnvelope, HandleError, HandleExit, Fail, WorkerLost,
        Arrived, Consume, UNCHANGED_main, coordinatorVars, adapterVars, phaseVars
  <1>12. ASSUME NEW w \in Workers, w # v,
                TeardownWorker(w) \/ Handle(w) \/ Work(w) \/ WorkerLost(w)
         PROVE  HooksOfPhase(v)'
    <2>1. fromWorker'[v] = fromWorker[v] /\ running'[v] = running[v]
      BY <1>12, OtherWorkersUnchanged
    <2>2. hooksDone'[v] = hooksDone[v]
      BY <1>12
      DEF TeardownWorker, Handle, Work, WorkerLost, HandleReady, HandleEnvelope,
          HandleFinished, HandleError, HandleExit, WorkerReady, WorkerTakes, WorkerFinishes,
          WorkerFinishesCase, WorkerFinishesHooks
    <2>3. UNCHANGED <<phase, stage, awaiting, filled>>
      BY <1>12
      DEF TeardownWorker, Handle, Work, WorkerLost, HandleReady, HandleEnvelope,
          HandleFinished, NextHooks, NextTestCase, HandleError, HandleExit, Fail, WorkerReady,
          WorkerTakes, WorkerFinishes, UNCHANGED_main, coordinatorVars, adapterVars, phaseVars
    <2>4. QED
      BY <1>3, <2>1, <2>2, <2>3
  <1>13. CASE UNCHANGED vars
    BY <1>3, <1>13 DEF vars, workerVars, coordinatorVars, adapterVars, phaseVars
  <1>14. QED
    BY <1>4, <1>5, <1>6, <1>7, <1>8, <1>9, <1>10, <1>11, <1>12, <1>13
    DEF Next, Continue, Continuation, Handle, Work, Returned

-----------------------------------------------------------------------------
(* Test cases are heard of. *)

(* A case in progress when a worker has finished is its own or stays in    *)
(* progress, and its own was heard to end as the worker says.              *)
LEMMA FinishedCaseHeard ==
    ASSUME IInv, NEW w \in Workers, HandleFinished(w), phase = "TEST_CASE"
    PROVE  LET success == Head(fromWorker[w]).says = "passed"
               left == inProgress \ {running[w].case}
           IN  /\ NextTestCase(w, success)
               /\ \A t \in TestCases \ (queue \cup left) :
                      reported[t] \in (IF failing' THEN {"passed", "failed"} ELSE {"passed"})
  <1> DEFINE success == Head(fromWorker[w]).says = "passed"
             left == inProgress \ {running[w].case}
  <1>1. NextTestCase(w, success)
    BY DEF HandleFinished, NextHooks, HooksPhases
  <1>2. running[w].type = "TEST_CASE"
    BY FinishedEndsCommand DEF IInv
  <1>3. reported[running[w].case] = Outcome(success)
    BY <1>2, FinishedTells
  <1>4. failing' = (failing \/ ~success) /\ failing \in BOOLEAN
    BY <1>1 DEF NextTestCase, IInv, WorkInv, TypeOK, PhaseTypeOK
  <1>5. Outcome(success) \in {"passed", "failed"} /\ (Outcome(success) = "passed" <=> success)
    BY EventsDiffer
  <1>6. \A t \in TestCases \ (queue \cup inProgress) :
            reported[t] \in (IF failing THEN {"passed", "failed"} ELSE {"passed"})
    BY DEF IInv, CasesHeard
  <1> HIDE DEF success
  <1>7. ASSUME NEW t \in TestCases \ (queue \cup left)
        PROVE  reported[t] \in (IF failing' THEN {"passed", "failed"} ELSE {"passed"})
    <2>1. CASE t = running[w].case
      BY <1>3, <1>4, <1>5, <2>1
    <2>2. CASE t # running[w].case
      BY <1>4, <1>6, <2>2
    <2>3. QED
      BY <2>1, <2>2
  <1>8. QED
    BY <1>1, <1>7 DEF success

(* Every step keeps what is heard of test cases and what the phase knows   *)
(* of them together.                                                       *)
LEMMA CasesHeardStep ==
    ASSUME IInv, [Next]_vars
    PROVE  CasesHeard'
  <1> TypeOK /\ PhaseTypeOK /\ ReportedTypeOK /\ WorkInv /\ PhaseOfStage /\ CasesHeard
    BY DEF IInv, WorkInv, TypeOK
  <1> USE DEF PhaseTypeOK, ReportedTypeOK
  <1>1. CASE UNCHANGED <<stage, phase, settled, queue, inProgress, failing, successByPhase,
                         reported>>
    BY <1>1 DEF CasesHeard
  <1>2. CASE Continuation
    <2>1. reported' = reported
      BY <1>2
      DEF Continuation, UNCHANGED_workers, SetupResolves, RunCoordinatorHook,
          StartBeforeAllHooksPhase, BeforeAllHooksResolve, TestCasesResolve,
          AfterAllHooksPhaseResolves, AfterAllHooksResolve, Rejected, Return
    <2>2. CASE SetupResolves \/ RunCoordinatorHook
      BY <2>1, <2>2
      DEF SetupResolves, SetupSettled, RunCoordinatorHook, phaseVars, coordinatorVars, CasesHeard
    <2>3. CASE StartBeforeAllHooksPhase
      BY <2>1, <2>3 DEF StartBeforeAllHooksPhase, NewHooksPhase, coordinatorVars, CasesHeard
    <2>4. CASE BeforeAllHooksResolve
      <3>1. /\ \A t \in TestCases : reported[t] = "no"
            /\ ~successByPhase["testCases"]
            /\ stage = "beforeAllHooks"
        BY <2>4 DEF BeforeAllHooksResolve, CasesHeard
      <3>2. successByPhase'["testCases"] = successByPhase["testCases"]
        BY <2>4
        DEF BeforeAllHooksResolve, BeforeAllHooksSettled, TypeOK, CoordinatorTypeOK, Phases
      <3>3. stage' \in {"testCases", "afterAllHooks"}
        BY <2>4 DEF BeforeAllHooksResolve, BeforeAllHooksSettled
      <3>4. phase' = "TEST_CASE" => queue' = TestCases /\ ~failing'
        BY <2>4 DEF BeforeAllHooksResolve, NewTestCasesPhase, NewHooksPhase
      <3>5. settled' = "success" => ~failing'
        BY <2>4 DEF BeforeAllHooksResolve, NewTestCasesPhase, NewHooksPhase
      <3>6. QED
        BY <2>1, <3>1, <3>2, <3>3, <3>4, <3>5 DEF CasesHeard
    <2>5. CASE TestCasesResolve
      <3>1. phase = "TEST_CASE" /\ settled \in {"success", "failure"}
        BY <2>5 DEF TestCasesResolve, PhaseResolved, PhaseOfStage
      <3>2. queue = {} /\ inProgress = {}
        BY <3>1 DEF WorkInv, ResolvedIsDrained, RunningOfPhase
      <3>3. settled = "success" => \A t \in TestCases : reported[t] = "passed"
        BY <3>1, <3>2 DEF CasesHeard
      <3>4. /\ successByPhase'["testCases"] <=> settled = "success"
            /\ stage' = "afterAllHooks"
            /\ phase' = "AFTERALL_HOOKS" /\ settled' = "pending"
        BY <2>5
        DEF TestCasesResolve, TestCasesSettled, PhaseOk, NewHooksPhase, TypeOK,
            CoordinatorTypeOK, Phases
      <3>5. QED
        BY <2>1, <3>3, <3>4 DEF CasesHeard
    <2>6. CASE AfterAllHooksPhaseResolves
      BY <2>1, <2>6 DEF AfterAllHooksPhaseResolves, DeletePhase, coordinatorVars, CasesHeard
    <2>7. CASE AfterAllHooksResolve \/ Rejected \/ Return
      <3>1. /\ stage' \in {"teardown", "returned"}
            /\ UNCHANGED <<phase, settled, queue, inProgress, failing>>
        BY <2>7
        DEF AfterAllHooksResolve, AfterAllHooksSettled, Rejected, Caught, Return,
            TeardownSettled, phaseVars
      <3>2. successByPhase'["testCases"] = successByPhase["testCases"]
        BY <2>7
        DEF AfterAllHooksResolve, AfterAllHooksSettled, Rejected, Caught, Return,
            TeardownSettled, TypeOK, CoordinatorTypeOK, Phases
      <3>3. QED
        BY <2>1, <3>1, <3>2 DEF CasesHeard
    <2>8. QED
      BY <1>2, <2>2, <2>3, <2>4, <2>5, <2>6, <2>7 DEF Continuation
  <1>3. ASSUME NEW w \in Workers, Fill(w)
        PROVE  CasesHeard'
    <2>1. UNCHANGED <<stage, phase, settled, successByPhase, reported>>
      BY <1>3 DEF Fill, FillHooks, FillTestCases, coordinatorVars
    <2>2. CASE UNCHANGED <<queue, inProgress, failing>>
      BY <1>1, <2>1, <2>2
    <2>3. CASE FillTestCases(w)
      <3>1. failing' = failing
        BY <2>3 DEF FillTestCases
      <3>2. queue' \subseteq queue /\ queue \cup inProgress \subseteq queue' \cup inProgress'
        BY <2>3 DEF FillTestCases, Dequeue
      <3>3. QED
        BY <2>1, <3>1, <3>2 DEF CasesHeard
    <2>4. QED
      BY <1>3, <2>2, <2>3 DEF Fill, FillHooks
  <1>4. ASSUME NEW w \in Workers, HandleEnvelope(w)
        PROVE  CasesHeard'
    <2>1. /\ phase = "TEST_CASE" /\ running[w].case \in inProgress
          /\ reported' = [reported EXCEPT ![running[w].case] = Head(fromWorker[w]).says]
          /\ UNCHANGED <<stage, phase, settled, queue, inProgress, failing, successByPhase>>
      BY <1>4, EnvelopeTells DEF HandleEnvelope, coordinatorVars, phaseVars
    <2>2. \A t \in TestCases \ {running[w].case} : reported'[t] = reported[t]
      BY <2>1
    <2>3. stage \notin {"setup", "beforeAllHooks"}
      BY <2>1 DEF PhaseOfStage, TypeOK, AdapterTypeOK
    <2>4. running[w].case \notin queue
      BY <2>1 DEF WorkInv, RunningOfPhase
    <2>5. QED
      BY <2>1, <2>2, <2>3, <2>4 DEF CasesHeard
  <1>5. ASSUME NEW w \in Workers, HandleFinished(w)
        PROVE  CasesHeard'
    <2> DEFINE success == Head(fromWorker[w]).says = "passed"
               left == inProgress \ {running[w].case}
    <2>1. UNCHANGED <<stage, successByPhase, reported>>
      BY <1>5 DEF HandleFinished, coordinatorVars
    <2>2. UNCHANGED phase /\ phase # "none" /\ w \in Busy
      BY <1>5, FinishedEndsCommand DEF HandleFinished, NextHooks, NextTestCase, HooksPhases
    <2>3. settled # "success"
      BY <2>2 DEF WorkInv, ResolvedIsDrained
    <2>4. settled' = "success" => ~failing'
      BY <1>5, <2>3 DEF HandleFinished, NextHooks, NextTestCase, Settle, Verdict
    <2>5. CASE phase = "TEST_CASE"
      <3>1. /\ NextTestCase(w, success)
            /\ \A t \in TestCases \ (queue \cup left) :
                   reported[t] \in (IF failing' THEN {"passed", "failed"} ELSE {"passed"})
        BY <1>5, <2>5, FinishedCaseHeard
      <3>2. queue' \subseteq queue /\ queue \cup left \subseteq queue' \cup inProgress'
        BY <3>1 DEF NextTestCase, Dequeue
      <3>3. QED
        BY <2>1, <2>2, <2>4, <2>5, <3>1, <3>2 DEF CasesHeard
    <2>6. CASE phase # "TEST_CASE"
      BY <2>1, <2>2, <2>4, <2>6 DEF CasesHeard
    <2>7. QED
      BY <2>5, <2>6
  <1>6. ASSUME NEW w \in Workers, HandleError(w) \/ HandleExit(w)
        PROVE  CasesHeard'
    <2>1. UNCHANGED <<stage, phase, queue, inProgress, failing, successByPhase, reported>>
      BY <1>6 DEF HandleError, HandleExit, Fail, phaseVars, coordinatorVars
    <2>2. settled' = "success" => settled = "success"
      BY <1>6 DEF HandleError, HandleExit, Fail, Settle, phaseVars
    <2>3. QED
      BY <2>1, <2>2 DEF CasesHeard
  <1>7. QED
    BY <1>1, <1>2, <1>3, <1>4, <1>5, <1>6
    DEF Next, Continue, Continuation, Handle, Work, vars, UNCHANGED_main, coordinatorVars,
        phaseVars, Returned, TeardownWorker, HandleReady, WorkerReady, WorkerTakes,
        WorkerFinishes, WorkerLost

-----------------------------------------------------------------------------
(* The end of a run. *)

(* Every step keeps an open phase a sign of an aborted run, and workers    *)
(* that are gone silent.                                                   *)
LEMMA EndsInOrderStep ==
    ASSUME IInv, [Next]_vars
    PROVE  EndsInOrder'
  <1> TypeOK /\ AdapterTypeOK /\ WorkersTypeOK /\ WorkInv /\ PhaseOfStage /\ EndsInOrder
    BY DEF IInv, WorkInv, TypeOK
  <1> USE DEF AdapterTypeOK, WorkersTypeOK, EndsInOrder
  <1>1. CASE UNCHANGED <<awaiting, phase, result, tornDown, thread, jobs, fromWorker>>
    BY <1>1
  <1>2. CASE Continuation
    <2>1. UNCHANGED <<thread, jobs, fromWorker, tornDown>>
      BY <1>2, ContinuationLeavesWorkers
      DEF workerVars, adapterVars, Continuation, SetupResolves, RunCoordinatorHook,
          StartBeforeAllHooksPhase, BeforeAllHooksResolve, TestCasesResolve,
          AfterAllHooksPhaseResolves, AfterAllHooksResolve, Rejected, Return
    <2>2. CASE \/ SetupResolves \/ RunCoordinatorHook \/ StartBeforeAllHooksPhase
               \/ BeforeAllHooksResolve \/ TestCasesResolve \/ AfterAllHooksPhaseResolves
      <3>1. awaiting' \in {"hooks", "fill"}
        BY <2>2
        DEF SetupResolves, RunCoordinatorHook, StartBeforeAllHooksPhase, StartPhase,
            BeforeAllHooksResolve, TestCasesResolve, AfterAllHooksPhaseResolves, adapterVars
      <3>2. QED
        BY <2>1, <3>1
    <2>3. CASE AfterAllHooksResolve
      BY <2>1, <2>3 DEF AfterAllHooksResolve, EnterTeardown, phaseVars, PhaseOfStage
    <2>4. CASE Rejected
      BY <2>1, <2>4 DEF Rejected, EnterTeardown, Caught
    <2>5. CASE Return
      BY <2>1, <2>5 DEF Return, TeardownSettled, phaseVars
    <2>6. QED
      BY <1>2, <2>2, <2>3, <2>4, <2>5 DEF Continuation
  <1>3. ASSUME NEW w \in Workers, Fill(w)
        PROVE  EndsInOrder'
    BY <1>3 DEF Fill
  <1>4. ASSUME NEW w \in Workers, TeardownWorker(w)
        PROVE  EndsInOrder'
    <2>1. /\ tornDown' = w /\ w = tornDown + 1 /\ tornDown \in Nat
          /\ thread' = [thread EXCEPT ![w] = "dead"]
          /\ jobs' = [jobs EXCEPT ![w] = {}]
          /\ fromWorker' = [fromWorker EXCEPT ![w] = << >>]
          /\ UNCHANGED <<awaiting, phase, result>>
      BY <1>4, ParallelAssumption DEF TeardownWorker, coordinatorVars, phaseVars
    <2>2. awaiting # "none"
      BY <2>1, ParallelAssumption DEF Workers
    <2>3. \A v \in Workers : v <= tornDown' => v <= tornDown \/ v = w
      BY <2>1 DEF Workers
    <2>4. QED
      BY <2>1, <2>2, <2>3
  <1>5. ASSUME NEW w \in Workers, Handle(w)
        PROVE  EndsInOrder'
    <2>1. UNCHANGED <<awaiting, phase, result, tornDown, thread, jobs>>
      BY <1>5
      DEF Handle, HandleReady, HandleEnvelope, HandleFinished, NextHooks, NextTestCase,
          HandleError, HandleExit, Fail, coordinatorVars, adapterVars, phaseVars
    <2>2. \A v \in Workers : fromWorker[v] = << >> => fromWorker'[v] = << >>
      BY <1>5
      DEF Handle, HandleReady, HandleEnvelope, HandleFinished, HandleError, HandleExit,
          Arrived, Consume
    <2>3. QED
      BY <2>1, <2>2
  <1>6. ASSUME NEW w \in Workers, Work(w) \/ WorkerLost(w)
        PROVE  EndsInOrder'
    <2>1. UNCHANGED <<awaiting, phase, result, tornDown>>
      BY <1>6
      DEF Work, WorkerReady, WorkerTakes, WorkerFinishes, WorkerLost, UNCHANGED_main,
          coordinatorVars, adapterVars, phaseVars
    <2>2. thread[w] # "dead" \/ jobs[w] # {}
      BY <1>6 DEF Work, WorkerReady, WorkerTakes, WorkerFinishes, WorkerLost
    <2>3. thread'[w] = "dead" => jobs'[w] = {}
      BY <1>6, <2>2 DEF Work, WorkerReady, WorkerTakes, WorkerFinishes, WorkerLost
    <2>4. \A v \in Workers \ {w} :
              /\ thread'[v] = thread[v] /\ fromWorker'[v] = fromWorker[v]
              /\ jobs'[v] = jobs[v]
      BY <1>6, OtherWorkersUnchanged
    <2>5. QED
      BY <2>1, <2>2, <2>3, <2>4
  <1>7. QED
    BY <1>1, <1>2, <1>3, <1>4, <1>5, <1>6
    DEF Next, Continue, Continuation, vars, coordinatorVars, adapterVars, phaseVars, workerVars,
        Returned

-----------------------------------------------------------------------------
(* The assignment rule. *)

(* `select` asks the rule, except when nothing at all is running.          *)
LEMMA SelectLetsRun ==
    ASSUME NEW beside, NEW t \in Select(beside)
    PROVE  t \in queue /\ (CanAssign[t, beside] \/ beside = {})
  <1> DEFINE assignable == {u \in queue : CanAssign[u, beside]}
  <1>1. t \in Candidates(beside)
    BY DEF Select
  <1>2. CASE assignable # {}
    <2>1. t \in assignable
      BY <1>1, <1>2 DEF Candidates
    <2>2. QED
      BY <2>1
  <1>3. CASE assignable = {}
    BY <1>1, <1>3 DEF Candidates
  <1>4. QED
    BY <1>2, <1>3

(* A case let run beside others by a pairwise rule pairs with each.        *)
LEMMA PairsWithEach ==
    ASSUME RuleIsPairwise, NEW beside \in SUBSET TestCases, NEW t \in TestCases,
           CanAssign[t, beside] \/ beside = {},
           \A u, v \in beside : u # v => CanAssign[u, {v}] \/ CanAssign[v, {u}]
    PROVE  \A u, v \in beside \cup {t} : u # v => CanAssign[u, {v}] \/ CanAssign[v, {u}]
  BY DEF RuleIsPairwise

(* Every step keeps cases in progress that one of each two lets run.       *)
LEMMA PairsLetRunStep ==
    ASSUME IInv, [Next]_vars
    PROVE  PairsLetRun'
  <1> PairsLetRun /\ queue \subseteq TestCases /\ inProgress \subseteq TestCases
    BY DEF IInv, WorkInv, TypeOK, PhaseTypeOK
  <1> USE DEF PairsLetRun
  <1>1. CASE UNCHANGED <<phase, inProgress>>
    BY <1>1
  <1>2. CASE Continuation
    <2>1. phase' = "TEST_CASE" => inProgress' = {} \/ UNCHANGED <<phase, inProgress>>
      BY <1>2
      DEF Continuation, SetupResolves, RunCoordinatorHook, StartBeforeAllHooksPhase,
          BeforeAllHooksResolve, TestCasesResolve, AfterAllHooksPhaseResolves,
          AfterAllHooksResolve, Rejected, Return, NewHooksPhase, NewTestCasesPhase,
          DeletePhase, phaseVars
    <2>2. QED
      BY <1>1, <2>1
  <1>3. ASSUME NEW w \in Workers, Fill(w)
        PROVE  PairsLetRun'
    <2>1. CASE UNCHANGED inProgress
      BY <1>3, <2>1 DEF Fill, FillHooks, FillTestCases
    <2>2. CASE \E t \in Select(inProgress) : inProgress' = inProgress \cup {t}
      <3>1. phase = phase'
        BY <1>3 DEF Fill, FillHooks, FillTestCases
      <3>2. QED
        BY <2>2, <3>1, SelectLetsRun, PairsWithEach
    <2>3. QED
      BY <1>3, <2>1, <2>2 DEF Fill, FillHooks, FillTestCases, Dequeue
  <1>4. ASSUME NEW w \in Workers, HandleFinished(w)
        PROVE  PairsLetRun'
    <2> DEFINE left == inProgress \ {running[w].case}
    <2>1. phase' = phase
      BY <1>4 DEF HandleFinished, NextHooks, NextTestCase
    <2>2. CASE inProgress' \subseteq inProgress
      BY <2>1, <2>2
    <2>3. ASSUME NEW t \in Select(left), inProgress' = left \cup {t}
          PROVE  PairsLetRun'
      <3>1. left \in SUBSET TestCases /\ t \in TestCases /\ (CanAssign[t, left] \/ left = {})
        BY SelectLetsRun
      <3>2. CASE RuleIsPairwise /\ phase = "TEST_CASE"
        <4>1. \A u, v \in left : u # v => CanAssign[u, {v}] \/ CanAssign[v, {u}]
          BY <3>2
        <4>2. \A u, v \in left \cup {t} : u # v => CanAssign[u, {v}] \/ CanAssign[v, {u}]
          BY <3>1, <3>2, <4>1, PairsWithEach
        <4>3. QED
          BY <2>3, <4>2
      <3>3. QED
        BY <2>1, <3>2
    <2>4. QED
      BY <1>4, <2>2, <2>3 DEF HandleFinished, NextHooks, NextTestCase, Dequeue
  <1>5. ASSUME NEW w \in Workers, HandleError(w) \/ HandleExit(w)
        PROVE  PairsLetRun'
    BY <1>1, <1>5 DEF HandleError, HandleExit, Fail, phaseVars
  <1>6. QED
    BY <1>1, <1>2, <1>3, <1>4, <1>5
    DEF Next, Continue, Continuation, Handle, Work, vars, UNCHANGED_main, phaseVars, Returned,
        TeardownWorker, HandleReady, HandleEnvelope, WorkerReady, WorkerTakes, WorkerFinishes,
        WorkerLost

-----------------------------------------------------------------------------
(* The invariant. *)

(* It holds before anything has happened.                                  *)
LEMMA InitIInv == Init => IInv
  <1> SUFFICES ASSUME Init PROVE IInv
    OBVIOUS
  <1>1. WorkInv
    BY InitWorkInv
  <1>2. EveryoneReady /\ HooksOfPhases /\ CasesHeard /\ PairsLetRun
    BY DEF Init, PhaseInit, CoordinatorInit, EveryoneReady, HooksOfPhases, HooksOfPhase,
           CasesHeard, PairsLetRun, Phases
  <1>3. ToldInOrder
    BY DEF Init, ToldInOrder, Tells, SaysReadyOnce, NoCommand, HooksPhases
  <1>4. EndsInOrder
    BY DEF Init, PhaseInit, EndsInOrder, Workers
  <1>5. QED
    BY <1>1, <1>2, <1>3, <1>4 DEF IInv

(* Every step keeps it.                                                    *)
LEMMA IInvStep ==
    ASSUME IInv, [Next]_vars
    PROVE  IInv'
  <1>1. WorkInv'
    BY WorkInvStep DEF IInv
  <1>2. QED
    BY <1>1, EveryoneReadyStep, ToldInOrderStep, HooksOfPhasesStep, CasesHeardStep,
       EndsInOrderStep, PairsLetRunStep
    DEF IInv

(* Where the work is, what has been told of it and what the phase knows go *)
(* together in every reachable state (adapter.ts, worker.mts and the two   *)
(* phases).                                                                *)
THEOREM Invariance == Spec => []IInv
  <1>1. IInv /\ [Next]_vars => IInv'
    BY IInvStep
  <1>2. QED
    BY <1>1, InitIInv, PTL DEF Spec

(* No test case is lost or handed out twice: it is queued and unheard of,  *)
(* or one worker's, or listeners have heard its outcome - with any number  *)
(* of workers, any of them lost (test_cases_phase.ts, adapter.ts).         *)
THEOREM CasesAccountedFor == Spec => []EveryCaseAccountedFor
  <1>1. IInv => EveryCaseAccountedFor
    <2> SUFFICES ASSUME IInv, phase = "TEST_CASE"
                 PROVE  EveryCaseAccountedFor
      BY DEF EveryCaseAccountedFor
    <2>1. /\ queue \cap inProgress = {}
          /\ inProgress = {running[w].case : w \in Busy}
          /\ \A v, w \in Busy : running[v].case = running[w].case => v = w
      BY DEF IInv, WorkInv, RunningOfPhase
    <2>2. \A t \in queue : t \notin inProgress /\ reported[t] = "no"
      BY <2>1 DEF IInv, CasesHeard
    <2>3. inProgress \subseteq TestCases /\ NoCommand.case \notin TestCases
      BY TestCasesAssumption
      DEF IInv, WorkInv, TypeOK, PhaseTypeOK, NoCommand, NoCase, TestCases
    <2>4. \A t \in inProgress :
             /\ \E w \in Workers : running[w].case = t
             /\ \A v, w \in Workers : running[v].case = t /\ running[w].case = t => v = w
      BY <2>1, <2>3 DEF Busy
    <2>5. \A t \in TestCases \ (queue \cup inProgress) : reported[t] \in {"passed", "failed"}
      BY DEF IInv, CasesHeard
    <2>6. QED
      BY <2>2, <2>4, <2>5 DEF EveryCaseAccountedFor
  <1>2. QED
    BY <1>1, Invariance, PTL

(* What a worker has in hand is what it was last issued.                   *)
LEMMA InHandIsRunning ==
    ASSUME WorkInv, NEW w \in Workers
    PROVE  /\ \A c \in jobs[w] : c = running[w] /\ running[w] # NoCommand
           /\ Executing(w) # {} => running[w].type = "TEST_CASE"
           /\ \A t \in Executing(w) : running[w].case = t
           /\ running[w] = NoCommand => jobs[w] = {} /\ toWorker[w] = << >>
  <1>1. InOnePlace(w)
    BY DEF WorkInv, CommandInOnePlace
  <1>2. QED
    BY <1>1
    DEF InOnePlace, WorkerIdle, CommandPosted, CommandTaken, CommandFinished, Executing

(* Every worker has run its BeforeAll hooks before a test case runs on any *)
(* and none is in its AfterAll hooks while one does; the hooks of the      *)
(* coordinator enclose those of the workers (coordinator.ts, adapter.ts).  *)
THEOREM HooksBracketCases == Spec => []RunHooksBracketCases
  <1>1. IInv => RunHooksBracketCases
    <2> SUFFICES ASSUME IInv PROVE RunHooksBracketCases
      OBVIOUS
    <2> WorkInv
      BY DEF IInv
    <2>1. ASSUME NEW v \in Workers, NEW w \in Workers, Executing(w) # {}
          PROVE  /\ "BEFOREALL_HOOKS" \in hooksDone[v]
                 /\ "AFTERALL_HOOKS" \notin hooksDone[v] \cup {c.type : c \in jobs[v]}
      <3>1. phase = "TEST_CASE"
        BY <2>1, InHandIsRunning, KindsOfWork
      <3>2. hooksDone[v] = {"BEFOREALL_HOOKS"}
        BY <3>1 DEF IInv, HooksOfPhases, HooksOfPhase
      <3>3. \A c \in jobs[v] : c.type = "TEST_CASE"
        BY <3>1, InHandIsRunning, KindsOfWork
      <3>4. QED
        BY <3>2, <3>3
    <2>2. ASSUME awaiting = "hooks", NEW w \in Workers
          PROVE  /\ jobs[w] = {} /\ toWorker[w] = << >>
                 /\ stage = "beforeAllHooks" => hooksDone[w] = {}
      <3>1. phase = "none"
        BY <2>2 DEF WorkInv, PhaseOfStage
      <3>2. running[w] = NoCommand
        BY <3>1, NothingRunsWithoutPhase DEF Busy
      <3>3. QED
        BY <3>1, <3>2, InHandIsRunning DEF IInv, HooksOfPhases, HooksOfPhase
    <2>3. QED
      BY <2>1, <2>2 DEF RunHooksBracketCases
  <1>2. QED
    BY <1>1, Invariance, PTL

(* With a pairwise rule, two test cases that each refuse to run beside the *)
(* other never execute at once, whichever workers are free when and        *)
(* whatever is forced (test_cases_phase.ts, select).                       *)
THEOREM RefusedPairsKeptApart == RuleIsPairwise => (Spec => []NoRefusedPairTogether)
  <1> SUFFICES ASSUME RuleIsPairwise PROVE Spec => []NoRefusedPairTogether
    OBVIOUS
  <1>1. IInv => NoRefusedPairTogether
    <2> SUFFICES ASSUME IInv, NEW v \in Workers, NEW w \in Workers, v # w,
                        NEW t \in Executing(v), NEW u \in Executing(w)
                 PROVE  CanAssign[t, {u}] \/ CanAssign[u, {t}]
      BY DEF NoRefusedPairTogether
    <2> WorkInv
      BY DEF IInv
    <2>1. /\ running[v].type = "TEST_CASE" /\ running[v].case = t
          /\ running[w].type = "TEST_CASE" /\ running[w].case = u
      BY InHandIsRunning
    <2>2. /\ phase = "TEST_CASE" /\ t \in inProgress /\ u \in inProgress
          /\ v \in Busy /\ w \in Busy
      BY <2>1, KindsOfWork
    <2>3. t # u
      BY <2>1, <2>2 DEF WorkInv, RunningOfPhase
    <2>4. QED
      BY <2>2, <2>3 DEF IInv, PairsLetRun
  <1>2. QED
    BY <1>1, Invariance, PTL

(* The rule of atMostOnePicklePerTag is pairwise: it asks of every case in *)
(* progress by itself (parallel_can_assign_helpers.ts).                    *)
LEMMA TagRuleIsPairwise ==
    ASSUME NEW tagsOf, NEW tagNames,
           CanAssign = AtMostOnePicklePerTag(TestCases, tagsOf, tagNames)
    PROVE  RuleIsPairwise
  <1> SUFFICES ASSUME NEW t \in TestCases, NEW beside \in SUBSET TestCases, NEW u \in beside,
                      CanAssign[t, beside]
               PROVE  CanAssign[t, {u}]
    BY DEF RuleIsPairwise
  <1>1. \A tag \in tagNames : ~HasTag(tagsOf, t, tag)
                                \/ \A p \in beside : ~HasTag(tagsOf, p, tag)
    BY DEF AtMostOnePicklePerTag
  <1>2. \A tag \in tagNames : ~HasTag(tagsOf, t, tag)
                                \/ \A p \in {u} : ~HasTag(tagsOf, p, tag)
    BY <1>1
  <1>3. QED
    BY <1>2 DEF AtMostOnePicklePerTag

(* With it, two test cases that share one of its tags never execute at     *)
(* once (docs/parallel.md:73, "Only one pickle with @tag1 can run at a     *)
(* time").                                                                 *)
THEOREM TaggedCasesKeptApart ==
    ASSUME NEW tagsOf, NEW tagNames,
           CanAssign = AtMostOnePicklePerTag(TestCases, tagsOf, tagNames)
    PROVE  Spec => [](\A v, w \in Workers : v # w =>
                          \A t \in Executing(v), u \in Executing(w), tag \in tagNames :
                              ~(HasTag(tagsOf, t, tag) /\ HasTag(tagsOf, u, tag)))
  <1> DEFINE Apart == \A v, w \in Workers : v # w =>
                          \A t \in Executing(v), u \in Executing(w), tag \in tagNames :
                              ~(HasTag(tagsOf, t, tag) /\ HasTag(tagsOf, u, tag))
  <1>1. IInv /\ NoRefusedPairTogether => Apart
    <2> SUFFICES ASSUME IInv, NoRefusedPairTogether,
                        NEW v \in Workers, NEW w \in Workers, v # w,
                        NEW t \in Executing(v), NEW u \in Executing(w), NEW tag \in tagNames,
                        HasTag(tagsOf, t, tag), HasTag(tagsOf, u, tag)
                 PROVE  FALSE
      OBVIOUS
    <2>1. t \in TestCases /\ u \in TestCases
      BY InHandIsRunning, KindsOfWork, CommandTypes DEF IInv
    <2>2. CanAssign[t, {u}] \/ CanAssign[u, {t}]
      BY DEF NoRefusedPairTogether
    <2>3. ~CanAssign[t, {u}] /\ ~CanAssign[u, {t}]
      BY <2>1 DEF AtMostOnePicklePerTag
    <2>4. QED
      BY <2>2, <2>3
  <1>2. Spec => []NoRefusedPairTogether
    BY TagRuleIsPairwise, RefusedPairsKeptApart
  <1> HIDE DEF Apart
  <1>3. Spec => []Apart
    BY <1>1, <1>2, Invariance, PTL
  <1>4. QED
    BY <1>3 DEF Apart

-----------------------------------------------------------------------------
(* Fail fast. *)

(* What a worker has been told to do and has not finished. *)
Told(w, c) ==
    \/ c \in jobs[w]
    \/ \E i \in DOMAIN toWorker[w] : toWorker[w][i] = c

(* The real work is that of the commands the workers have been told.       *)
LEMMA RealWorkIsTold ==
    \A t : t \in RealWork <=> \E w \in Workers : \E c : /\ Told(w, c)
                                                        /\ c.type = "TEST_CASE"
                                                        /\ ~Skips(c.failing)
                                                        /\ c.case = t
  BY DEF RealWork, Told

(* A worker is only told anew what the current phase asks for, and a phase *)
(* that has failed goes on failing.                                        *)
LEMMA ToldAnew ==
    ASSUME IInv, [Next]_vars, NEW w \in Workers, NEW c, Told(w, c)'
    PROVE  Told(w, c) \/ (OfPhase(c) /\ (failing => failing'))
  <1> TypeOK /\ AdapterTypeOK /\ WorkersTypeOK /\ PhaseTypeOK
    BY DEF IInv, WorkInv, TypeOK
  <1> USE DEF AdapterTypeOK, WorkersTypeOK
  <1>1. CASE jobs'[w] \subseteq jobs[w] /\ (toWorker'[w] = toWorker[w] \/ toWorker'[w] = << >>)
    BY <1>1 DEF Told
  <1>2. CASE Fill(w) \/ HandleFinished(w)
    <2>1. jobs' = jobs /\ (failing => failing')
      <3>1. jobs' = jobs
        BY <1>2 DEF Fill, HandleFinished
      <3>2. CASE Fill(w)
        BY <3>1, <3>2 DEF Fill, FillHooks, FillTestCases
      <3>3. CASE HandleFinished(w)
        <4>1. failing' = (failing \/ ~(Head(fromWorker[w]).says = "passed"))
          BY <3>3 DEF HandleFinished, NextHooks, NextTestCase
        <4>2. QED
          BY <3>1, <4>1
      <3>4. QED
        BY <1>2, <3>2, <3>3
    <2>2. CASE toWorker' = toWorker
      BY <2>1, <2>2 DEF Told
    <2>3. ASSUME NEW d \in Command, Issue(w, d), OfPhase(d)
          PROVE  Told(w, c) \/ OfPhase(c)
      <3>1. CASE toWorker'[w] = toWorker[w]
        BY <2>1, <3>1 DEF Told
      <3>2. CASE toWorker'[w] = Append(toWorker[w], d)
        <4>1. /\ DOMAIN toWorker'[w] = 1 .. Len(toWorker[w]) + 1
              /\ DOMAIN toWorker[w] = 1 .. Len(toWorker[w])
              /\ toWorker'[w][Len(toWorker[w]) + 1] = d
              /\ \A i \in 1 .. Len(toWorker[w]) : toWorker'[w][i] = toWorker[w][i]
          BY <3>2, AppendProperties, LenProperties
        <4>2. QED
          BY <2>1, <2>3, <4>1, LenProperties DEF Told
      <3>3. QED
        BY <2>3, <3>1, <3>2 DEF Issue, Post
    <2>4. QED
      BY <1>2, <2>1, <2>2, <2>3, FillIssues, FinishedIssues
  <1>3. CASE WorkerTakes(w)
    <2>1. toWorker[w] \in Seq(Command) /\ toWorker[w] # << >>
      BY <1>3 DEF WorkerTakes
    <2>2. /\ jobs'[w] = jobs[w] \cup {Head(toWorker[w])}
          /\ toWorker'[w] = Tail(toWorker[w])
      BY <1>3 DEF WorkerTakes
    <2>3. /\ DOMAIN toWorker'[w] = 1 .. Len(toWorker[w]) - 1
          /\ DOMAIN toWorker[w] = 1 .. Len(toWorker[w])
          /\ Len(toWorker[w]) \in Nat \ {0}
          /\ Head(toWorker[w]) = toWorker[w][1]
          /\ \A i \in 1 .. Len(toWorker[w]) - 1 : toWorker'[w][i] = toWorker[w][i + 1]
      BY <2>1, <2>2, HeadTailProperties, LenProperties, EmptySeq
    <2>4. CASE c \in jobs'[w]
      <3>1. 1 \in DOMAIN toWorker[w] /\ Head(toWorker[w]) = toWorker[w][1]
        BY <2>3
      <3>2. c \in jobs[w] \/ c = Head(toWorker[w])
        BY <2>2, <2>4
      <3>3. QED
        BY <3>1, <3>2 DEF Told
    <2>5. CASE c \notin jobs'[w]
      <3>1. PICK i \in 1 .. Len(toWorker[w]) - 1 : toWorker'[w][i] = c
        BY <2>3, <2>5 DEF Told
      <3>2. i + 1 \in DOMAIN toWorker[w] /\ toWorker[w][i + 1] = c
        BY <2>3, <3>1
      <3>3. QED
        BY <3>2 DEF Told
    <2>6. QED
      BY <2>4, <2>5
  <1>4. CASE \/ TeardownWorker(w) \/ HandleReady(w) \/ HandleEnvelope(w) \/ HandleError(w)
             \/ HandleExit(w) \/ WorkerReady(w) \/ WorkerFinishes(w) \/ WorkerLost(w)
    BY <1>1, <1>4
    DEF TeardownWorker, HandleReady, HandleEnvelope, HandleError, HandleExit, WorkerReady,
        WorkerFinishes, WorkerLost
  <1>5. ASSUME NEW v \in Workers, v # w,
               Fill(v) \/ TeardownWorker(v) \/ Handle(v) \/ Work(v) \/ WorkerLost(v)
        PROVE  Told(w, c)
    BY <1>5, OtherWorkersUnchanged DEF Told
  <1>6. CASE Continuation \/ UNCHANGED vars
    BY <1>1, <1>6, ContinuationLeavesWorkers DEF vars, workerVars
  <1>7. QED
    BY <1>1, <1>2, <1>3, <1>4, <1>5, <1>6
    DEF Next, Continue, Continuation, Handle, Work, Returned

(* Once the adapter has heard of a failure under failFast it hands out no  *)
(* real work any more: what is left to execute was handed out before       *)
(* (executor.ts runTestCase, test_cases_phase.ts next).                    *)
THEOREM FailFastHolds == Spec => FailFastDrains
  <1>1. ASSUME IInv, [Next]_vars, FailFast, phase = "TEST_CASE", failing
        PROVE  RealWork' \subseteq RealWork
    <2> SUFFICES ASSUME NEW t \in RealWork' PROVE t \in RealWork
      OBVIOUS
    <2>0. PICK w \in Workers : \E c : Told(w, c)' /\ c.type = "TEST_CASE" /\ ~Skips(c.failing)
                                      /\ c.case = t
      BY DEF RealWork, Told
    <2>1. PICK c : Told(w, c)' /\ c.type = "TEST_CASE" /\ ~Skips(c.failing) /\ c.case = t
      BY <2>0
    <2>2. ~OfPhase(c) \/ ~failing'
      BY <1>1, <2>1 DEF OfPhase, Skips
    <2>3. Told(w, c)
      BY <1>1, <2>1, <2>2, ToldAnew
    <2>4. QED
      BY <2>1, <2>3, RealWorkIsTold
  <1>2. IInv /\ [Next]_vars =>
            [FailFast /\ phase = "TEST_CASE" /\ failing => RealWork' \subseteq RealWork]_vars
    BY <1>1
  <1>3. QED
    BY <1>2, Invariance, PTL DEF Spec, FailFastDrains

-----------------------------------------------------------------------------
(* The contract of a run. *)

(* An envelope is handled while the test cases run, or after an abort.     *)
LEMMA EnvelopeKeepsContract ==
    ASSUME IInv, NEW w \in Workers, HandleEnvelope(w)
    PROVE  Run!TestRunNext
  <1> DEFINE t == running[w].case
             says == Head(fromWorker[w]).says
  <1>1. /\ phase = "TEST_CASE" /\ t \in TestCases
        /\ reported' = [reported EXCEPT ![t] = says]
        /\ \/ reported[t] = "no" /\ says = "started"
           \/ reported[t] = "started" /\ says \in {"passed", "failed"}
    BY EnvelopeTells DEF IInv, WorkInv, TypeOK, PhaseTypeOK
  <1>2. stage = "testCases" \/ (stage = "teardown" /\ result = "exception")
    <2>1. awaiting # "none"
      BY DEF HandleEnvelope, Arrived, IInv, EndsInOrder, Workers
    <2>2. awaiting \notin {"readiness", "hooks"}
      BY <1>1 DEF IInv, WorkInv, PhaseOfStage
    <2>3. QED
      BY <1>1, <2>1, <2>2
      DEF IInv, EndsInOrder, WorkInv, PhaseOfStage, TypeOK, AdapterTypeOK
  <1>3. Run!Announcing
    BY <1>2 DEF Run!Announcing, Period
  <1>4. UNCHANGED <<stage, result>> /\ Period' = Period
    BY DEF HandleEnvelope, coordinatorVars, Period
  <1> HIDE DEF t, says
  <1>5. CASE reported[t] = "no" /\ says = "started"
    <2>1. Run!CaseStarted(t)
      BY <1>1, <1>3, <1>4, <1>5 DEF Run!CaseStarted
    <2>2. QED
      BY <1>1, <2>1 DEF Run!TestRunNext
  <1>6. CASE reported[t] = "started" /\ says \in {"passed", "failed"}
    <2>1. Run!CaseFinished(t, says)
      BY <1>1, <1>3, <1>4, <1>6 DEF Run!CaseFinished
    <2>2. QED
      BY <1>1, <1>6, <2>1 DEF Run!TestRunNext, Run!Outcomes
  <1>7. QED
    BY <1>1, <1>5, <1>6

(* The coroutine goes through the periods of a run.                        *)
LEMMA ContinuationKeepsContract ==
    ASSUME IInv, Continuation
    PROVE  [Run!TestRunNext]_(Run!testRunVars)
  <1> USE DEF Run!testRunVars
  <1>1. reported' = reported
    BY DEF Continuation, UNCHANGED_workers, SetupResolves, RunCoordinatorHook,
           StartBeforeAllHooksPhase, BeforeAllHooksResolve, TestCasesResolve,
           AfterAllHooksPhaseResolves, AfterAllHooksResolve, Rejected, Return
  <1>2. CASE \/ SetupResolves \/ RunCoordinatorHook \/ StartBeforeAllHooksPhase
             \/ AfterAllHooksPhaseResolves
    BY <1>1, <1>2
    DEF SetupResolves, SetupSettled, RunCoordinatorHook, StartBeforeAllHooksPhase,
        AfterAllHooksPhaseResolves, coordinatorVars, Period
  <1>3. CASE BeforeAllHooksResolve
    <2>1. Run!OpenCases \/ Run!SkipCases
      BY <1>1, <1>3
      DEF BeforeAllHooksResolve, BeforeAllHooksSettled, Period, Run!OpenCases, Run!SkipCases
    <2>2. QED
      BY <2>1 DEF Run!TestRunNext
  <1>4. CASE TestCasesResolve
    <2>1. phase = "TEST_CASE" /\ settled \in {"success", "failure"}
      BY <1>4 DEF TestCasesResolve, PhaseResolved, IInv, WorkInv, PhaseOfStage
    <2>2. queue = {} /\ inProgress = {}
      BY <2>1 DEF IInv, WorkInv, ResolvedIsDrained, RunningOfPhase
    <2>3. \A t \in TestCases : reported[t] \in Run!Outcomes
      BY <2>1, <2>2 DEF IInv, CasesHeard, Run!Outcomes
    <2>4. Run!CloseCases
      BY <1>1, <1>4, <2>3 DEF TestCasesResolve, TestCasesSettled, Period, Run!CloseCases
    <2>5. QED
      BY <2>4 DEF Run!TestRunNext
  <1>5. CASE AfterAllHooksResolve
    <2>1. AfterAllHooksSettled(hooksOk /\ workersOk)
      BY <1>5 DEF AfterAllHooksResolve
    <2>2. PICK v \in {"success", "failure"} : result' = v
      BY <2>1 DEF AfterAllHooksSettled
    <2>3. v = "success" => successByPhase'["testCases"]
      BY <2>1, <2>2 DEF AfterAllHooksSettled, Phases
    <2>4. successByPhase'["testCases"] = successByPhase["testCases"]
      BY <2>1 DEF AfterAllHooksSettled, IInv, WorkInv, TypeOK, CoordinatorTypeOK, Phases
    <2>5. v = "success" => \A t \in TestCases : reported[t] = "passed"
      BY <2>3, <2>4 DEF IInv, CasesHeard
    <2>6. Run!Conclude(v)
      BY <1>1, <2>1, <2>2, <2>5 DEF AfterAllHooksSettled, Period, Run!Conclude
    <2>7. QED
      BY <2>6 DEF Run!TestRunNext
  <1>6. CASE Rejected
    <2>1. Run!Abort
      BY <1>1, <1>6
      DEF Rejected, Caught, Period, Run!Abort, IInv, WorkInv, TypeOK, CoordinatorTypeOK, Stages
    <2>2. QED
      BY <2>1 DEF Run!TestRunNext
  <1>7. CASE Return
    <2>1. Run!End
      BY <1>1, <1>7 DEF Return, TeardownSettled, Period, Run!End
    <2>2. QED
      BY <2>1 DEF Run!TestRunNext
  <1>8. QED
    BY <1>2, <1>3, <1>4, <1>5, <1>6, <1>7 DEF Continuation

(* A parallel run keeps the contract of TestRun towards its listeners,     *)
(* however the workers' envelopes interleave and whichever are lost: cases *)
(* are announced between the hooks, once each and never after the run has  *)
(* returned, and success only when all passed (adapter.ts, coordinator.ts). *)
THEOREM ImplementsTestRun == Spec => KeepsRunContract
  <1>1. Init => Run!TestRunInit
    BY DEF Init, CoordinatorInit, Run!TestRunInit, Period
  <1>2. ASSUME IInv, [Next]_vars
        PROVE  [Run!TestRunNext]_(Run!testRunVars)
    <2>1. CASE UNCHANGED <<stage, result, reported>>
      BY <2>1 DEF Run!testRunVars, Period
    <2>2. CASE \E w \in Workers : HandleEnvelope(w)
      BY <1>2, <2>2, EnvelopeKeepsContract
    <2>3. CASE Continuation
      BY <1>2, <2>3, ContinuationKeepsContract
    <2>4. QED
      BY <1>2, <2>1, <2>2, <2>3
      DEF Next, Continue, Continuation, Handle, Work, vars, UNCHANGED_main, coordinatorVars,
          Returned, Fill, TeardownWorker, HandleReady, HandleFinished, HandleError, HandleExit,
          WorkerReady, WorkerTakes, WorkerFinishes, WorkerLost
  <1>3. QED
    BY <1>1, <1>2, Invariance, PTL DEF Spec, KeepsRunContract, Run!TestRunSpec
=============================================================================
