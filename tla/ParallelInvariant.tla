-------------------------- MODULE ParallelInvariant --------------------------
(***************************************************************************)
(* The inductive invariant behind the safety theorems of ParallelRuntime.  *)
(***************************************************************************)
EXTENDS ParallelRuntime

IsFinished(event) == event.type = "FINISHED"

NoFinishedIn(events) == \A i \in 1 .. Len(events) : ~IsFinished(events[i])

FinishedLastIn(events) ==
    /\ events # << >>
    /\ IsFinished(events[Len(events)])
    /\ \A i \in 1 .. Len(events) : IsFinished(events[i]) => i = Len(events)

(* Where the command a worker was last issued can be. *)
WorkerIdle(w) ==
    toWorker[w] = << >> /\ jobs[w] = {} /\ NoFinishedIn(fromWorker[w])

CommandPosted(w) ==
    toWorker[w] = <<running[w]>> /\ jobs[w] = {} /\ NoFinishedIn(fromWorker[w])

CommandTaken(w) ==
    toWorker[w] = << >> /\ jobs[w] = {running[w]} /\ NoFinishedIn(fromWorker[w])

CommandFinished(w) ==
    toWorker[w] = << >> /\ jobs[w] = {} /\ FinishedLastIn(fromWorker[w])

(* It is in one place only, or gone with the thread that had it. *)
InOnePlace(w) ==
    IF running[w] = NoCommand THEN WorkerIdle(w)
    ELSE \/ CommandPosted(w)
         \/ CommandTaken(w)
         \/ CommandFinished(w)
         \/ thread[w] = "dead" /\ WorkerIdle(w)

CommandInOnePlace == \A w \in Workers : InOnePlace(w)

(* A thread that is still loading has taken nothing. *)
QuietWhileLoading(w) ==
    thread[w] = "loading" => jobs[w] = {} /\ NoFinishedIn(fromWorker[w])

LoadingIsQuiet == \A w \in Workers : QuietWhileLoading(w)

Busy == {w \in Workers : running[w] # NoCommand}

(* What is running was issued by the current phase, which accounts for it. *)
RunningOfPhase ==
    /\ \A w \in Busy : running[w].type = phase
    /\ phase \in HooksPhases => waiting = Cardinality(Busy)
    /\ phase = "TEST_CASE" =>
          /\ queue \cap inProgress = {}
          /\ inProgress = {running[w].case : w \in Busy}
          /\ \A v, w \in Busy : running[v].case = running[w].case => v = w

(* The coroutine, its stage and its phase go together. *)
PhaseOfStage ==
    /\ awaiting \in {"readiness", "hooks"} => phase = "none"
    /\ awaiting = "readiness" => stage = "setup"
    /\ awaiting = "hooks" => stage \in {"beforeAllHooks", "afterAllHooks"}
    /\ awaiting \in {"fill", "phase"} =>
          \/ stage = "beforeAllHooks" /\ phase = "BEFOREALL_HOOKS"
          \/ stage = "testCases" /\ phase = "TEST_CASE"
          \/ stage = "afterAllHooks" /\ phase = "AFTERALL_HOOKS"
    /\ awaiting = "teardown" <=> stage = "teardown"
    /\ awaiting = "none" <=> stage = "returned"
    /\ awaiting \in {"teardown", "none"} => phase = "none" \/ settled = "rejected"

(* startPhase has reached the workers up to `filled`. *)
FillProgress ==
    awaiting = "fill" =>
        /\ filled < NumWorkers
        /\ \A w \in Workers : w > filled => running[w] = NoCommand
        /\ settled = IF phase = "TEST_CASE" /\ TestCases = {} THEN "success" ELSE "pending"

(* A phase that resolved left nothing behind. *)
ResolvedIsDrained ==
    phase # "none" /\ settled \in {"success", "failure"} =>
        /\ Busy = {}
        /\ phase = "TEST_CASE" => queue = {}

(* A phase that has not settled has been given to a worker, or there is    *)
(* one left to give it to.                                                 *)
PendingIsBusy ==
    settled = "pending" =>
        /\ awaiting = "phase" => Busy # {}
        /\ awaiting = "fill" /\ filled > 0 => Busy # {}
        /\ phase = "TEST_CASE" => queue # {} \/ Busy # {}

WorkInv ==
    /\ TypeOK
    /\ CommandInOnePlace
    /\ LoadingIsQuiet
    /\ RunningOfPhase
    /\ PhaseOfStage
    /\ FillProgress
    /\ ResolvedIsDrained
    /\ PendingIsBusy

-----------------------------------------------------------------------------
(* What has been told of the work: the channels to the adapter, and what   *)
(* listeners have heard.                                                   *)

(* Work is only given out when every worker has said that it is ready.     *)
EveryoneReady ==
    readiness = "resolved" \/ awaiting \in {"hooks", "fill", "phase"} \/ phase # "none"
        => ready = Workers

(* A worker says that it is ready once, when it has loaded. *)
SaysReadyOnce(w) ==
    /\ thread[w] = "loading" => w \notin ready /\ fromWorker[w] = << >>
    /\ w \notin ready => fromWorker[w] \in {<< >>, <<Ready>>}
    /\ w \in ready /\ running[w] = NoCommand => fromWorker[w] = << >>

(* Of hooks it only tells how they ended. *)
TellsOfHooks(w) ==
    \/ fromWorker[w] = << >>
    \/ /\ toWorker[w] = << >> /\ jobs[w] = {}
       /\ \E success \in BOOLEAN : fromWorker[w] = <<Finished(success)>>

(* What listeners have heard of a test case, and what is on the way to     *)
(* them, together make a beginning of: started, its outcome, FINISHED.     *)
HeardOfStart(w, t) ==
    \/ reported[t] = "no" /\ fromWorker[w] = <<Envelope(t, "started")>>
    \/ reported[t] = "started" /\ fromWorker[w] = << >>

HeardOfEnd(w, t, success) ==
    \/ /\ reported[t] = "no"
       /\ fromWorker[w] =
              <<Envelope(t, "started"), Envelope(t, Outcome(success)), Finished(success)>>
    \/ /\ reported[t] = "started"
       /\ fromWorker[w] = <<Envelope(t, Outcome(success)), Finished(success)>>
    \/ /\ reported[t] = Outcome(success)
       /\ fromWorker[w] = <<Finished(success)>>

TellsOfCase(w, t) ==
    \/ toWorker[w] # << >> /\ reported[t] = "no" /\ fromWorker[w] = << >>
    \/ jobs[w] # {} /\ HeardOfStart(w, t)
    \/ /\ toWorker[w] = << >> /\ jobs[w] = {}
       /\ \E success \in BOOLEAN : HeardOfEnd(w, t, success)
    \/ /\ thread[w] = "dead" /\ toWorker[w] = << >> /\ jobs[w] = {}
       /\ HeardOfStart(w, t) \/ fromWorker[w] = << >>

Tells(w) ==
    /\ SaysReadyOnce(w)
    /\ running[w].type \in HooksPhases => TellsOfHooks(w)
    /\ running[w].type = "TEST_CASE" => TellsOfCase(w, running[w].case)

ToldInOrder == \A w \in Workers : Tells(w)

(* The hooks a worker has finished are those of the phases gone by. *)
HooksOfPhase(w) ==
    /\ phase = "none" /\ stage \in {"setup", "beforeAllHooks"} => hooksDone[w] = {}
    /\ phase = "BEFOREALL_HOOKS" =>
          /\ hooksDone[w] \subseteq {"BEFOREALL_HOOKS"}
          /\ \/ fromWorker[w] # << >>
             \/ running[w] = NoCommand /\ (awaiting = "fill" => w <= filled)
             => hooksDone[w] # {}
    /\ phase = "TEST_CASE" => hooksDone[w] = {"BEFOREALL_HOOKS"}

HooksOfPhases == \A w \in Workers : HooksOfPhase(w)

(* The cases that are neither queued nor running have been heard to end,   *)
(* and to pass unless the phase knows better.                              *)
CasesHeard ==
    /\ stage \in {"setup", "beforeAllHooks"} => \A t \in TestCases : reported[t] = "no"
    /\ phase = "TEST_CASE" =>
          /\ \A t \in queue : reported[t] = "no"
          /\ \A t \in TestCases \ (queue \cup inProgress) :
                 reported[t] \in (IF failing THEN {"passed", "failed"} ELSE {"passed"})
    /\ phase # "none" /\ settled = "success" => ~failing
    /\ successByPhase["testCases"] =>
          /\ phase # "TEST_CASE" /\ stage \in {"afterAllHooks", "teardown", "returned"}
          /\ \A t \in TestCases : reported[t] = "passed"

(* A run that ends with a phase left open is one that was aborted; a       *)
(* thread that is gone does no work, and one terminated tells nothing.     *)
EndsInOrder ==
    /\ awaiting \in {"teardown", "none"} /\ phase # "none" => result = "exception"
    /\ awaiting = "none" => tornDown = NumWorkers
    /\ \A w \in Workers :
          /\ thread[w] = "dead" => jobs[w] = {}
          /\ w <= tornDown => thread[w] = "dead" /\ fromWorker[w] = << >>

(* A rule is pairwise if what may run beside some cases may run beside any *)
(* one of them.                                                            *)
RuleIsPairwise ==
    \A t \in TestCases, beside \in SUBSET TestCases :
        CanAssign[t, beside] => \A u \in beside : CanAssign[t, {u}]

(* Of two cases in progress, one was let run beside the other. *)
PairsLetRun ==
    RuleIsPairwise /\ phase = "TEST_CASE" =>
        \A t, u \in inProgress : t # u => CanAssign[t, {u}] \/ CanAssign[u, {t}]

IInv ==
    /\ WorkInv
    /\ EveryoneReady
    /\ ToldInOrder
    /\ HooksOfPhases
    /\ CasesHeard
    /\ EndsInOrder
    /\ PairsLetRun
=============================================================================
