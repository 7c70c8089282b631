--------------------------- MODULE TestCasesPhase ---------------------------
(***************************************************************************)
(* The two kinds of phase the parallel adapter hands out work in:          *)
(* TestCasesPhase (src/src/runtime/parallel/test_cases_phase.ts) and       *)
(* TestRunHooksPhase (.../test_run_hooks_phase.ts).  A phase is a promise  *)
(* and the work left for it; the adapter asks it for a command when the    *)
(* phase starts (fill) and whenever a worker finishes one (next).          *)
(***************************************************************************)
EXTENDS Naturals

CONSTANTS
    NumCases,    \* how many test cases were assembled
    CanAssign    \* supportCodeLibrary.parallelCanAssign, by case and running cases

(* A test case is its position in the assembled order.  The code removes   *)
(* from its queue but never reorders it, so the queue is the set of the    *)
(* positions left, read in ascending order.                                *)
TestCases == 1 .. NumCases

ASSUME TestCasesAssumption ==
    /\ NumCases \in Nat
    /\ CanAssign \in [TestCases \X SUBSET TestCases -> BOOLEAN]

VARIABLES
    phase,        \* the kind of the adapter's current phase, "none" when deleted
    settled,      \* its promise
    waiting,      \* TestRunHooksPhase.waiting
    queue,        \* TestCasesPhase.queue
    inProgress,   \* TestCasesPhase.running
    failing       \* the phase's failing flag

phaseVars == <<phase, settled, waiting, queue, inProgress, failing>>

HooksPhases == {"BEFOREALL_HOOKS", "AFTERALL_HOOKS"}

PhaseTypeOK ==
    /\ phase \in HooksPhases \cup {"none", "TEST_CASE"}
    /\ settled \in {"pending", "success", "failure", "rejected"}
    /\ waiting \in Nat
    /\ queue \subseteq TestCases
    /\ inProgress \subseteq TestCases
    /\ failing \in BOOLEAN

PhaseInit ==
    /\ phase = "none"
    /\ settled = "pending"
    /\ waiting = 0
    /\ queue = {}
    /\ inProgress = {}
    /\ failing = FALSE

(* new TestRunHooksPhase(...)                                              *)
NewHooksPhase(type) ==
    /\ phase' = type
    /\ settled' = "pending"
    /\ waiting' = 0
    /\ failing' = FALSE
    /\ UNCHANGED <<queue, inProgress>>

(* new TestCasesPhase(...): resolved at once when there is nothing to run. *)
NewTestCasesPhase ==
    /\ phase' = "TEST_CASE"
    /\ settled' = IF TestCases = {} THEN "success" ELSE "pending"
    /\ queue' = TestCases
    /\ inProgress' = {}
    /\ failing' = FALSE
    /\ UNCHANGED waiting

DeletePhase == phase' = "none" /\ UNCHANGED <<settled, waiting, queue, inProgress, failing>>

(* A promise settles once: later resolutions and rejections do nothing.    *)
Settle(outcome) == settled' = IF settled = "pending" THEN outcome ELSE settled

(* TestCasesPhase.select: the first queued case that may run beside those  *)
(* of `running`, or the head of the queue when nothing runs and none may:  *)
(* a set of at most one case, empty where the code returns undefined.      *)
(* (idleInterventions only words a warning and is left out.)               *)
\* Wrong variants: a refused case forced beside running ones; never forced.
Candidates_ForcedBesideOthers(running) ==
    LET assignable == {t \in queue : CanAssign[t, running]}
    IN  IF assignable # {} THEN assignable ELSE queue

Candidates_NeverForced(running) == {t \in queue : CanAssign[t, running]}

Candidates(running) ==
    LET assignable == {t \in queue : CanAssign[t, running]}
    IN  IF assignable # {} THEN assignable
        ELSE IF running = {} THEN queue ELSE {}

Select(running) ==
    {t \in Candidates(running) : \A u \in Candidates(running) : t <= u}

(* TestCasesPhase.dequeue, with the running set `next` has just reduced.   *)
\* Wrong variant: the case stays in the queue.
Dequeue_KeptInQueue(t, running) ==
    UNCHANGED queue /\ inProgress' = running \cup {t}

Dequeue(t, running) ==
    /\ queue' = queue \ {t}
    /\ inProgress' = running \cup {t}

Verdict(fails) == IF fails THEN "failure" ELSE "success"
=============================================================================
