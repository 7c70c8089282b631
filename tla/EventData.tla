------------------------------- MODULE EventData -------------------------------
(***************************************************************************)
(* The envelopes of test cases as listeners hear them, whatever adapter    *)
(* runs them, and what EventDataCollector                                  *)
(* (src/src/formatter/helpers/event_data_collector.ts) keeps of them.      *)
(*                                                                         *)
(* The stream is that of TestRun with the attempts and test steps of each  *)
(* case: cases of several workers interleave, each is retried as           *)
(* TestCaseRunner has it, and after an abort what is open may stay open.   *)
(***************************************************************************)
EXTENDS TestRun, Statuses, Attachments, SequencesExt, FiniteSetsExt

CONSTANTS
    TestStepsOf,     \* the test steps of each case: kind, matching definitions and pickle step
    StepStatuses,    \* bound: the results of each test step when it is executed
    Attaching,       \* bound: the calls of attach, log and link of test step i of attempt n
                     \* at t, for some <<t, n, i>>
    MaxAttempts,     \* 1 + options.retry
    MaxRunning       \* how many cases run at once, 1 on the main thread

ASSUME EventDataAssumption ==
    /\ \A t \in TestCases : TestStepsOf[t] \in Seq(ToSet(TestStepsOf[t]))
    /\ \A t \in TestCases : \A i \in DOMAIN TestStepsOf[t] :
           /\ TestStepsOf[t][i].kind \in {"before", "step", "after"}
           /\ TestStepsOf[t][i].kind # "step" => Cardinality(TestStepsOf[t][i].definitions) = 1
           /\ StepStatuses[t][i] \in SUBSET (Status \ {"UNKNOWN", "UNDEFINED", "AMBIGUOUS"})
           /\ DryRun => StepStatuses[t][i] \subseteq {"SKIPPED"}
    /\ \A a \in DOMAIN Attaching :
           /\ a[1] \in TestCases /\ a[3] \in DOMAIN TestStepsOf[a[1]]
           /\ Attaching[a] \in Seq({call \in ToSet(Attaching[a]) : IsCall(call)})
    /\ MaxAttempts \in Nat \ {0}
    /\ MaxRunning \in Nat \ {0}

VARIABLES
    attempts,    \* the attempts at each case: their results so far, the calls of each step
                 \* whose attachments have come, and what became of the attempt
    data         \* testCaseAttemptDataMap of the collector

eventVars == <<testRunVars, attempts, data>>

EventDataInit ==
    /\ TestRunInit
    /\ attempts = [t \in TestCases |-> <<>>]
    /\ data = << >>

-----------------------------------------------------------------------------
(* What the runtime emits. *)

Current(t) == Last(attempts[t])

(* Whether a case is with a worker: an attempt is open, or the next one is *)
(* about to start.                                                         *)
Busy(t) == attempts[t] # <<>> /\ Current(t).state # "finished"

Open(t) == attempts[t] # <<>> /\ Current(t).state = "open"

(* The id of the envelopes of the attempt, which is new for each.          *)
StartedId(t) == <<t, Len(attempts[t])>>

(* A step is not run unless just one definition matches it, nor is a       *)
(* Before hook, once something has not passed.                             *)
Executes(step, results) ==
    /\ Cardinality(step.definitions) = 1
    /\ step.kind = "after" \/ ToSet(results) \subseteq {"PASSED"}

(* What the runner calls the result of an attempt: one without any test    *)
(* step has passed.                                                        *)
RunnerStatus(results) == IF results = <<>> THEN "PASSED" ELSE Worst(ToSet(results))

(* What the next test step of t comes to after these results if the case   *)
(* has not been skipped by its own code.                                   *)
FoundOf(t, results) ==
    LET step == TestStepsOf[t][Len(results) + 1]
    IN IF step.definitions = {} THEN {"UNDEFINED"}
       ELSE IF Cardinality(step.definitions) > 1 THEN {"AMBIGUOUS"}
       ELSE IF Executes(step, results) THEN StepStatuses[t][Len(results) + 1]
       ELSE {"SKIPPED"}

(* Behind a step or a hook that has skipped the case its steps are skipped *)
(* whatever their definitions.  A case that is skipped as a whole, in which *)
(* nothing passes, does look for the definitions of each step.             *)
ResultsOf(t, results) ==
    LET isStep == TestStepsOf[t][Len(results) + 1].kind = "step"
        isExplicitlySkipped == ~DryRun /\ RunnerStatus(results) = "SKIPPED"
    IN IF ~(isStep /\ isExplicitlySkipped) THEN FoundOf(t, results)
       ELSE {"SKIPPED"} \cup IF "PASSED" \in ToSet(results) THEN {} ELSE FoundOf(t, results)

-----------------------------------------------------------------------------
(* What the collector does with an envelope. *)

(* Every test step of the attempt is UNKNOWN at first.                     *)
InitTestCaseAttempt(t, id) ==
    data' = [key \in DOMAIN data \cup {id} |->
                IF key = id
                THEN [stepResults |-> [i \in DOMAIN TestStepsOf[t] |-> "UNKNOWN"],
                      stepAttachments |-> [i \in DOMAIN TestStepsOf[t] |-> <<>>],
                      worst |-> "UNKNOWN", willBeRetried |-> FALSE]
                ELSE data[key]]

StoreAttachment(id, step, attachment) ==
    data' = [data EXCEPT ![id].stepAttachments[step] = Append(@, attachment)]

\* Wrong variant: the result goes to the first step.
StoreTestStepResult_First(id, step, result) ==
    data' = [data EXCEPT ![id].stepResults[1] = result]

StoreTestStepResult(id, step, result) ==
    data' = [data EXCEPT ![id].stepResults[step] = result]

StoreTestCaseResult(id, willBeRetried) ==
    data' = [data EXCEPT ![id].worst = Worst(ToSet(data[id].stepResults)),
                         ![id].willBeRetried = willBeRetried]

-----------------------------------------------------------------------------
(* The stream, heard as it is emitted. *)

AttemptStarted(t) ==
    /\ Cardinality({u \in TestCases \ {t} : Busy(u)}) < MaxRunning
    /\ \/ attempts[t] = <<>> /\ CaseStarted(t)
       \/ Busy(t) /\ ~Open(t) /\ Announcing /\ UNCHANGED testRunVars
    /\ attempts' = [attempts EXCEPT ![t] = Append(@,
           [results |-> <<>>, attached |-> [i \in DOMAIN TestStepsOf[t] |-> <<>>], state |-> "open"])]
    /\ InitTestCaseAttempt(t, <<t, Len(attempts[t]) + 1>>)

(* An attachment of the step that is being executed comes: those of its    *)
(* calls come in order but for streams, which come when they have ended.   *)
StepAttached(t) ==
    /\ Announcing /\ Open(t)
    /\ LET step == Len(Current(t).results) + 1
           position == <<t, Len(attempts[t]), step>>
           Came(k) == k \in ToSet(Current(t).attached[step])
       IN /\ position \in DOMAIN Attaching
          /\ Executes(TestStepsOf[t][step], Current(t).results)
          /\ \E k \in DOMAIN Attaching[position] :
                 LET calls == Attaching[position]
                     Attaches(j) == AttachmentOf(calls[j]) # <<>>
                 IN /\ Attaches(k) /\ ~Came(k)
                    /\ \A j \in 1 .. k - 1 : Attaches(j) /\ ~ComesLater(calls[j]) => Came(j)
                    /\ attempts' = [attempts EXCEPT ![t][Len(attempts[t])].attached[step] = Append(@, k)]
                    /\ StoreAttachment(StartedId(t), step, AttachmentOf(calls[k])[1])
    /\ UNCHANGED testRunVars

(* A step that attaches something ends when all of it has come.            *)
AllCame(t) ==
    LET step == Len(Current(t).results) + 1
        position == <<t, Len(attempts[t]), step>>
    IN position \in DOMAIN Attaching /\ Executes(TestStepsOf[t][step], Current(t).results) =>
           \A k \in DOMAIN Attaching[position] :
               AttachmentOf(Attaching[position][k]) # <<>> => k \in ToSet(Current(t).attached[step])

StepFinished(t) ==
    /\ Announcing /\ Open(t)
    /\ Len(Current(t).results) < Len(TestStepsOf[t])
    /\ AllCame(t)
    /\ \E result \in ResultsOf(t, Current(t).results) :
           /\ attempts' = [attempts EXCEPT ![t][Len(attempts[t])].results = Append(@, result)]
           /\ StoreTestStepResult(StartedId(t), Len(Current(t).results) + 1, result)
    /\ UNCHANGED testRunVars

(* Another attempt follows one that FAILED, while there are any left.      *)
AttemptFinished(t) ==
    /\ Announcing /\ Open(t)
    /\ Len(Current(t).results) = Len(TestStepsOf[t])
    /\ LET status == RunnerStatus(Current(t).results)
           willBeRetried == status = "FAILED" /\ Len(attempts[t]) < MaxAttempts
       IN /\ attempts' = [attempts EXCEPT ![t][Len(attempts[t])].state =
                              IF willBeRetried THEN "retried" ELSE "finished"]
          /\ StoreTestCaseResult(StartedId(t), willBeRetried)
          /\ IF willBeRetried THEN UNCHANGED testRunVars
             ELSE CaseFinished(t, IF ShouldCauseFailure(status) THEN "failed" ELSE "passed")

(* Everything else the run emits is nothing the collector acts upon.       *)
RunGoesOn ==
    /\ OpenCases \/ SkipCases \/ CloseCases \/ Abort
           \/ \E v \in {"success", "failure"} : Conclude(v)
    /\ UNCHANGED <<attempts, data>>

RunReturned == End /\ UNCHANGED <<attempts, data>>

Emits ==
    \/ \E t \in TestCases : AttemptStarted(t) \/ StepAttached(t) \/ StepFinished(t) \/ AttemptFinished(t)
    \/ RunGoesOn

EventDataNext == Emits \/ RunReturned
=============================================================================
