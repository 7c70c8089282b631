---------------------------- MODULE Reports_proofs ----------------------------
(***************************************************************************)
(* What the collector remembers is what happened, and the summary, the     *)
(* issues, the JSON report, the errors and arguments in it, the usage, the *)
(* snippets and the rerun file agree with it and with the verdict of the   *)
(* run, for any suite, any attempts and cases that run at once.            *)
(***************************************************************************)
EXTENDS Reports, Subsequences_proofs

Attempt(t) ==
    [results : Seq(Status \ {"UNKNOWN"}),
     attached : [DOMAIN TestStepsOf[t] -> Seq(Nat)],
     state : {"open", "retried", "finished"}]

TypeOK ==
    /\ period \in {"before", "cases", "after", "closing", "ended"}
    /\ reported \in [TestCases -> {"no", "started"} \cup Outcomes]
    /\ verdict \in {"none", "success", "failure", "exception"}
    /\ attempts = [t \in TestCases |-> attempts[t]]
    /\ \A t \in TestCases : attempts[t] \in Seq(Attempt(t))

(* An attempt ends when each test step has a result, it is retried if it   *)
(* has FAILED, nothing can fail in a dry run, UNDEFINED is what no         *)
(* definition matches, and its attachments are of calls that do attach     *)
(* something.                                                              *)
IsAttempt(t, n, a) ==
    /\ Len(a.results) <= Len(TestStepsOf[t])
    /\ a.state # "open" => Len(a.results) = Len(TestStepsOf[t])
    /\ a.state = "retried" => RunnerStatus(a.results) = "FAILED"
    /\ DryRun => \A i \in DOMAIN a.results : a.results[i] # "FAILED"
    /\ \A i \in DOMAIN a.results : a.results[i] = "UNDEFINED" => TestStepsOf[t][i].definitions = {}
    /\ \A i \in DOMAIN TestStepsOf[t] : \A k \in DOMAIN a.attached[i] :
           /\ <<t, n, i>> \in DOMAIN Attaching
           /\ a.attached[i][k] \in DOMAIN Attaching[<<t, n, i>>]
           /\ AttachmentOf(Attaching[<<t, n, i>>][a.attached[i][k]]) # <<>>

(* Only the last attempt of a case is not retried.                         *)
AttemptsInOrder ==
    \A t \in TestCases : \A n \in DOMAIN attempts[t] :
        /\ IsAttempt(t, n, attempts[t][n])
        /\ n < Len(attempts[t]) => attempts[t][n].state = "retried"

(* What is announced of a case is what has become of its attempts.         *)
ReportedAsAttempted ==
    \A t \in TestCases :
        /\ attempts[t] = <<>> <=> reported[t] = "no"
        /\ attempts[t] # <<>> =>
               /\ Current(t).state = "finished" <=> reported[t] \in Outcomes
               /\ reported[t] \in Outcomes =>
                      (reported[t] = "failed" <=> ShouldCauseFailure(RunnerStatus(Current(t).results)))

(* All cases are over, or none was started.                                *)
AllOrNone ==
    \/ \A t \in TestCases : reported[t] = "no"
    \/ \A t \in TestCases : reported[t] \in Outcomes

(* Where the run is says what has been announced.                          *)
PeriodsInOrder ==
    /\ period = "before" => \A t \in TestCases : reported[t] = "no"
    /\ period = "after" => AllOrNone
    /\ period \in {"before", "cases", "after"} <=> verdict = "none"
    /\ verdict \in {"success", "failure"} => AllOrNone
    /\ verdict = "success" => \A t \in TestCases : reported[t] = "passed"

(* The envelopes of each attempt, as the collector keeps them.             *)
ResultsIn(t, a) ==
    [i \in DOMAIN TestStepsOf[t] |-> IF i \in DOMAIN a.results THEN a.results[i] ELSE "UNKNOWN"]

AttachmentsOf(calls, came) == [k \in DOMAIN came |-> AttachmentOf(calls[came[k]])[1]]

AttachmentsIn(t, n, a) ==
    [i \in DOMAIN TestStepsOf[t] |-> AttachmentsOf(Attaching[<<t, n, i>>], a.attached[i])]

Recorded(results, attachments, status, retried) ==
    [stepResults |-> results, stepAttachments |-> attachments,
     worst |-> status, willBeRetried |-> retried]

Remembered(t, n, a) ==
    Recorded(ResultsIn(t, a), AttachmentsIn(t, n, a),
             IF a.state = "open" THEN "UNKNOWN" ELSE Worst(ToSet(ResultsIn(t, a))),
             a.state = "retried")

AttemptIds == UNION {{t} \X DOMAIN attempts[t] : t \in TestCases}

(* The data of the collector are those of the attempts, and nothing else,  *)
(* at every moment.                                                        *)
DataTellAttempts ==
    data = [id \in AttemptIds |-> Remembered(id[1], id[2], attempts[id[1]][id[2]])]

(* The reports are printed when the run has returned, and nothing comes    *)
(* after them.                                                             *)
PrintedAtTheEnd ==
    Printed =>
        /\ period = "ended"
        /\ output.summary = FormatSummary
        /\ output.issues = LogIssues("synchronous")
        /\ output.json = JsonReport
        /\ output.snippets = [interface \in SnippetInterfaces |-> LogSnippets(interface)]
        /\ output.rerun = RerunFile
        /\ output.usage = GetUsage

IInv ==
    /\ TypeOK
    /\ AttemptsInOrder
    /\ ReportedAsAttempted
    /\ PeriodsInOrder
    /\ DataTellAttempts
    /\ PrintedAtTheEnd

-----------------------------------------------------------------------------
(* The worst of some results is one of them, and none is worse.            *)
LEMMA WorstIsWorst ==
    ASSUME NEW results \in SUBSET Status, results # {}
    PROVE  Worst(results) \in results /\ \A s \in results : Ordinal[s] <= Ordinal[Worst(results)]
  <1> USE DEF Ordinal, Status
  <1>1. \E s \in results : \A t \in results : Ordinal[t] <= Ordinal[s]
    <2>1. CASE "FAILED" \in results
      BY <2>1
    <2>2. CASE "FAILED" \notin results /\ "AMBIGUOUS" \in results
      BY <2>2
    <2>3. CASE results \cap {"FAILED", "AMBIGUOUS"} = {} /\ "UNDEFINED" \in results
      BY <2>3
    <2>4. CASE results \cap {"FAILED", "AMBIGUOUS", "UNDEFINED"} = {} /\ "PENDING" \in results
      BY <2>4
    <2>5. CASE results \subseteq {"UNKNOWN", "PASSED", "SKIPPED"}
      BY <2>5
    <2>6. QED
      BY <2>1, <2>2, <2>3, <2>4, <2>5
  <1>2. QED
    BY <1>1 DEF Worst

(* The status of an attempt that has results is the worst of them.         *)
LEMMA RunnerStatusIsWorst ==
    ASSUME NEW results \in Seq(Status \ {"UNKNOWN"}), results # <<>>
    PROVE  /\ RunnerStatus(results) = Worst(ToSet(results))
           /\ \E i \in DOMAIN results : results[i] = RunnerStatus(results)
           /\ \A i \in DOMAIN results : Ordinal[results[i]] <= Ordinal[RunnerStatus(results)]
  <1>1. ToSet(results) \in SUBSET Status
    BY DEF ToSet
  <1>2. 1 \in DOMAIN results
    OBVIOUS
  <1>3. ToSet(results) # {}
    BY <1>2 DEF ToSet
  <1>4. RunnerStatus(results) = Worst(ToSet(results))
    BY DEF RunnerStatus
  <1>5. RunnerStatus(results) \in ToSet(results)
        /\ \A s \in ToSet(results) : Ordinal[s] <= Ordinal[RunnerStatus(results)]
    BY <1>1, <1>3, <1>4, WorstIsWorst
  <1>6. QED
    BY <1>4, <1>5 DEF ToSet

(* A test step comes to a status, and to FAILED only if it is executed.    *)
LEMMA ResultsAreStatuses ==
    ASSUME NEW t \in TestCases, NEW results, Len(results) \in Nat,
           Len(results) < Len(TestStepsOf[t]), NEW s \in ResultsOf(t, results)
    PROVE  /\ s \in Status \ {"UNKNOWN"} /\ (DryRun => s # "FAILED")
           /\ s = "UNDEFINED" => TestStepsOf[t][Len(results) + 1].definitions = {}
  <1>1. Len(results) + 1 \in DOMAIN TestStepsOf[t]
    BY EventDataAssumption
  <1>2. /\ StepStatuses[t][Len(results) + 1] \in SUBSET (Status \ {"UNKNOWN", "UNDEFINED", "AMBIGUOUS"})
        /\ DryRun => StepStatuses[t][Len(results) + 1] \subseteq {"SKIPPED"}
    BY <1>1, EventDataAssumption
  <1>3. s \in {"UNDEFINED", "AMBIGUOUS", "SKIPPED"} \cup StepStatuses[t][Len(results) + 1]
    BY DEF ResultsOf, FoundOf
  <1>4. s = "UNDEFINED" => TestStepsOf[t][Len(results) + 1].definitions = {}
    BY <1>2 DEF ResultsOf, FoundOf
  <1>5. QED
    BY <1>2, <1>3, <1>4 DEF Status

-----------------------------------------------------------------------------
(* What an envelope does to the attempts: there is a new last one of a     *)
(* case, or its last one goes on, and nothing else changes.                *)
Advances(t, n, a) ==
    /\ n \in Nat \ {0} /\ a \in Attempt(t)
    /\ attempts' = [u \in TestCases |-> attempts'[u]]
    /\ attempts'[t] \in Seq(Attempt(t)) /\ Len(attempts'[t]) = n /\ attempts'[t][n] = a
    /\ DOMAIN attempts'[t] = DOMAIN attempts[t] \cup {n}
    /\ \A m \in 1 .. n - 1 : m \in DOMAIN attempts[t] /\ attempts'[t][m] = attempts[t][m]
    /\ \A u \in TestCases \ {t} : attempts'[u] = attempts[u]

(* The collector has this of an attempt now, and no more of another.       *)
Records(id, record) ==
    data' = [key \in DOMAIN data \cup {id} |-> IF key = id THEN record ELSE data[key]]

Fresh(t) == [results |-> <<>>, attached |-> [i \in DOMAIN TestStepsOf[t] |-> <<>>], state |-> "open"]

(* A case whose next attempt starts advances to it.                        *)
LEMMA NewAttempt ==
    ASSUME TypeOK, NEW t \in TestCases, NEW a \in Attempt(t),
           attempts' = [attempts EXCEPT ![t] = Append(@, a)]
    PROVE  Advances(t, Len(attempts[t]) + 1, a)
  <1>1. attempts[t] \in Seq(Attempt(t)) /\ attempts'[t] = Append(attempts[t], a)
    BY DEF TypeOK
  <1>2. attempts' = [u \in TestCases |-> attempts'[u]]
        /\ \A u \in TestCases \ {t} : attempts'[u] = attempts[u]
    BY DEF TypeOK
  <1>3. QED
    BY <1>1, <1>2 DEF Advances

(* A case whose last attempt goes on advances within it.                   *)
LEMMA LastAttempt ==
    ASSUME TypeOK, NEW t \in TestCases, NEW a \in Attempt(t), attempts[t] # <<>>,
           attempts' = [attempts EXCEPT ![t][Len(attempts[t])] = a]
    PROVE  Advances(t, Len(attempts[t]), a)
  <1>1. attempts[t] \in Seq(Attempt(t)) /\ attempts'[t] = [attempts[t] EXCEPT ![Len(attempts[t])] = a]
    BY DEF TypeOK
  <1>2. attempts' = [u \in TestCases |-> attempts'[u]]
        /\ \A u \in TestCases \ {t} : attempts'[u] = attempts[u]
    BY DEF TypeOK
  <1>3. Len(attempts[t]) \in Nat \ {0}
    BY <1>1
  <1>4. attempts'[t] \in Seq(Attempt(t)) /\ Len(attempts'[t]) = Len(attempts[t])
    BY <1>1, <1>3
  <1>5. QED
    BY <1>1, <1>2, <1>3, <1>4 DEF Advances

(* The last attempt of a case that has one.                                *)
LEMMA CurrentIsAnAttempt ==
    ASSUME TypeOK, NEW t \in TestCases, attempts[t] # <<>>
    PROVE  /\ Current(t) = attempts[t][Len(attempts[t])]
           /\ Current(t) \in Attempt(t)
           /\ Len(attempts[t]) \in DOMAIN attempts[t]
  BY DEF TypeOK, Current, Last

(* The collector goes along with the attempts if it remembers the one that *)
(* goes on.                                                                *)
LEMMA DataGoAlong ==
    ASSUME TypeOK, DataTellAttempts, NEW t \in TestCases, NEW n, NEW a, Advances(t, n, a),
           Records(<<t, n>>, Remembered(t, n, a))
    PROVE  DataTellAttempts'
  <1> USE DEF Records
  <1>1. AttemptIds' = AttemptIds \cup {<<t, n>>}
    <2>1. \A u \in TestCases : DOMAIN attempts'[u] = IF u = t THEN DOMAIN attempts[t] \cup {n}
                                                     ELSE DOMAIN attempts[u]
      BY DEF Advances
    <2>2. QED
      BY <2>1 DEF AttemptIds
  <1>2. DOMAIN data = AttemptIds
    BY DEF DataTellAttempts
  <1>3. ASSUME NEW id \in AttemptIds'
        PROVE  data'[id] = Remembered(id[1], id[2], attempts'[id[1]][id[2]])
    <2>1. CASE id = <<t, n>>
      BY <1>1, <1>2, <2>1 DEF Advances
    <2>2. CASE id # <<t, n>>
      <3>1. id \in AttemptIds /\ data'[id] = data[id]
        BY <1>1, <1>2, <2>2
      <3>5. PICK u \in TestCases : \E m \in DOMAIN attempts[u] : id = <<u, m>>
        BY <3>1 DEF AttemptIds
      <3>2. PICK m \in DOMAIN attempts[u] : id = <<u, m>>
        BY <3>5
      <3>3. attempts'[u][m] = attempts[u][m]
        <4>1. CASE u # t
          BY <4>1 DEF Advances
        <4>2. CASE u = t
          <5>1. m \in DOMAIN attempts'[t] /\ m # n
            BY <2>2, <3>2, <4>2 DEF Advances
          <5>2. m \in 1 .. n - 1
            BY <5>1 DEF Advances
          <5>3. QED
            BY <4>2, <5>2 DEF Advances
        <4>3. QED
          BY <4>1, <4>2
      <3>4. QED
        BY <3>1, <3>2, <3>3 DEF DataTellAttempts
    <2>3. QED
      BY <2>1, <2>2
  <1>4. QED
    BY <1>1, <1>2, <1>3 DEF DataTellAttempts

(* An attempt that has just started, as it is and as it is remembered.     *)
LEMMA FreshIsAnAttempt ==
    ASSUME NEW t \in TestCases, NEW n
    PROVE  /\ Fresh(t) \in Attempt(t) /\ IsAttempt(t, n, Fresh(t))
           /\ Remembered(t, n, Fresh(t)) =
                  Recorded([i \in DOMAIN TestStepsOf[t] |-> "UNKNOWN"],
                           [i \in DOMAIN TestStepsOf[t] |-> <<>>], "UNKNOWN", FALSE)
  <1>1. Fresh(t) \in Attempt(t)
    BY DEF Fresh, Attempt
  <1>2. Len(TestStepsOf[t]) \in Nat
    BY EventDataAssumption
  <1>3. IsAttempt(t, n, Fresh(t))
    BY <1>2 DEF IsAttempt, Fresh
  <1>4. ResultsIn(t, Fresh(t)) = [i \in DOMAIN TestStepsOf[t] |-> "UNKNOWN"]
    BY DEF ResultsIn, Fresh
  <1>5. AttachmentsIn(t, n, Fresh(t)) = [i \in DOMAIN TestStepsOf[t] |-> <<>>]
    <2>1. ASSUME NEW i \in DOMAIN TestStepsOf[t]
          PROVE  AttachmentsIn(t, n, Fresh(t))[i] = <<>>
      <3>1. DOMAIN Fresh(t).attached[i] = {}
        BY DEF Fresh
      <3>2. AttachmentsIn(t, n, Fresh(t))[i] =
                [k \in {} |-> AttachmentOf(Attaching[<<t, n, i>>][Fresh(t).attached[i][k]])[1]]
        BY <3>1 DEF AttachmentsIn, AttachmentsOf
      <3>3. QED
        BY <3>2
    <2>2. QED
      BY <2>1 DEF AttachmentsIn
  <1>6. Fresh(t).state = "open"
    BY DEF Fresh
  <1>7. QED
    BY <1>1, <1>3, <1>4, <1>5, <1>6 DEF Remembered

(* A case is only started, or goes on behind an attempt that is retried.   *)
LEMMA StartAdvances ==
    ASSUME IInv, NEW t \in TestCases, AttemptStarted(t)
    PROVE  /\ Advances(t, Len(attempts[t]) + 1, Fresh(t))
           /\ attempts[t] # <<>> => Current(t).state = "retried"
           /\ DataTellAttempts'
  <1> DEFINE n == Len(attempts[t]) + 1
  <1> USE DEF IInv
  <1>1. Advances(t, n, Fresh(t))
    BY NewAttempt, FreshIsAnAttempt DEF AttemptStarted, Fresh
  <1>2. attempts[t] # <<>> => Current(t).state = "retried"
    BY CurrentIsAnAttempt DEF AttemptStarted, Busy, Open, Attempt
  <1>3. Records(<<t, n>>, Remembered(t, n, Fresh(t)))
    BY FreshIsAnAttempt DEF AttemptStarted, InitTestCaseAttempt, Records, Recorded
  <1>4. DataTellAttempts'
    BY <1>1, <1>3, DataGoAlong
  <1>5. QED
    BY <1>1, <1>2, <1>4

(* What the collector has of the attempt that goes on.                     *)
LEMMA DataOfCurrent ==
    ASSUME IInv, NEW t \in TestCases, attempts[t] # <<>>
    PROVE  /\ StartedId(t) = <<t, Len(attempts[t])>> /\ StartedId(t) \in DOMAIN data
           /\ data[StartedId(t)] = Remembered(t, Len(attempts[t]), Current(t))
  <1> USE DEF IInv
  <1>1. StartedId(t) = <<t, Len(attempts[t])>>
    BY DEF StartedId
  <1>2. StartedId(t) \in AttemptIds
    BY <1>1, CurrentIsAnAttempt DEF AttemptIds
  <1>3. StartedId(t) \in DOMAIN data
    BY <1>2 DEF DataTellAttempts
  <1>4. data[StartedId(t)] = Remembered(t, Len(attempts[t]), Current(t))
    BY <1>1, <1>2, CurrentIsAnAttempt DEF DataTellAttempts
  <1>5. QED
    BY <1>1, <1>3, <1>4

(* What the collector does with an envelope changes a field of that.       *)
AppendedAt(attachments, step, attachment) ==
    [attachments EXCEPT ![step] = Append(@, attachment)]

(* An attachment goes behind those of its step.                            *)
LEMMA AttachmentStored ==
    ASSUME NEW id \in DOMAIN data, NEW results, NEW attachments, NEW status, NEW retried,
           data[id] = Recorded(results, attachments, status, retried),
           NEW step, NEW attachment, StoreAttachment(id, step, attachment)
    PROVE  Records(id, Recorded(results, AppendedAt(attachments, step, attachment), status, retried))
  <1> USE DEF Recorded
  <1>1. [data[id] EXCEPT !.stepAttachments[step] = Append(@, attachment)]
            = Recorded(results, AppendedAt(attachments, step, attachment), status, retried)
    BY DEF AppendedAt
  <1>2. data' = [data EXCEPT ![id] = [data[id] EXCEPT !.stepAttachments[step] = Append(@, attachment)]]
    BY DEF StoreAttachment
  <1>3. QED
    BY <1>1, <1>2 DEF Records

(* A result takes the place of UNKNOWN.                                    *)
LEMMA TestStepResultStored ==
    ASSUME NEW id \in DOMAIN data, NEW results, NEW attachments, NEW status, NEW retried,
           data[id] = Recorded(results, attachments, status, retried),
           NEW step, NEW result, StoreTestStepResult(id, step, result)
    PROVE  Records(id, Recorded([results EXCEPT ![step] = result], attachments, status, retried))
  <1> USE DEF Recorded
  <1>1. [data[id] EXCEPT !.stepResults[step] = result]
            = Recorded([results EXCEPT ![step] = result], attachments, status, retried)
    OBVIOUS
  <1>2. data' = [data EXCEPT ![id] = [data[id] EXCEPT !.stepResults[step] = result]]
    BY DEF StoreTestStepResult
  <1>3. QED
    BY <1>1, <1>2 DEF Records

(* The end of an attempt sets its worst status and whether it is retried.  *)
LEMMA TestCaseResultStored ==
    ASSUME NEW id \in DOMAIN data, NEW results, NEW attachments, NEW status, NEW retried,
           data[id] = Recorded(results, attachments, status, retried),
           NEW willBeRetried, StoreTestCaseResult(id, willBeRetried)
    PROVE  Records(id, Recorded(results, attachments, Worst(ToSet(results)), willBeRetried))
  <1> DEFINE worst == Worst(ToSet(results))
             half == [data[id] EXCEPT !.worst = worst]
  <1>1. data[id].stepResults = results
    BY DEF Recorded
  <1>2. half = Recorded(results, attachments, worst, retried)
    BY DEF Recorded
  <1>3. data' = [data EXCEPT ![id] = [half EXCEPT !.willBeRetried = willBeRetried]]
    BY <1>1 DEF StoreTestCaseResult
  <1> HIDE DEF worst, half
  <1>4. [half EXCEPT !.willBeRetried = willBeRetried] = Recorded(results, attachments, worst, willBeRetried)
    BY <1>2 DEF Recorded
  <1>5. Records(id, Recorded(results, attachments, worst, willBeRetried))
    BY <1>3, <1>4 DEF Records
  <1>6. QED
    BY <1>5 DEF worst

(* One more call attaches one thing more.                                  *)
LEMMA AttachmentsAppended ==
    ASSUME NEW calls, NEW came \in Seq(Nat), NEW k \in Nat
    PROVE  AttachmentsOf(calls, Append(came, k)) =
               Append(AttachmentsOf(calls, came), AttachmentOf(calls[k])[1])
  <1> DEFINE more == Append(came, k)
             was == AttachmentsOf(calls, came)
  <1>1. DOMAIN more = 1 .. Len(came) + 1 /\ more[Len(came) + 1] = k
        /\ \A j \in 1 .. Len(came) : more[j] = came[j]
    OBVIOUS
  <1>2. /\ Len(was) = Len(came)
        /\ was = [j \in 1 .. Len(came) |-> AttachmentOf(calls[came[j]])[1]]
    BY DEF AttachmentsOf
  <1> HIDE DEF was
  <1>3. Append(was, AttachmentOf(calls[k])[1]) =
            [j \in 1 .. Len(came) + 1 |-> IF j = Len(came) + 1 THEN AttachmentOf(calls[k])[1] ELSE was[j]]
    BY <1>2
  <1> DEFINE told(j) == IF j = Len(came) + 1 THEN AttachmentOf(calls[k])[1] ELSE was[j]
  <1>4. AttachmentsOf(calls, more) = [j \in 1 .. Len(came) + 1 |-> AttachmentOf(calls[more[j]])[1]]
    BY <1>1 DEF AttachmentsOf
  <1> HIDE DEF more
  <1>5. \A j \in 1 .. Len(came) + 1 : AttachmentOf(calls[more[j]])[1] = told(j)
    <2> SUFFICES ASSUME NEW j \in 1 .. Len(came) + 1 PROVE AttachmentOf(calls[more[j]])[1] = told(j)
      OBVIOUS
    <2>1. CASE j = Len(came) + 1
      BY <1>1, <2>1
    <2>2. CASE j \in 1 .. Len(came)
      BY <1>1, <1>2, <2>2
    <2>3. QED
      BY <2>1, <2>2
  <1>6. AttachmentsOf(calls, more) = Append(was, AttachmentOf(calls[k])[1])
    BY <1>3, <1>4, <1>5
  <1>7. QED
    BY <1>6 DEF more, was

(* An attachment comes to the step of the attempt that is executed.        *)
LEMMA AttachmentAdvances ==
    ASSUME IInv, NEW t \in TestCases, StepAttached(t)
    PROVE  /\ \E a : /\ Advances(t, Len(attempts[t]), a) /\ IsAttempt(t, Len(attempts[t]), a)
                     /\ a.state = "open" /\ a.results = Current(t).results
           /\ attempts[t] # <<>> /\ Current(t).state = "open"
           /\ DataTellAttempts'
  <1> DEFINE n == Len(attempts[t])
             c == Current(t)
             step == Len(Current(t).results) + 1
             calls == Attaching[<<t, n, step>>]
  <1>1. attempts[t] # <<>> /\ c.state = "open"
    BY DEF StepAttached, Open
  <1>2. c \in Attempt(t) /\ n \in DOMAIN attempts[t] /\ c = attempts[t][n]
    BY <1>1, CurrentIsAnAttempt DEF IInv
  <1>3. IsAttempt(t, n, c)
    BY <1>2 DEF IInv, AttemptsInOrder
  <1>4. PICK k \in DOMAIN calls :
           /\ <<t, n, step>> \in DOMAIN Attaching
           /\ AttachmentOf(calls[k]) # <<>>
           /\ attempts' = [attempts EXCEPT ![t][n].attached[step] = Append(@, k)]
           /\ StoreAttachment(StartedId(t), step, AttachmentOf(calls[k])[1])
    BY DEF StepAttached
  <1>5. step \in DOMAIN TestStepsOf[t] /\ k \in Nat
    <2>1. step \in DOMAIN TestStepsOf[<<t, n, step>>[1]]
      BY <1>4, EventDataAssumption
    <2>2. calls \in Seq({call \in ToSet(calls) : IsCall(call)})
      BY <1>4, EventDataAssumption
    <2>3. QED
      BY <2>1, <2>2
  <1> DEFINE came == Append(c.attached[step], k)
             a == [c EXCEPT !.attached = [c.attached EXCEPT ![step] = came]]
             told == AppendedAt(AttachmentsIn(t, n, c), step, AttachmentOf(calls[k])[1])
  <1>6. a \in Attempt(t) /\ a.state = "open" /\ a.results = c.results
    <2>1. c.attached \in [DOMAIN TestStepsOf[t] -> Seq(Nat)]
      BY <1>2 DEF Attempt
    <2>2. came \in Seq(Nat)
      BY <1>5, <2>1
    <2>3. [c.attached EXCEPT ![step] = came] \in [DOMAIN TestStepsOf[t] -> Seq(Nat)]
      BY <2>1, <2>2
    <2>4. QED
      BY <1>1, <1>2, <2>3 DEF Attempt
  <1>7. attempts' = [attempts EXCEPT ![t][n] = a]
    BY <1>2, <1>4
  <1>8. Advances(t, n, a)
    BY <1>1, <1>6, <1>7, LastAttempt DEF IInv
  <1>9. a.attached = [c.attached EXCEPT ![step] = came]
    BY <1>2 DEF Attempt
  <1>10. IsAttempt(t, n, a)
    <2>1. ASSUME NEW i \in DOMAIN TestStepsOf[t], NEW j \in DOMAIN a.attached[i]
          PROVE  /\ <<t, n, i>> \in DOMAIN Attaching
                 /\ a.attached[i][j] \in DOMAIN Attaching[<<t, n, i>>]
                 /\ AttachmentOf(Attaching[<<t, n, i>>][a.attached[i][j]]) # <<>>
      <3>1. c.attached \in [DOMAIN TestStepsOf[t] -> Seq(Nat)]
        BY <1>2 DEF Attempt
      <3>2. CASE i # step
        <4>1. a.attached[i] = c.attached[i]
          BY <1>9, <3>1, <3>2
        <4>2. QED
          BY <1>3, <2>1, <4>1 DEF IsAttempt
      <3>3. CASE i = step
        <4>1. a.attached[i] = Append(c.attached[step], k) /\ c.attached[step] \in Seq(Nat)
          BY <1>5, <1>9, <3>1, <3>3
        <4>2. CASE j \in DOMAIN c.attached[step]
          <5>1. \A old \in Seq(Nat) : \A m \in DOMAIN old : Append(old, k)[m] = old[m]
            BY <1>5
          <5>2. a.attached[i][j] = c.attached[step][j]
            BY <4>1, <4>2, <5>1
          <5>3. QED
            BY <1>3, <1>5, <3>3, <4>2, <5>2 DEF IsAttempt
        <4>3. CASE j \notin DOMAIN c.attached[step]
          <5>1. a.attached[i][j] = k
            BY <1>5, <2>1, <4>1, <4>3
          <5>2. QED
            BY <1>4, <3>3, <5>1
        <4>4. QED
          BY <4>2, <4>3
      <3>4. QED
        BY <3>2, <3>3
    <2>2. QED
      BY <1>1, <1>3, <1>6, <2>1 DEF IsAttempt
  <1>11. Remembered(t, n, a) = Recorded(ResultsIn(t, c), told, "UNKNOWN", FALSE)
    <2>1. ResultsIn(t, a) = ResultsIn(t, c)
      BY <1>6 DEF ResultsIn
    <2>2. AttachmentsIn(t, n, a) = told
      <3>1. c.attached \in [DOMAIN TestStepsOf[t] -> Seq(Nat)]
        BY <1>2 DEF Attempt
      <3>2. ASSUME NEW i \in DOMAIN TestStepsOf[t], i # step
            PROVE  AttachmentsIn(t, n, a)[i] = AttachmentsIn(t, n, c)[i]
        <4>1. a.attached[i] = c.attached[i]
          BY <1>9, <3>1, <3>2
        <4>2. QED
          BY <4>1 DEF AttachmentsIn
      <3>3. AttachmentsIn(t, n, a)[step] =
                Append(AttachmentsIn(t, n, c)[step], AttachmentOf(calls[k])[1])
        <4> DEFINE old == c.attached[step]
        <4>1. AttachmentsIn(t, n, c)[step] = AttachmentsOf(calls, old)
          BY <1>5 DEF AttachmentsIn
        <4>2. a.attached[step] = came
          BY <1>5, <1>9, <3>1
        <4>3. AttachmentsIn(t, n, a)[step] = AttachmentsOf(calls, came)
          BY <1>5, <4>2 DEF AttachmentsIn
        <4>4. old \in Seq(Nat)
          BY <1>5, <3>1
        <4>5. AttachmentsOf(calls, came) = Append(AttachmentsOf(calls, old), AttachmentOf(calls[k])[1])
          BY <1>5, <4>4, AttachmentsAppended
        <4>6. QED
          BY <4>1, <4>3, <4>5
      <3>4. QED
        BY <1>5, <3>2, <3>3 DEF AttachmentsIn, AppendedAt
    <2>3. QED
      BY <1>1, <1>6, <2>1, <2>2 DEF Remembered
  <1>12. Remembered(t, n, c) = Recorded(ResultsIn(t, c), AttachmentsIn(t, n, c), "UNKNOWN", FALSE)
    BY <1>1 DEF Remembered
  <1>13. Records(StartedId(t), Recorded(ResultsIn(t, c), told, "UNKNOWN", FALSE))
    BY <1>1, <1>4, <1>12, DataOfCurrent, AttachmentStored
  <1>14. DataTellAttempts'
    BY <1>1, <1>8, <1>11, <1>13, DataOfCurrent, DataGoAlong DEF IInv
  <1>15. QED
    BY <1>1, <1>6, <1>8, <1>10, <1>14

(* The step that is executed comes to its result.                          *)
LEMMA ResultAdvances ==
    ASSUME IInv, NEW t \in TestCases, StepFinished(t)
    PROVE  /\ \E a : /\ Advances(t, Len(attempts[t]), a) /\ IsAttempt(t, Len(attempts[t]), a)
                     /\ a.state = "open"
           /\ attempts[t] # <<>> /\ Current(t).state = "open"
           /\ DataTellAttempts'
  <1> DEFINE n == Len(attempts[t])
             c == Current(t)
             step == Len(Current(t).results) + 1
  <1>1. attempts[t] # <<>> /\ c.state = "open"
    BY DEF StepFinished, Open
  <1>2. c \in Attempt(t) /\ n \in DOMAIN attempts[t] /\ c = attempts[t][n]
    BY <1>1, CurrentIsAnAttempt DEF IInv
  <1>3. IsAttempt(t, n, c)
    BY <1>2 DEF IInv, AttemptsInOrder
  <1>4. PICK result \in ResultsOf(t, c.results) :
           /\ attempts' = [attempts EXCEPT ![t][n].results = Append(@, result)]
           /\ StoreTestStepResult(StartedId(t), step, result)
    BY DEF StepFinished
  <1>5. c.results \in Seq(Status \ {"UNKNOWN"}) /\ Len(c.results) < Len(TestStepsOf[t])
    BY <1>2 DEF Attempt, StepFinished
  <1>6. /\ result \in Status \ {"UNKNOWN"} /\ (DryRun => result # "FAILED")
        /\ result = "UNDEFINED" => TestStepsOf[t][step].definitions = {}
    BY <1>5, ResultsAreStatuses
  <1> DEFINE results == Append(c.results, result)
             a == [c EXCEPT !.results = results]
  <1>7. results \in Seq(Status \ {"UNKNOWN"}) /\ Len(results) = step
        /\ results[step] = result /\ \A i \in DOMAIN c.results : results[i] = c.results[i]
    BY <1>5, <1>6
  <1>8. /\ a \in Attempt(t) /\ a.state = "open"
        /\ a.attached = c.attached /\ a.results = results
    BY <1>1, <1>2, <1>7 DEF Attempt
  <1>9. attempts' = [attempts EXCEPT ![t][n] = a]
    BY <1>2, <1>4
  <1>10. Advances(t, n, a)
    BY <1>1, <1>8, <1>9, LastAttempt DEF IInv
  <1>11. IsAttempt(t, n, a)
    <2>1. Len(a.results) <= Len(TestStepsOf[t])
      BY <1>5, <1>7, <1>8, EventDataAssumption
    <2>2. ASSUME DryRun, NEW i \in DOMAIN a.results PROVE a.results[i] # "FAILED"
      <3>1. i \in DOMAIN c.results \/ i = step
        BY <1>5, <1>7, <1>8
      <3>2. QED
        BY <1>3, <1>6, <1>7, <1>8, <2>2, <3>1 DEF IsAttempt
    <2>3. ASSUME NEW i \in DOMAIN a.results, a.results[i] = "UNDEFINED"
          PROVE  TestStepsOf[t][i].definitions = {}
      <3>1. i \in DOMAIN c.results \/ i = step
        BY <1>5, <1>7, <1>8
      <3>2. QED
        BY <1>3, <1>6, <1>7, <1>8, <2>3, <3>1 DEF IsAttempt
    <2>4. QED
      BY <1>3, <1>8, <2>1, <2>2, <2>3 DEF IsAttempt
  <1>12. Remembered(t, n, a) =
             Recorded([ResultsIn(t, c) EXCEPT ![step] = result], AttachmentsIn(t, n, c), "UNKNOWN", FALSE)
    <2>1. AttachmentsIn(t, n, a) = AttachmentsIn(t, n, c)
      BY <1>8 DEF AttachmentsIn
    <2>2. ResultsIn(t, a) = [ResultsIn(t, c) EXCEPT ![step] = result]
      <3>1. \A i \in DOMAIN TestStepsOf[t] : i \in DOMAIN results <=> i \in DOMAIN c.results \/ i = step
        BY <1>5, <1>7, EventDataAssumption
      <3>2. step \notin DOMAIN c.results
        BY <1>5
      <3>3. QED
        BY <1>7, <1>8, <3>1, <3>2 DEF ResultsIn
    <2>3. QED
      BY <1>8, <2>1, <2>2 DEF Remembered
  <1>13. Remembered(t, n, c) = Recorded(ResultsIn(t, c), AttachmentsIn(t, n, c), "UNKNOWN", FALSE)
    BY <1>1 DEF Remembered
  <1>14. Records(StartedId(t), Recorded([ResultsIn(t, c) EXCEPT ![step] = result],
                                        AttachmentsIn(t, n, c), "UNKNOWN", FALSE))
    BY <1>1, <1>4, <1>13, DataOfCurrent, TestStepResultStored
  <1>15. DataTellAttempts'
    BY <1>1, <1>10, <1>12, <1>14, DataOfCurrent, DataGoAlong DEF IInv
  <1>16. QED
    BY <1>1, <1>8, <1>10, <1>11, <1>15

(* An attempt is over: there will be another, or the case is reported.     *)
LEMMA EndAdvances ==
    ASSUME IInv, NEW t \in TestCases, AttemptFinished(t)
    PROVE  /\ \E a : /\ Advances(t, Len(attempts[t]), a) /\ IsAttempt(t, Len(attempts[t]), a)
                     /\ a.results = Current(t).results
                     /\ \/ a.state = "retried" /\ UNCHANGED testRunVars
                        \/ /\ a.state = "finished"
                           /\ CaseFinished(t, IF ShouldCauseFailure(RunnerStatus(a.results))
                                              THEN "failed" ELSE "passed")
           /\ attempts[t] # <<>> /\ Current(t).state = "open"
           /\ DataTellAttempts'
  <1> DEFINE n == Len(attempts[t])
             c == Current(t)
             status == RunnerStatus(c.results)
             willBeRetried == status = "FAILED" /\ n < MaxAttempts
             state == IF willBeRetried THEN "retried" ELSE "finished"
             a == [c EXCEPT !.state = state]
  <1>1. attempts[t] # <<>> /\ c.state = "open"
    BY DEF AttemptFinished, Open
  <1>2. c \in Attempt(t) /\ n \in DOMAIN attempts[t] /\ c = attempts[t][n]
    BY <1>1, CurrentIsAnAttempt DEF IInv
  <1>3. IsAttempt(t, n, c)
    BY <1>2 DEF IInv, AttemptsInOrder
  <1>4. /\ attempts' = [attempts EXCEPT ![t][n].state = state]
        /\ StoreTestCaseResult(StartedId(t), willBeRetried)
        /\ IF willBeRetried THEN UNCHANGED testRunVars
           ELSE CaseFinished(t, IF ShouldCauseFailure(status) THEN "failed" ELSE "passed")
        /\ Len(c.results) = Len(TestStepsOf[t])
    BY DEF AttemptFinished
  <1>5. a \in Attempt(t) /\ a.state = state /\ a.attached = c.attached /\ a.results = c.results
    BY <1>2 DEF Attempt
  <1>6. attempts' = [attempts EXCEPT ![t][n] = a]
    BY <1>2, <1>4
  <1>7. Advances(t, n, a)
    BY <1>1, <1>5, <1>6, LastAttempt DEF IInv
  <1>8. IsAttempt(t, n, a)
    BY <1>3, <1>4, <1>5 DEF IsAttempt
  <1>9. Remembered(t, n, a) = Recorded(ResultsIn(t, c), AttachmentsIn(t, n, c),
                                       Worst(ToSet(ResultsIn(t, c))), willBeRetried)
    <2>1. ResultsIn(t, a) = ResultsIn(t, c) /\ AttachmentsIn(t, n, a) = AttachmentsIn(t, n, c)
      BY <1>5 DEF ResultsIn, AttachmentsIn
    <2>2. a.state # "open" /\ (a.state = "retried") = willBeRetried
      BY <1>5
    <2>3. QED
      BY <2>1, <2>2 DEF Remembered
  <1>10. Remembered(t, n, c) = Recorded(ResultsIn(t, c), AttachmentsIn(t, n, c), "UNKNOWN", FALSE)
    BY <1>1 DEF Remembered
  <1>11. Records(StartedId(t), Recorded(ResultsIn(t, c), AttachmentsIn(t, n, c),
                                        Worst(ToSet(ResultsIn(t, c))), willBeRetried))
    BY <1>1, <1>4, <1>10, DataOfCurrent, TestCaseResultStored
  <1>12. DataTellAttempts'
    BY <1>1, <1>7, <1>9, <1>11, DataOfCurrent, DataGoAlong DEF IInv
  <1>13. \/ a.state = "retried" /\ UNCHANGED testRunVars
         \/ /\ a.state = "finished"
            /\ CaseFinished(t, IF ShouldCauseFailure(RunnerStatus(a.results)) THEN "failed" ELSE "passed")
    BY <1>4, <1>5
  <1>14. QED
    BY <1>1, <1>5, <1>7, <1>8, <1>12, <1>13

-----------------------------------------------------------------------------
(* The last attempt of the case that goes on is the one that went on.      *)
LEMMA CurrentAdvances ==
    ASSUME NEW t \in TestCases, NEW n, NEW a, Advances(t, n, a)
    PROVE  /\ attempts'[t] # <<>> /\ Current(t)' = a
           /\ \A u \in TestCases \ {t} : attempts'[u] = attempts[u] /\ Current(u)' = Current(u)
  BY DEF Advances, Current, Last

(* Attempts stay what they can be, and in order, as envelopes come.        *)
LEMMA AttemptsKept ==
    ASSUME IInv, NEW t \in TestCases, NEW n, NEW a, Advances(t, n, a), IsAttempt(t, n, a),
           \/ n = Len(attempts[t])
           \/ n = Len(attempts[t]) + 1 /\ (attempts[t] # <<>> => Current(t).state = "retried")
    PROVE  /\ attempts' = [u \in TestCases |-> attempts'[u]]
           /\ \A u \in TestCases : attempts'[u] \in Seq(Attempt(u))
           /\ AttemptsInOrder'
  <1>1. attempts' = [u \in TestCases |-> attempts'[u]]
        /\ \A u \in TestCases : attempts'[u] \in Seq(Attempt(u))
    BY DEF Advances, IInv, TypeOK
  <1>2. ASSUME NEW u \in TestCases, NEW m \in DOMAIN attempts'[u]
        PROVE  /\ IsAttempt(u, m, attempts'[u][m])
               /\ m < Len(attempts'[u]) => attempts'[u][m].state = "retried"
    <2>1. CASE u # t
      BY <1>2, <2>1 DEF Advances, IInv, AttemptsInOrder
    <2>2. CASE u = t /\ m = n
      BY <2>2 DEF Advances
    <2>3. CASE u = t /\ m # n
      <3>1. Len(attempts'[t]) = n /\ n \in Nat /\ attempts'[t] \in Seq(Attempt(t))
        BY DEF Advances
      <3>2. m \in 1 .. n - 1
        BY <1>2, <2>3, <3>1
      <3>3. m \in DOMAIN attempts[t] /\ attempts'[t][m] = attempts[t][m]
        BY <3>2 DEF Advances
      <3>4. IsAttempt(t, m, attempts[t][m]) /\ (m < Len(attempts[t]) => attempts[t][m].state = "retried")
        BY <3>3 DEF IInv, AttemptsInOrder
      <3>5. attempts[t][m].state = "retried"
        <4>1. CASE m < Len(attempts[t])
          BY <3>4, <4>1
        <4>2. CASE ~(m < Len(attempts[t]))
          <5>1. attempts[t] \in Seq(Attempt(t))
            BY DEF IInv, TypeOK
          <5>2. m = Len(attempts[t]) /\ attempts[t] # <<>>
            BY <3>3, <4>2, <5>1
          <5>3. n = Len(attempts[t]) + 1
            BY <2>3, <5>2
          <5>4. QED
            BY <5>2, <5>3, CurrentIsAnAttempt DEF IInv
        <4>3. QED
          BY <4>1, <4>2
      <3>6. QED
        BY <2>3, <3>3, <3>4, <3>5
    <2>4. QED
      BY <2>1, <2>2, <2>3
  <1>3. QED
    BY <1>1, <1>2 DEF AttemptsInOrder

(* An envelope that says nothing of a case as a whole.                     *)
LEMMA StillReported ==
    ASSUME IInv, NEW t \in TestCases, NEW n, NEW a, Advances(t, n, a), attempts[t] # <<>>,
           Current(t).state # "finished", a.state # "finished", UNCHANGED testRunVars
    PROVE  ReportedAsAttempted'
  <1>1. ASSUME NEW u \in TestCases
        PROVE  /\ attempts'[u] = <<>> <=> reported[u] = "no"
               /\ attempts'[u] # <<>> =>
                      /\ Current(u)'.state = "finished" <=> reported[u] \in Outcomes
                      /\ reported[u] \in Outcomes =>
                             (reported[u] = "failed" <=> ShouldCauseFailure(RunnerStatus(Current(u)'.results)))
    BY CurrentAdvances DEF IInv, ReportedAsAttempted
  <1>2. reported' = reported
    BY DEF testRunVars
  <1>3. QED
    BY <1>1, <1>2 DEF ReportedAsAttempted

(* The invariant but for what has been printed.                            *)
EventInv == TypeOK /\ AttemptsInOrder /\ ReportedAsAttempted /\ PeriodsInOrder /\ DataTellAttempts

(* The start of an attempt, at a new case or behind a retried one.         *)
LEMMA StartKeepsInv ==
    ASSUME IInv, NEW t \in TestCases, AttemptStarted(t)
    PROVE  EventInv'
  <1>1. /\ Advances(t, Len(attempts[t]) + 1, Fresh(t))
        /\ attempts[t] # <<>> => Current(t).state = "retried"
        /\ DataTellAttempts'
    BY StartAdvances
  <1>2. /\ attempts' = [u \in TestCases |-> attempts'[u]]
        /\ \A u \in TestCases : attempts'[u] \in Seq(Attempt(u))
        /\ AttemptsInOrder'
    BY <1>1, FreshIsAnAttempt, AttemptsKept
  <1>3. CASE attempts[t] = <<>> /\ CaseStarted(t)
    <2>1. /\ reported[t] = "no" /\ reported' = [reported EXCEPT ![t] = "started"]
          /\ period' = period /\ verdict' = verdict /\ Announcing
      BY <1>3 DEF CaseStarted
    <2>2. reported' \in [TestCases -> {"no", "started"} \cup Outcomes]
      BY <2>1 DEF IInv, TypeOK
    <2>3. TypeOK'
      BY <1>2, <2>1, <2>2 DEF IInv, TypeOK
    <2>4. ReportedAsAttempted'
      <3>1. Current(t)'.state = "open" /\ attempts'[t] # <<>> /\ reported'[t] = "started"
        BY <1>1, <2>1, CurrentAdvances DEF Fresh, IInv, TypeOK
      <3>2. \A u \in TestCases \ {t} : /\ attempts'[u] = attempts[u] /\ Current(u)' = Current(u)
                                       /\ reported'[u] = reported[u]
        BY <1>1, <2>1, CurrentAdvances DEF IInv, TypeOK
      <3>3. "started" \notin Outcomes
        BY DEF Outcomes
      <3>4. QED
        BY <3>1, <3>2, <3>3 DEF IInv, ReportedAsAttempted
    <2>5. PeriodsInOrder'
      BY <2>1 DEF IInv, PeriodsInOrder, Announcing, AllOrNone
    <2>6. QED
      BY <1>1, <1>2, <2>3, <2>4, <2>5 DEF EventInv
  <1>4. CASE Busy(t) /\ ~Open(t) /\ Announcing /\ UNCHANGED testRunVars
    <2>1. attempts[t] # <<>> /\ Current(t).state # "finished"
      BY <1>4 DEF Busy
    <2>2. ReportedAsAttempted'
      BY <1>1, <1>4, <2>1, StillReported DEF Fresh
    <2>3. TypeOK' /\ PeriodsInOrder'
      BY <1>2, <1>4 DEF testRunVars, IInv, TypeOK, PeriodsInOrder, AllOrNone
    <2>4. QED
      BY <1>1, <1>2, <2>2, <2>3 DEF EventInv
  <1>5. QED
    BY <1>3, <1>4 DEF AttemptStarted

(* An attachment or a result changes the open attempt only.                *)
LEMMA StepKeepsInv ==
    ASSUME IInv, NEW t \in TestCases, StepAttached(t) \/ StepFinished(t)
    PROVE  EventInv'
  <1>1. PICK a : Advances(t, Len(attempts[t]), a) /\ IsAttempt(t, Len(attempts[t]), a) /\ a.state = "open"
    BY AttachmentAdvances, ResultAdvances
  <1>2. attempts[t] # <<>> /\ Current(t).state = "open" /\ DataTellAttempts'
    BY AttachmentAdvances, ResultAdvances
  <1>3. UNCHANGED testRunVars
    BY DEF StepAttached, StepFinished
  <1>4. /\ attempts' = [u \in TestCases |-> attempts'[u]]
        /\ \A u \in TestCases : attempts'[u] \in Seq(Attempt(u))
        /\ AttemptsInOrder'
    BY <1>1, AttemptsKept
  <1>5. ReportedAsAttempted'
    BY <1>1, <1>2, <1>3, StillReported
  <1>6. TypeOK' /\ PeriodsInOrder'
    BY <1>3, <1>4 DEF testRunVars, IInv, TypeOK, PeriodsInOrder, AllOrNone
  <1>7. QED
    BY <1>2, <1>4, <1>5, <1>6 DEF EventInv

(* The end of an attempt, with which its case may be reported.             *)
LEMMA EndKeepsInv ==
    ASSUME IInv, NEW t \in TestCases, AttemptFinished(t)
    PROVE  EventInv'
  <1>1. PICK a : /\ Advances(t, Len(attempts[t]), a) /\ IsAttempt(t, Len(attempts[t]), a)
                 /\ \/ a.state = "retried" /\ UNCHANGED testRunVars
                    \/ /\ a.state = "finished"
                       /\ CaseFinished(t, IF ShouldCauseFailure(RunnerStatus(a.results))
                                          THEN "failed" ELSE "passed")
    BY EndAdvances
  <1>2. attempts[t] # <<>> /\ Current(t).state = "open" /\ DataTellAttempts'
    BY EndAdvances
  <1>3. /\ attempts' = [u \in TestCases |-> attempts'[u]]
        /\ \A u \in TestCases : attempts'[u] \in Seq(Attempt(u))
        /\ AttemptsInOrder'
    BY <1>1, AttemptsKept
  <1>4. CASE a.state = "retried" /\ UNCHANGED testRunVars
    <2>1. ReportedAsAttempted'
      BY <1>1, <1>2, <1>4, StillReported
    <2>2. TypeOK' /\ PeriodsInOrder'
      BY <1>3, <1>4 DEF testRunVars, IInv, TypeOK, PeriodsInOrder, AllOrNone
    <2>3. QED
      BY <1>2, <1>3, <2>1, <2>2 DEF EventInv
  <1>5. CASE a.state = "finished" /\ CaseFinished(t, IF ShouldCauseFailure(RunnerStatus(a.results))
                                                     THEN "failed" ELSE "passed")
    <2> DEFINE fails == ShouldCauseFailure(RunnerStatus(a.results))
               outcome == IF fails THEN "failed" ELSE "passed"
    <2>1. /\ reported' = [reported EXCEPT ![t] = outcome] /\ reported[t] = "started"
          /\ period' = period /\ verdict' = verdict /\ Announcing
      BY <1>5 DEF CaseFinished
    <2>2. outcome \in Outcomes /\ (outcome = "failed" <=> fails)
      BY DEF Outcomes
    <2> HIDE DEF outcome, fails
    <2>3. TypeOK'
      BY <1>3, <2>1, <2>2 DEF IInv, TypeOK
    <2>4. ReportedAsAttempted'
      <3>1. Current(t)' = a /\ attempts'[t] # <<>> /\ reported'[t] = outcome
        BY <1>1, <2>1, CurrentAdvances DEF IInv, TypeOK
      <3>2. \A u \in TestCases \ {t} : /\ attempts'[u] = attempts[u] /\ Current(u)' = Current(u)
                                       /\ reported'[u] = reported[u]
        BY <1>1, <2>1, CurrentAdvances DEF IInv, TypeOK
      <3>3. "no" \notin Outcomes
        BY DEF Outcomes
      <3>4. QED
        BY <1>5, <2>2, <3>1, <3>2, <3>3 DEF IInv, ReportedAsAttempted, fails
    <2>5. PeriodsInOrder'
      BY <2>1, <2>2 DEF IInv, PeriodsInOrder, Announcing, AllOrNone, Outcomes
    <2>6. QED
      BY <1>2, <1>3, <2>3, <2>4, <2>5 DEF EventInv
  <1>6. QED
    BY <1>1, <1>4, <1>5

(* The rest of the run says nothing of any case.                           *)
LEMMA RunKeepsInv ==
    ASSUME IInv, RunGoesOn \/ RunReturned
    PROVE  EventInv'
  <1>1. UNCHANGED <<attempts, data>> /\ reported' = reported
    BY DEF RunGoesOn, RunReturned, OpenCases, SkipCases, CloseCases, Abort, Conclude, End
  <1>2. AttemptsInOrder' /\ DataTellAttempts'
    BY <1>1 DEF IInv, AttemptsInOrder, DataTellAttempts, AttemptIds
  <1>3. ReportedAsAttempted'
    BY <1>1 DEF IInv, ReportedAsAttempted, Current
  <1>4. TypeOK'
    BY <1>1 DEF IInv, TypeOK, RunGoesOn, RunReturned, OpenCases, SkipCases, CloseCases, Abort, Conclude, End
  <1>5. PeriodsInOrder'
    <2> USE <1>1 DEF IInv, TypeOK, PeriodsInOrder, AllOrNone, Outcomes
    <2>1. CASE OpenCases \/ SkipCases
      BY <2>1 DEF OpenCases, SkipCases
    <2>2. CASE CloseCases
      BY <2>2 DEF CloseCases
    <2>3. CASE \E v \in {"success", "failure"} : Conclude(v)
      BY <2>3 DEF Conclude
    <2>4. CASE Abort \/ End
      BY <2>4 DEF Abort, End
    <2>5. QED
      BY <2>1, <2>2, <2>3, <2>4 DEF RunGoesOn, RunReturned
  <1>6. QED
    BY <1>2, <1>3, <1>4, <1>5 DEF EventInv

(* What is printed is a function of the data.                              *)
LEMMA PrintedFromData ==
    ASSUME UNCHANGED <<attempts, data>>
    PROVE  /\ FormatSummary' = FormatSummary /\ LogIssues("synchronous")' = LogIssues("synchronous")
           /\ JsonReport' = JsonReport /\ RerunFile' = RerunFile /\ GetUsage' = GetUsage
           /\ \A interface : LogSnippets(interface)' = LogSnippets(interface)
  <1>1. LastAttempts' = LastAttempts /\ Failures' = Failures /\ Warnings' = Warnings
        /\ GetTestCaseAttempts' = GetTestCaseAttempts
    BY DEF LastAttempts, Failures, Warnings, GetTestCaseAttempts
  <1>2. FormatSummary' = FormatSummary
    BY <1>1 DEF FormatSummary
  <1>3. \A id : FormatIssue("synchronous", id)' = FormatIssue("synchronous", id)
    BY DEF FormatIssue, ParseTestCaseAttempt, ParseStep
  <1>4. LogIssues("synchronous")' = LogIssues("synchronous")
    BY <1>1, <1>3 DEF LogIssues, IssuesParse
  <1>5. JsonReport' = JsonReport
    <2>1. \A id, i : GetStepData(id, i)' = GetStepData(id, i)
      BY DEF GetStepData
    <2>2. \A id : GetScenarioData(id)' = GetScenarioData(id)
      BY <2>1 DEF GetScenarioData
    <2>3. QED
      BY <1>1, <2>2 DEF JsonReport
  <1>7. RerunFile' = RerunFile
    <2>1. FailedAttempts' = FailedAttempts
      BY <1>1 DEF FailedAttempts
    <2>2. GetFailureMap' = GetFailureMap
      BY <2>1 DEF GetFailureMap
    <2>3. QED
      BY <2>2 DEF RerunFile
  <1>8. ASSUME NEW interface
        PROVE  LogSnippets(interface)' = LogSnippets(interface)
    <2>1. \A id, i : ParseStep(interface, id, i)' = ParseStep(interface, id, i)
      BY DEF ParseStep
    <2>2. \A id : ParseTestCaseAttempt(interface, id)' = ParseTestCaseAttempt(interface, id)
      BY <2>1 DEF ParseTestCaseAttempt
    <2>3. \A id : SnippetsOf(interface, id)' = SnippetsOf(interface, id)
      BY <2>2 DEF SnippetsOf
    <2>4. QED
      BY <1>1, <2>3 DEF LogSnippets
  <1>9. GetUsage' = GetUsage
    <2>1. \A definition : Matches(definition)' = Matches(definition)
      BY <1>1 DEF Matches, UsesIn
    <2>2. \A matches : MeasuredOf(matches)' = MeasuredOf(matches)
      BY DEF MeasuredOf
    <2>3. \A match : DurationOf(match)' = DurationOf(match)
      BY DEF DurationOf
    <2>4. ASSUME NEW CONSTANT matches
          PROVE  MapThenSumSet(DurationOf, matches)' = MapThenSumSet(DurationOf, matches)
      BY <2>3 DEF MapThenSumSet, MapThenFoldSet
    <2>5. \A definition : UsageOf(definition)' = UsageOf(definition)
      BY <2>1, <2>2, <2>4 DEF UsageOf
    <2>6. QED
      BY <2>5 DEF GetUsage
  <1>10. QED
    BY <1>2, <1>4, <1>5, <1>7, <1>8, <1>9

(* Nothing has been printed before anything has happened.                  *)
LEMMA InitHolds ==
    ASSUME Init
    PROVE  IInv
  <1> USE DEF Init, EventDataInit, TestRunInit
  <1>1. TypeOK
    BY DEF TypeOK
  <1>2. AttemptsInOrder
    BY DEF AttemptsInOrder
  <1>3. ReportedAsAttempted
    BY DEF ReportedAsAttempted
  <1>4. PeriodsInOrder
    BY DEF PeriodsInOrder, AllOrNone
  <1>5. DataTellAttempts
    <2>1. AttemptIds = {}
      BY DEF AttemptIds
    <2>2. QED
      BY <2>1 DEF DataTellAttempts
  <1>6. PrintedAtTheEnd
    BY DEF PrintedAtTheEnd, Printed
  <1>7. QED
    BY <1>1, <1>2, <1>3, <1>4, <1>5, <1>6 DEF IInv

(* Every step keeps the invariant.                                         *)
LEMMA StepsKeepInv ==
    ASSUME IInv, [Next]_vars
    PROVE  IInv'
  <1>1. CASE UNCHANGED vars
    <2>1. UNCHANGED <<period, reported, verdict, attempts, data, output>>
      BY <1>1 DEF vars, eventVars, testRunVars
    <2>2. TypeOK' /\ AttemptsInOrder' /\ ReportedAsAttempted' /\ PeriodsInOrder' /\ DataTellAttempts'
      BY <2>1 DEF IInv, TypeOK, AttemptsInOrder, ReportedAsAttempted, Current, PeriodsInOrder, AllOrNone,
                  DataTellAttempts, AttemptIds
    <2>3. PrintedAtTheEnd'
      BY <2>1, PrintedFromData DEF IInv, PrintedAtTheEnd, Printed
    <2>4. QED
      BY <2>2, <2>3 DEF IInv
  <1>2. CASE Emits /\ UNCHANGED output
    <2>1. EventInv'
      BY <1>2, StartKeepsInv, StepKeepsInv, EndKeepsInv, RunKeepsInv DEF Emits
    <2>2. period # "ended"
      <3>1. CASE RunGoesOn
        BY <3>1 DEF RunGoesOn, OpenCases, SkipCases, CloseCases, Conclude, Abort
      <3>2. CASE \E t \in TestCases : AttemptStarted(t) \/ StepAttached(t) \/ StepFinished(t) \/ AttemptFinished(t)
        <4>1. Announcing
          BY <3>2 DEF AttemptStarted, StepAttached, StepFinished, AttemptFinished, CaseStarted
        <4>2. QED
          BY <4>1 DEF Announcing
      <3>3. QED
        BY <1>2, <3>1, <3>2 DEF Emits
    <2>3. PrintedAtTheEnd'
      BY <1>2, <2>2 DEF IInv, PrintedAtTheEnd, Printed
    <2>4. QED
      BY <2>1, <2>3 DEF EventInv, IInv
  <1>3. CASE OnTestRunFinished
    <2>1. EventInv'
      BY <1>3, RunKeepsInv DEF OnTestRunFinished
    <2>2. UNCHANGED <<attempts, data>> /\ period' = "ended"
      BY <1>3 DEF OnTestRunFinished, RunReturned, End
    <2>3. /\ output'.summary = FormatSummary /\ output'.issues = LogIssues("synchronous")
          /\ output'.json = JsonReport /\ output'.rerun = RerunFile /\ output'.usage = GetUsage
          /\ output'.snippets = [interface \in SnippetInterfaces |-> LogSnippets(interface)]
      BY <1>3 DEF OnTestRunFinished
    <2>4. PrintedAtTheEnd'
      BY <2>2, <2>3, PrintedFromData DEF PrintedAtTheEnd
    <2>5. QED
      BY <2>1, <2>4 DEF EventInv, IInv
  <1>4. QED
    BY <1>1, <1>2, <1>3 DEF Next

(* What the collector remembers is what happened, at every moment of every *)
(* run: the invariant of the reports.                                      *)
THEOREM Invariance == Spec => []IInv
  <1>1. Init => IInv
    BY InitHolds
  <1>2. IInv /\ [Next]_vars => IInv'
    BY StepsKeepInv
  <1>3. QED
    BY <1>1, <1>2, PTL DEF Spec

(* The stream of attempts and test steps is one of the contract that every *)
(* runtime keeps towards its listeners.                                    *)
THEOREM StreamIsOfARun == Spec => TestRunSpec
  <1>1. Init => TestRunInit
    BY DEF Init, EventDataInit
  <1>2. [Next]_vars => [TestRunNext]_testRunVars
    <2> SUFFICES ASSUME [Next]_vars PROVE TestRunNext \/ UNCHANGED testRunVars
      OBVIOUS
    <2>1. CASE Emits
      <3>1. CASE RunGoesOn
        BY <3>1 DEF RunGoesOn, TestRunNext
      <3>2. ASSUME NEW t \in TestCases, AttemptStarted(t) \/ StepAttached(t) \/ StepFinished(t)
            PROVE  TestRunNext \/ UNCHANGED testRunVars
        BY <3>2 DEF AttemptStarted, StepAttached, StepFinished, TestRunNext
      <3>3. ASSUME NEW t \in TestCases, AttemptFinished(t)
            PROVE  TestRunNext \/ UNCHANGED testRunVars
        <4>1. UNCHANGED testRunVars \/ CaseFinished(t, "failed") \/ CaseFinished(t, "passed")
          BY <3>3 DEF AttemptFinished
        <4>2. QED
          BY <4>1 DEF TestRunNext, Outcomes
      <3>4. QED
        BY <2>1, <3>1, <3>2, <3>3 DEF Emits
    <2>2. CASE OnTestRunFinished
      BY <2>2 DEF OnTestRunFinished, RunReturned, TestRunNext
    <2>3. CASE UNCHANGED vars
      BY <2>3 DEF vars, eventVars
    <2>4. QED
      BY <2>1, <2>2, <2>3 DEF Next
  <1>3. QED
    BY <1>1, <1>2, PTL DEF Spec, TestRunSpec

-----------------------------------------------------------------------------
(* What the collector has of an attempt that was made.                     *)
LEMMA DataOfAttempt ==
    ASSUME IInv, NEW t \in TestCases, NEW n \in DOMAIN attempts[t]
    PROVE  LET a == attempts[t][n]
           IN /\ <<t, n>> \in GetTestCaseAttempts
              /\ a \in Attempt(t) /\ IsAttempt(t, n, a)
              /\ data[<<t, n>>].stepResults = ResultsIn(t, a)
              /\ data[<<t, n>>].stepAttachments = AttachmentsIn(t, n, a)
              /\ data[<<t, n>>].worst = IF a.state = "open" THEN "UNKNOWN"
                                        ELSE Worst(ToSet(ResultsIn(t, a)))
              /\ data[<<t, n>>].willBeRetried <=> a.state = "retried"
  <1> USE DEF IInv
  <1>1. <<t, n>> \in AttemptIds
    BY DEF AttemptIds
  <1>2. <<t, n>> \in GetTestCaseAttempts
        /\ data[<<t, n>>] = Remembered(t, n, attempts[t][n])
    BY <1>1 DEF DataTellAttempts, GetTestCaseAttempts
  <1>3. attempts[t][n] \in Attempt(t) /\ IsAttempt(t, n, attempts[t][n])
    BY DEF TypeOK, AttemptsInOrder
  <1>4. ASSUME NEW r, NEW s, NEW w, NEW b \in BOOLEAN, data[<<t, n>>] = Recorded(r, s, w, b)
        PROVE  /\ data[<<t, n>>].stepResults = r /\ data[<<t, n>>].stepAttachments = s
               /\ data[<<t, n>>].worst = w /\ (data[<<t, n>>].willBeRetried <=> b)
    BY <1>4 DEF Recorded
  <1> DEFINE a == attempts[t][n]
             worst == IF a.state = "open" THEN "UNKNOWN" ELSE Worst(ToSet(ResultsIn(t, a)))
             retried == a.state = "retried"
  <1>5. data[<<t, n>>] = Recorded(ResultsIn(t, a), AttachmentsIn(t, n, a), worst, retried)
    BY <1>2 DEF Remembered
  <1>6. retried \in BOOLEAN
    OBVIOUS
  <1> HIDE DEF worst, retried
  <1>7. /\ data[<<t, n>>].stepResults = ResultsIn(t, a)
        /\ data[<<t, n>>].stepAttachments = AttachmentsIn(t, n, a)
        /\ data[<<t, n>>].worst = worst /\ (data[<<t, n>>].willBeRetried <=> retried)
    BY <1>4, <1>5, <1>6
  <1>8. QED
    BY <1>2, <1>3, <1>7 DEF worst, retried

(* Whether another attempt follows is remembered as a truth value.         *)
LEMMA DataIsOfAttempt ==
    ASSUME IInv, NEW t \in TestCases, NEW n \in DOMAIN attempts[t]
    PROVE  data[<<t, n>>].willBeRetried = (attempts[t][n].state = "retried")
  <1>1. <<t, n>> \in AttemptIds
    BY DEF AttemptIds
  <1>2. data[<<t, n>>] = Remembered(t, n, attempts[t][n])
    BY <1>1 DEF IInv, DataTellAttempts
  <1>3. ASSUME NEW r, NEW s, NEW w, NEW b \in BOOLEAN, data[<<t, n>>] = Recorded(r, s, w, b)
        PROVE  data[<<t, n>>].willBeRetried = b
    BY <1>3 DEF Recorded
  <1>4. (attempts[t][n].state = "retried") \in BOOLEAN
    OBVIOUS
  <1>5. QED
    BY <1>2, <1>3, <1>4 DEF Remembered

(* The collector has data of attempts that were made, and of nothing else. *)
LEMMA AttemptOfData ==
    ASSUME IInv, NEW id \in GetTestCaseAttempts
    PROVE  /\ id[1] \in TestCases /\ id[2] \in DOMAIN attempts[id[1]]
           /\ id = <<id[1], id[2]>>
  <1>1. id \in AttemptIds
    BY DEF IInv, DataTellAttempts, GetTestCaseAttempts
  <1>2. QED
    BY <1>1 DEF AttemptIds

(* An attempt that is over has the worst of its results, which is what its *)
(* runner judges, and is UNKNOWN if it has none.                           *)
LEMMA WorstOfAttempt ==
    ASSUME IInv, NEW t \in TestCases, NEW n \in DOMAIN attempts[t], attempts[t][n].state # "open"
    PROVE  LET a == attempts[t][n]
               worst == data[<<t, n>>].worst
           IN /\ ResultsIn(t, a) = a.results /\ DOMAIN a.results = DOMAIN TestStepsOf[t]
              /\ a.results = <<>> => worst = "UNKNOWN" /\ RunnerStatus(a.results) = "PASSED"
              /\ a.results # <<>> =>
                     /\ worst = RunnerStatus(a.results)
                     /\ worst \in Status \ {"UNKNOWN"}
                     /\ \E i \in DOMAIN a.results : a.results[i] = worst
                     /\ \A i \in DOMAIN a.results : Ordinal[a.results[i]] <= Ordinal[worst]
  <1> DEFINE a == attempts[t][n]
  <1>1. a \in Attempt(t) /\ IsAttempt(t, n, a)
        /\ data[<<t, n>>].worst = Worst(ToSet(ResultsIn(t, a)))
    BY DataOfAttempt
  <1>2. a.results \in Seq(Status \ {"UNKNOWN"}) /\ Len(a.results) = Len(TestStepsOf[t])
    BY <1>1 DEF Attempt, IsAttempt
  <1>3. TestStepsOf[t] \in Seq(ToSet(TestStepsOf[t]))
    BY EventDataAssumption
  <1>4. DOMAIN a.results = DOMAIN TestStepsOf[t]
    BY <1>2, <1>3
  <1>5. ResultsIn(t, a) = a.results
    BY <1>2, <1>4 DEF ResultsIn
  <1>6. CASE a.results = <<>>
    <2>1. ToSet(a.results) = {}
      BY <1>6 DEF ToSet
    <2>2. QED
      BY <1>1, <1>4, <1>5, <1>6, <2>1 DEF Worst, RunnerStatus
  <1>7. CASE a.results # <<>>
    <2>1. data[<<t, n>>].worst = RunnerStatus(a.results)
      BY <1>1, <1>2, <1>5, <1>7, RunnerStatusIsWorst
    <2>2. QED
      BY <1>2, <1>4, <1>5, <1>7, <2>1, RunnerStatusIsWorst
  <1>8. QED
    BY <1>6, <1>7

(* A finished attempt is the last one, and its case has been reported.     *)
LEMMA FinishedIsReported ==
    ASSUME IInv, NEW t \in TestCases, NEW n \in DOMAIN attempts[t], attempts[t][n].state = "finished"
    PROVE  /\ n = Len(attempts[t]) /\ Current(t) = attempts[t][n]
           /\ reported[t] \in Outcomes
           /\ reported[t] = "failed" <=> ShouldCauseFailure(RunnerStatus(attempts[t][n].results))
  <1>1. attempts[t] \in Seq(Attempt(t)) /\ attempts[t] # <<>>
    BY DEF IInv, TypeOK
  <1>2. n = Len(attempts[t])
    <2>1. ~(n < Len(attempts[t]))
      BY DEF IInv, AttemptsInOrder
    <2>2. QED
      BY <1>1, <2>1
  <1>3. Current(t) = attempts[t][n]
    BY <1>1, <1>2, CurrentIsAnAttempt DEF IInv
  <1>4. QED
    BY <1>1, <1>2, <1>3 DEF IInv, ReportedAsAttempted

(* A case that has been reported has a last attempt, and it is finished.   *)
LEMMA ReportedIsFinished ==
    ASSUME IInv, NEW t \in TestCases, reported[t] \in Outcomes
    PROVE  /\ attempts[t] # <<>> /\ Len(attempts[t]) \in DOMAIN attempts[t]
           /\ attempts[t][Len(attempts[t])].state = "finished"
  <1>1. attempts[t] # <<>>
    BY DEF IInv, ReportedAsAttempted, Outcomes
  <1>2. QED
    BY <1>1, CurrentIsAnAttempt DEF IInv, ReportedAsAttempted

(* What the summary calls a failure, or a warning that fails the run.      *)
LEMMA BlamedAreFinished ==
    ASSUME IInv, ~DryRun, NEW t \in TestCases, NEW n \in DOMAIN attempts[t]
    PROVE  (\/ <<t, n>> \in Failures
            \/ Strict /\ <<t, n>> \in Warnings /\ data[<<t, n>>].worst = "PENDING")
           <=> attempts[t][n].state = "finished" /\ ShouldCauseFailure(RunnerStatus(attempts[t][n].results))
  <1> DEFINE id == <<t, n>>
             a == attempts[t][n]
             worst == data[id].worst
             blamed == \/ worst \in {"AMBIGUOUS", "UNDEFINED"}
                       \/ worst = "FAILED" /\ a.state # "retried"
                       \/ worst = "PENDING" /\ Strict
  <1>1. /\ id \in GetTestCaseAttempts /\ a \in Attempt(t) /\ IsAttempt(t, n, a)
        /\ a.state = "open" => worst = "UNKNOWN"
    BY DataOfAttempt
  <1>8. data[id].willBeRetried <=> a.state = "retried"
    BY DataOfAttempt
  <1>9. a.state # "open" =>
            /\ a.results = <<>> => worst = "UNKNOWN" /\ RunnerStatus(a.results) = "PASSED"
            /\ a.results # <<>> => worst = RunnerStatus(a.results)
    BY WorstOfAttempt
  <1>10. IsFailure(data[id]) <=> \/ worst \in {"AMBIGUOUS", "UNDEFINED"}
                                 \/ worst = "FAILED" /\ a.state # "retried"
    BY <1>8, Zenon DEF IsFailure
  <1>11. worst = "PENDING" => IsWarning(data[id])
    BY DEF IsWarning
  <1>12. id \in Failures <=> IsFailure(data[id])
    BY <1>1 DEF Failures
  <1>13. id \in Warnings <=> IsWarning(data[id]) /\ id \notin Failures
    BY <1>1 DEF Warnings
  <1> HIDE DEF worst
  <1>2. (id \in Failures \/ (Strict /\ id \in Warnings /\ worst = "PENDING")) <=> blamed
    BY <1>10, <1>11, <1>12, <1>13
  <1>14. (id \in Failures \/ (Strict /\ id \in Warnings /\ data[id].worst = "PENDING")) <=> blamed
    BY <1>2 DEF worst
  <1> HIDE DEF blamed
  <1>3. a.state \in {"open", "retried", "finished"}
    BY <1>1 DEF Attempt
  <1>4. CASE a.state = "open"
    BY <1>1, <1>14, <1>4 DEF blamed
  <1>5. CASE a.state = "retried"
    <2>1. RunnerStatus(a.results) = "FAILED"
      BY <1>1, <1>5 DEF IsAttempt
    <2>2. worst \in {"FAILED", "UNKNOWN"}
      BY <1>5, <1>9, <2>1
    <2>3. ~blamed
      BY <1>5, <2>2 DEF blamed
    <2>4. QED
      BY <1>5, <1>14, <2>3
  <1>6. CASE a.state = "finished"
    <2>1. CASE a.results = <<>>
      <3>1. worst = "UNKNOWN" /\ RunnerStatus(a.results) = "PASSED"
        BY <1>6, <1>9, <2>1
      <3>2. ~blamed /\ ~ShouldCauseFailure(RunnerStatus(a.results))
        BY <3>1 DEF ShouldCauseFailure, FailureStatuses, blamed
      <3>3. QED
        BY <1>14, <3>2
    <2>2. CASE a.results # <<>>
      <3>1. worst = RunnerStatus(a.results)
        BY <1>6, <1>9, <2>2
      <3>2. blamed <=> ShouldCauseFailure(RunnerStatus(a.results))
        BY <1>6, <3>1 DEF ShouldCauseFailure, FailureStatuses, blamed
      <3>3. QED
        BY <1>6, <1>14, <3>2
    <2>3. QED
      BY <2>1, <2>2
  <1>7. QED
    BY <1>3, <1>4, <1>5, <1>6

(* Unless nothing was executed, who is blamed is who failed the run.       *)
LEMMA BlameHolds ==
    ASSUME IInv
    PROVE  BlamesWhatFailed
  <1> SUFFICES ASSUME ~DryRun PROVE Blamed = {t \in TestCases : reported[t] = "failed"}
    BY DEF BlamesWhatFailed
  <1> DEFINE Reasons == Failures \cup
                 (IF Strict THEN {x \in Warnings : data[x].worst = "PENDING"} ELSE {})
  <1>1. ASSUME NEW id \in Reasons
        PROVE  id[1] \in TestCases /\ reported[id[1]] = "failed"
    <2>1. id \in GetTestCaseAttempts
      BY DEF Failures, Warnings
    <2>2. id[1] \in TestCases /\ id[2] \in DOMAIN attempts[id[1]] /\ id = <<id[1], id[2]>>
      BY <2>1, AttemptOfData
    <2>3. \/ <<id[1], id[2]>> \in Failures
          \/ Strict /\ <<id[1], id[2]>> \in Warnings /\ data[<<id[1], id[2]>>].worst = "PENDING"
      BY <2>2
    <2>4. /\ attempts[id[1]][id[2]].state = "finished"
          /\ ShouldCauseFailure(RunnerStatus(attempts[id[1]][id[2]].results))
      BY <2>2, <2>3, BlamedAreFinished
    <2>5. QED
      BY <2>2, <2>4, FinishedIsReported
  <1>2. ASSUME NEW t \in TestCases, reported[t] = "failed"
        PROVE  \E id \in Reasons : id[1] = t
    <2> DEFINE n == Len(attempts[t])
    <2>1. n \in DOMAIN attempts[t] /\ attempts[t][n].state = "finished"
      BY <1>2, ReportedIsFinished DEF Outcomes
    <2>2. ShouldCauseFailure(RunnerStatus(attempts[t][n].results))
      BY <1>2, <2>1, FinishedIsReported
    <2>3. \/ <<t, n>> \in Failures
          \/ Strict /\ <<t, n>> \in Warnings /\ data[<<t, n>>].worst = "PENDING"
      BY <2>1, <2>2, BlamedAreFinished
    <2>4. <<t, n>> \in Reasons
      BY <2>3
    <2>5. QED
      BY <2>4
  <1>3. Blamed = {id[1] : id \in Reasons}
    BY DEF Blamed
  <1>4. QED
    BY <1>1, <1>2, <1>3

(* In a run that succeeds, an attempt with a result that fails a run is    *)
(* retried.                                                                *)
LEMMA ProgressHolds ==
    ASSUME IInv
    PROVE  ProgressAgrees
  <1> SUFFICES ASSUME verdict = "success", ~DryRun,
                      NEW character \in {"A", "U", "F"} \cup (IF Strict THEN {"P"} ELSE {}),
                      NEW mark \in LogProgress(character)
               PROVE  attempts[mark[1]][mark[2]].state = "retried"
    BY DEF ProgressAgrees
  <1>1. PICK t \in TestCases : \E n \in DOMAIN attempts[t] : \E i \in DOMAIN attempts[t][n].results :
            mark = <<t, n, i>> /\ Character(attempts[t][n].results[i]) = character
    BY DEF LogProgress
  <1>2. PICK n \in DOMAIN attempts[t] : \E i \in DOMAIN attempts[t][n].results :
            mark = <<t, n, i>> /\ Character(attempts[t][n].results[i]) = character
    BY <1>1
  <1>3. PICK i \in DOMAIN attempts[t][n].results :
            mark = <<t, n, i>> /\ Character(attempts[t][n].results[i]) = character
    BY <1>2
  <1> DEFINE a == attempts[t][n]
  <1>4. a \in Attempt(t)
    BY DataOfAttempt
  <1>5. a.results[i] \in Status \ {"UNKNOWN"}
    BY <1>4 DEF Attempt
  <1>6. a.results[i] \in {"AMBIGUOUS", "UNDEFINED", "FAILED"} \cup (IF Strict THEN {"PENDING"} ELSE {})
    BY <1>3, <1>5 DEF Character, Status
  <1>7. reported[t] = "passed"
    BY DEF IInv, PeriodsInOrder
  <1>8. a.state # "finished"
    <2> SUFFICES ASSUME a.state = "finished" PROVE FALSE
      OBVIOUS
    <2>1. ~ShouldCauseFailure(RunnerStatus(a.results))
      BY <1>7, FinishedIsReported
    <2>2. a.results # <<>>
      BY <1>3
    <2>3. /\ Ordinal[a.results[i]] <= Ordinal[RunnerStatus(a.results)]
          /\ RunnerStatus(a.results) \in Status \ {"UNKNOWN"}
      BY <1>3, <2>2, WorstOfAttempt
    <2>4. RunnerStatus(a.results) \in FailureStatuses
      BY <1>6, <2>3 DEF Ordinal, Status, FailureStatuses
    <2>5. QED
      BY <2>1, <2>4 DEF ShouldCauseFailure
  <1>9. a.state # "open"
    <2>1. reported[t] \in Outcomes
      BY <1>7 DEF Outcomes
    <2>2. attempts[t][Len(attempts[t])].state = "finished" /\ attempts[t] \in Seq(Attempt(t))
      BY <2>1, ReportedIsFinished DEF IInv, TypeOK
    <2>3. n = Len(attempts[t]) \/ n < Len(attempts[t])
      BY <2>2
    <2>4. QED
      BY <2>2, <2>3 DEF IInv, AttemptsInOrder
  <1>10. QED
    BY <1>3, <1>4, <1>8, <1>9 DEF Attempt

-----------------------------------------------------------------------------
(* The union of finitely many finite sets is finite.                       *)
LEMMA UnionIsFinite ==
    ASSUME NEW S, IsFiniteSet(S), NEW f, \A x \in S : IsFiniteSet(f[x])
    PROVE  IsFiniteSet(UNION {f[x] : x \in S})
  <1> DEFINE T == {f[x] : x \in S}
             g == [x \in S |-> f[x]]
  <1>1. g \in Surjection(S, T)
    BY DEF Surjection
  <1>2. IsFiniteSet(T)
    BY <1>1, FS_Surjection
  <1>3. \A U \in T : IsFiniteSet(U)
    OBVIOUS
  <1>4. QED
    BY <1>2, <1>3, FS_UNION

(* What has a value is counted apart from what has another.                *)
With(X, f, s) == {x \in X : f[x] = s}

Without(X, f, s) == {x \in X : f[x] # s}

(* Counting by a value splits a set in two.                                *)
LEMMA CountApart ==
    ASSUME NEW X, IsFiniteSet(X), NEW f, NEW s
    PROVE  /\ IsFiniteSet(Without(X, f, s))
           /\ Cardinality(With(X, f, s)) \in Nat /\ Cardinality(Without(X, f, s)) \in Nat
           /\ Cardinality(X) = Cardinality(With(X, f, s)) + Cardinality(Without(X, f, s))
  <1> DEFINE is == With(X, f, s)
             others == Without(X, f, s)
  <1>1. IsFiniteSet(is) /\ IsFiniteSet(others)
    BY FS_Subset DEF With, Without
  <1>2. is \cup others = X /\ is \cap others = {}
    BY DEF With, Without
  <1> HIDE DEF is, others
  <1>3. Cardinality(X) = Cardinality(is) + Cardinality(others) - Cardinality({})
    BY <1>1, <1>2, FS_Union
  <1>4. Cardinality({}) = 0 /\ Cardinality(is) \in Nat /\ Cardinality(others) \in Nat
    BY <1>1, FS_EmptySet, FS_CardinalityType
  <1>5. IsFiniteSet(others) /\ Cardinality(is) \in Nat /\ Cardinality(others) \in Nat
        /\ Cardinality(X) = Cardinality(is) + Cardinality(others)
    BY <1>1, <1>3, <1>4
  <1>6. QED
    BY <1>5 DEF is, others

(* The counts of each status add up to the number of what is counted.      *)
LEMMA CountsAddUp ==
    ASSUME NEW X, IsFiniteSet(X), NEW f, \A x \in X : f[x] \in Status,
           NEW counts, \A s \in Status : counts[s] = Cardinality(With(X, f, s))
    PROVE  Total(counts) = Cardinality(X)
  <1> DEFINE X1 == Without(X, f, "FAILED")
             X2 == Without(X1, f, "AMBIGUOUS")
             X3 == Without(X2, f, "UNDEFINED")
             X4 == Without(X3, f, "PENDING")
             X5 == Without(X4, f, "SKIPPED")
             X6 == Without(X5, f, "PASSED")
  <1>1. /\ With(X1, f, "AMBIGUOUS") = With(X, f, "AMBIGUOUS")
        /\ With(X2, f, "UNDEFINED") = With(X, f, "UNDEFINED")
        /\ With(X3, f, "PENDING") = With(X, f, "PENDING")
        /\ With(X4, f, "SKIPPED") = With(X, f, "SKIPPED")
        /\ With(X5, f, "PASSED") = With(X, f, "PASSED")
        /\ X6 = With(X, f, "UNKNOWN")
    BY DEF With, Without, Status
  <1> HIDE DEF X1, X2, X3, X4, X5, X6
  <1>2. /\ IsFiniteSet(X1) /\ Cardinality(X1) \in Nat /\ counts["FAILED"] \in Nat
        /\ Cardinality(X) = counts["FAILED"] + Cardinality(X1)
    BY CountApart DEF X1, Status
  <1>3. /\ IsFiniteSet(X2) /\ Cardinality(X2) \in Nat /\ counts["AMBIGUOUS"] \in Nat
        /\ Cardinality(X1) = counts["AMBIGUOUS"] + Cardinality(X2)
    BY <1>1, <1>2, CountApart DEF X2, Status
  <1>4. /\ IsFiniteSet(X3) /\ Cardinality(X3) \in Nat /\ counts["UNDEFINED"] \in Nat
        /\ Cardinality(X2) = counts["UNDEFINED"] + Cardinality(X3)
    BY <1>1, <1>3, CountApart DEF X3, Status
  <1>5. /\ IsFiniteSet(X4) /\ Cardinality(X4) \in Nat /\ counts["PENDING"] \in Nat
        /\ Cardinality(X3) = counts["PENDING"] + Cardinality(X4)
    BY <1>1, <1>4, CountApart DEF X4, Status
  <1>6. /\ IsFiniteSet(X5) /\ Cardinality(X5) \in Nat /\ counts["SKIPPED"] \in Nat
        /\ Cardinality(X4) = counts["SKIPPED"] + Cardinality(X5)
    BY <1>1, <1>5, CountApart DEF X5, Status
  <1>7. /\ IsFiniteSet(X6) /\ Cardinality(X6) \in Nat /\ counts["PASSED"] \in Nat
        /\ Cardinality(X5) = counts["PASSED"] + Cardinality(X6)
    BY <1>1, <1>6, CountApart DEF X6, Status
  <1>8. Cardinality(X6) = counts["UNKNOWN"]
    BY <1>1 DEF Status
  <1>9. QED
    BY <1>2, <1>3, <1>4, <1>5, <1>6, <1>7, <1>8 DEF Total

-----------------------------------------------------------------------------
LastOf(t) == <<t, Len(attempts[t])>>

(* Of a run that was not aborted the last attempt at each case is counted. *)
LEMMA LastAreCounted ==
    ASSUME IInv, AllOrNone
    PROVE  /\ LastAttempts = {LastOf(t) : t \in Started}
           /\ \A t \in Started : /\ reported[t] \in Outcomes
                                 /\ Len(attempts[t]) \in DOMAIN attempts[t]
                                 /\ attempts[t][Len(attempts[t])].state = "finished"
  <1>1. ASSUME NEW t \in Started
        PROVE  /\ reported[t] \in Outcomes
               /\ Len(attempts[t]) \in DOMAIN attempts[t]
               /\ attempts[t][Len(attempts[t])].state = "finished"
    <2>1. t \in TestCases /\ reported[t] # "no"
      BY DEF Started, IInv, ReportedAsAttempted
    <2>2. reported[t] \in Outcomes
      BY <2>1 DEF AllOrNone
    <2>3. QED
      BY <2>1, <2>2, ReportedIsFinished
  <1>2. ASSUME NEW id \in LastAttempts
        PROVE  \E t \in Started : id = LastOf(t)
    <2>1. id \in GetTestCaseAttempts /\ ~data[id].willBeRetried
      BY DEF LastAttempts
    <2>2. PICK t \in TestCases : \E n \in DOMAIN attempts[t] : id = <<t, n>>
      BY <2>1, AttemptOfData
    <2>3. PICK n \in DOMAIN attempts[t] : id = <<t, n>>
      BY <2>2
    <2>4. attempts[t][n].state # "retried"
      BY <2>1, <2>3, DataOfAttempt
    <2>5. attempts[t] \in Seq(Attempt(t)) /\ attempts[t] # <<>>
      BY DEF IInv, TypeOK
    <2>6. n = Len(attempts[t])
      <3>1. ~(n < Len(attempts[t]))
        BY <2>4 DEF IInv, AttemptsInOrder
      <3>2. QED
        BY <2>5, <3>1
    <2>7. QED
      BY <2>3, <2>5, <2>6 DEF Started, LastOf
  <1>3. ASSUME NEW t \in Started
        PROVE  LastOf(t) \in LastAttempts
    <2>1. t \in TestCases
      BY DEF Started
    <2>2. LastOf(t) \in GetTestCaseAttempts /\ ~data[LastOf(t)].willBeRetried
      BY <1>1, <2>1, DataOfAttempt DEF LastOf
    <2>3. QED
      BY <2>2 DEF LastAttempts
  <1>4. QED
    BY <1>1, <1>2, <1>3

(* There are finitely many cases, each of finitely many test steps.        *)
LEMMA CasesAreFinite ==
    IsFiniteSet(TestCases) /\ IsFiniteSet(Started) /\ \A t \in TestCases : IsFiniteSet(DOMAIN TestStepsOf[t])
  <1>1. Pickles \in Seq(ToSet(Pickles)) /\ TestCases = DOMAIN Pickles
    BY PicklesAssumption, ReportsAssumption
  <1>2. TestCases = 1 .. Len(Pickles) /\ Len(Pickles) \in Nat
    BY <1>1
  <1>3. IsFiniteSet(TestCases)
    BY <1>2, FS_Interval
  <1>4. IsFiniteSet(Started)
    BY <1>3, FS_Subset DEF Started
  <1>5. ASSUME NEW t \in TestCases
        PROVE  IsFiniteSet(DOMAIN TestStepsOf[t])
    <2>1. TestStepsOf[t] \in Seq(ToSet(TestStepsOf[t]))
      BY EventDataAssumption
    <2>2. DOMAIN TestStepsOf[t] = 1 .. Len(TestStepsOf[t]) /\ Len(TestStepsOf[t]) \in Nat
      BY <2>1
    <2>3. QED
      BY <2>2, FS_Interval
  <1>6. QED
    BY <1>3, <1>4, <1>5

(* The steps among the test steps of a case are those of its pickle.       *)
StepNumbers(t) == {i \in DOMAIN TestStepsOf[t] : IsStep(TestStepsOf[t][i])}

LEMMA StepsOfCase ==
    ASSUME NEW t \in TestCases
    PROVE  /\ DOMAIN TestStepsOf[t] = 1 .. Len(TestStepsOf[t]) /\ Len(TestStepsOf[t]) \in Nat
           /\ StepNumbers(t) \subseteq DOMAIN TestStepsOf[t]
           /\ DOMAIN Pickles[t].steps = 1 .. Len(Pickles[t].steps) /\ Len(Pickles[t].steps) \in Nat
           /\ \A i \in StepNumbers(t) : TestStepsOf[t][i].pickleStep \in DOMAIN Pickles[t].steps
           /\ \A k \in DOMAIN Pickles[t].steps : \E i \in StepNumbers(t) : TestStepsOf[t][i].pickleStep = k
           /\ \A i, j \in StepNumbers(t) :
                  /\ i < j => TestStepsOf[t][i].pickleStep < TestStepsOf[t][j].pickleStep
                  /\ TestStepsOf[t][i].pickleStep = TestStepsOf[t][j].pickleStep => i = j
           /\ \A i \in DOMAIN TestStepsOf[t], j \in StepNumbers(t) :
                  /\ TestStepsOf[t][i].kind = "before" => i < j
                  /\ TestStepsOf[t][i].kind = "after" => j < i
  <1>1. /\ Pickles[t].steps \in Seq(ToSet(Pickles[t].steps))
        /\ \A i \in StepNumbers(t) : TestStepsOf[t][i].pickleStep \in DOMAIN Pickles[t].steps
        /\ \A k \in DOMAIN Pickles[t].steps : \E i \in StepNumbers(t) : TestStepsOf[t][i].pickleStep = k
        /\ \A i, j \in StepNumbers(t) : i < j => TestStepsOf[t][i].pickleStep < TestStepsOf[t][j].pickleStep
        /\ \A i \in DOMAIN TestStepsOf[t], j \in StepNumbers(t) :
               /\ TestStepsOf[t][i].kind = "before" => i < j
               /\ TestStepsOf[t][i].kind = "after" => j < i
    BY TestStepsAssumption DEF StepNumbers
  <1>2. TestStepsOf[t] \in Seq(ToSet(TestStepsOf[t]))
    BY EventDataAssumption
  <1>3. /\ DOMAIN TestStepsOf[t] = 1 .. Len(TestStepsOf[t]) /\ Len(TestStepsOf[t]) \in Nat
        /\ StepNumbers(t) \subseteq DOMAIN TestStepsOf[t]
    BY <1>2 DEF StepNumbers
  <1>4. DOMAIN Pickles[t].steps = 1 .. Len(Pickles[t].steps) /\ Len(Pickles[t].steps) \in Nat
    BY <1>1
  <1>5. ASSUME NEW i \in StepNumbers(t), NEW j \in StepNumbers(t),
               TestStepsOf[t][i].pickleStep = TestStepsOf[t][j].pickleStep
        PROVE  i = j
    <2>1. ~(i < j) /\ ~(j < i)
      BY <1>1, <1>4, <1>5
    <2>2. QED
      BY <1>3, <2>1
  <1>6. QED
    BY <1>1, <1>3, <1>4, <1>5

(* A line stands for one scenario of a feature file.                       *)
LEMMA LinesDiffer ==
    ASSUME NEW t \in TestCases
    PROVE  /\ Line[t] \in Pickles[t].lines
           /\ \A u \in TestCases : Pickles[t].uri = Pickles[u].uri /\ Line[t] = Line[u] => t = u
  BY PicklesAssumption

(* The step of its pickle is another for each step of a test case, and     *)
(* each has one.                                                           *)
LEMMA StepsCorrespond ==
    ASSUME NEW last, DOMAIN last = Started, \A t \in Started : last[t][1] = t
    PROVE  LET steps == StepsIn({last[t] : t \in Started})
           IN /\ IsFiniteSet(steps)
              /\ Cardinality(steps) = Cardinality(UNION {{t} \X DOMAIN Pickles[t].steps : t \in Started})
  <1> DEFINE Of(t) == {i \in DOMAIN TestStepsOf[t] : IsStep(TestStepsOf[t][i])}
             steps == StepsIn({last[t] : t \in Started})
             pickleSteps == UNION {{t} \X DOMAIN Pickles[t].steps : t \in Started}
             f == [t \in Started |-> {last[t]} \X Of(t)]
             g == [step \in steps |-> <<step[1][1], TestStepsOf[step[1][1]][step[2]].pickleStep>>]
  <1>1. Started \subseteq TestCases
    BY DEF Started
  <1>2. steps = UNION {f[t] : t \in Started}
    <2>1. \A t \in Started : f[t] = {last[t]} \X {i \in DOMAIN TestStepsOf[last[t][1]] :
                                                    IsStep(TestStepsOf[last[t][1]][i])}
      OBVIOUS
    <2>2. QED
      BY <2>1 DEF StepsIn
  <1>f. \A t \in Started : f[t] = {last[t]} \X Of(t)
    OBVIOUS
  <1> HIDE DEF f, steps
  <1>3. ASSUME NEW t \in Started
        PROVE  IsFiniteSet(f[t])
    <2>1. IsFiniteSet(Of(t)) /\ IsFiniteSet({last[t]})
      BY <1>1, CasesAreFinite, FS_Subset, FS_Singleton
    <2>2. IsFiniteSet({last[t]} \X Of(t))
      BY <2>1, FS_Product
    <2>3. QED
      BY <1>f, <2>2
  <1>4. IsFiniteSet(steps)
    BY <1>2, <1>3, CasesAreFinite, UnionIsFinite
  <1> HIDE DEF Of
  <1>5. ASSUME NEW step \in steps
        PROVE  /\ step[1][1] \in Started /\ step[1] = last[step[1][1]] /\ step[2] \in Of(step[1][1])
               /\ step = <<step[1], step[2]>>
    <2>1. PICK t \in Started : step \in f[t]
      BY <1>2
    <2>2. step \in {last[t]} \X Of(t)
      BY <1>f, <2>1
    <2>3. QED
      BY <2>2
  <1>6. ASSUME NEW t \in Started, NEW i \in Of(t)
        PROVE  <<last[t], i>> \in steps
    <2>1. <<last[t], i>> \in f[t]
      BY <1>f
    <2>2. QED
      BY <1>2, <2>1
  <1> USE DEF Of
  <1>7. ASSUME NEW step \in steps
        PROVE  g[step] \in pickleSteps
    <2> DEFINE t == step[1][1]
    <2>1. t \in Started /\ t \in TestCases /\ step[2] \in Of(t)
      BY <1>1, <1>5
    <2>2. TestStepsOf[t][step[2]].pickleStep \in DOMAIN Pickles[t].steps
      BY <2>1, StepsOfCase DEF StepNumbers
    <2>3. g[step] = <<t, TestStepsOf[t][step[2]].pickleStep>>
      OBVIOUS
    <2>4. <<t, TestStepsOf[t][step[2]].pickleStep>> \in {t} \X DOMAIN Pickles[t].steps
      BY <2>2
    <2>5. QED
      BY <2>1, <2>3, <2>4
  <1>8. ASSUME NEW x \in steps, NEW y \in steps, g[x] = g[y]
        PROVE  x = y
    <2>1. x[1][1] = y[1][1] /\ x[1][1] \in TestCases
          /\ TestStepsOf[x[1][1]][x[2]].pickleStep = TestStepsOf[x[1][1]][y[2]].pickleStep
      BY <1>1, <1>5, <1>8
    <2>2. x[2] \in Of(x[1][1]) /\ y[2] \in Of(x[1][1])
      BY <1>5, <2>1
    <2>3. x[2] = y[2]
      BY <2>1, <2>2, StepsOfCase DEF StepNumbers
    <2>4. QED
      BY <1>5, <2>1, <2>3
  <1>9. ASSUME NEW p \in pickleSteps
        PROVE  \E step \in steps : g[step] = p
    <2>1. PICK t \in Started : p \in {t} \X DOMAIN Pickles[t].steps
      OBVIOUS
    <2>2. PICK k \in DOMAIN Pickles[t].steps : p = <<t, k>>
      BY <2>1
    <2>3. PICK i \in Of(t) : TestStepsOf[t][i].pickleStep = k
      BY <1>1, StepsOfCase DEF StepNumbers
    <2>4. g[<<last[t], i>>] = p
      BY <1>6, <2>2, <2>3
    <2>5. QED
      BY <1>6, <2>4
  <1>10. g \in Bijection(steps, pickleSteps)
    <2> HIDE DEF pickleSteps
    <2>1. DOMAIN g = steps
      OBVIOUS
    <2>2. g \in [steps -> pickleSteps]
      BY <1>7
    <2> HIDE DEF g
    <2>3. QED
      BY <1>8, <1>9, <2>2 DEF Bijection, Injection, Surjection, IsInjective
  <1>11. Cardinality(pickleSteps) = Cardinality(steps)
    <2> HIDE DEF pickleSteps, g
    <2>1. QED
      BY <1>4, <1>10, FS_Bijection DEF ExistsBijection
  <1>12. QED
    BY <1>4, <1>11 DEF steps

(* Nothing has FAILED in the last attempt at a case that has passed.       *)
LEMMA PassedHasNotFailed ==
    ASSUME IInv, NEW t \in TestCases, NEW n \in DOMAIN attempts[t],
           attempts[t][n].state = "finished", reported[t] = "passed"
    PROVE  /\ \A i \in DOMAIN attempts[t][n].results : attempts[t][n].results[i] # "FAILED"
           /\ data[<<t, n>>].worst # "FAILED"
  <1> DEFINE a == attempts[t][n]
             worst == data[<<t, n>>].worst
  <1>1. ~ShouldCauseFailure(RunnerStatus(a.results))
    BY FinishedIsReported
  <1>2. a \in Attempt(t) /\ IsAttempt(t, n, a)
    BY DataOfAttempt
  <1>3. /\ a.results = <<>> => worst = "UNKNOWN"
        /\ a.results # <<>> =>
               /\ worst = RunnerStatus(a.results)
               /\ worst \in Status \ {"UNKNOWN"}
               /\ \E i \in DOMAIN a.results : a.results[i] = worst
               /\ \A i \in DOMAIN a.results : Ordinal[a.results[i]] <= Ordinal[worst]
    BY WorstOfAttempt
  <1>4. \A i \in DOMAIN a.results : a.results[i] # "FAILED"
    <2>1. CASE DryRun
      BY <1>2, <2>1 DEF IsAttempt
    <2>2. CASE ~DryRun
      <3> SUFFICES ASSUME NEW i \in DOMAIN a.results, a.results[i] = "FAILED" PROVE FALSE
        OBVIOUS
      <3>1. a.results # <<>>
        OBVIOUS
      <3>2. worst = RunnerStatus(a.results) /\ worst \in Status \ {"UNKNOWN"} /\ Ordinal["FAILED"] <= Ordinal[worst]
        BY <1>3, <3>1
      <3> HIDE DEF worst
      <3>3. worst = "FAILED"
        BY <3>2 DEF Ordinal, Status
      <3>4. QED
        BY <1>1, <2>2, <3>2, <3>3 DEF ShouldCauseFailure, FailureStatuses
    <2>3. QED
      BY <2>1, <2>2
  <1>5. worst # "FAILED"
    BY <1>3, <1>4
  <1>6. QED
    BY <1>4, <1>5

(* What is counted over a run that was not aborted.                        *)
LEMMA CountsHold ==
    ASSUME IInv, Printed
    PROVE  CountsEachOnce
  <1> SUFFICES ASSUME verdict \in {"success", "failure"}
               PROVE  LET counts == FormatSummary
                      IN /\ Total(counts.scenarios) = Cardinality(Started)
                         /\ Total(counts.steps) =
                                Cardinality(UNION {{t} \X DOMAIN Pickles[t].steps : t \in Started})
                         /\ verdict = "success" => counts.scenarios["FAILED"] = 0 /\ counts.steps["FAILED"] = 0
    BY DEF CountsEachOnce, IInv, PrintedAtTheEnd
  <1> DEFINE last == [t \in Started |-> LastOf(t)]
             steps == StepsIn(LastAttempts)
             scenarioCounts == [s \in Status |-> Cardinality({id \in LastAttempts : data[id].worst = s})]
             stepCounts == [s \in Status |-> Cardinality({step \in steps : data[step[1]].stepResults[step[2]] = s})]
             status == [id \in LastAttempts |-> data[id].worst]
             result == [step \in steps |-> data[step[1]].stepResults[step[2]]]
  <1>1. FormatSummary.scenarios = scenarioCounts /\ FormatSummary.steps = stepCounts
    BY DEF FormatSummary
  <1>2. AllOrNone
    BY DEF IInv, PeriodsInOrder
  <1>3. Started \subseteq TestCases
    BY DEF Started
  <1>4. LastAttempts = {last[t] : t \in Started}
    BY <1>2, LastAreCounted
  <1>5. IsFiniteSet(LastAttempts) /\ Cardinality(LastAttempts) = Cardinality(Started)
    <2>1. last \in Bijection(Started, LastAttempts)
      BY <1>4 DEF Bijection, Injection, Surjection, IsInjective, LastOf
    <2>2. QED
      BY <2>1, CasesAreFinite, FS_Bijection DEF ExistsBijection
  <1>6. ASSUME NEW t \in Started
        PROVE  LET n == Len(attempts[t])
               IN /\ t \in TestCases /\ n \in DOMAIN attempts[t] /\ attempts[t][n].state = "finished"
                  /\ LastOf(t) = <<t, n>> /\ reported[t] \in Outcomes
    BY <1>2, <1>3, LastAreCounted DEF LastOf
  <1>7. IsFiniteSet(steps)
        /\ Cardinality(steps) = Cardinality(UNION {{t} \X DOMAIN Pickles[t].steps : t \in Started})
    <2>1. \A t \in Started : last[t][1] = t
      BY DEF LastOf
    <2> HIDE DEF last
    <2>2. DOMAIN last = Started
      BY DEF last
    <2>3. QED
      BY <1>4, <2>1, <2>2, StepsCorrespond
  <1>8. ASSUME NEW t \in Started
        PROVE  LET n == Len(attempts[t])
               IN /\ data[LastOf(t)].worst \in Status
                  /\ verdict = "success" => data[LastOf(t)].worst # "FAILED"
                  /\ \A i \in DOMAIN TestStepsOf[t] :
                         /\ data[LastOf(t)].stepResults[i] \in Status
                         /\ verdict = "success" => data[LastOf(t)].stepResults[i] # "FAILED"
    <2> DEFINE n == Len(attempts[t])
               a == attempts[t][n]
    <2>1. /\ t \in TestCases /\ n \in DOMAIN attempts[t] /\ a.state = "finished"
          /\ LastOf(t) = <<t, n>>
      BY <1>6
    <2>2. /\ a \in Attempt(t) /\ data[<<t, n>>].stepResults = ResultsIn(t, a)
      BY <2>1, DataOfAttempt
    <2>3. /\ ResultsIn(t, a) = a.results /\ DOMAIN a.results = DOMAIN TestStepsOf[t]
          /\ data[<<t, n>>].worst \in Status
      BY <2>1, WorstOfAttempt DEF Status
    <2>4. a.results \in Seq(Status \ {"UNKNOWN"})
      BY <2>2 DEF Attempt
    <2>5. verdict = "success" =>
              /\ \A i \in DOMAIN a.results : a.results[i] # "FAILED"
              /\ data[<<t, n>>].worst # "FAILED"
      BY <2>1, PassedHasNotFailed DEF IInv, PeriodsInOrder
    <2>6. QED
      BY <2>1, <2>2, <2>3, <2>4, <2>5
  <1>9. ASSUME NEW step \in steps
        PROVE  \E t \in Started : step[1] = LastOf(t) /\ step[2] \in DOMAIN TestStepsOf[t]
    <2>1. PICK id \in LastAttempts : step \in {id} \X {i \in DOMAIN TestStepsOf[id[1]] : IsStep(TestStepsOf[id[1]][i])}
      BY DEF StepsIn
    <2>2. PICK t \in Started : id = LastOf(t)
      BY <1>4
    <2>3. QED
      BY <2>1, <2>2 DEF LastOf
  <1> HIDE DEF last, steps
  <1>10. Total(scenarioCounts) = Cardinality(LastAttempts)
    <2>1. \A id \in LastAttempts : status[id] \in Status
      BY <1>4, <1>8 DEF last
    <2>2. \A s \in Status : scenarioCounts[s] = Cardinality(With(LastAttempts, status, s))
      <3>1. \A s \in Status : With(LastAttempts, status, s) = {id \in LastAttempts : data[id].worst = s}
        BY DEF With
      <3>2. QED
        BY <3>1
    <2> HIDE DEF status, scenarioCounts
    <2>3. QED
      BY <1>5, <2>1, <2>2, CountsAddUp
  <1>11. Total(stepCounts) = Cardinality(steps)
    <2>1. \A step \in steps : result[step] \in Status
      BY <1>8, <1>9
    <2>2. \A s \in Status : stepCounts[s] = Cardinality(With(steps, result, s))
      <3>1. \A s \in Status : With(steps, result, s) =
                                {step \in steps : data[step[1]].stepResults[step[2]] = s}
        BY DEF With
      <3>2. QED
        BY <3>1
    <2> HIDE DEF result, stepCounts
    <2>3. QED
      <3>1. IsFiniteSet(steps)
        BY <1>7
      <3>2. QED
        BY <2>1, <2>2, <3>1, CountsAddUp
  <1>12. ASSUME verdict = "success"
         PROVE  scenarioCounts["FAILED"] = 0 /\ stepCounts["FAILED"] = 0
    <2>1. {id \in LastAttempts : data[id].worst = "FAILED"} = {}
      BY <1>4, <1>8, <1>12 DEF last
    <2>2. {step \in steps : data[step[1]].stepResults[step[2]] = "FAILED"} = {}
      BY <1>8, <1>9, <1>12
    <2>3. QED
      BY <2>1, <2>2, FS_EmptySet DEF Status
  <1> HIDE DEF scenarioCounts, stepCounts
  <1>13. QED
    BY <1>1, <1>5, <1>7, <1>10, <1>11, <1>12

-----------------------------------------------------------------------------
PrintedBody(attachments) == FormatAttachment(attachments[1]).body

(* Whether the body of an attachment is printed depends on its media type. *)
LEMMA BodyIsPrinted ==
    ASSUME NEW body, NEW encoding, NEW type, NEW name, NEW attachments,
           attachments = CreateStringAttachment(body, encoding, type, name)
    PROVE  PrintedBody(attachments) = IF type = MediaType("text/plain") THEN <<body>> ELSE <<>>
  <1>1. attachments[1] = [body |-> body, encoding |-> encoding, mediaType |-> type, fileName |-> name]
    BY DEF CreateStringAttachment
  <1>2. attachments[1].mediaType = type /\ attachments[1].body = body
    BY <1>1
  <1>3. FormatAttachment(attachments[1]).body =
            IF attachments[1].mediaType = MediaType("text/plain") THEN <<attachments[1].body>> ELSE <<>>
    BY DEF FormatAttachment
  <1>4. QED
    BY <1>2, <1>3 DEF PrintedBody

(* The media types that say that something is plain text.                  *)
LEMMA MediaTypesDiffer ==
    /\ Unspecified # MediaType("text/plain")
    /\ MediaType("text/x.cucumber.log+plain") \notin {Unspecified, MediaType("text/plain")}
    /\ MediaType("text/uri-list") \notin {Unspecified, MediaType("text/plain")}
    /\ Unspecified.type = "" /\ MediaType("text/plain").type = "text/plain"
    /\ \A type : MediaType(type) = MediaType("text/plain") => type = "text/plain"
  BY DEF MediaType, Unspecified

(* What is logged or linked is a text of a media type of its own.          *)
LEMMA TextOfItsOwn ==
    ASSUME NEW text, NEW type, MediaType(type) \notin {Unspecified, MediaType("text/plain")},
           NEW attachments, attachments = Create(AsText(text), As(type))
    PROVE  PrintedBody(attachments) = <<>>
  <1> DEFINE options == NormaliseOptions(As(type))
  <1>1. As(type).as = "mediaType" /\ As(type).mediaType = MediaType(type)
    BY DEF As
  <1>2. options = [mediaType |-> MediaType(type), fileName |-> ""]
    BY <1>1 DEF NormaliseOptions
  <1> HIDE DEF options
  <1>3. options.mediaType = MediaType(type)
    BY <1>2
  <1>4. AsText(text).kind = "text" /\ AsText(text).text = text
    BY DEF AsText
  <1>5. attachments = CreateTextAttachment(text, MediaType(type), options.fileName)
    BY <1>3, <1>4 DEF Create, options
  <1>6. attachments = CreateStringAttachment(text, IF MediaType(type).base64 THEN "BASE64" ELSE "IDENTITY",
                                             MediaType(MediaType(type).type), options.fileName)
    BY <1>5 DEF CreateTextAttachment
  <1>7. MediaType(type).type = type
    BY DEF MediaType
  <1>8. MediaType(MediaType(type).type) # MediaType("text/plain")
    BY <1>7
  <1>9. QED
    BY <1>6, <1>8, BodyIsPrinted

(* The text of what is attached as plain text is printed as it was given,  *)
(* and of nothing else is there anything but the name of a file.           *)
LEMMA PlainTextIsPrinted ==
    ASSUME NEW call, IsCall(call), AttachmentOf(call) # <<>>
    PROVE  /\ IsPlainText(call) => PrintedBody(AttachmentOf(call)) = <<call.data.text>>
           /\ PrintedBody(AttachmentOf(call)) # <<>> => MeansPlainText(call)
  <1> DEFINE attached == AttachmentOf(call)
             body == PrintedBody(attached)
             type == IF call.given.as = "nothing" THEN Unspecified ELSE call.given.mediaType
             options == NormaliseOptions(call.given)
  <1>1. CASE call.method = "attach"
    <2>1. attached = Create(call.data, call.given)
      BY <1>1 DEF AttachmentOf
    <2>2. options.mediaType = type
      BY <1>1 DEF IsCall, NormaliseOptions
    <2>3. call.given.as # "nothing" => type = call.given.mediaType
      OBVIOUS
    <2>4. call.given.as = "nothing" => type = Unspecified
      OBVIOUS
    <2> HIDE DEF type
    <2>5. CASE call.data.kind = "text"
      <3>1. attached = CreateTextAttachment(call.data.text, type, options.fileName)
        BY <2>1, <2>2, <2>5 DEF Create
      <3>2. CASE type = Unspecified
        <4>1. attached = CreateStringAttachment(call.data.text, "IDENTITY", MediaType("text/plain"), options.fileName)
          BY <3>1, <3>2 DEF CreateTextAttachment
        <4>2. body = <<call.data.text>>
          BY <4>1, BodyIsPrinted
        <4>3. call.given.as # "nothing" => call.given.mediaType.type = ""
          BY <2>3, <3>2, MediaTypesDiffer
        <4>4. QED
          BY <1>1, <4>2, <4>3 DEF MeansPlainText
      <3>3. CASE type # Unspecified
        <4>1. call.given.as # "nothing" /\ type = call.given.mediaType
          BY <2>3, <2>4, <3>3
        <4>2. attached = CreateStringAttachment(call.data.text, IF type.base64 THEN "BASE64" ELSE "IDENTITY",
                                                MediaType(type.type), options.fileName)
          BY <3>1, <3>3 DEF CreateTextAttachment
        <4>3. body = IF MediaType(type.type) = MediaType("text/plain") THEN <<call.data.text>> ELSE <<>>
          BY <4>2, BodyIsPrinted
        <4>4. type = MediaType("text/plain") => body = <<call.data.text>>
          BY <4>3, MediaTypesDiffer
        <4>5. body # <<>> => type.type = "text/plain"
          BY <4>3, MediaTypesDiffer
        <4>6. QED
          BY <1>1, <4>1, <4>4, <4>5 DEF IsPlainText, MeansPlainText
      <3>4. QED
        BY <3>2, <3>3
    <2>6. CASE call.data.kind # "text"
      <3>1. type # Unspecified
        BY <2>1, <2>2, <2>6 DEF Create
      <3>2. call.given.as # "nothing" /\ type = call.given.mediaType
        BY <2>3, <2>4, <3>1
      <3>3. \E text : attached = CreateStringAttachment(text, "BASE64", type, options.fileName)
        <4>1. CASE call.data.kind = "buffer"
          BY <2>1, <2>2, <3>1, <4>1 DEF Create, CreateBufferAttachment
        <4>2. CASE call.data.kind = "stream"
          BY <2>1, <2>2, <3>1, <4>2 DEF Create, CreateStreamAttachment, CreateBufferAttachment
        <4>3. CASE call.data.kind \notin {"text", "buffer", "stream"}
          BY <2>1, <4>3 DEF Create
        <4>4. QED
          BY <2>6, <4>1, <4>2, <4>3
      <3>4. body # <<>> => type = MediaType("text/plain")
        <4>1. PICK text : attached = CreateStringAttachment(text, "BASE64", type, options.fileName)
          BY <3>3
        <4>2. QED
          BY <4>1, BodyIsPrinted
      <3>5. body # <<>> => call.given.mediaType.type = "text/plain"
        BY <3>2, <3>4, MediaTypesDiffer
      <3>6. QED
        BY <1>1, <2>6, <3>5 DEF IsPlainText, MeansPlainText
    <2>7. QED
      BY <2>5, <2>6
  <1>2. CASE call.method # "attach"
    <2>1. CASE call.method = "log"
      <3>1. attached = Create(AsText(call.text), As("text/x.cucumber.log+plain"))
        BY <2>1 DEF AttachmentOf, CreateLog
      <3>2. body = <<>>
        BY <3>1, TextOfItsOwn, MediaTypesDiffer
      <3>3. QED
        BY <1>2, <3>2 DEF IsPlainText
    <2>2. CASE call.method = "link"
      <3>1. PICK text : attached = Create(AsText(text), As("text/uri-list"))
        BY <2>2 DEF AttachmentOf, CreateLink
      <3>2. body = <<>>
        BY <3>1, TextOfItsOwn, MediaTypesDiffer
      <3>3. QED
        BY <1>2, <3>2 DEF IsPlainText
    <2>3. QED
      BY <1>2, <2>1, <2>2 DEF IsCall
  <1>3. QED
    BY <1>1, <1>2

(* Something has gone wrong in an attempt that is over just if the summary *)
(* has it among its failures or its warnings.                              *)
LEMMA IssuesAreTroubles ==
    ASSUME IInv
    PROVE  Failures \cup Warnings = Troubled
  <1> DEFINE Bad == {"AMBIGUOUS", "UNDEFINED", "FAILED", "PENDING"}
  <1>1. ASSUME NEW id \in GetTestCaseAttempts
        PROVE  id \in Failures \cup Warnings <=> data[id].worst \in Bad
    <2>1. IsFailure(data[id]) \/ IsWarning(data[id]) <=> data[id].worst \in Bad
      <3> DEFINE worst == data[id].worst
                 retried == data[id].willBeRetried
      <3>1. IsFailure(data[id]) <=> worst \in {"AMBIGUOUS", "UNDEFINED"} \/ (worst = "FAILED" /\ ~retried)
        BY DEF IsFailure
      <3>2. IsWarning(data[id]) <=> worst = "PENDING" \/ (worst = "FAILED" /\ retried)
        BY DEF IsWarning
      <3> HIDE DEF worst, retried
      <3>3. IsFailure(data[id]) \/ IsWarning(data[id]) <=> worst \in Bad
        BY <3>1, <3>2, Zenon
      <3>4. QED
        BY <3>3 DEF worst
    <2>2. id \in Failures \cup Warnings <=> IsFailure(data[id]) \/ IsWarning(data[id])
      BY DEF Failures, Warnings
    <2>3. QED
      BY <2>1, <2>2
  <1>2. ASSUME NEW t \in TestCases, NEW n \in DOMAIN attempts[t]
        PROVE  data[<<t, n>>].worst \in Bad <=>
                   attempts[t][n].state # "open" /\ Troubles(attempts[t][n]) # {}
    <2> DEFINE a == attempts[t][n]
               worst == data[<<t, n>>].worst
    <2>1. a \in Attempt(t) /\ (a.state = "open" => worst = "UNKNOWN")
      BY DataOfAttempt
    <2>2. a.state # "open" =>
              /\ a.results = <<>> => worst = "UNKNOWN"
              /\ a.results # <<>> =>
                     /\ worst \in Status \ {"UNKNOWN"}
                     /\ \E i \in DOMAIN a.results : a.results[i] = worst
                     /\ \A i \in DOMAIN a.results : Ordinal[a.results[i]] <= Ordinal[worst]
      BY WorstOfAttempt
    <2>3. a.results \in Seq(Status \ {"UNKNOWN"})
      BY <2>1 DEF Attempt
    <2>4. Troubles(a) # {} <=> \E i \in DOMAIN a.results : a.results[i] \in Bad
      BY <2>3 DEF Troubles, Status
    <2> HIDE DEF worst
    <2>5. CASE a.state = "open"
      BY <2>1, <2>5 DEF worst
    <2>6. CASE a.state # "open" /\ a.results = <<>>
      BY <2>2, <2>4, <2>6 DEF worst
    <2>7. CASE a.state # "open" /\ a.results # <<>>
      <3>1. worst \in Bad => Troubles(a) # {}
        BY <2>2, <2>4, <2>7
      <3>2. Troubles(a) # {} => worst \in Bad
        <4>1. \A r \in Bad : \A w \in Status : Ordinal[r] <= Ordinal[w] => w \in Bad
          BY DEF Ordinal, Status
        <4>2. QED
          BY <2>2, <2>4, <2>7, <4>1
      <3>3. QED
        BY <2>7, <3>1, <3>2 DEF worst
    <2>8. QED
      BY <2>5, <2>6, <2>7
  <1>3. ASSUME NEW id \in Failures \cup Warnings
        PROVE  id \in Troubled
    <2>1. id \in GetTestCaseAttempts
      BY DEF Failures, Warnings
    <2>2. PICK t \in TestCases : \E n \in DOMAIN attempts[t] : id = <<t, n>>
      BY <2>1, AttemptOfData
    <2>3. PICK n \in DOMAIN attempts[t] : id = <<t, n>>
      BY <2>2
    <2>4. attempts[t][n].state # "open" /\ Troubles(attempts[t][n]) # {}
      BY <1>1, <1>2, <2>1, <2>3
    <2>5. QED
      BY <2>3, <2>4 DEF Troubled
  <1>4. ASSUME NEW id \in Troubled
        PROVE  id \in Failures \cup Warnings
    <2>1. PICK t \in TestCases : \E n \in DOMAIN attempts[t] :
              id = <<t, n>> /\ attempts[t][n].state # "open" /\ Troubles(attempts[t][n]) # {}
      BY DEF Troubled
    <2>2. PICK n \in DOMAIN attempts[t] :
              id = <<t, n>> /\ attempts[t][n].state # "open" /\ Troubles(attempts[t][n]) # {}
      BY <2>1
    <2>3. id \in GetTestCaseAttempts
      BY <2>2, DataOfAttempt
    <2>4. data[id].worst \in Bad
      BY <1>2, <2>2
    <2>5. QED
      BY <1>1, <2>3, <2>4
  <1>5. QED
    BY <1>3, <1>4

(* Only finitely many attempts have been made.                             *)
LEMMA TroubledAreFinite ==
    ASSUME IInv
    PROVE  IsFiniteSet(Troubled)
  <1> DEFINE f == [t \in TestCases |-> {t} \X DOMAIN attempts[t]]
  <1>1. ASSUME NEW t \in TestCases
        PROVE  IsFiniteSet(f[t])
    <2>1. attempts[t] \in Seq(Attempt(t))
      BY DEF IInv, TypeOK
    <2>2. DOMAIN attempts[t] = 1 .. Len(attempts[t]) /\ Len(attempts[t]) \in Nat
      BY <2>1
    <2>3. IsFiniteSet(DOMAIN attempts[t])
      BY <2>2, FS_Interval
    <2>6. IsFiniteSet({t})
      BY FS_Singleton
    <2>4. IsFiniteSet({t} \X DOMAIN attempts[t])
      BY <2>3, <2>6, FS_Product
    <2>5. QED
      BY <2>4
  <1>2. Troubled \subseteq UNION {f[t] : t \in TestCases}
    BY DEF Troubled
  <1> HIDE DEF f
  <1>3. IsFiniteSet(UNION {f[t] : t \in TestCases})
    BY <1>1, CasesAreFinite, UnionIsFinite
  <1>4. QED
    BY <1>2, <1>3, FS_Subset

(* The steps of an issue, with the marks and the attachments of the steps  *)
(* of the attempt.                                                         *)
LEMMA StepsAreShown ==
    ASSUME IInv, NEW t \in TestCases, NEW n \in DOMAIN attempts[t], attempts[t][n].state # "open"
    PROVE  LET steps == FormatIssue("synchronous", <<t, n>>).steps
           IN /\ {i \in DOMAIN steps : steps[i].mark \in {"cross", "?"}} = Troubles(attempts[t][n])
              /\ \A i \in DOMAIN steps :
                     LET shown == steps[i].attachments
                         came == Came(t, n, i)
                     IN /\ Len(shown) = IF PrintAttachments THEN Len(came) ELSE 0
                        /\ \A k \in DOMAIN shown :
                               /\ IsPlainText(came[k]) => shown[k].body = <<came[k].data.text>>
                               /\ shown[k].body # <<>> => MeansPlainText(came[k])
  <1> DEFINE id == <<t, n>>
             a == attempts[t][n]
             steps == FormatIssue("synchronous", id).steps
             kept(i) == data[id].stepAttachments[i]
  <1>1. DOMAIN steps = DOMAIN TestStepsOf[t]
        /\ \A i \in DOMAIN steps :
               /\ steps[i].mark = Mark(data[id].stepResults[i])
               /\ steps[i].attachments =
                      IF PrintAttachments THEN [k \in DOMAIN kept(i) |-> FormatAttachment(kept(i)[k])]
                      ELSE <<>>
    BY DEF FormatIssue, ParseTestCaseAttempt, ParseStep, FormatStep
  <1>2. /\ a \in Attempt(t) /\ IsAttempt(t, n, a)
        /\ data[id].stepResults = ResultsIn(t, a)
        /\ data[id].stepAttachments = AttachmentsIn(t, n, a)
    BY DataOfAttempt
  <1>3. ResultsIn(t, a) = a.results /\ DOMAIN a.results = DOMAIN TestStepsOf[t]
    BY WorstOfAttempt
  <1>4. a.results \in Seq(Status \ {"UNKNOWN"}) /\ a.attached \in [DOMAIN TestStepsOf[t] -> Seq(Nat)]
    BY <1>2 DEF Attempt
  <1> HIDE DEF steps
  <1>5. {i \in DOMAIN steps : steps[i].mark \in {"cross", "?"}} = Troubles(a)
    <2>1. \A s \in Status \ {"UNKNOWN"} : Mark(s) \in {"cross", "?"} <=> s \notin {"PASSED", "SKIPPED"}
      <3>1. /\ Mark("AMBIGUOUS") = "cross" /\ Mark("FAILED") = "cross"
            /\ Mark("PENDING") = "?" /\ Mark("UNDEFINED") = "?"
            /\ Mark("PASSED") = "tick" /\ Mark("SKIPPED") = "-"
        BY DEF Mark
      <3>2. QED
        BY <3>1 DEF Status
    <2>2. \A i \in DOMAIN steps : steps[i].mark = Mark(a.results[i]) /\ a.results[i] \in Status \ {"UNKNOWN"}
      <3> SUFFICES ASSUME NEW i \in DOMAIN steps
                   PROVE  steps[i].mark = Mark(a.results[i]) /\ a.results[i] \in Status \ {"UNKNOWN"}
        OBVIOUS
      <3>1. data[id].stepResults = a.results /\ i \in DOMAIN a.results
        BY <1>1, <1>2, <1>3
      <3>2. steps[i].mark = Mark(data[id].stepResults[i])
        BY <1>1
      <3>3. a.results[i] \in Status \ {"UNKNOWN"}
        BY <1>4, <3>1
      <3>4. QED
        BY <3>1, <3>2, <3>3
    <2>3. DOMAIN steps = DOMAIN a.results
      BY <1>1, <1>3
    <2>4. QED
      BY <2>1, <2>2, <2>3 DEF Troubles
  <1>6. ASSUME NEW i \in DOMAIN steps
        PROVE  LET shown == steps[i].attachments
                   came == Came(t, n, i)
               IN /\ Len(shown) = IF PrintAttachments THEN Len(came) ELSE 0
                  /\ \A k \in DOMAIN shown :
                         /\ IsPlainText(came[k]) => shown[k].body = <<came[k].data.text>>
                         /\ shown[k].body # <<>> => MeansPlainText(came[k])
    <2> DEFINE calls == Attaching[<<t, n, i>>]
               numbers == a.attached[i]
               came == Came(t, n, i)
               shown == steps[i].attachments
    <2>1. i \in DOMAIN TestStepsOf[t] /\ numbers \in Seq(Nat)
      BY <1>1, <1>4
    <2>2. came = [k \in DOMAIN numbers |-> calls[numbers[k]]]
      BY DEF Came
    <2>3. kept(i) = [k \in DOMAIN numbers |-> AttachmentOf(calls[numbers[k]])[1]]
      BY <1>2, <2>1 DEF AttachmentsIn, AttachmentsOf
    <2>4. \A k \in DOMAIN numbers : IsCall(calls[numbers[k]]) /\ AttachmentOf(calls[numbers[k]]) # <<>>
      <3> SUFFICES ASSUME NEW k \in DOMAIN numbers
                   PROVE  IsCall(calls[numbers[k]]) /\ AttachmentOf(calls[numbers[k]]) # <<>>
        OBVIOUS
      <3>1. /\ <<t, n, i>> \in DOMAIN Attaching /\ numbers[k] \in DOMAIN calls
            /\ AttachmentOf(calls[numbers[k]]) # <<>>
        BY <1>2, <2>1 DEF IsAttempt
      <3>2. calls \in Seq({call \in ToSet(calls) : IsCall(call)})
        BY <3>1, EventDataAssumption
      <3>3. QED
        BY <3>1, <3>2
    <2>5. CASE ~PrintAttachments
      BY <1>1, <2>5
    <2>6. CASE PrintAttachments
      <3>1. shown = [k \in DOMAIN numbers |-> FormatAttachment(AttachmentOf(calls[numbers[k]])[1])]
        BY <1>1, <2>3, <2>6
      <3> HIDE DEF numbers, calls, came, shown
      <3>2. DOMAIN numbers = 1 .. Len(numbers) /\ Len(numbers) \in Nat
        BY <2>1
      <3>3. Len(shown) = Len(numbers)
        BY <3>1, <3>2
      <3>7. Len(came) = Len(numbers)
        BY <2>2, <3>2
      <3>4. ASSUME NEW k \in DOMAIN shown
            PROVE  /\ IsPlainText(came[k]) => shown[k].body = <<came[k].data.text>>
                   /\ shown[k].body # <<>> => MeansPlainText(came[k])
        <4>1. k \in DOMAIN numbers
          BY <3>1, <3>4
        <4>2. /\ IsPlainText(calls[numbers[k]]) =>
                     FormatAttachment(AttachmentOf(calls[numbers[k]])[1]).body = <<calls[numbers[k]].data.text>>
              /\ FormatAttachment(AttachmentOf(calls[numbers[k]])[1]).body # <<>> =>
                     MeansPlainText(calls[numbers[k]])
          BY <2>4, <4>1, PlainTextIsPrinted DEF PrintedBody
        <4>3. came[k] = calls[numbers[k]] /\ shown[k] = FormatAttachment(AttachmentOf(calls[numbers[k]])[1])
          BY <2>2, <3>1, <4>1
        <4>4. QED
          BY <4>2, <4>3
      <3>5. Len(shown) = IF PrintAttachments THEN Len(came) ELSE 0
        BY <2>6, <3>3, <3>7
      <3>6. QED
        BY <3>4, <3>5 DEF came, shown
    <2>7. QED
      BY <2>5, <2>6
  <1>7. QED
    BY <1>5, <1>6 DEF steps

(* The formatter dies of a scenario just if it has no step and has an      *)
(* After hook.                                                             *)
LEMMA ParsesWithStep ==
    ASSUME NEW t \in TestCases
    PROVE  ~Parses(t) <=> /\ Pickles[t].steps = <<>>
                          /\ \E i \in DOMAIN TestStepsOf[t] : TestStepsOf[t][i].kind = "after"
  <1> DEFINE Steps == {i \in DOMAIN TestStepsOf[t] : IsStep(TestStepsOf[t][i])}
  <1>1. /\ Pickles[t].steps \in Seq(ToSet(Pickles[t].steps))
        /\ \A i \in Steps : TestStepsOf[t][i].pickleStep \in DOMAIN Pickles[t].steps
        /\ \A k \in DOMAIN Pickles[t].steps : \E i \in Steps : TestStepsOf[t][i].pickleStep = k
        /\ \A i \in DOMAIN TestStepsOf[t], j \in Steps : TestStepsOf[t][i].kind = "after" => j < i
    BY TestStepsAssumption
  <1>2. DOMAIN TestStepsOf[t] = 1 .. Len(TestStepsOf[t]) /\ Len(TestStepsOf[t]) \in Nat
    BY EventDataAssumption
  <1>3. CASE Pickles[t].steps = <<>>
    <2>1. Steps = {}
      BY <1>1, <1>3
    <2>2. \A i \in DOMAIN TestStepsOf[t] : IsBeforeHook(t, i)
      BY <1>2, <2>1 DEF IsBeforeHook
    <2>3. QED
      BY <1>3, <2>2 DEF Parses
  <1>4. CASE Pickles[t].steps # <<>>
    <2>1. 1 \in DOMAIN Pickles[t].steps
      BY <1>1, <1>4
    <2>2. PICK j \in Steps : TestStepsOf[t][j].pickleStep = 1
      BY <1>1, <2>1
    <2>3. \A i \in DOMAIN TestStepsOf[t] : TestStepsOf[t][i].kind = "after" => j \in 1 .. i
      BY <1>1, <1>2, <2>2
    <2>4. Parses(t)
      BY <2>2, <2>3 DEF Parses, IsBeforeHook
    <2>5. QED
      BY <1>4, <2>4
  <1>5. QED
    BY <1>3, <1>4

(* What has gone wrong, in which attempt at which case.                    *)
LEMMA TroubledIsAnAttempt ==
    ASSUME NEW id \in Troubled
    PROVE  /\ id[1] \in TestCases /\ id[2] \in DOMAIN attempts[id[1]] /\ id = <<id[1], id[2]>>
           /\ attempts[id[1]][id[2]].state # "open"
  BY DEF Troubled

(* An issue shows its attempt.                                             *)
LEMMA IssueShows ==
    ASSUME IInv, NEW t \in TestCases, NEW n \in DOMAIN attempts[t], attempts[t][n].state # "open"
    PROVE  Shows(FormatIssue("synchronous", <<t, n>>), t, n)
  <1> DEFINE id == <<t, n>>
             issue == FormatIssue("synchronous", id)
             retried == attempts[t][n].state = "retried"
  <1>1. attempts[t] \in Seq(Attempt(t)) /\ n \in Nat /\ n >= 1 /\ n <= Len(attempts[t])
    BY DEF IInv, TypeOK
  <1>2. /\ issue.uri = Pickles[t].uri /\ issue.line = Line[t]
        /\ issue.attempt = GetAttemptText(n, data[id].willBeRetried)
    BY DEF FormatIssue, PickleOf
  <1>3. data[id].willBeRetried = retried
    BY DataIsOfAttempt
  <1>4. issue.attempt = (IF Len(attempts[t]) = 1 /\ attempts[t][1].state = "finished"
                         THEN [number |-> 0, retried |-> FALSE]
                         ELSE [number |-> n, retried |-> retried])
    <2>1. (n > 1 \/ retried) <=> ~(Len(attempts[t]) = 1 /\ attempts[t][1].state = "finished")
      <3>1. CASE n > 1
        BY <1>1, <3>1
      <3>2. CASE n = 1 /\ retried
        BY <3>2
      <3>3. CASE n = 1 /\ ~retried
        <4>1. attempts[t][n].state = "finished"
          BY <3>3, DataOfAttempt DEF Attempt
        <4>2. n = Len(attempts[t])
          BY <4>1, FinishedIsReported
        <4>3. QED
          BY <3>3, <4>1, <4>2
      <3>4. QED
        BY <1>1, <3>1, <3>2, <3>3
    <2>2. issue.attempt = IF n > 1 \/ retried THEN [number |-> n, retried |-> retried]
                          ELSE [number |-> 0, retried |-> FALSE]
      BY <1>2, <1>3 DEF GetAttemptText
    <2>3. QED
      BY <2>1, <2>2
  <1>5. Line[t] \in Pickles[t].lines
    BY LinesDiffer
  <1> HIDE DEF issue
  <1>6. /\ {i \in DOMAIN issue.steps : issue.steps[i].mark \in {"cross", "?"}} = Troubles(attempts[t][n])
        /\ \A i \in DOMAIN issue.steps :
               LET shown == issue.steps[i].attachments
                   came == Came(t, n, i)
               IN /\ Len(shown) = IF PrintAttachments THEN Len(came) ELSE 0
                  /\ \A k \in DOMAIN shown :
                         /\ IsPlainText(came[k]) => shown[k].body = <<came[k].data.text>>
                         /\ shown[k].body # <<>> => MeansPlainText(came[k])
    BY StepsAreShown DEF issue
  <1>7. Shows(issue, t, n)
    BY <1>2, <1>4, <1>5, <1>6 DEF Shows
  <1>8. QED
    BY <1>7 DEF issue

(* There is one issue for each attempt in which something went wrong.      *)
LEMMA IssuesHold ==
    ASSUME IInv, Printed
    PROVE  IssuesShowTroubles
  <1> DEFINE Issue == [id \in Troubled |-> FormatIssue("synchronous", id)]
             issues == {Issue[id] : id \in Troubled}
             Stepless == \E id \in Troubled : Pickles[id[1]].steps = <<>> /\
                            \E i \in DOMAIN TestStepsOf[id[1]] : TestStepsOf[id[1]][i].kind = "after"
  <1>1. output.issues = LogIssues("synchronous")
    BY DEF IInv, PrintedAtTheEnd
  <1>2. Failures \cup Warnings = Troubled
    BY IssuesAreTroubles
  <1>3. IssuesParse <=> ~Stepless
    BY <1>2, ParsesWithStep, TroubledIsAnAttempt DEF IssuesParse
  <1>4. Stepless => output.issues = "throws"
    BY <1>1, <1>3 DEF LogIssues
  <1>5. ~Stepless => output.issues = issues
    BY <1>1, <1>2, <1>3 DEF LogIssues
  <1>6. ASSUME NEW id \in Troubled, NEW other \in Troubled, Issue[id] = Issue[other]
        PROVE  id = other
    <2>1. /\ id[1] \in TestCases /\ id[2] \in DOMAIN attempts[id[1]] /\ id = <<id[1], id[2]>>
          /\ other[1] \in TestCases /\ other[2] \in DOMAIN attempts[other[1]] /\ other = <<other[1], other[2]>>
      BY TroubledIsAnAttempt
    <2>2. /\ Pickles[id[1]].uri = Pickles[other[1]].uri /\ Line[id[1]] = Line[other[1]]
          /\ GetAttemptText(id[2], data[id].willBeRetried) = GetAttemptText(other[2], data[other].willBeRetried)
      <3>1. \A x \in Troubled : /\ Issue[x].uri = Pickles[x[1]].uri /\ Issue[x].line = Line[x[1]]
                                /\ Issue[x].attempt = GetAttemptText(x[2], data[x].willBeRetried)
        BY DEF FormatIssue, PickleOf
      <3>2. QED
        BY <1>6, <3>1
    <2>3. id[1] = other[1]
      BY <2>1, <2>2, LinesDiffer
    <2>4. id[2] \in Nat \ {0} /\ other[2] \in Nat \ {0}
      BY <2>1 DEF IInv, TypeOK
    <2>5. id[2] = other[2]
      <3>1. GetAttemptText(id[2], data[id].willBeRetried).number \in {0, id[2]}
            /\ (id[2] > 1 => GetAttemptText(id[2], data[id].willBeRetried).number = id[2])
        BY DEF GetAttemptText
      <3>2. GetAttemptText(other[2], data[other].willBeRetried).number \in {0, other[2]}
            /\ (other[2] > 1 => GetAttemptText(other[2], data[other].willBeRetried).number = other[2])
        BY DEF GetAttemptText
      <3>3. QED
        BY <2>2, <2>4, <3>1, <3>2
    <2>6. QED
      BY <2>1, <2>3, <2>5
  <1>7. Cardinality(issues) = Cardinality(Troubled)
    <2>1. Issue \in [Troubled -> issues] /\ DOMAIN Issue = Troubled
      OBVIOUS
    <2>2. \A issue \in issues : \E id \in Troubled : Issue[id] = issue
      OBVIOUS
    <2> HIDE DEF Issue, issues
    <2>3. Issue \in Bijection(Troubled, issues)
      BY <1>6, <2>1, <2>2 DEF Bijection, Injection, Surjection, IsInjective
    <2>4. QED
      BY <2>3, TroubledAreFinite, FS_Bijection DEF ExistsBijection
  <1>8. \A id \in Troubled : \E issue \in issues : Shows(issue, id[1], id[2])
    <2> SUFFICES ASSUME NEW id \in Troubled PROVE Shows(Issue[id], id[1], id[2])
      OBVIOUS
    <2>1. /\ id[1] \in TestCases /\ id[2] \in DOMAIN attempts[id[1]] /\ id = <<id[1], id[2]>>
          /\ attempts[id[1]][id[2]].state # "open"
      BY TroubledIsAnAttempt
    <2>2. Shows(FormatIssue("synchronous", <<id[1], id[2]>>), id[1], id[2])
      BY <2>1, IssueShows
    <2>3. Issue[id] = FormatIssue("synchronous", <<id[1], id[2]>>)
      BY <2>1
    <2>4. QED
      BY <2>2, <2>3
  <1> HIDE DEF issues, Issue
  <1>9. QED
    BY <1>4, <1>5, <1>7, <1>8 DEF IssuesShowTroubles

(* Whatever suite is run, however often its cases are retried, however     *)
(* many run at once and wherever the run is aborted: the summary blames    *)
(* the scenarios that failed the run and no others, counts each scenario   *)
(* and step of a run that came to an end once, and its issues are the      *)
(* attempts in which something went wrong, each told from every other.     *)
THEOREM SummaryIsTrue == Spec => []SummaryMatchesVerdict
  <1>1. IInv => SummaryMatchesVerdict
    BY BlameHolds, CountsHold, ProgressHolds, IssuesHold DEF SummaryMatchesVerdict
  <1>2. QED
    BY <1>1, Invariance, PTL

-----------------------------------------------------------------------------
(* The causes of an error are followed one by one.                         *)
LEMMA CausesAreFollowed ==
    ASSUME NEW error \in ThrownErrors
    PROVE  LET cause == CausesOf(error)
           IN /\ DOMAIN cause = 0 .. MaxCauseDepth + 1
              /\ cause[0] = error
              /\ \A i \in 1 .. MaxCauseDepth + 1 :
                     cause[i] = IF cause[i - 1] \in ThrownErrors THEN CauseOf[cause[i - 1]] ELSE NoCause
  <1> DEFINE N == MaxCauseDepth + 1
             V == ThrownErrors \cup {CauseOf[e] : e \in ThrownErrors} \cup {NoCause}
             After(e) == IF e \in ThrownErrors THEN CauseOf[e] ELSE NoCause
             F == [p \in (1 .. N) \X V |-> After(p[2])]
             Follows(g) == g = [i \in 0 .. N |-> IF i = 0 THEN error ELSE After(g[i - 1])]
  <1>1. N \in Nat /\ error \in V /\ F \in [(1 .. N) \X V -> V]
    BY ErrorsAssumption
  <1>2. \E g : IsDefinedBy(g, N, V, error, F)
    <2> HIDE DEF N, V, F
    <2>1. QED
      BY <1>1, DefinedByRecursion, Zenon
  <1>22. PICK g \in [0 .. N -> V] : g[0] = error /\ \A i \in 1 .. N : g[i] = F[<<i, g[i - 1]>>]
    BY <1>2 DEF IsDefinedBy
  <1>3. ASSUME NEW i \in 1 .. N
        PROVE  g[i] = After(g[i - 1])
    <2>1. i - 1 \in 0 .. N
      BY <1>1
    <2>2. g[i - 1] \in V
      BY <2>1, <1>22
    <2>3. QED
      BY <1>22, <2>2
  <1>4. Follows(g)
    <2>1. \A i \in 0 .. N : g[i] = IF i = 0 THEN error ELSE After(g[i - 1])
      BY <1>1, <1>22, <1>3
    <2>2. g = [i \in 0 .. N |-> g[i]]
      BY <1>22
    <2> HIDE DEF N, After
    <2>3. QED
      BY <2>1, <2>2
  <1>5. CausesOf(error) = CHOOSE f : Follows(f)
    BY DEF CausesOf
  <1>6. Follows(CausesOf(error))
    <2> HIDE DEF Follows
    <2>1. QED
      BY <1>4, <1>5
  <1>7. QED
    BY <1>1, <1>6
(* What is left of a stack that is filtered is the beginning of it, with   *)
(* the frames up to the first one in cucumber - and, if one of the user's  *)
(* is among these, with no other.                                          *)
LEMMA StackIsFiltered ==
    ASSUME NEW frames \in Seq(StackFrame)
    PROVE  LET kept == FilterStackTrace(frames)
               Outside == {j \in DOMAIN frames : ~\E i \in 1 .. j : IsFrameInCucumber(frames[i])}
           IN /\ kept = frames \/ \E n \in 0 .. Len(frames) : kept = SubSeq(frames, 1, n) /\ Outside = 1 .. n
              /\ (\E j \in Outside : frames[j].file = "user") => kept # <<>> /\ DOMAIN kept = Outside
  <1> DEFINE kept == FilterStackTrace(frames)
             Outside == {j \in DOMAIN frames : ~\E i \in 1 .. j : IsFrameInCucumber(frames[i])}
             InCucumber == {i \in 1 .. Len(frames) : IsFrameInCucumber(frames[i])}
             OutsideNode == {i \in 1 .. Len(frames) : ~IsFrameInNode(frames[i])}
             index == IF InCucumber # {} THEN Min(InCucumber) ELSE 0
             found == IF OutsideNode # {} THEN Min(OutsideNode) ELSE 0
  <1>0. Len(frames) \in Nat /\ DOMAIN frames = 1 .. Len(frames)
    OBVIOUS
  <1>1. kept = IF (found # 0 /\ IsFrameInCucumber(frames[found])) \/ index = 0 THEN frames
               ELSE SubSeq(frames, 1, index - 1)
    BY DEF FilterStackTrace, IsErrorInCucumber, SelectInSeq
  <1>2. InCucumber \subseteq Nat /\ OutsideNode \subseteq Nat
    BY <1>0
  <1>3. InCucumber # {} => index \in InCucumber /\ \A i \in InCucumber : index <= i
    BY <1>2, LeastOfNaturals
  <1>4. OutsideNode # {} => found \in OutsideNode /\ \A i \in OutsideNode : found <= i
    BY <1>2, LeastOfNaturals
  <1> HIDE DEF kept, index, found
  <1>5. CASE InCucumber = {}
    <2>1. index = 0
      BY <1>5 DEF index
    <2>2. kept = frames
      BY <1>1, <2>1
    <2>3. Outside = DOMAIN frames
      BY <1>0, <1>5
    <2>4. QED
      BY <1>0, <2>2, <2>3 DEF kept
  <1>6. CASE InCucumber # {}
    <2>1. index \in 1 .. Len(frames) /\ IsFrameInCucumber(frames[index])
          /\ \A i \in 1 .. Len(frames) : IsFrameInCucumber(frames[i]) => index <= i
      BY <1>3, <1>6
    <2>2. Outside = 1 .. index - 1
      BY <1>0, <2>1
    <2>3. ASSUME NEW j \in Outside, frames[j].file = "user"
          PROVE  ~(found # 0 /\ IsFrameInCucumber(frames[found]))
      <3>1. j \in OutsideNode
        BY <1>0, <2>3 DEF IsFrameInNode
      <3>2. found \in 1 .. Len(frames) /\ found <= j
        BY <1>4, <3>1
      <3>3. QED
        BY <1>0, <2>1, <2>2, <2>3, <3>2
    <2>4. index # 0
      BY <2>1
    <2>5. kept = frames \/ kept = SubSeq(frames, 1, index - 1)
      BY <1>1
    <2>6. ASSUME NEW j \in Outside, frames[j].file = "user"
          PROVE  kept # <<>> /\ DOMAIN kept = Outside
      <3>1. kept = SubSeq(frames, 1, index - 1)
        BY <1>1, <2>3, <2>4, <2>6
      <3>2. Len(kept) = index - 1 /\ DOMAIN kept = 1 .. index - 1
        BY <1>0, <2>1, <3>1
      <3>3. QED
        BY <2>2, <3>2
    <2>7. index - 1 \in 0 .. Len(frames)
      BY <1>0, <2>1
    <2>8. QED
      BY <2>2, <2>5, <2>6, <2>7 DEF kept
  <1>7. QED
    BY <1>5, <1>6

(* What is told of a cause: of its stack no more than a filter takes.      *)
LEMMA StackIsTold ==
    ASSUME NEW error
    PROVE  LET told == FormatCause(error)
               frames == IF error \in ThrownErrors THEN FramesOf[error] ELSE <<>>
               Outside == {j \in DOMAIN frames : ~\E i \in 1 .. j : IsFrameInCucumber(frames[i])}
           IN /\ told.error = error
              /\ IsPrefix(told.stack, frames) /\ (frames # <<>> => told.stack # <<>>)
              /\ Outside \subseteq DOMAIN told.stack
              /\ FilterStackTraces /\ (\E j \in Outside : frames[j].file = "user") => DOMAIN told.stack = Outside
  <1> DEFINE stack == FormatCause(error).stack
             frames == IF error \in ThrownErrors THEN FramesOf[error] ELSE <<>>
             kept == FilterStackTrace(frames)
             Outside == {j \in DOMAIN frames : ~\E i \in 1 .. j : IsFrameInCucumber(frames[i])}
  <1>1. FormatCause(error).error = error
    BY DEF FormatCause, FormatSingleError
  <1>2. CASE error \notin ThrownErrors
    <2>1. stack = <<>> /\ frames = <<>>
      BY <1>2 DEF FormatCause
    <2>2. DOMAIN <<>> = {}
      OBVIOUS
    <2>3. Outside = {}
      BY <2>1, <2>2
    <2>4. IsPrefix(stack, frames)
      BY <2>1 DEF IsPrefix
    <2> HIDE DEF stack, frames, Outside
    <2>5. QED
      BY <1>1, <2>1, <2>3, <2>4 DEF stack, frames, Outside
  <1>3. CASE error \in ThrownErrors
    <2>1. frames \in Seq(StackFrame)
      BY <1>3, ErrorsAssumption
    <2>2. stack = IF ~FilterStackTraces \/ kept = <<>> THEN frames ELSE kept
      BY <1>3 DEF FormatCause, FormatSingleError
    <2> HIDE DEF stack, frames
    <2>3. /\ kept = frames \/ \E n \in 0 .. Len(frames) : kept = SubSeq(frames, 1, n) /\ Outside = 1 .. n
          /\ (\E j \in Outside : frames[j].file = "user") => kept # <<>> /\ DOMAIN kept = Outside
      BY <2>1, StackIsFiltered
    <2> HIDE DEF kept, Outside
    <2>4. stack = frames \/ \E n \in 0 .. Len(frames) : stack = SubSeq(frames, 1, n) /\ Outside = 1 .. n /\ stack # <<>>
      BY <2>2, <2>3
    <2>5. Outside \subseteq DOMAIN frames
      BY DEF Outside
    <2>6. ASSUME NEW n \in 0 .. Len(frames), stack = SubSeq(frames, 1, n)
          PROVE  IsPrefix(stack, frames) /\ DOMAIN stack = 1 .. n
      <3>1. Len(stack) = n /\ stack \in Seq(StackFrame)
        BY <2>1, <2>6
      <3>2. SubSeq(stack, 1, n) = stack
        BY <3>1
      <3>3. Len(frames) \in Nat
        BY <2>1
      <3>4. QED
        BY <2>6, <3>1, <3>2, <3>3 DEF IsPrefix
    <2>7. CASE stack = frames
      <3>1. IsPrefix(stack, frames)
        BY <2>1, <2>7 DEF IsPrefix
      <3>2. FilterStackTraces /\ (\E j \in Outside : frames[j].file = "user") => DOMAIN stack = Outside
        BY <2>2, <2>3
      <3>3. QED
        BY <1>1, <2>5, <2>7, <3>1, <3>2 DEF stack, frames, Outside
    <2>8. CASE stack # frames
      <3>1. PICK n \in 0 .. Len(frames) : stack = SubSeq(frames, 1, n) /\ Outside = 1 .. n /\ stack # <<>>
        BY <2>4, <2>8
      <3>2. IsPrefix(stack, frames) /\ DOMAIN stack = Outside
        BY <2>6, <3>1
      <3>3. QED
        BY <1>1, <3>1, <3>2 DEF stack, frames, Outside
    <2>9. QED
      BY <2>7, <2>8
  <1>4. QED
    BY <1>2, <1>3

(* Different things one after another are as many as they are.             *)
LEMMA DistinctAreCounted ==
    ASSUME NEW n \in Nat, NEW s, DOMAIN s = 1 .. n, \A i, j \in 1 .. n : s[i] = s[j] => i = j
    PROVE  Cardinality(ToSet(s)) = n
  <1> DEFINE f == [i \in 1 .. n |-> s[i]]
  <1>1. f \in Bijection(1 .. n, ToSet(s))
    <2>1. f \in [1 .. n -> ToSet(s)]
      BY DEF ToSet
    <2>2. \A y \in ToSet(s) : \E i \in 1 .. n : f[i] = y
      BY DEF ToSet
    <2>3. QED
      BY <2>1, <2>2 DEF Bijection, Injection, Surjection, IsInjective
  <1>2. ExistsBijection(1 .. n, ToSet(s))
    BY <1>1 DEF ExistsBijection
  <1>3. IsFiniteSet(1 .. n) /\ Cardinality(1 .. n) = n
    BY FS_Interval
  <1>4. QED
    BY <1>2, <1>3, FS_Bijection

(* What is thrown is told with its causes, each once, and how they end.    *)
LEMMA ErrorIsTold ==
    ASSUME NEW thrown
    PROVE  Tells(FormatError(thrown), thrown)
  <1> DEFINE message == FormatError(thrown)
             told == message.told
             errors == [k \in DOMAIN told |-> told[k].error]
             cause == IF Last(errors) \in ThrownErrors THEN CauseOf[Last(errors)] ELSE NoCause
             Frames(k) == IF errors[k] \in ThrownErrors THEN FramesOf[errors[k]] ELSE <<>>
             OutsideCucumber(frames) == {j \in DOMAIN frames : ~\E i \in 1 .. j : IsFrameInCucumber(frames[i])}
             Chained ==
                 /\ Head(errors) = thrown
                 /\ \A k \in 1 .. Len(errors) - 1 : CauseOf[errors[k]] = errors[k + 1]
                 /\ Cardinality(ToSet(errors)) = Len(errors)
                 /\ Len(errors) <= MaxCauseDepth + 1
                 /\ message.ends = "whole" <=> cause = NoCause
                 /\ message.ends = "circular" => cause \in ToSet(errors)
                 /\ message.ends = "truncated" => Len(errors) = MaxCauseDepth + 1
             Stacked ==
                 \A k \in DOMAIN errors :
                     /\ IsPrefix(told[k].stack, Frames(k)) /\ (Frames(k) # <<>> => told[k].stack # <<>>)
                     /\ OutsideCucumber(Frames(k)) \subseteq DOMAIN told[k].stack
                     /\ FilterStackTraces /\ (\E j \in OutsideCucumber(Frames(k)) : Frames(k)[j].file = "user") =>
                            DOMAIN told[k].stack = OutsideCucumber(Frames(k))
  <1>1. SUFFICES Chained /\ Stacked
    BY DEF Tells
  <1>2. \A k \in DOMAIN told : \E e : told[k] = FormatCause(e)
    <2>1. CASE thrown \in ThrownErrors
      BY <2>1 DEF FormatError, FormatErrorAndCauses
    <2>2. CASE thrown \notin ThrownErrors
      BY <2>2 DEF FormatError
    <2>3. QED
      BY <2>1, <2>2
  <1>3. Stacked
    <2> SUFFICES ASSUME NEW k \in DOMAIN errors
                 PROVE  /\ IsPrefix(told[k].stack, Frames(k)) /\ (Frames(k) # <<>> => told[k].stack # <<>>)
                        /\ OutsideCucumber(Frames(k)) \subseteq DOMAIN told[k].stack
                        /\ FilterStackTraces /\ (\E j \in OutsideCucumber(Frames(k)) : Frames(k)[j].file = "user") =>
                               DOMAIN told[k].stack = OutsideCucumber(Frames(k))
      OBVIOUS
    <2>1. PICK e : told[k] = FormatCause(e)
      BY <1>2
    <2>2. errors[k] = e
      BY <2>1, StackIsTold
    <2> HIDE DEF told
    <2>3. QED
      BY <2>1, <2>2, StackIsTold
  <1>4. CASE thrown \notin ThrownErrors
    <2>1. told = <<FormatCause(thrown)>> /\ message.ends = "whole"
      BY <1>4 DEF FormatError
    <2>2. FormatCause(thrown).error = thrown
      BY <1>4 DEF FormatCause
    <2>3. errors = <<thrown>>
      BY <2>1, <2>2
    <2>4. Cardinality(ToSet(errors)) = 1
      <3>1. ToSet(<<thrown>>) = {thrown}
        BY DEF ToSet
      <3>2. QED
        BY <2>3, <3>1, FS_Singleton
    <2>5. Head(errors) = thrown /\ Len(errors) = 1 /\ Last(errors) = thrown
      BY <2>3 DEF Last
    <2> HIDE DEF message, told, errors
    <2>6. Chained
      BY <1>4, <2>1, <2>4, <2>5, ErrorsAssumption
    <2>7. QED
      BY <1>3, <2>6
  <1>5. CASE thrown \in ThrownErrors
    <2> DEFINE c == CausesOf(thrown)
               N == MaxCauseDepth + 1
               Breaks(depth) == c[depth] = NoCause \/ depth > MaxCauseDepth \/ IsSeen(c, depth)
               Breaking == {depth \in 1 .. N : Breaks(depth)}
               last == Min(Breaking)
    <2>1. /\ c[0] = thrown
          /\ \A i \in 1 .. N : c[i] = IF c[i - 1] \in ThrownErrors THEN CauseOf[c[i - 1]] ELSE NoCause
      BY <1>5, CausesAreFollowed
    <2>2. /\ message.told = [i \in 1 .. last |-> FormatCause(c[i - 1])]
          /\ message.ends = CASE c[last] = NoCause -> "whole"
                              [] c[last] # NoCause /\ last > MaxCauseDepth -> "truncated"
                              [] OTHER -> "circular"
      BY <1>5 DEF FormatError, FormatErrorAndCauses
    <2>3. MaxCauseDepth \in Nat /\ N \in Nat \ {0} /\ NoCause \notin ThrownErrors
      BY ErrorsAssumption
    <2>4. last \in Breaking /\ \A d \in Breaking : last <= d
      <3>1. N \in Breaking
        <4>1. N \in 1 .. N /\ N > MaxCauseDepth
          BY <2>3
        <4> HIDE DEF N
        <4>2. QED
          BY <4>1
      <3>2. Breaking \in SUBSET Nat /\ Breaking # {}
        BY <2>3, <3>1
      <3> HIDE DEF Breaking
      <3>3. QED
        BY <3>2, LeastOfNaturals
    <2>5. last \in 1 .. N /\ Breaks(last) /\ \A d \in 1 .. last - 1 : ~Breaks(d)
      <3> HIDE DEF last, c
      <3>1. last \in 1 .. N /\ Breaks(last)
        BY <2>4
      <3>2. ASSUME NEW d \in 1 .. last - 1
            PROVE  ~Breaks(d)
        <4>1. d \in 1 .. N /\ ~(last <= d)
          BY <2>3, <3>1
        <4>2. QED
          BY <2>4, <4>1
      <3>3. QED
        BY <3>1, <3>2
    <2> HIDE DEF last, c
    <2>6. DOMAIN errors = 1 .. last /\ \A k \in 1 .. last : errors[k] = c[k - 1]
      BY <2>2, StackIsTold
    <2> HIDE DEF message, errors
    <2>7. Len(errors) = last
      BY <2>5, <2>6, <1>2
    <2>8. \A d \in 1 .. last - 1 : c[d] # NoCause /\ ~IsSeen(c, d)
      BY <2>5
    <2>9. \A k \in 1 .. last - 1 : c[k - 1] \in ThrownErrors /\ CauseOf[c[k - 1]] = c[k]
      <3> SUFFICES ASSUME NEW k \in 1 .. last - 1
                   PROVE  c[k - 1] \in ThrownErrors /\ CauseOf[c[k - 1]] = c[k]
        OBVIOUS
      <3>1. k \in 1 .. N
        BY <2>3, <2>5
      <3>2. c[k] # NoCause
        BY <2>8
      <3>3. QED
        BY <2>1, <3>1, <3>2
    <2>10. Head(errors) = thrown
      BY <2>1, <2>5, <2>6
    <2>11. \A k \in 1 .. Len(errors) - 1 : CauseOf[errors[k]] = errors[k + 1]
      BY <2>5, <2>6, <2>7, <2>9
    <2>12. Cardinality(ToSet(errors)) = Len(errors)
      <3>1. ASSUME NEW i \in 1 .. last, NEW j \in 1 .. last, i < j
            PROVE  errors[i] # errors[j]
        <4>1. i - 1 \in 0 .. (j - 1) - 1 /\ j - 1 \in 1 .. last - 1
          BY <2>5, <3>1
        <4>2. QED
          BY <2>6, <2>8, <4>1 DEF IsSeen
      <3>2. \A i, j \in 1 .. last : errors[i] = errors[j] => i = j
        BY <2>5, <3>1
      <3>3. QED
        BY <2>5, <2>6, <2>7, <3>2, DistinctAreCounted
    <2>13. cause = c[last]
      BY <2>1, <2>5, <2>6, <2>7 DEF Last
    <2>14. message.ends = "whole" <=> cause = NoCause
      BY <2>2, <2>13
    <2>15. message.ends = "circular" => cause \in ToSet(errors)
      <3>1. SUFFICES ASSUME c[last] # NoCause, ~(last > MaxCauseDepth)
                     PROVE  cause \in ToSet(errors)
        BY <2>2
      <3>2. PICK i \in 0 .. last - 1 : c[i] = c[last]
        BY <2>5, <3>1 DEF IsSeen
      <3>3. i + 1 \in 1 .. last /\ errors[i + 1] = cause
        BY <2>5, <2>6, <2>13, <3>2
      <3>4. QED
        BY <2>6, <3>3 DEF ToSet
    <2>16. message.ends = "truncated" => Len(errors) = MaxCauseDepth + 1
      <3>1. message.ends = "truncated" => last > MaxCauseDepth
        BY <2>2
      <3>2. QED
        BY <2>3, <2>5, <2>7, <3>1
    <2>17. QED
      BY <1>3, <2>3, <2>5, <2>7, <2>10, <2>11, <2>12, <2>14, <2>15, <2>16
  <1>6. QED
    BY <1>4, <1>5

-----------------------------------------------------------------------------
(* What the JSON report says of an attempt.                                *)
LEMMA ScenarioIsReported ==
    ASSUME NEW id
    PROVE  /\ GetScenarioData(id).attempt = id
           /\ GetScenarioData(id).steps = [i \in DOMAIN TestStepsOf[id[1]] |-> GetStepData(id, i)]
  <1> DEFINE said == [attempt |-> id, steps |-> [i \in DOMAIN TestStepsOf[id[1]] |-> GetStepData(id, i)]]
  <1>1. GetScenarioData(id) = Extended(said, ScenarioData[id[1]])
    BY DEF GetScenarioData
  <1>2. \A g : Extended(said, g).attempt = said.attempt /\ Extended(said, g).steps = said.steps
    <2>1. DOMAIN said = {"attempt", "steps"}
      OBVIOUS
    <2> HIDE DEF said
    <2>2. QED
      BY <2>1 DEF Extended
  <1>3. QED
    BY <1>1, <1>2

(* The error a report tells of a test step, if it tells one.               *)
MessageOf(id, i) ==
    IF data[id].stepResults[i] = "FAILED" THEN <<ErrorMessage[id[1]][i]>> ELSE <<>>

EmbeddingsOf(attachments) == [k \in DOMAIN attachments |-> EmbeddingOf(attachments[k])]

HookName(t, i) == IF IsBeforeHook(t, i) THEN "before" ELSE "after"

StepSays(step, id, i) ==
    /\ step.status = data[id].stepResults[i]
    /\ step.embeddings = EmbeddingsOf(data[id].stepAttachments[i])
    /\ step.errorMessage = MessageOf(id, i)
    /\ IsStep(TestStepsOf[id[1]][i]) =>
           /\ step.keyword = GherkinStep[id[1]][i].keyword
           /\ step.line = GherkinStep[id[1]][i].line
           /\ step.arguments =
                  FormatStepArgumentJson(PickleStepOf(id[1], i).argument, GherkinStep[id[1]][i])
    /\ ~IsStep(TestStepsOf[id[1]][i]) => step.keyword = HookName(id[1], i)

(* And of each of its test steps.                                          *)
LEMMA StepIsReported ==
    ASSUME NEW id, NEW i
    PROVE  StepSays(GetStepData(id, i), id, i)
  <1> DEFINE testStep == TestStepsOf[id[1]][i]
             match == IF IsStep(testStep) /\ Cardinality(testStep.definitions) = 1
                      THEN testStep.definitions ELSE {}
             embeddings == EmbeddingsOf(data[id].stepAttachments[i])
             found == [status |-> data[id].stepResults[i], match |-> match, embeddings |-> embeddings]
             message == MessageOf(id, i)
             told == Extended(found, [errorMessage |-> message])
             step == [keyword |-> GherkinStep[id[1]][i].keyword, line |-> GherkinStep[id[1]][i].line,
                      name |-> PickleStepOf(id[1], i).text,
                      arguments |-> FormatStepArgumentJson(PickleStepOf(id[1], i).argument, GherkinStep[id[1]][i])]
             hook == [keyword |-> HookName(id[1], i)]
  <1>1. GetStepData(id, i) = IF IsStep(testStep) THEN Extended(told, step) ELSE Extended(told, hook)
    BY DEF GetStepData, MessageOf, EmbeddingsOf, HookName
  <1>2. /\ DOMAIN found = {"status", "match", "embeddings"}
        /\ found.status = data[id].stepResults[i] /\ found.embeddings = embeddings
    OBVIOUS
  <1> HIDE DEF found
  <1>3. /\ DOMAIN told = {"status", "match", "embeddings", "errorMessage"}
        /\ told.status = found.status /\ told.embeddings = found.embeddings /\ told.errorMessage = message
    <2> DEFINE last == [errorMessage |-> message]
    <2>1. DOMAIN last = {"errorMessage"} /\ last.errorMessage = message
      OBVIOUS
    <2> HIDE DEF last, message
    <2>2. told = Extended(found, last)
      BY DEF last
    <2>3. QED
      BY <1>2, <2>1, <2>2 DEF Extended
  <1> HIDE DEF told, message
  <1>4. \A g : /\ Extended(told, g).status = told.status /\ Extended(told, g).embeddings = told.embeddings
               /\ Extended(told, g).errorMessage = told.errorMessage
               /\ \A x \in DOMAIN g : x \notin DOMAIN told => Extended(told, g)[x] = g[x]
    BY <1>3 DEF Extended
  <1>5. /\ DOMAIN step = {"keyword", "line", "name", "arguments"} /\ DOMAIN hook = {"keyword"}
        /\ step.keyword = GherkinStep[id[1]][i].keyword /\ step.line = GherkinStep[id[1]][i].line
        /\ step.arguments = FormatStepArgumentJson(PickleStepOf(id[1], i).argument, GherkinStep[id[1]][i])
        /\ hook.keyword = HookName(id[1], i)
    OBVIOUS
  <1> HIDE DEF step, hook, embeddings
  <1>6. CASE IsStep(testStep)
    <2>1. GetStepData(id, i) = Extended(told, step)
      BY <1>1, <1>6
    <2>2. Extended(told, step).keyword = step.keyword /\ Extended(told, step).line = step.line
          /\ Extended(told, step).arguments = step.arguments
      BY <1>3, <1>4, <1>5
    <2>3. QED
      BY <1>2, <1>3, <1>4, <1>5, <1>6, <2>1, <2>2 DEF embeddings, message, StepSays
  <1>7. CASE ~IsStep(testStep)
    <2>1. GetStepData(id, i) = Extended(told, hook)
      BY <1>1, <1>7
    <2>2. Extended(told, hook).keyword = hook.keyword
      BY <1>3, <1>4, <1>5
    <2>3. QED
      BY <1>2, <1>3, <1>4, <1>5, <1>7, <2>1, <2>2 DEF embeddings, message, StepSays
  <1>8. QED
    BY <1>6, <1>7

(* The scenarios of the JSON report.                                       *)
LEMMA ScenariosOfReport ==
    /\ \A uri \in DOMAIN JsonReport : JsonReport[uri] =
           {GetScenarioData(id) : id \in {x \in LastAttempts : PickleOf(x).uri = uri}}
    /\ UNION {JsonReport[uri] : uri \in DOMAIN JsonReport} = {GetScenarioData(id) : id \in LastAttempts}
    /\ \A id \in LastAttempts : PickleOf(id).uri \in DOMAIN JsonReport
                                /\ GetScenarioData(id) \in JsonReport[PickleOf(id).uri]
  <1> DEFINE Of(uri) == {GetScenarioData(id) : id \in {x \in LastAttempts : PickleOf(x).uri = uri}}
             uris == {PickleOf(id).uri : id \in LastAttempts}
  <1>1. JsonReport = [uri \in uris |-> Of(uri)]
    BY DEF JsonReport
  <1>2. DOMAIN JsonReport = uris /\ \A uri \in uris : JsonReport[uri] = Of(uri)
    BY <1>1
  <1>3. \A id \in LastAttempts : PickleOf(id).uri \in uris /\ GetScenarioData(id) \in Of(PickleOf(id).uri)
    OBVIOUS
  <1>4. \A uri : Of(uri) \subseteq {GetScenarioData(id) : id \in LastAttempts}
    OBVIOUS
  <1> HIDE DEF uris
  <1>5. UNION {JsonReport[uri] : uri \in DOMAIN JsonReport} = {GetScenarioData(id) : id \in LastAttempts}
    <2>1. ASSUME NEW uri \in DOMAIN JsonReport, NEW s \in JsonReport[uri]
          PROVE  s \in {GetScenarioData(id) : id \in LastAttempts}
      BY <1>2, <1>4, <2>1
    <2>2. ASSUME NEW id \in LastAttempts
          PROVE  \E uri \in DOMAIN JsonReport : GetScenarioData(id) \in JsonReport[uri]
      BY <1>2, <1>3
    <2>3. QED
      BY <2>1, <2>2
  <1>6. QED
    BY <1>2, <1>3, <1>5

(* An attempt that is among the last has been made.                        *)
LEMMA LastIsAnAttempt ==
    ASSUME IInv, NEW id \in LastAttempts
    PROVE  /\ id[1] \in TestCases /\ id[2] \in DOMAIN attempts[id[1]] /\ id = <<id[1], id[2]>>
           /\ id \in GetTestCaseAttempts
  BY AttemptOfData DEF LastAttempts

(* The reports tell the error of each test step that is reported as FAILED. *)
LEMMA ErrorsHold ==
    ASSUME IInv, Printed
    PROVE  ErrorsAreTold
  <1> DEFINE report == output.json
             issues == output.issues
             Told(t, i, failed, message) ==
                 IF failed THEN Len(message) = 1 /\ Tells(message[1], Thrown[t][i]) ELSE message = <<>>
  <1>1. report = JsonReport /\ issues = LogIssues("synchronous")
    BY DEF IInv, PrintedAtTheEnd
  <1>2. ASSUME NEW t \in TestCases, NEW i \in DOMAIN TestStepsOf[t], NEW failed,
               NEW message,
               failed => message = <<ErrorMessage[t][i]>>, ~failed => message = <<>>
        PROVE  Told(t, i, failed, message)
    <2>1. ErrorMessage[t][i] = FormatError(Thrown[t][i])
      BY DEF ErrorMessage
    <2>2. Tells(ErrorMessage[t][i], Thrown[t][i])
      BY <2>1, ErrorIsTold
    <2>3. \A e : Len(<<e>>) = 1 /\ <<e>>[1] = e
      OBVIOUS
    <2>4. QED
      BY <1>2, <2>2, <2>3
  <1> HIDE DEF Told
  <1>3. ASSUME NEW s \in UNION {report[uri] : uri \in DOMAIN report}, NEW i \in DOMAIN s.steps
        PROVE  Told(s.attempt[1], i, s.steps[i].status = "FAILED", s.steps[i].errorMessage)
    <2>1. PICK id \in LastAttempts : s = GetScenarioData(id)
      BY <1>1, <1>3, ScenariosOfReport
    <2>2. s.attempt = id /\ s.steps = [k \in DOMAIN TestStepsOf[id[1]] |-> GetStepData(id, k)]
      BY <2>1, ScenarioIsReported
    <2>3. i \in DOMAIN TestStepsOf[id[1]] /\ s.steps[i] = GetStepData(id, i)
      BY <1>3, <2>2
    <2>4. s.steps[i].status = data[id].stepResults[i] /\ s.steps[i].errorMessage = MessageOf(id, i)
      <3>1. StepSays(s.steps[i], id, i)
        BY <2>3, StepIsReported
      <3>2. QED
        BY <3>1 DEF StepSays
    <2>5. id[1] \in TestCases
      BY LastIsAnAttempt
    <2>6. QED
      BY <1>2, <2>2, <2>3, <2>4, <2>5 DEF MessageOf
  <1>4. ASSUME IssuesParse, NEW issue \in issues, NEW t \in TestCases,
               Pickles[t].uri = issue.uri, Line[t] = issue.line, NEW i \in DOMAIN issue.steps
        PROVE  Told(t, i, issue.steps[i].message = "error", issue.steps[i].error)
    <2>1. PICK id \in Failures \cup Warnings : issue = FormatIssue("synchronous", id)
      BY <1>1, <1>4 DEF LogIssues
    <2>2. id[1] \in TestCases
      BY IssuesAreTroubles, TroubledIsAnAttempt
    <2>3. /\ issue.uri = Pickles[id[1]].uri /\ issue.line = Line[id[1]]
          /\ issue.steps = [k \in DOMAIN TestStepsOf[id[1]] |-> FormatStep(ParseStep("synchronous", id, k))]
      BY <2>1 DEF FormatIssue, ParseTestCaseAttempt, PickleOf
    <2>4. t = id[1]
      BY <1>4, <2>2, <2>3, LinesDiffer
    <2>5. i \in DOMAIN TestStepsOf[t] /\ issue.steps[i] = FormatStep(ParseStep("synchronous", id, i))
      BY <1>4, <2>3, <2>4
    <2>6. /\ issue.steps[i].message = GetStepMessage(ParseStep("synchronous", id, i))
          /\ issue.steps[i].error = IF data[id].stepResults[i] = "FAILED" THEN <<ErrorMessage[t][i]>> ELSE <<>>
      BY <2>4, <2>5 DEF FormatStep, ParseStep
    <2>7. GetStepMessage(ParseStep("synchronous", id, i)) = "error" <=> data[id].stepResults[i] = "FAILED"
      BY DEF GetStepMessage, ParseStep
    <2>8. QED
      BY <1>2, <2>5, <2>6, <2>7
  <1>5. QED
    BY <1>3, <1>4 DEF ErrorsAreTold, Told

(* Whatever is thrown, in whichever attempt of whichever case: where a     *)
(* step or a hook is reported as FAILED, and only there, the JSON report   *)
(* and the issues tell what it threw and its causes, none twice, say so if *)
(* they do not tell all of them, and keep the frames of the user.          *)
THEOREM ErrorsReachTheReader == Spec => []ErrorsAreTold
  <1>1. IInv => ErrorsAreTold
    BY ErrorsHold DEF ErrorsAreTold
  <1>2. QED
    BY <1>1, Invariance, PTL

-----------------------------------------------------------------------------
(* Lines that are joined are the first, and each other behind a new line.  *)
LEMMA LinesAreJoined ==
    ASSUME NEW urls, urls \in Seq({url \in ToSet(urls) : url \in Seq(ToSet(url))})
    PROVE  FlattenSeq([i \in DOMAIN urls |-> IF i = 1 THEN urls[i] ELSE <<"\n">> \o urls[i]]) = Lines(urls)
  <1> DEFINE N == Len(urls)
             Bytes == UNION {ToSet(url) : url \in ToSet(urls)}
             S == Bytes \cup {"\n"}
             s == [i \in DOMAIN urls |-> IF i = 1 THEN urls[i] ELSE <<"\n">> \o urls[i]]
             rest == [i \in 1 .. N - 1 |-> <<"\n">> \o urls[i + 1]]
  <1>1. N \in Nat /\ DOMAIN urls = 1 .. N
    OBVIOUS
  <1>2. \A i \in 1 .. N : urls[i] \in Seq(S)
    <2> SUFFICES ASSUME NEW i \in 1 .. N PROVE urls[i] \in Seq(S)
      OBVIOUS
    <2>1. urls[i] \in ToSet(urls) /\ urls[i] \in Seq(ToSet(urls[i]))
      BY <1>1 DEF ToSet
    <2>2. ToSet(urls[i]) \subseteq S
      BY <2>1
    <2> HIDE DEF S
    <2>3. QED
      BY <2>1, <2>2
  <1>3. <<"\n">> \in Seq(S)
    <2> HIDE DEF Bytes
    <2>1. "\n" \in S
      OBVIOUS
    <2> HIDE DEF S
    <2>2. QED
      BY <2>1
  <1> HIDE DEF S
  <1>4. CASE N = 0
    <2>1. urls = <<>> /\ s = <<>>
      BY <1>1, <1>4
    <2>2. Len(s) = 0
      BY <2>1
    <2> HIDE DEF s
    <2>3. FlattenSeq(s) = <<>>
      BY <2>1, <2>2 DEF FlattenSeq
    <2>4. QED
      BY <2>1, <2>3 DEF Lines, s
  <1>5. CASE N # 0
    <2>1. DOMAIN s = 1 .. N /\ N \in Nat \ {0} /\ Len(s) = N /\ s[1] = urls[1]
      BY <1>1, <1>5
    <2>2. \A i \in 2 .. N : s[i] = <<"\n">> \o urls[i]
      BY <1>1
    <2>3. \A i \in 1 .. N : s[i] \in Seq(S)
      BY <1>2, <1>3, <2>1, <2>2
    <2>4. Lines(urls) = s[1] \o FlattenSeq(rest)
      BY <1>5, <2>1 DEF Lines
    <2> HIDE DEF s
    <2>5. PICK g : /\ DOMAIN g = 1 .. N /\ FlattenSeq(s) = g[N]
                   /\ g[1] = s[1] /\ \A i \in 2 .. N : g[i] = g[i - 1] \o s[i]
                   /\ \A i \in 1 .. N : g[i] \in Seq(S)
      BY <2>1, <2>3, FlattenedStepwise
    <2>6. CASE N = 1
      <3>1. rest = <<>>
        BY <2>6
      <3>2. FlattenSeq(<<>>) = <<>>
        BY DEF FlattenSeq
      <3>3. s[1] \o <<>> = s[1]
        BY <2>1, <2>3
      <3>4. QED
        BY <2>4, <2>5, <2>6, <3>1, <3>2, <3>3 DEF s
    <2>7. CASE N # 1
      <3>1. DOMAIN rest = 1 .. N - 1 /\ N - 1 \in Nat \ {0} /\ Len(rest) = N - 1
        BY <2>1, <2>7
      <3>2. \A i \in 1 .. N - 1 : rest[i] = s[i + 1] /\ rest[i] \in Seq(S)
        <4> SUFFICES ASSUME NEW i \in 1 .. N - 1 PROVE rest[i] = s[i + 1] /\ rest[i] \in Seq(S)
          OBVIOUS
        <4>1. i + 1 \in 2 .. N /\ i + 1 \in 1 .. N
          BY <2>1
        <4>2. rest[i] = <<"\n">> \o urls[i + 1]
          OBVIOUS
        <4>3. QED
          BY <2>2, <2>3, <4>1, <4>2
      <3> HIDE DEF rest
      <3> DEFINE M == N - 1
      <3>3. PICK h : /\ DOMAIN h = 1 .. M /\ FlattenSeq(rest) = h[M]
                     /\ h[1] = rest[1] /\ \A i \in 2 .. M : h[i] = h[i - 1] \o rest[i]
                     /\ \A i \in 1 .. M : h[i] \in Seq(S)
        <4>1. M \in Nat \ {0} /\ DOMAIN rest = 1 .. M /\ Len(rest) = M /\ \A i \in 1 .. M : rest[i] \in Seq(S)
          BY <3>1, <3>2
        <4> HIDE DEF M
        <4>2. QED
          BY <4>1, FlattenedStepwise
      <3> DEFINE Other == {i \in 1 .. M : g[i + 1] # s[1] \o h[i]}
      <3>4. Other = {}
        <4>1. SUFFICES ASSUME Other # {} PROVE FALSE
          OBVIOUS
        <4>2. PICK m \in Other : \A n \in Other : m <= n
          <5>1. Other \in SUBSET Nat
            <6>1. M \in Nat
              BY <3>1
            <6> HIDE DEF M
            <6>2. 1 .. M \subseteq Nat
              BY <6>1
            <6>3. QED
              BY <6>2, Zenon
          <5> HIDE DEF Other
          <5>2. QED
            BY <4>1, <5>1, LeastOfNaturals
        <4>3. m \in 1 .. M /\ m + 1 \in 2 .. N /\ rest[m] = s[m + 1]
          BY <2>1, <3>2
        <4>4. g[m + 1] = g[m] \o s[m + 1]
          <5>1. g[m + 1] = g[(m + 1) - 1] \o s[m + 1]
            BY <2>5, <4>3
          <5>2. (m + 1) - 1 = m
            BY <4>3
          <5>3. QED
            BY <5>1, <5>2
        <4>5. CASE m = 1
          BY <2>5, <3>3, <4>3, <4>4, <4>5
        <4>6. CASE m # 1
          <5>1. m - 1 \in 1 .. M /\ m - 1 \notin Other /\ m \in 2 .. M
            <6>1. m - 1 \in 1 .. M /\ m \in 2 .. M
              BY <3>1, <4>3, <4>6
            <6>2. ~(m <= m - 1)
              BY <4>3
            <6>3. m - 1 \notin Other
              BY <4>2, <6>2
            <6>4. QED
              BY <6>1, <6>3
          <5>2. g[m] = s[1] \o h[m - 1]
            <6>1. g[(m - 1) + 1] = s[1] \o h[m - 1]
              BY <5>1
            <6>2. (m - 1) + 1 = m
              BY <4>3
            <6>3. QED
              BY <6>1, <6>2
          <5>3. h[m] = h[m - 1] \o s[m + 1]
            BY <3>3, <4>3, <5>1
          <5>4. s[1] \in Seq(S) /\ h[m - 1] \in Seq(S) /\ s[m + 1] \in Seq(S)
            BY <2>1, <2>3, <3>3, <4>3, <5>1
          <5>5. (s[1] \o h[m - 1]) \o s[m + 1] = s[1] \o (h[m - 1] \o s[m + 1])
            <6>1. \A a, b, c \in Seq(S) : (a \o b) \o c = a \o (b \o c)
              OBVIOUS
            <6>2. QED
              BY <5>4, <6>1, Zenon
          <5>6. g[m + 1] = s[1] \o h[m]
            BY <4>4, <5>2, <5>3, <5>5
          <5>7. QED
            BY <4>2, <5>6
        <4>7. QED
          BY <4>5, <4>6
      <3>5. M \in 1 .. M /\ M + 1 = N
        BY <3>1
      <3>6. g[N] = s[1] \o h[M]
        BY <3>4, <3>5
      <3>7. QED
        BY <2>4, <2>5, <3>3, <3>6 DEF s
    <2>8. QED
      BY <2>6, <2>7
  <1>6. QED
    BY <1>1, <1>4, <1>5

Embedded(bytes, mediaType) == [data |-> bytes, mimeType |-> mediaType]

(* An embedding has the data and the media type of its attachment.         *)
LEMMA EmbeddingIs ==
    ASSUME NEW body, NEW type, NEW name
    PROVE  /\ EmbeddingOf(CreateStringAttachment(body, "IDENTITY", type, name)[1]) = Embedded(Base64(body), type)
           /\ EmbeddingOf(CreateStringAttachment(body, "BASE64", type, name)[1]) = Embedded(body, type)
  <1>1. ASSUME NEW encoding
        PROVE  EmbeddingOf(CreateStringAttachment(body, encoding, type, name)[1]) =
                   Embedded(IF encoding = "IDENTITY" THEN Base64(body) ELSE body, type)
    <2> DEFINE attachment == [body |-> body, encoding |-> encoding, mediaType |-> type, fileName |-> name]
    <2>1. CreateStringAttachment(body, encoding, type, name)[1] = attachment
      BY DEF CreateStringAttachment
    <2>2. attachment.body = body /\ attachment.encoding = encoding /\ attachment.mediaType = type
      OBVIOUS
    <2> HIDE DEF attachment
    <2>3. QED
      BY <2>1, <2>2 DEF EmbeddingOf, Embedded
  <1>2. QED
    BY <1>1

(* A text that is logged or linked is embedded in base64.                  *)
LEMMA TextIsEmbedded ==
    ASSUME NEW text, NEW type, type # "",
           NEW attachments, attachments = Create(AsText(text), As(type))
    PROVE  EmbeddingOf(attachments[1]) = Embedded(Base64(text), MediaType(type))
  <1> DEFINE options == NormaliseOptions(As(type))
  <1>1. As(type).as = "mediaType" /\ As(type).mediaType = MediaType(type)
    BY DEF As
  <1>2. options = [mediaType |-> MediaType(type), fileName |-> ""]
    BY <1>1 DEF NormaliseOptions
  <1> HIDE DEF options
  <1>3. options.mediaType = MediaType(type)
    BY <1>2
  <1>4. AsText(text).kind = "text" /\ AsText(text).text = text
    BY DEF AsText
  <1>5. attachments = CreateTextAttachment(text, MediaType(type), options.fileName)
    BY <1>3, <1>4 DEF Create, options
  <1>6. MediaType(type).type = type /\ ~MediaType(type).base64 /\ MediaType(type) # Unspecified
    BY DEF MediaType, Unspecified
  <1>7. attachments = CreateStringAttachment(text, "IDENTITY", MediaType(type), options.fileName)
    BY <1>5, <1>6 DEF CreateTextAttachment
  <1>8. EmbeddingOf(attachments[1]) = Embedded(Base64(text), MediaType(type))
    BY <1>7, EmbeddingIs
  <1>9. QED
    BY <1>8

(* What is attached is embedded as it is meant.                            *)
LEMMA EmbeddedAsMeant ==
    ASSUME NEW call, IsCall(call), call.method = "attach" => Declares(call), AttachmentOf(call) # <<>>
    PROVE  EmbeddingOf(AttachmentOf(call)[1]) = Meant(call)
  <1> DEFINE attached == AttachmentOf(call)
             type == IF call.given.as = "nothing" THEN Unspecified ELSE call.given.mediaType
             options == NormaliseOptions(call.given)
             isEncoded == call.data.kind = "text" /\ call.data.text.encoded = 1
             mimeType == IF call.given.as = "nothing" \/ call.given.mediaType = Unspecified
                         THEN MediaType("text/plain") ELSE MediaType(call.given.mediaType.type)
             bytes == CASE call.data.kind = "text" ->
                               IF call.data.text.encoded = 1 THEN call.data.text ELSE Base64(call.data.text)
                        [] call.data.kind = "buffer" -> Base64(call.data.buffer)
                        [] call.data.kind = "stream" -> Base64(Plain(FlattenSeq(call.data.chunks)))
  <1>1. CASE call.method = "attach"
    <2>1. attached = Create(call.data, call.given)
      BY <1>1 DEF AttachmentOf
    <2>2. options.mediaType = type
      BY <1>1 DEF IsCall, NormaliseOptions
    <2>3. Meant(call) = Embedded(bytes, mimeType)
      BY <1>1 DEF Meant, Embedded
    <2>4. /\ call.given.as = "nothing" => ~isEncoded
          /\ call.given.as # "nothing" =>
                 call.given.mediaType = [base64 |-> isEncoded, type |-> call.given.mediaType.type]
      BY <1>1 DEF Declares
    <2>5. type # Unspecified =>
              /\ mimeType = MediaType(type.type) /\ (type.base64 <=> isEncoded)
              /\ ~isEncoded => type = mimeType
      <3>1. ASSUME type # Unspecified
            PROVE  /\ mimeType = MediaType(type.type) /\ (type.base64 <=> isEncoded)
                   /\ ~isEncoded => type = mimeType
        <4>1. type = call.given.mediaType /\ mimeType = MediaType(type.type) /\ call.given.as # "nothing"
          BY <3>1
        <4>2. PICK name : type = [base64 |-> isEncoded, type |-> name]
          BY <2>4, <4>1
        <4>3. isEncoded \in BOOLEAN
          OBVIOUS
        <4> HIDE DEF type, isEncoded, mimeType
        <4>4. type.type = name /\ type.base64 = isEncoded
          BY <4>2
        <4>5. ~isEncoded => type = [base64 |-> FALSE, type |-> name]
          BY <4>2, <4>3
        <4>6. QED
          BY <4>1, <4>4, <4>5 DEF MediaType
      <3>2. QED
        BY <3>1
    <2>6. type = Unspecified => mimeType = MediaType("text/plain") /\ ~isEncoded
      <3>1. type = Unspecified => mimeType = MediaType("text/plain")
        OBVIOUS
      <3>2. ASSUME type = Unspecified, call.given.as # "nothing"
            PROVE  ~isEncoded
        <4>1. PICK name : Unspecified = [base64 |-> isEncoded, type |-> name]
          BY <2>4, <3>2
        <4> HIDE DEF isEncoded
        <4>2. Unspecified.base64 = isEncoded
          BY <4>1
        <4>3. Unspecified.base64 = FALSE
          BY DEF Unspecified, MediaType
        <4>4. QED
          BY <4>2, <4>3
      <3>3. QED
        BY <2>4, <3>1, <3>2
    <2> HIDE DEF type, mimeType
    <2>7. CASE call.data.kind = "text"
      <3>1. attached = CreateTextAttachment(call.data.text, type, options.fileName)
        BY <2>1, <2>2, <2>7 DEF Create
      <3>2. bytes = IF isEncoded THEN call.data.text ELSE Base64(call.data.text)
        BY <2>7
      <3> HIDE DEF bytes, isEncoded
      <3>3. attached = CreateStringAttachment(call.data.text, IF isEncoded THEN "BASE64" ELSE "IDENTITY",
                                              mimeType, options.fileName)
        <4>1. CASE type = Unspecified
          BY <2>6, <3>1, <4>1 DEF CreateTextAttachment
        <4>2. CASE type # Unspecified
          BY <2>5, <3>1, <4>2 DEF CreateTextAttachment
        <4>3. QED
          BY <4>1, <4>2
      <3>4. CASE isEncoded
        <4>1. attached = CreateStringAttachment(call.data.text, "BASE64", mimeType, options.fileName)
          BY <3>3, <3>4
        <4>2. EmbeddingOf(attached[1]) = Embedded(call.data.text, mimeType)
          BY <4>1, EmbeddingIs
        <4>3. QED
          BY <2>3, <3>2, <3>4, <4>2
      <3>5. CASE ~isEncoded
        <4>1. attached = CreateStringAttachment(call.data.text, "IDENTITY", mimeType, options.fileName)
          BY <3>3, <3>5
        <4>2. EmbeddingOf(attached[1]) = Embedded(Base64(call.data.text), mimeType)
          BY <4>1, EmbeddingIs
        <4>3. QED
          BY <2>3, <3>2, <3>5, <4>2
      <3>6. QED
        BY <3>4, <3>5
    <2>8. CASE call.data.kind # "text"
      <3>1. type # Unspecified
        BY <2>1, <2>2, <2>8 DEF Create
      <3>2. mimeType = type
        BY <2>5, <2>8, <3>1
      <3>3. call.data.kind \in {"buffer", "stream"}
        BY <2>1, <2>2, <2>8, <3>1 DEF Create
      <3>4. PICK body : attached = CreateStringAttachment(body, "BASE64", type, options.fileName) /\ body = bytes
        <4>1. CASE call.data.kind = "buffer"
          BY <2>1, <2>2, <3>1, <4>1 DEF Create, CreateBufferAttachment
        <4>2. CASE call.data.kind = "stream"
          BY <2>1, <2>2, <3>1, <4>2 DEF Create, CreateStreamAttachment, CreateBufferAttachment
        <4>3. QED
          BY <3>3, <4>1, <4>2
      <3>5. EmbeddingOf(attached[1]) = Embedded(body, type)
        BY <3>4, EmbeddingIs
      <3>6. QED
        BY <2>3, <3>2, <3>4, <3>5
    <2>9. QED
      BY <2>7, <2>8
  <1>2. CASE call.method = "log"
    <2>1. attached = Create(AsText(call.text), As("text/x.cucumber.log+plain"))
      BY <1>2 DEF AttachmentOf, CreateLog
    <2>2. EmbeddingOf(attached[1]) = Embedded(Base64(call.text), MediaType("text/x.cucumber.log+plain"))
      BY <2>1, TextIsEmbedded
    <2>3. QED
      BY <1>2, <2>2 DEF Meant, Embedded
  <1>3. CASE call.method = "link"
    <2> DEFINE joined == FlattenSeq([i \in DOMAIN call.urls |->
                                        IF i = 1 THEN call.urls[i] ELSE <<"\n">> \o call.urls[i]])
    <2>1. attached = Create(AsText(Plain(joined)), As("text/uri-list"))
      BY <1>3 DEF AttachmentOf, CreateLink
    <2>2. joined = Lines(call.urls)
      BY <1>3, LinesAreJoined DEF IsCall
    <2> HIDE DEF joined
    <2>3. EmbeddingOf(attached[1]) = Embedded(Base64(Plain(joined)), MediaType("text/uri-list"))
      BY <2>1, TextIsEmbedded
    <2>4. QED
      BY <1>3, <2>2, <2>3 DEF Meant, Embedded
  <1>4. QED
    BY <1>1, <1>2, <1>3 DEF IsCall

-----------------------------------------------------------------------------
(* The last attempt at a case that is neither waiting nor between two.     *)
LEMMA LastOfCase ==
    ASSUME IInv, NEW t \in TestCases
    PROVE  /\ t \in Started /\ ~LeftBetween(t) =>
                  LastOf(t) \in LastAttempts /\ Len(attempts[t]) \in DOMAIN attempts[t]
           /\ t \in Started => Current(t) = attempts[t][Len(attempts[t])]
           /\ \A id \in LastAttempts : id[1] = t => t \in Started /\ ~LeftBetween(t) /\ id = LastOf(t)
  <1>1. attempts[t] \in Seq(Attempt(t)) /\ (t \in Started <=> attempts[t] # <<>>)
    BY DEF IInv, TypeOK, Started
  <1>2. ASSUME t \in Started
        PROVE  /\ Len(attempts[t]) \in DOMAIN attempts[t]
               /\ Current(t) = attempts[t][Len(attempts[t])]
               /\ Current(t).state \in {"open", "retried", "finished"}
               /\ LeftBetween(t) <=> Current(t).state = "retried"
    <2>1. Len(attempts[t]) \in DOMAIN attempts[t] /\ Current(t) = attempts[t][Len(attempts[t])]
      BY <1>1, <1>2 DEF Current, Last
    <2>2. attempts[t][Len(attempts[t])] \in Attempt(t)
      BY <1>1, <2>1
    <2>3. Current(t).state \in {"open", "retried", "finished"}
      BY <2>1, <2>2 DEF Attempt
    <2>4. QED
      BY <1>1, <1>2, <2>1, <2>3 DEF LeftBetween, Busy, Open
  <1>3. ASSUME t \in Started, ~LeftBetween(t)
        PROVE  LastOf(t) \in LastAttempts /\ Len(attempts[t]) \in DOMAIN attempts[t]
    <2>1. LastOf(t) \in GetTestCaseAttempts /\ ~data[LastOf(t)].willBeRetried
      BY <1>2, <1>3, DataOfAttempt DEF LastOf
    <2>2. QED
      BY <1>2, <1>3, <2>1 DEF LastAttempts
  <1>4. ASSUME NEW id \in LastAttempts, id[1] = t
        PROVE  t \in Started /\ ~LeftBetween(t) /\ id = LastOf(t)
    <2>1. id \in GetTestCaseAttempts /\ ~data[id].willBeRetried
      BY DEF LastAttempts
    <2>2. id[2] \in DOMAIN attempts[t] /\ id = <<t, id[2]>>
      BY <1>4, <2>1, AttemptOfData
    <2>3. attempts[t][id[2]].state # "retried"
      BY <2>1, <2>2, DataOfAttempt
    <2>4. ~(id[2] < Len(attempts[t]))
      BY <2>2, <2>3 DEF IInv, AttemptsInOrder
    <2>5. id[2] = Len(attempts[t]) /\ t \in Started
      BY <1>1, <2>2, <2>4
    <2>6. QED
      BY <1>2, <2>2, <2>3, <2>5 DEF LastOf
  <1>5. QED
    BY <1>2, <1>3, <1>4

(* What came of each test step is embedded, as it was meant.               *)
LEMMA CameIsEmbedded ==
    ASSUME IInv, NEW t \in TestCases, NEW n \in DOMAIN attempts[t], NEW i \in DOMAIN TestStepsOf[t]
    PROVE  EmbeddingsOf(data[<<t, n>>].stepAttachments[i])
           = [k \in DOMAIN Came(t, n, i) |-> Meant(Came(t, n, i)[k])]
  <1> DEFINE a == attempts[t][n]
             calls == Attaching[<<t, n, i>>]
             numbers == a.attached[i]
             kept == data[<<t, n>>].stepAttachments[i]
             came == Came(t, n, i)
  <1>1. IsAttempt(t, n, a) /\ data[<<t, n>>].stepAttachments = AttachmentsIn(t, n, a)
    BY DataOfAttempt
  <1>2. came = [k \in DOMAIN numbers |-> calls[numbers[k]]]
    BY DEF Came
  <1>3. kept = [k \in DOMAIN numbers |-> AttachmentOf(calls[numbers[k]])[1]]
    BY <1>1 DEF AttachmentsIn, AttachmentsOf
  <1>4. ASSUME NEW k \in DOMAIN numbers
        PROVE  EmbeddingOf(AttachmentOf(calls[numbers[k]])[1]) = Meant(calls[numbers[k]])
    <2>1. /\ <<t, n, i>> \in DOMAIN Attaching /\ numbers[k] \in DOMAIN calls
          /\ AttachmentOf(calls[numbers[k]]) # <<>>
      BY <1>1 DEF IsAttempt
    <2>2. calls \in Seq({call \in ToSet(calls) : IsCall(call)})
      BY <2>1, EventDataAssumption
    <2>3. IsCall(calls[numbers[k]]) /\ calls[numbers[k]] \in ToSet(calls)
      <3>1. calls[numbers[k]] \in {call \in ToSet(calls) : IsCall(call)}
        BY <2>1, <2>2
      <3>2. QED
        BY <3>1
    <2>4. calls[numbers[k]].method = "attach" => Declares(calls[numbers[k]])
      BY <2>1, <2>3, CallsAssumption
    <2>5. QED
      BY <2>1, <2>3, <2>4, EmbeddedAsMeant
  <1> HIDE DEF numbers, calls, kept, came
  <1>5. QED
    BY <1>2, <1>3, <1>4 DEF came, kept, EmbeddingsOf

(* A hook of a scenario that has a step is named for what it is.           *)
LEMMA HooksAreNamed ==
    ASSUME NEW t \in TestCases, NEW i \in DOMAIN TestStepsOf[t],
           ~IsStep(TestStepsOf[t][i]), Pickles[t].steps # <<>>
    PROVE  HookName(t, i) = TestStepsOf[t][i].kind
  <1> DEFINE Steps == {j \in DOMAIN TestStepsOf[t] : IsStep(TestStepsOf[t][j])}
  <1>1. /\ Pickles[t].steps \in Seq(ToSet(Pickles[t].steps))
        /\ \A k \in DOMAIN Pickles[t].steps : \E j \in Steps : TestStepsOf[t][j].pickleStep = k
        /\ \A j \in Steps : /\ TestStepsOf[t][i].kind = "before" => i < j
                            /\ TestStepsOf[t][i].kind = "after" => j < i
    BY TestStepsAssumption
  <1>2. DOMAIN TestStepsOf[t] = 1 .. Len(TestStepsOf[t]) /\ Len(TestStepsOf[t]) \in Nat
        /\ TestStepsOf[t][i].kind \in {"before", "step", "after"}
    BY EventDataAssumption
  <1>3. 1 \in DOMAIN Pickles[t].steps
    BY <1>1
  <1>4. PICK j \in Steps : TestStepsOf[t][j].pickleStep = 1
    BY <1>1, <1>3
  <1>5. CASE TestStepsOf[t][i].kind = "before"
    <2>1. \A k \in 1 .. i : ~IsStep(TestStepsOf[t][k])
      <3> SUFFICES ASSUME NEW k \in 1 .. i, IsStep(TestStepsOf[t][k]) PROVE FALSE
        OBVIOUS
      <3>1. k \in Steps
        BY <1>2
      <3>2. QED
        BY <1>1, <1>2, <1>5, <3>1
    <2>2. QED
      BY <1>5, <2>1 DEF IsBeforeHook, HookName
  <1>6. CASE TestStepsOf[t][i].kind = "after"
    <2>1. j < i /\ j \in 1 .. i
      BY <1>1, <1>2, <1>4, <1>6
    <2>2. ~IsBeforeHook(t, i)
      BY <1>4, <2>1 DEF IsBeforeHook
    <2>3. QED
      BY <1>6, <2>2 DEF HookName
  <1>7. QED
    BY <1>2, <1>5, <1>6 DEF IsStep

(* A step is told in the words of the step of the feature file.            *)
LEMMA WordsAreAtTheLine ==
    ASSUME NEW t \in TestCases, NEW i \in DOMAIN TestStepsOf[t], IsStep(TestStepsOf[t][i])
    PROVE  \E container \in Containers(DocumentOf(t)) : \E step \in ToSet(container.steps) :
               /\ step = GherkinStep[t][i]
               /\ step.id \in ToSet(PickleStepOf(t, i).astNodeIds)
  <1> DEFINE pickleStep == PickleStepOf(t, i)
             nodes == UNION {ToSet(container.steps) : container \in Containers(DocumentOf(t))}
             id == Head(pickleStep.astNodeIds)
             ids == {node.id : node \in nodes}
             step == CHOOSE node \in nodes : node.id = id
  <1>1. TestStepsOf[t][i].pickleStep \in DOMAIN Pickles[t].steps
    BY StepsOfCase DEF StepNumbers
  <1>3. /\ pickleStep.astNodeIds \in Seq(ToSet(pickleStep.astNodeIds)) \ {<<>>}
        /\ id \in DOMAIN GetGherkinStepMap(DocumentOf(t))
    BY <1>1, PickleStepsAssumption DEF PickleStepOf
  <1>4. id \in ToSet(pickleStep.astNodeIds)
    BY <1>3
  <1>5. GetGherkinStepMap(DocumentOf(t)) = [x \in ids |-> CHOOSE node \in nodes : node.id = x]
    BY DEF GetGherkinStepMap, ById
  <1>6. GherkinStep[t][i] = GetGherkinStepMap(DocumentOf(t))[id]
    BY DEF GherkinStep, GherkinStepOf
  <1> HIDE DEF nodes, id
  <1>7. id \in ids /\ GherkinStep[t][i] = step
    BY <1>3, <1>5, <1>6
  <1>8. step \in nodes /\ step.id = id
    BY <1>7
  <1>9. QED
    BY <1>4, <1>7, <1>8 DEF nodes

(* The JSON report tells what has happened.                                *)
LEMMA ReportHolds ==
    ASSUME IInv, Printed
    PROVE  ReportTellsWhatHappened
  <1> DEFINE report == output.json
             scenarios == UNION {report[uri] : uri \in DOMAIN report}
             told(t) == {s \in scenarios : s.attempt[1] = t}
             Says(s, t, i) ==
                 /\ s.steps[i].status =
                        IF i \in DOMAIN Current(t).results THEN Current(t).results[i] ELSE "UNKNOWN"
                 /\ s.steps[i].embeddings = [k \in DOMAIN Came(t, Len(attempts[t]), i) |->
                                                Meant(Came(t, Len(attempts[t]), i)[k])]
                 /\ Pickles[t].steps # <<>> /\ ~IsStep(TestStepsOf[t][i]) =>
                        s.steps[i].keyword = TestStepsOf[t][i].kind
                 /\ IsStep(TestStepsOf[t][i]) =>
                        \E container \in Containers(DocumentOf(t)) :
                            \E step \in ToSet(container.steps) :
                                /\ step.line = s.steps[i].line
                                /\ step.keyword = s.steps[i].keyword
                                /\ step.id \in ToSet(PickleStepOf(t, i).astNodeIds)
  <1>1. report = JsonReport
    BY DEF IInv, PrintedAtTheEnd
  <1>2. scenarios = {GetScenarioData(id) : id \in LastAttempts}
    BY <1>1, ScenariosOfReport
  <1>3. \A id : GetScenarioData(id).attempt = id
    BY ScenarioIsReported
  <1>4. ASSUME NEW t \in TestCases, NEW s \in told(t)
        PROVE  t \in Started /\ ~LeftBetween(t) /\ s = GetScenarioData(LastOf(t))
    <2>1. PICK id \in LastAttempts : s = GetScenarioData(id)
      BY <1>2
    <2>2. id[1] = t
      BY <1>3, <2>1
    <2>3. QED
      BY <2>1, <2>2, LastOfCase
  <1>5. ASSUME NEW t \in TestCases, t \in Started, ~LeftBetween(t)
        PROVE  \E s \in told(t) : /\ told(t) = {s} /\ s \in report[Pickles[t].uri]
                                  /\ \A i \in DOMAIN TestStepsOf[t] : Says(s, t, i)
    <2> DEFINE id == LastOf(t)
               s == GetScenarioData(id)
               n == Len(attempts[t])
    <2>1. id \in LastAttempts /\ n \in DOMAIN attempts[t] /\ Current(t) = attempts[t][n]
      BY <1>5, LastOfCase
    <2>2. s \in scenarios /\ s.attempt = id
      BY <1>2, <1>3, <2>1
    <2>3. id = <<t, n>> /\ id[1] = t
      BY DEF LastOf
    <2>4. s \in told(t)
      BY <2>2, <2>3
    <2>5. told(t) = {s}
      BY <1>4, <2>4
    <2>6. s \in report[Pickles[t].uri]
      BY <1>1, <2>1, <2>3, ScenariosOfReport DEF PickleOf
    <2>7. ASSUME NEW i \in DOMAIN TestStepsOf[t]
          PROVE  Says(s, t, i)
      <3> DEFINE step == GetStepData(id, i)
      <3>1. s.steps[i] = step
        <4>1. s.steps = [k \in DOMAIN TestStepsOf[id[1]] |-> GetStepData(id, k)]
          BY ScenarioIsReported
        <4>2. QED
          BY <2>3, <4>1
      <3>2. StepSays(step, id, i)
        BY StepIsReported
      <3>3. data[id].stepResults[i] =
                IF i \in DOMAIN Current(t).results THEN Current(t).results[i] ELSE "UNKNOWN"
        <4>1. data[id].stepResults = ResultsIn(t, attempts[t][n])
          BY <2>1, <2>3, DataOfAttempt
        <4>2. QED
          BY <2>1, <4>1 DEF ResultsIn
      <3>4. EmbeddingsOf(data[id].stepAttachments[i])
            = [k \in DOMAIN Came(t, n, i) |-> Meant(Came(t, n, i)[k])]
        BY <2>1, <2>3, CameIsEmbedded
      <3> HIDE DEF step, s, id
      <3>5. s.steps[i].embeddings = [k \in DOMAIN Came(t, n, i) |-> Meant(Came(t, n, i)[k])]
        BY <3>1, <3>2, <3>4 DEF StepSays
      <3>6. Pickles[t].steps # <<>> /\ ~IsStep(TestStepsOf[t][i]) =>
                s.steps[i].keyword = TestStepsOf[t][i].kind
        BY <2>3, <3>1, <3>2, HooksAreNamed DEF StepSays
      <3>7. ASSUME IsStep(TestStepsOf[t][i])
            PROVE  \E container \in Containers(DocumentOf(t)) : \E x \in ToSet(container.steps) :
                       /\ x.line = s.steps[i].line
                       /\ x.keyword = s.steps[i].keyword
                       /\ x.id \in ToSet(PickleStepOf(t, i).astNodeIds)
        BY <2>3, <3>1, <3>2, <3>7, WordsAreAtTheLine DEF StepSays
      <3>8. s.steps[i].status =
                IF i \in DOMAIN Current(t).results THEN Current(t).results[i] ELSE "UNKNOWN"
        BY <3>1, <3>2, <3>3 DEF StepSays
      <3>9. QED
        BY <3>5, <3>6, <3>7, <3>8
    <2> HIDE DEF s, Says, told
    <2>8. QED
      BY <2>4, <2>5, <2>6, <2>7
  <1>6. ASSUME NEW t \in TestCases, t \notin Started \/ LeftBetween(t)
        PROVE  told(t) = {}
    BY <1>4, <1>6
  <1>7. QED
    BY <1>5, <1>6 DEF ReportTellsWhatHappened

(* Whatever the suite and wherever the run is aborted: the JSON report has *)
(* each scenario that was started and not left between two attempts, once, *)
(* with the results, the attachments and the words of its last attempt.    *)
THEOREM ReportIsTrue == Spec => []ReportTellsWhatHappened
  <1>1. IInv => ReportTellsWhatHappened
    BY ReportHolds DEF ReportTellsWhatHappened
  <1>2. QED
    BY <1>1, Invariance, PTL

-----------------------------------------------------------------------------
(* What a step is said to be. *)

(* The keyword of a test step, and those that mean what the step before    *)
(* them means.                                                             *)
KeywordIn(t, i) == GherkinStep[t][i].keyword

Conjunctions == {"and", "but"}

(* The steps up to a test step that say what they are, what a keyword that *)
(* does so means, and what it makes of the test step.                      *)
SaidBy(t, i) == {j \in 1 .. i : IsStep(TestStepsOf[t][j]) /\ KeywordIn(t, j) \notin Conjunctions}

TypeMeant(keyword) ==
    CASE keyword = "when" -> "event" [] keyword = "then" -> "outcome" [] OTHER -> "precondition"

TypeSaid(t, i) ==
    IF SaidBy(t, i) = {} THEN "precondition" ELSE TypeMeant(KeywordIn(t, Max(SaidBy(t, i))))

(* The type of a step follows from its keyword and the type before it.     *)
LEMMA KeywordTypesFollow ==
    ASSUME NEW t \in TestCases
    PROVE  /\ KeywordTypes[t][0] = "precondition"
           /\ \A i \in DOMAIN TestStepsOf[t] :
                  KeywordTypes[t][i] = IF ~IsStep(TestStepsOf[t][i]) THEN "none"
                                       ELSE GetStepKeywordType(KeywordIn(t, i), KeywordTypes[t][i - 1])
  <1> DEFINE N == Len(TestStepsOf[t])
             V == {"precondition", "none", "event", "outcome"}
             After(i, last) == IF ~IsStep(TestStepsOf[t][i]) THEN "none"
                               ELSE GetStepKeywordType(KeywordIn(t, i), last)
             F == [p \in (1 .. N) \X V |-> After(p[1], p[2])]
             Follows(g) == g = [i \in 0 .. N |-> IF i = 0 THEN "precondition" ELSE After(i, g[i - 1])]
  <1>0. N \in Nat /\ DOMAIN TestStepsOf[t] = 1 .. N
    BY StepsOfCase
  <1>1. N \in Nat /\ "precondition" \in V /\ F \in [(1 .. N) \X V -> V]
    <2>1. \A i \in 1 .. N, last \in V : After(i, last) \in V
      BY DEF GetStepKeywordType
    <2> HIDE DEF After, V
    <2>2. \A p \in (1 .. N) \X V : After(p[1], p[2]) \in V
      BY <2>1
    <2>3. QED
      BY <1>0, <2>2 DEF V
  <1>2. \E g : IsDefinedBy(g, N, V, "precondition", F)
    <2> HIDE DEF N, V, F
    <2>1. QED
      BY <1>1, DefinedByRecursion, Zenon
  <1>3. PICK g \in [0 .. N -> V] : g[0] = "precondition" /\ \A i \in 1 .. N : g[i] = F[<<i, g[i - 1]>>]
    BY <1>2 DEF IsDefinedBy
  <1>4. ASSUME NEW i \in 1 .. N
        PROVE  g[i] = After(i, g[i - 1])
    <2> HIDE DEF After, V
    <2>1. i - 1 \in 0 .. N
      BY <1>0
    <2>2. g[i - 1] \in V
      BY <2>1, <1>3
    <2>3. QED
      BY <1>3, <2>2
  <1>5. Follows(g)
    <2>1. \A i \in 0 .. N : g[i] = IF i = 0 THEN "precondition" ELSE After(i, g[i - 1])
      BY <1>0, <1>3, <1>4
    <2>2. g = [i \in 0 .. N |-> g[i]]
      BY <1>3
    <2> HIDE DEF N, After
    <2>3. QED
      BY <2>1, <2>2
  <1>6. KeywordTypes[t] = CHOOSE f : Follows(f)
    BY DEF KeywordTypes, KeywordIn
  <1>7. Follows(KeywordTypes[t])
    <2> HIDE DEF Follows
    <2>1. QED
      BY <1>5, <1>6
  <1>8. QED
    <2> HIDE DEF After, N
    <2>1. \A i \in 0 .. N : KeywordTypes[t][i] =
              IF i = 0 THEN "precondition" ELSE After(i, KeywordTypes[t][i - 1])
      BY <1>7
    <2>2. \A i \in 1 .. N : KeywordTypes[t][i] = After(i, KeywordTypes[t][i - 1])
      BY <1>0, <2>1
    <2>3. KeywordTypes[t][0] = "precondition"
      BY <1>0, <2>1
    <2>4. QED
      BY <1>0, <2>2, <2>3 DEF After

(* The type of a step is what the last given, when or then up to it says.  *)
LEMMA TypeIsSaid ==
    ASSUME NEW t \in TestCases, NEW i \in StepNumbers(t)
    PROVE  KeywordTypes[t][i] = TypeSaid(t, i)
  <1> DEFINE N == Len(TestStepsOf[t])
             type == KeywordTypes[t]
             Otherwise == {j \in StepNumbers(t) : type[j] # TypeSaid(t, j)}
  <1>1. N \in Nat /\ DOMAIN TestStepsOf[t] = 1 .. N /\ StepNumbers(t) \subseteq 1 .. N
    BY StepsOfCase
  <1>2. SUFFICES ASSUME Otherwise # {} PROVE FALSE
    OBVIOUS
  <1>3. PICK m \in Otherwise : \A j \in Otherwise : m <= j
    <2>1. Otherwise \in SUBSET Nat
      BY <1>1
    <2> HIDE DEF Otherwise
    <2>2. QED
      BY <1>2, <2>1, LeastOfNaturals
  <1>4. m \in StepNumbers(t) /\ m \in 1 .. N /\ IsStep(TestStepsOf[t][m]) /\ type[m] # TypeSaid(t, m)
    BY <1>1, <1>3 DEF StepNumbers
  <1>5. type[m] = GetStepKeywordType(KeywordIn(t, m), type[m - 1])
    BY <1>1, <1>4, KeywordTypesFollow
  <1>6. SaidBy(t, m) \in SUBSET (1 .. m) /\ m \in Nat
    BY <1>4 DEF SaidBy
  <1>7. CASE KeywordIn(t, m) \notin Conjunctions
    <2>1. m \in SaidBy(t, m)
      BY <1>4, <1>7 DEF SaidBy
    <2>2. Max(SaidBy(t, m)) \in 1 .. m /\ m <= Max(SaidBy(t, m))
      BY <1>6, <2>1, GreatestOfNaturals
    <2>3. Max(SaidBy(t, m)) = m
      BY <1>6, <2>2
    <2>4. TypeSaid(t, m) = TypeMeant(KeywordIn(t, m))
      BY <2>1, <2>3 DEF TypeSaid
    <2>5. QED
      BY <1>4, <1>5, <1>7, <2>4 DEF GetStepKeywordType, TypeMeant, Conjunctions
  <1>8. CASE KeywordIn(t, m) \in Conjunctions
    <2>1. SaidBy(t, m) = SaidBy(t, m - 1)
      <3>1. \A j : j \in 1 .. m <=> j \in 1 .. m - 1 \/ j = m
        BY <1>6, <1>4
      <3>2. QED
        BY <1>8, <3>1 DEF SaidBy
    <2>2. CASE m - 1 \in StepNumbers(t)
      <3>1. type[m - 1] = TypeSaid(t, m - 1)
        BY <1>3, <1>4, <2>2
      <3>2. TypeSaid(t, m - 1) = TypeSaid(t, m)
        BY <2>1 DEF TypeSaid
      <3>3. TypeSaid(t, m) # "none"
        BY DEF TypeSaid, TypeMeant
      <3>4. QED
        BY <1>4, <1>5, <1>8, <3>1, <3>2, <3>3 DEF GetStepKeywordType, Conjunctions
    <2>3. CASE m - 1 \notin StepNumbers(t)
      <3>1. SaidBy(t, m) = {}
        <4>1. SUFFICES ASSUME NEW j \in SaidBy(t, m - 1) PROVE FALSE
          BY <2>1
        <4>2. j \in 1 .. m - 1 /\ IsStep(TestStepsOf[t][j])
          BY DEF SaidBy
        <4>3. j \in StepNumbers(t) /\ m - 1 \in DOMAIN TestStepsOf[t] /\ j < m - 1 + 1
          BY <1>1, <1>4, <4>2 DEF StepNumbers
        <4>4. TestStepsOf[t][m - 1].kind \in {"before", "after"}
          BY <2>3, <4>3, EventDataAssumption DEF StepNumbers, IsStep
        <4>5. ~(m - 1 < j) /\ ~(m < m - 1)
          BY <1>4, <4>2, <4>3
        <4>6. QED
          BY <1>4, <4>3, <4>4, <4>5, StepsOfCase
      <3>2. type[m - 1] \in {"none", "precondition"}
        <4>1. CASE m - 1 = 0
          BY <4>1, KeywordTypesFollow
        <4>2. CASE m - 1 # 0
          <5>1. m - 1 \in DOMAIN TestStepsOf[t]
            BY <1>1, <1>4, <4>2
          <5>2. ~IsStep(TestStepsOf[t][m - 1])
            BY <2>3, <5>1 DEF StepNumbers
          <5>3. QED
            BY <5>1, <5>2, KeywordTypesFollow
        <4>3. QED
          BY <4>1, <4>2
      <3>3. type[m] = "precondition"
        BY <1>5, <1>8, <3>2 DEF GetStepKeywordType, Conjunctions
      <3>4. QED
        BY <1>4, <3>1, <3>3 DEF TypeSaid
    <2>4. QED
      BY <2>2, <2>3
  <1>9. QED
    BY <1>7, <1>8

(* So is the type that the Gherkin parser gives the step of the pickle.    *)
LEMMA PickleTypeIsSaid ==
    ASSUME NEW t \in TestCases, NEW i \in StepNumbers(t)
    PROVE  KeywordTypeOf(PickleStepOf(t, i).type) = TypeSaid(t, i)
  <1> DEFINE At(j) == TestStepsOf[t][j].pickleStep
             steps == [k \in DOMAIN Pickles[t].steps |-> GherkinStepOf(DocumentOf(t), Pickles[t].steps[k])]
             said == {k \in 1 .. At(i) : steps[k].keyword \notin {"and", "but"}}
             keyword == IF said = {} THEN "*" ELSE steps[Max(said)].keyword
             M == Len(Pickles[t].steps)
  <1>1. /\ DOMAIN TestStepsOf[t] = 1 .. Len(TestStepsOf[t]) /\ Len(TestStepsOf[t]) \in Nat
        /\ StepNumbers(t) \subseteq DOMAIN TestStepsOf[t]
        /\ DOMAIN Pickles[t].steps = 1 .. M /\ M \in Nat
        /\ \A j \in StepNumbers(t) : At(j) \in 1 .. M
        /\ \A k \in 1 .. M : \E j \in StepNumbers(t) : At(j) = k
        /\ \A j, l \in StepNumbers(t) : j < l => At(j) < At(l)
    BY StepsOfCase
  <1>2. \A j \in StepNumbers(t) : KeywordIn(t, j) = steps[At(j)].keyword
    BY <1>1 DEF KeywordIn, GherkinStep, PickleStepOf, StepNumbers
  <1>3. /\ PickleStepOf(t, i).type = PickleStepType(steps, At(i))
        /\ \A k \in 1 .. M : steps[k].keyword \in {"given", "when", "then", "and", "but", "*"}
    BY <1>1, PickleStepsAssumption DEF PickleStepOf
  <1> HIDE DEF steps
  <1>4. PickleStepOf(t, i).type = CASE keyword = "given" -> "context"
                                    [] keyword = "when" -> "action"
                                    [] keyword = "then" -> "outcome"
                                    [] OTHER -> "unknown"
    BY <1>3 DEF PickleStepType
  <1>5. KeywordTypeOf(PickleStepOf(t, i).type) = TypeMeant(keyword)
    BY <1>4 DEF KeywordTypeOf, TypeMeant
  <1>6. i \in Nat /\ At(i) \in Nat /\ At(i) <= M /\ i \in 1 .. Len(TestStepsOf[t])
    BY <1>1
  <1>7. \A j \in SaidBy(t, i) : j \in StepNumbers(t) /\ At(j) \in said
    <2> SUFFICES ASSUME NEW j \in SaidBy(t, i) PROVE j \in StepNumbers(t) /\ At(j) \in said
      OBVIOUS
    <2>1. j \in 1 .. i /\ IsStep(TestStepsOf[t][j]) /\ KeywordIn(t, j) \notin {"and", "but"}
      BY DEF SaidBy, Conjunctions
    <2>2. j \in StepNumbers(t)
      BY <1>1, <1>6, <2>1 DEF StepNumbers
    <2>3. At(j) \in 1 .. At(i)
      <3>1. j < i \/ j = i
        BY <2>1, <1>6
      <3>2. QED
        BY <1>1, <1>6, <2>2, <3>1
    <2>4. QED
      BY <1>2, <2>1, <2>2, <2>3
  <1>8. \A k \in said : \E j \in SaidBy(t, i) : At(j) = k
    <2> SUFFICES ASSUME NEW k \in said PROVE \E j \in SaidBy(t, i) : At(j) = k
      OBVIOUS
    <2>1. k \in 1 .. M /\ k <= At(i) /\ steps[k].keyword \notin {"and", "but"}
      BY <1>6
    <2>2. PICK j \in StepNumbers(t) : At(j) = k
      BY <1>1, <2>1
    <2>3. j \in 1 .. i
      <3>1. j \in 1 .. Len(TestStepsOf[t]) /\ ~(i < j)
        BY <1>1, <1>6, <2>1, <2>2
      <3>2. QED
        BY <1>6, <3>1
    <2>4. IsStep(TestStepsOf[t][j])
      BY DEF StepNumbers
    <2>5. j \in SaidBy(t, i)
      BY <1>2, <2>1, <2>2, <2>3, <2>4 DEF SaidBy, Conjunctions
    <2>6. QED
      BY <2>2, <2>5
  <1>9. CASE SaidBy(t, i) = {}
    <2>1. said = {}
      BY <1>8, <1>9
    <2> HIDE DEF said
    <2>2. TypeMeant(keyword) = "precondition"
      BY <2>1 DEF TypeMeant
    <2>3. QED
      BY <1>5, <1>9, <2>2 DEF TypeSaid
  <1>10. CASE SaidBy(t, i) # {}
    <2> DEFINE m == Max(SaidBy(t, i))
    <2>1. m \in SaidBy(t, i) /\ \A j \in SaidBy(t, i) : j <= m
      <3>1. SaidBy(t, i) \in SUBSET (1 .. i)
        BY DEF SaidBy
      <3>2. QED
        BY <1>6, <1>10, <3>1, GreatestOfNaturals
    <2> HIDE DEF m
    <2>2. m \in StepNumbers(t) /\ At(m) \in said
      BY <1>7, <2>1
    <2>3. said \in SUBSET (1 .. At(i))
      OBVIOUS
    <2>4. Max(said) \in said /\ At(m) <= Max(said)
      <3> HIDE DEF said
      <3>1. QED
        BY <1>6, <2>2, <2>3, GreatestOfNaturals
    <2>5. PICK j \in SaidBy(t, i) : At(j) = Max(said)
      BY <1>8, <2>4
    <2>6. j \in StepNumbers(t) /\ j <= m
      BY <1>7, <2>1
    <2>7. j = m
      <3>1. ~(j < m)
        BY <1>1, <2>2, <2>4, <2>5, <2>6
      <3>2. QED
        BY <1>1, <2>2, <2>6, <3>1
    <2>8. keyword = KeywordIn(t, m)
      BY <1>2, <2>2, <2>5, <2>7
    <2>9. QED
      BY <1>5, <1>10, <2>8 DEF TypeSaid, m
  <1>11. QED
    BY <1>9, <1>10

-----------------------------------------------------------------------------
(* A snippet has a choice for each expression, the first of which is live. *)
Choice(interface, functionName, generated, stepParameterNames, live) ==
    [functionName |-> functionName, source |-> generated.source, live |-> live,
     parameters |-> generated.parameterNames \o stepParameterNames
                        \o (IF interface = "callback" THEN <<"callback">> ELSE <<>>)]

LEMMA ChoicesOfSnippet ==
    ASSUME NEW interface, NEW functionName, NEW expressions, NEW names
    PROVE  LET snippet == SnippetSyntax(interface, functionName, expressions, names)
           IN /\ snippet.saying = interface
              /\ DOMAIN snippet.choices = DOMAIN expressions
              /\ \A i \in DOMAIN expressions :
                     snippet.choices[i] = Choice(interface, functionName, expressions[i], names, i = 1)
  BY DEF SnippetSyntax, Choice

(* A step whose snippet was pasted is PENDING.                             *)
LEMMA PastedIsPending ==
    ASSUME NEW interface \in SnippetInterfaces, NEW functionName, NEW step,
           step.text \in DOMAIN GenerateExpressions,
           step.argument = <<>> \/ step.argument = <<step.argument[1]>>,
           NEW expressions \in Seq(ToSet(GenerateExpressions[step.text])), expressions # <<>>
    PROVE  PastedStatus(SnippetSyntax(interface, functionName, expressions, GetStepParameterNames(step)), step)
               = "PENDING"
  <1> DEFINE names == GetStepParameterNames(step)
             snippet == SnippetSyntax(interface, functionName, expressions, names)
             choice == CHOOSE c \in ToSet(snippet.choices) : c.live
             Generated == ToSet(GenerateExpressions[step.text])
             generated == CHOOSE g \in Generated : g.source = choice.source
             callback == IF interface = "callback" THEN <<"callback">> ELSE <<>>
             captured == GetInvocationParameters(generated.parameterNames, step)
  <1>1. /\ snippet.saying = interface
        /\ DOMAIN snippet.choices = DOMAIN expressions
        /\ \A i \in DOMAIN expressions :
               snippet.choices[i] = Choice(interface, functionName, expressions[i], names, i = 1)
    BY ChoicesOfSnippet
  <1>2. 1 \in DOMAIN expressions /\ expressions[1] \in Generated
    <2> HIDE DEF Generated
    <2>1. expressions \in Seq(Generated)
      BY DEF Generated
    <2>2. QED
      BY <2>1
  <1>3. \A i \in DOMAIN expressions : snippet.choices[i].live <=> i = 1
    <2> HIDE DEF snippet, names
    <2> TAKE i \in DOMAIN expressions
    <2>1. snippet.choices[i] = Choice(interface, functionName, expressions[i], names, i = 1)
      BY <1>1
    <2>2. snippet.choices[i].live = (i = 1)
      BY <2>1 DEF Choice
    <2>3. QED
      BY <2>2
  <1> HIDE DEF snippet
  <1>4. choice = snippet.choices[1]
    <2>1. ToSet(snippet.choices) = {snippet.choices[i] : i \in DOMAIN expressions}
      BY <1>1 DEF ToSet
    <2>2. snippet.choices[1] \in ToSet(snippet.choices) /\ snippet.choices[1].live
      BY <1>2, <1>3, <2>1
    <2>3. \A c \in ToSet(snippet.choices) : c.live => c = snippet.choices[1]
      BY <1>3, <2>1
    <2>4. QED
      BY <2>2, <2>3
  <1>5. choice = Choice(interface, functionName, expressions[1], names, 1 = 1)
    BY <1>1, <1>2, <1>4
  <1>6. choice.source = expressions[1].source /\ choice.parameters = expressions[1].parameterNames \o names \o callback
    <2> HIDE DEF choice, names
    <2>1. choice.source = expressions[1].source
      BY <1>5 DEF Choice
    <2>2. choice.parameters = expressions[1].parameterNames \o names \o callback
      BY <1>5 DEF Choice
    <2>3. QED
      BY <2>1, <2>2
  <1> HIDE DEF choice
  <1>7. generated = expressions[1]
    <2>1. \A g, h \in Generated : g.source = h.source => g = h
      BY DefinitionsAssumption
    <2> HIDE DEF Generated
    <2>2. QED
      BY <1>2, <1>6, <2>1
  <1>8. PastedStatus(snippet, step) = RunStep(snippet.saying, Len(choice.parameters), captured)
    BY DEF PastedStatus, choice
  <1> DEFINE parameters == expressions[1].parameterNames
  <1>9. parameters \in Seq(ToSet(parameters))
    BY <1>2, DefinitionsAssumption
  <1>10. captured = parameters \o step.argument
    BY <1>7 DEF GetInvocationParameters, ArgumentOf
  <1> HIDE DEF generated, parameters
  <1>11. CASE step.argument = <<>>
    <2>1. names = <<>>
      BY <1>11 DEF GetStepParameterNames
    <2>2. captured = parameters
      BY <1>9, <1>10, <1>11
    <2>3. choice.parameters = parameters \o callback
      BY <1>6, <1>9, <2>1 DEF parameters
    <2>4. Len(parameters) \in Nat /\ Len(parameters \o <<"callback">>) = Len(parameters) + 1
          /\ parameters \o <<>> = parameters
      BY <1>9
    <2>5. Len(choice.parameters) = IF interface = "callback" THEN Len(captured) + 1 ELSE Len(captured)
      BY <2>2, <2>3, <2>4
    <2>6. Len(captured) \in Nat
      BY <2>2, <2>4
    <2> HIDE DEF captured, callback, names
    <2>7. QED
      BY <1>1, <1>8, <2>5, <2>6 DEF RunStep, ValidCodeLengths, CallbackInterface, snippet, names
  <1>12. CASE step.argument = <<step.argument[1]>>
    <2>1. names = <<step.argument[1].kind>>
      <3>1. DOMAIN step.argument = {1}
        BY <1>12
      <3>2. names = [i \in {1} |-> step.argument[i].kind]
        BY <3>1 DEF GetStepParameterNames
      <3>3. QED
        BY <3>2
    <2>2. captured = parameters \o <<step.argument[1]>>
      BY <1>10, <1>12
    <2>3. choice.parameters = parameters \o <<step.argument[1].kind>> \o callback
      BY <1>6, <2>1 DEF parameters
    <2>4. ASSUME NEW x, NEW y
          PROVE  /\ Len(parameters \o <<x>>) = Len(parameters) + 1
                 /\ Len(parameters \o <<x>> \o <<y>>) = Len(parameters) + 2
                 /\ parameters \o <<x>> \o <<>> = parameters \o <<x>>
      <3>1. parameters \in Seq(ToSet(parameters) \cup {x, y})
        BY <1>9
      <3>2. QED
        BY <3>1
    <2>5. Len(captured) = Len(parameters) + 1 /\ Len(parameters) \in Nat
      BY <1>9, <2>2, <2>4
    <2>6. Len(choice.parameters) = IF interface = "callback" THEN Len(captured) + 1 ELSE Len(captured)
      BY <2>3, <2>4, <2>5
    <2> HIDE DEF captured, callback, names
    <2>7. QED
      BY <1>1, <1>8, <2>5, <2>6 DEF RunStep, ValidCodeLengths, CallbackInterface, snippet, names
  <1>13. QED
    BY <1>11, <1>12

(* The function that a step that was said to be of a type is written with. *)
FunctionSaid(t, i) ==
    IF SaidBy(t, i) = {} THEN "Given"
    ELSE CASE KeywordIn(t, Max(SaidBy(t, i))) = "when" -> "When"
           [] KeywordIn(t, Max(SaidBy(t, i))) = "then" -> "Then"
           [] OTHER -> "Given"

(* Both keyword types of a step, the formatter's and the one the runtime   *)
(* suggests by, come to that function.                                     *)
LEMMA FunctionIsSaid ==
    ASSUME NEW t \in TestCases, NEW i \in StepNumbers(t)
    PROVE  /\ GetFunctionName(KeywordTypes[t][i]) = FunctionSaid(t, i)
           /\ GetFunctionName(KeywordTypeOf(PickleStepOf(t, i).type)) = FunctionSaid(t, i)
  <1>1. KeywordTypes[t][i] = TypeSaid(t, i) /\ KeywordTypeOf(PickleStepOf(t, i).type) = TypeSaid(t, i)
    BY TypeIsSaid, PickleTypeIsSaid
  <1>2. GetFunctionName(TypeSaid(t, i)) = FunctionSaid(t, i)
    BY DEF GetFunctionName, TypeSaid, TypeMeant, FunctionSaid
  <1>3. QED
    BY <1>1, <1>2

(* The snippet of an undefined step is what the property says of it.       *)
Fits(interface, t, i, snippet) ==
    LET pickleStep == PickleStepOf(t, i)
        choices == snippet.choices
        suggested == MakeSuggestion(interface, pickleStep)
    IN /\ \A choice \in ToSet(choices) : choice.functionName = FunctionSaid(t, i)
       /\ PastedStatus(snippet, pickleStep) = "PENDING"
       /\ Len(choices) = Len(suggested)
       /\ \A k \in DOMAIN choices :
              /\ PastedStatus(suggested[k], pickleStep) = "PENDING"
              /\ [choices[k] EXCEPT !.live = TRUE] = suggested[k].choices[1]

(* A choice that is made live differs from one that is not in that only.   *)
MadeLive(choice, live) == [choice EXCEPT !.live = live]

LEMMA LiveChoice ==
    ASSUME NEW interface, NEW function, NEW g, NEW names, NEW live, NEW yes
    PROVE  MadeLive(Choice(interface, function, g, names, live), yes) = Choice(interface, function, g, names, yes)
  <1> DEFINE parameters == g.parameterNames \o names
                               \o (IF interface = "callback" THEN <<"callback">> ELSE <<>>)
  <1>1. \A x : Choice(interface, function, g, names, x) =
                   [functionName |-> function, source |-> g.source, live |-> x, parameters |-> parameters]
    BY DEF Choice
  <1> HIDE DEF parameters
  <1>2. QED
    BY <1>1 DEF MadeLive

(* What is printed for a step fits it.                                     *)
LEMMA SnippetFits ==
    ASSUME NEW interface \in SnippetInterfaces, NEW t \in TestCases, NEW i \in StepNumbers(t)
    PROVE  Fits(interface, t, i, BuildSnippet(interface, KeywordTypes[t][i], PickleStepOf(t, i)))
  <1> DEFINE step == PickleStepOf(t, i)
             generated == GenerateExpressions[step.text]
             names == GetStepParameterNames(step)
             function == FunctionSaid(t, i)
             snippet == BuildSnippet(interface, KeywordTypes[t][i], step)
             suggested == MakeSuggestion(interface, step)
  <1>1. step.text \in DOMAIN GenerateExpressions /\ (step.argument = <<>> \/ step.argument = <<step.argument[1]>>)
    <2>1. TestStepsOf[t][i].pickleStep \in DOMAIN Pickles[t].steps
      BY StepsOfCase
    <2>2. QED
      BY <2>1, PickleStepsAssumption DEF PickleStepOf
  <1>2. snippet = SnippetSyntax(interface, function, generated, names)
    BY FunctionIsSaid DEF BuildSnippet
  <1>3. suggested = [k \in DOMAIN generated |-> SnippetSyntax(interface, function, <<generated[k]>>, names)]
    BY FunctionIsSaid DEF MakeSuggestion, BuildSnippets
  <1>4. generated \in Seq(ToSet(generated)) /\ generated # <<>>
    BY <1>1, DefinitionsAssumption
  <1> HIDE DEF step, generated, names, function, snippet, suggested
  <1>5. /\ DOMAIN snippet.choices = DOMAIN generated
        /\ \A k \in DOMAIN generated :
               snippet.choices[k] = Choice(interface, function, generated[k], names, k = 1)
    BY <1>2, ChoicesOfSnippet
  <1>6. ASSUME NEW choice \in ToSet(snippet.choices)
        PROVE  choice.functionName = function
    <2>1. PICK k \in DOMAIN snippet.choices : choice = snippet.choices[k]
      BY DEF ToSet
    <2>2. choice = Choice(interface, function, generated[k], names, k = 1)
      BY <1>5, <2>1
    <2>3. QED
      BY <2>2 DEF Choice
  <1>7. PastedStatus(snippet, step) = "PENDING"
    BY <1>1, <1>2, <1>4, PastedIsPending DEF generated, names
  <1>8. Len(snippet.choices) = Len(suggested)
    <2>1. DOMAIN generated = 1 .. Len(generated) /\ Len(generated) \in Nat
      BY <1>4
    <2>2. snippet.choices = [k \in DOMAIN generated |-> Choice(interface, function, generated[k], names, k = 1)]
      BY <1>2 DEF SnippetSyntax, Choice
    <2>3. Len(snippet.choices) = Len(generated)
      BY <2>1, <2>2
    <2>4. Len(suggested) = Len(generated)
      BY <1>3, <2>1
    <2>5. QED
      BY <2>3, <2>4
  <1>9. ASSUME NEW k \in DOMAIN snippet.choices
        PROVE  /\ PastedStatus(suggested[k], step) = "PENDING"
               /\ [snippet.choices[k] EXCEPT !.live = TRUE] = suggested[k].choices[1]
    <2> DEFINE one == <<generated[k]>>
    <2>1. k \in DOMAIN generated /\ suggested[k] = SnippetSyntax(interface, function, one, names)
      BY <1>3, <1>5
    <2>2. one \in Seq(ToSet(generated)) /\ one # <<>> /\ one[1] = generated[k] /\ 1 \in DOMAIN one
      BY <1>4, <2>1 DEF ToSet
    <2> HIDE DEF one
    <2>3. PastedStatus(suggested[k], step) = "PENDING"
      BY <1>1, <2>1, <2>2, PastedIsPending DEF generated, names
    <2>4. suggested[k].choices[1] = Choice(interface, function, generated[k], names, 1 = 1)
      BY <2>1, <2>2, ChoicesOfSnippet
    <2>5. snippet.choices[k] = Choice(interface, function, generated[k], names, k = 1)
      BY <1>5
    <2>6. MadeLive(Choice(interface, function, generated[k], names, k = 1), TRUE)
              = Choice(interface, function, generated[k], names, TRUE)
      <3>1. \A live, yes : MadeLive(Choice(interface, function, generated[k], names, live), yes)
                               = Choice(interface, function, generated[k], names, yes)
        BY LiveChoice
      <3>2. QED
        BY <3>1
    <2>7. QED
      <3>1. suggested[k].choices[1] = Choice(interface, function, generated[k], names, TRUE)
        BY <2>4
      <3>2. MadeLive(snippet.choices[k], TRUE) = suggested[k].choices[1]
        BY <2>5, <2>6, <3>1
      <3>3. QED
        BY <2>3, <3>2 DEF MadeLive
  <1>10. QED
    BY <1>6, <1>7, <1>8, <1>9 DEF Fits, step, function, snippet, suggested

(* What is printed of an attempt: a snippet for each undefined step.       *)
UndefinedIn(t, n) == {i \in DOMAIN attempts[t][n].results : attempts[t][n].results[i] = "UNDEFINED"}

LEMMA SnippetsOfAttempt ==
    ASSUME IInv, NEW interface, NEW t \in TestCases, NEW n \in DOMAIN attempts[t]
    PROVE  /\ UndefinedIn(t, n) \subseteq StepNumbers(t)
           /\ \A l : l \in SnippetsOf(interface, <<t, n>>) <=>
                  \E i \in UndefinedIn(t, n) :
                      l = [attempt |-> <<t, n>>, step |-> i,
                           snippet |-> BuildSnippet(interface, KeywordTypes[t][i], PickleStepOf(t, i))]
  <1> DEFINE a == attempts[t][n]
             id == <<t, n>>
             Build(i) == BuildSnippet(interface, KeywordTypes[t][i], PickleStepOf(t, i))
  <1>1. /\ a \in Attempt(t) /\ IsAttempt(t, n, a)
        /\ data[id].stepResults = ResultsIn(t, a)
    BY DataOfAttempt
  <1>2. DOMAIN a.results \subseteq DOMAIN TestStepsOf[t]
    <2>1. a.results \in Seq(Status \ {"UNKNOWN"}) /\ Len(a.results) <= Len(TestStepsOf[t])
      BY <1>1 DEF Attempt, IsAttempt
    <2>2. QED
      BY <2>1, EventDataAssumption
  <1>3. ASSUME NEW i \in UndefinedIn(t, n)
        PROVE  i \in StepNumbers(t)
    <2>1. i \in DOMAIN TestStepsOf[t] /\ TestStepsOf[t][i].definitions = {}
      BY <1>1, <1>2 DEF IsAttempt, UndefinedIn
    <2>2. IsStep(TestStepsOf[t][i])
      <3>1. Cardinality(TestStepsOf[t][i].definitions) = 0
        BY <2>1, FS_EmptySet
      <3>2. TestStepsOf[t][i].kind # "step" => Cardinality(TestStepsOf[t][i].definitions) = 1
        BY <2>1, EventDataAssumption
      <3>3. QED
        BY <3>1, <3>2 DEF IsStep
    <2>3. QED
      BY <2>1, <2>2 DEF StepNumbers
  <1>4. {j \in DOMAIN TestStepsOf[t] : data[id].stepResults[j] = "UNDEFINED"} = UndefinedIn(t, n)
    <2>1. \A j \in DOMAIN TestStepsOf[t] : data[id].stepResults[j] =
              IF j \in DOMAIN a.results THEN a.results[j] ELSE "UNKNOWN"
      BY <1>1 DEF ResultsIn
    <2>2. QED
      BY <1>2, <2>1 DEF UndefinedIn
  <1> DEFINE parsed == ParseTestCaseAttempt(interface, id)
  <1>5. parsed = [i \in DOMAIN TestStepsOf[t] |-> ParseStep(interface, id, i)]
    BY DEF ParseTestCaseAttempt
  <1>6. \A i : ParseStep(interface, id, i).status = data[id].stepResults[i]
    BY DEF ParseStep
  <1>7. \A i \in UndefinedIn(t, n) : ParseStep(interface, id, i).snippet = Build(i)
    BY <1>4 DEF ParseStep
  <1>8. SnippetsOf(interface, id) = {[attempt |-> id, step |-> i, snippet |-> parsed[i].snippet] :
                                          i \in {j \in DOMAIN parsed : parsed[j].status = "UNDEFINED"}}
    BY DEF SnippetsOf
  <1> HIDE DEF parsed, Build
  <1>9. {j \in DOMAIN parsed : parsed[j].status = "UNDEFINED"} = UndefinedIn(t, n)
    BY <1>4, <1>5, <1>6
  <1>10. \A i \in UndefinedIn(t, n) : parsed[i].snippet = Build(i)
    BY <1>2, <1>5, <1>7 DEF UndefinedIn
  <1>11. \A l : l \in SnippetsOf(interface, id) <=>
              \E i \in UndefinedIn(t, n) : l = [attempt |-> id, step |-> i, snippet |-> Build(i)]
    BY <1>8, <1>9, <1>10
  <1>12. QED
    BY <1>3, <1>11 DEF Build

(* The snippets are those of the undefined steps, and they fit.            *)
LEMMA SnippetsHold ==
    ASSUME IInv, Printed
    PROVE  SnippetsFit
  <1> DEFINE Stepless == \E t \in Started : Pickles[t].steps = <<>> /\ \E i \in DOMAIN TestStepsOf[t] :
                                                TestStepsOf[t][i].kind = "after"
             Throws == \E id \in GetTestCaseAttempts : ~Parses(id[1])
             Undefined == UNION {UNION {{<<t, n>>} \X UndefinedIn(t, n) : n \in DOMAIN attempts[t]} :
                                     t \in TestCases}
  <1>1. output.snippets = [interface \in SnippetInterfaces |-> LogSnippets(interface)]
    BY DEF IInv, PrintedAtTheEnd
  <1>2. \A id : id \in GetTestCaseAttempts <=>
            \E t \in TestCases : \E n \in DOMAIN attempts[t] : id = <<t, n>>
    BY AttemptOfData, DataOfAttempt
  <1>3. Throws <=> Stepless
    <2>1. ASSUME NEW t \in TestCases
          PROVE  t \in Started <=> \E n \in DOMAIN attempts[t] : TRUE
      <3>1. attempts[t] \in Seq(Attempt(t))
        BY DEF IInv, TypeOK
      <3>2. CASE attempts[t] = <<>>
        BY <3>2 DEF Started
      <3>3. CASE attempts[t] # <<>>
        <4>1. 1 \in DOMAIN attempts[t]
          BY <3>1, <3>3
        <4>2. QED
          BY <3>3, <4>1 DEF Started
      <3>4. QED
        BY <3>2, <3>3
    <2>2. Throws <=> \E t \in TestCases : (\E n \in DOMAIN attempts[t] : TRUE) /\ ~Parses(t)
      <3>1. ASSUME Throws PROVE \E t \in TestCases : (\E n \in DOMAIN attempts[t] : TRUE) /\ ~Parses(t)
        BY <3>1, AttemptOfData
      <3>2. ASSUME NEW t \in TestCases, NEW n \in DOMAIN attempts[t], ~Parses(t)
            PROVE  Throws
        <4>1. <<t, n>> \in GetTestCaseAttempts /\ <<t, n>>[1] = t
          BY <1>2
        <4>2. QED
          BY <3>2, <4>1
      <3>3. QED
        BY <3>1, <3>2
    <2>3. Throws <=> \E t \in Started : ~Parses(t)
      BY <2>1, <2>2 DEF Started
    <2>4. QED
      BY <2>3, ParsesWithStep DEF Started
  <1>4. ASSUME NEW interface \in SnippetInterfaces, ~Throws
        PROVE  LET logged == output.snippets[interface]
               IN /\ {<<l.attempt, l.step>> : l \in logged} = Undefined
                  /\ \A l \in logged : Fits(interface, l.attempt[1], l.step, l.snippet)
    <2> DEFINE logged == output.snippets[interface]
               At(t, n, i) == [attempt |-> <<t, n>>, step |-> i,
                               snippet |-> BuildSnippet(interface, KeywordTypes[t][i], PickleStepOf(t, i))]
    <2>1. logged = UNION {SnippetsOf(interface, id) : id \in GetTestCaseAttempts}
      BY <1>1, <1>4 DEF LogSnippets
    <2>2. \A l : l \in logged <=> \E t \in TestCases : \E n \in DOMAIN attempts[t] :
                                       l \in SnippetsOf(interface, <<t, n>>)
      <3>1. \A l : l \in logged <=> \E id \in GetTestCaseAttempts : l \in SnippetsOf(interface, id)
        BY <2>1
      <3> HIDE DEF logged
      <3> TAKE l
      <3>2. ASSUME NEW id \in GetTestCaseAttempts, l \in SnippetsOf(interface, id)
            PROVE  \E t \in TestCases : \E n \in DOMAIN attempts[t] : l \in SnippetsOf(interface, <<t, n>>)
        <4>1. id[1] \in TestCases /\ id[2] \in DOMAIN attempts[id[1]] /\ id = <<id[1], id[2]>>
          BY AttemptOfData
        <4>2. l \in SnippetsOf(interface, <<id[1], id[2]>>)
          BY <3>2, <4>1, Zenon
        <4>3. QED
          BY <4>1, <4>2
      <3>3. ASSUME NEW t \in TestCases, NEW n \in DOMAIN attempts[t], l \in SnippetsOf(interface, <<t, n>>)
            PROVE  l \in logged
        <4>1. <<t, n>> \in GetTestCaseAttempts
          BY <1>2
        <4>2. QED
          BY <3>1, <3>3, <4>1
      <3>4. QED
        BY <3>1, <3>2, <3>3
    <2>3. \A t \in TestCases : \A n \in DOMAIN attempts[t] :
              /\ UndefinedIn(t, n) \subseteq StepNumbers(t)
              /\ \A l : l \in SnippetsOf(interface, <<t, n>>) <=> \E i \in UndefinedIn(t, n) : l = At(t, n, i)
      BY SnippetsOfAttempt
    <2>4. \A t, n, i : /\ At(t, n, i).attempt = <<t, n>> /\ At(t, n, i).step = i
                       /\ At(t, n, i).snippet = BuildSnippet(interface, KeywordTypes[t][i], PickleStepOf(t, i))
      OBVIOUS
    <2> HIDE DEF At, logged
    <2>5. \A l : l \in logged <=> \E t \in TestCases : \E n \in DOMAIN attempts[t] :
                                       \E i \in UndefinedIn(t, n) : l = At(t, n, i)
      <3> TAKE l
      <3>1. l \in logged <=> \E t \in TestCases : \E n \in DOMAIN attempts[t] : l \in SnippetsOf(interface, <<t, n>>)
        BY <2>2
      <3>2. \A t \in TestCases : \A n \in DOMAIN attempts[t] :
                l \in SnippetsOf(interface, <<t, n>>) <=> \E i \in UndefinedIn(t, n) : l = At(t, n, i)
        BY <2>3
      <3>3. QED
        BY <3>1, <3>2
    <2>6. {<<l.attempt, l.step>> : l \in logged} = Undefined
      <3>1. \A x : x \in {<<l.attempt, l.step>> : l \in logged} <=>
                \E t \in TestCases : \E n \in DOMAIN attempts[t] : \E i \in UndefinedIn(t, n) : x = <<<<t, n>>, i>>
        BY <2>4, <2>5
      <3>2. \A x : x \in Undefined <=>
                \E t \in TestCases : \E n \in DOMAIN attempts[t] : \E i \in UndefinedIn(t, n) : x = <<<<t, n>>, i>>
        OBVIOUS
      <3> HIDE DEF Undefined
      <3>3. QED
        BY <3>1, <3>2
    <2>7. ASSUME NEW l \in logged
          PROVE  Fits(interface, l.attempt[1], l.step, l.snippet)
      <3>1. PICK t \in TestCases : \E n \in DOMAIN attempts[t] : \E i \in UndefinedIn(t, n) : l = At(t, n, i)
        BY <2>5
      <3>2. PICK n \in DOMAIN attempts[t] : \E i \in UndefinedIn(t, n) : l = At(t, n, i)
        BY <3>1
      <3>3. PICK i \in UndefinedIn(t, n) : l = At(t, n, i)
        BY <3>2
      <3>4. i \in StepNumbers(t)
        BY <2>3
      <3>5. l.attempt[1] = t /\ l.step = i
            /\ l.snippet = BuildSnippet(interface, KeywordTypes[t][i], PickleStepOf(t, i))
        BY <2>4, <3>3
      <3>6. QED
        BY <3>4, <3>5, SnippetFits
    <2>8. QED
      BY <2>6, <2>7 DEF logged
  <1>5. \A interface \in SnippetInterfaces : Throws => output.snippets[interface] = "throws"
    BY <1>1 DEF LogSnippets
  <1> HIDE DEF Throws
  <1>6. ASSUME NEW interface \in SnippetInterfaces
        PROVE  LET logged == output.snippets[interface]
               IN IF Stepless THEN logged = "throws"
                  ELSE /\ {<<l.attempt, l.step>> : l \in logged} = Undefined
                       /\ \A l \in logged : Fits(interface, l.attempt[1], l.step, l.snippet)
    BY <1>3, <1>4, <1>5
  <1>7. QED
    BY <1>6 DEF SnippetsFit, Fits, UndefinedIn, FunctionSaid, SaidBy, KeywordIn, Conjunctions

(* The snippets are those of the undefined steps of every attempt; each is *)
(* for what the step is said to be, offers what the runtime suggests, and  *)
(* makes the step PENDING once it is pasted.                               *)
THEOREM SnippetsAreRight == Spec => []SnippetsFit
  <1>1. IInv => SnippetsFit
    BY SnippetsHold DEF SnippetsFit
  <1>2. QED
    BY <1>1, Invariance, PTL

-----------------------------------------------------------------------------
(* Rerunning. *)

(* A finite set as a sequence.                                             *)
LEMMA SetAsSequence ==
    ASSUME NEW S, IsFiniteSet(S)
    PROVE  /\ SetToSeq(S) \in Seq(S) /\ ToSet(SetToSeq(S)) = S
           /\ DOMAIN SetToSeq(S) = 1 .. Cardinality(S) /\ Cardinality(S) \in Nat
  <1> DEFINE N == Cardinality(S)
             f == SetToSeq(S)
  <1>1. N \in Nat /\ ExistsBijection(1 .. N, S)
    BY FS_CardinalityType
  <1>2. \E g \in [1 .. N -> S] : IsInjective(g)
    BY <1>1 DEF ExistsBijection, Bijection, Injection
  <1>3. f \in [1 .. N -> S] /\ IsInjective(f)
    BY <1>2 DEF SetToSeq
  <1>4. IsFiniteSet(1 .. N) /\ Cardinality(1 .. N) = N
    <2>1. PICK n \in Nat : n = N
      BY <1>1
    <2>2. IsFiniteSet(1 .. n) /\ Cardinality(1 .. n) = n
      BY FS_Interval, 1 \in Int, n \in Int
    <2>3. QED
      BY <2>1, <2>2
  <1>5. f \in Surjection(1 .. N, S)
    <2>1. f \in Injection(1 .. N, S)
      BY <1>3 DEF Injection
    <2>2. QED
      BY <1>4, <2>1, FS_Injection
  <1> HIDE DEF f
  <1>6. f \in Seq(S) /\ DOMAIN f = 1 .. N
    BY <1>1, <1>3
  <1>7. ToSet(f) = S
    <2>1. \A x \in S : \E i \in 1 .. N : f[i] = x
      BY <1>5 DEF Surjection
    <2>2. \A i \in 1 .. N : f[i] \in S
      BY <1>3
    <2>3. QED
      BY <1>6, <2>1, <2>2 DEF ToSet
  <1>8. QED
    BY <1>1, <1>6, <1>7 DEF f

(* What is in the paths of an argument that is a rerun file.               *)
LEMMA RerunPaths ==
    ASSUME NEW S, NEW file \in Seq(S), file # <<>>
    PROVE  LET paths == GetUnexpandedSourcePaths(<<[rerun |-> file]>>)
           IN paths \in Seq(S) /\ ToSet(paths) = {path \in ToSet(file) : path.uri # ""}
  <1> DEFINE args == <<[rerun |-> file]>>
             given == [i \in DOMAIN args |-> PathsOf(args[i])]
             P == {i \in DOMAIN file : file[i].uri # ""}
  <1>1. DOMAIN given = 1 .. 1 /\ given[1] = file
    <2>1. DOMAIN args = {1} /\ args[1] = [rerun |-> file]
      OBVIOUS
    <2>2. PathsOf([rerun |-> file]) = file
      BY DEF PathsOf
    <2> HIDE DEF args
    <2>3. QED
      BY <2>1, <2>2
  <1>2. given = <<file>>
    BY <1>1
  <1> HIDE DEF given
  <1>3. FlattenSeq(given) = file
    <2>1. Len(given) = 1 /\ 1 \in Nat \ {0} /\ \A i \in 1 .. 1 : given[i] \in Seq(S)
      BY <1>1, <1>2
    <2>2. PICK n \in Nat \ {0} : n = 1
      OBVIOUS
    <2>3. \E g : /\ DOMAIN g = 1 .. n /\ FlattenSeq(given) = g[n]
                 /\ g[1] = given[1] /\ \A i \in 2 .. n : g[i] = g[i - 1] \o given[i]
                 /\ \A i \in 1 .. n : g[i] \in Seq(S)
      <3>1. DOMAIN given = 1 .. n /\ Len(given) = n /\ \A i \in 1 .. n : given[i] \in Seq(S)
        BY <1>1, <2>1, <2>2
      <3> HIDE DEF args
      <3>2. QED
        BY <3>1, FlattenedStepwise
    <2>4. QED
      BY <1>1, <2>2, <2>3
  <1>4. GetUnexpandedSourcePaths(args) = Named(file)
    BY <1>3 DEF GetUnexpandedSourcePaths, given
  <1>5. Named(file) = Keep(file, P)
    BY DEF Named
  <1>6. P \in SUBSET (1 .. Len(file)) /\ DOMAIN file = 1 .. Len(file)
    <2>1. DOMAIN file = 1 .. Len(file)
      OBVIOUS
    <2>2. P \subseteq DOMAIN file
      OBVIOUS
    <2>3. QED
      BY <2>1, <2>2
  <1>7. ToSet(file) = {file[i] : i \in DOMAIN file}
    BY DEF ToSet
  <1>8. {file[i] : i \in P} = {path \in ToSet(file) : path.uri # ""}
    BY <1>7
  <1> HIDE DEF P, args
  <1>9. Keep(file, P) \in Seq(S) /\ ToSet(Keep(file, P)) = {file[i] : i \in P}
    BY <1>6, KeepIsPart
  <1>10. QED
    BY <1>4, <1>5, <1>8, <1>9 DEF args

(* Paths that each stand for one file stand for these files.               *)
LEMMA FilesOfPaths ==
    ASSUME NEW S, NEW paths \in Seq(S), \A path \in ToSet(paths) : Glob[path.uri] = <<path.uri>>
    PROVE  ToSet(ExpandSourcePaths(paths)) = {path.uri : path \in ToSet(paths)}
  <1> DEFINE N == Len(paths)
             uris == [i \in DOMAIN paths |-> paths[i].uri]
             files == [i \in DOMAIN uris |-> Glob[uris[i]]]
             Uris == {path.uri : path \in ToSet(paths)}
  <1>1. N \in Nat /\ DOMAIN paths = 1 .. N
    OBVIOUS
  <1>2. ToSet(paths) = {paths[i] : i \in 1 .. N}
    BY <1>1 DEF ToSet
  <1>3. \A i \in 1 .. N : paths[i].uri \in Uris /\ Glob[paths[i].uri] = <<paths[i].uri>>
    BY <1>2
  <1>4. DOMAIN uris = 1 .. N /\ \A i \in 1 .. N : uris[i] = paths[i].uri
    BY <1>1
  <1> HIDE DEF uris, N, Uris
  <1>5. DOMAIN files = 1 .. N /\ \A i \in 1 .. N : files[i] = <<paths[i].uri>>
    BY <1>3, <1>4
  <1>6. Len(files) = N
    BY <1>1, <1>4
  <1>7. \A i \in 1 .. N : files[i] \in Seq(Uris) /\ ToSet(files[i]) = {paths[i].uri}
    <2> SUFFICES ASSUME NEW i \in 1 .. N
                 PROVE  files[i] \in Seq(Uris) /\ ToSet(files[i]) = {paths[i].uri}
      OBVIOUS
    <2>1. files[i] = <<paths[i].uri>> /\ paths[i].uri \in Uris
      BY <1>3, <1>5
    <2> HIDE DEF files
    <2>2. QED
      BY <2>1 DEF ToSet
  <1> HIDE DEF files
  <1>8. FlattenSeq(files) \in Seq(Uris) /\ ToSet(FlattenSeq(files)) = UNION {ToSet(files[i]) : i \in 1 .. N}
    BY <1>1, <1>5, <1>6, <1>7, FlattenedSet
  <1>9. ToSet(Distinct(FlattenSeq(files))) = ToSet(FlattenSeq(files))
    BY <1>8, DistinctSet
  <1>10. UNION {ToSet(files[i]) : i \in 1 .. N} = Uris
    <2>1. UNION {ToSet(files[i]) : i \in 1 .. N} = {paths[i].uri : i \in 1 .. N}
      <3>1. \A x : x \in UNION {ToSet(files[i]) : i \in 1 .. N} <=> \E i \in 1 .. N : x \in ToSet(files[i])
        OBVIOUS
      <3>2. \A x : \A i \in 1 .. N : x \in ToSet(files[i]) <=> x = paths[i].uri
        BY <1>7
      <3>3. QED
        BY <3>1, <3>2
    <2>2. Uris = {paths[i].uri : i \in 1 .. N}
      BY <1>2 DEF Uris
    <2>3. QED
      BY <2>1, <2>2
  <1>11. ExpandSourcePaths(paths) = Distinct(FlattenSeq(files))
    BY DEF ExpandSourcePaths, ExpandPaths, files, uris
  <1>12. QED
    BY <1>8, <1>9, <1>10, <1>11 DEF Uris

(* The rerun file has a path for each feature with a scenario that has     *)
(* failed, or an empty line.                                               *)
FailedUris == {Pickles[id[1]].uri : id \in FailedAttempts}

FailedLines(uri) == {Line[id[1]] : id \in {x \in FailedAttempts : Pickles[x[1]].uri = uri}}

LEMMA RerunFileTells ==
    ASSUME IInv
    PROVE  LET file == RerunFile
           IN \E S : /\ file \in Seq(S) /\ file # <<>>
                     /\ {path \in ToSet(file) : path.uri # ""}
                            = {[uri |-> uri, lines |-> FailedLines(uri)] : uri \in FailedUris}
  <1> DEFINE Told == {[uri |-> uri, lines |-> FailedLines(uri)] : uri \in FailedUris}
             Path == [uri \in FailedUris |-> [uri |-> uri, lines |-> FailedLines(uri)]]
             map == GetFailureMap
             R == IF map = << >> THEN {[uri |-> "", lines |-> {}]}
                  ELSE {[uri |-> uri, lines |-> map[uri]] : uri \in DOMAIN map}
  <1>1. DOMAIN map = FailedUris /\ \A uri \in FailedUris : map[uri] = FailedLines(uri)
    BY DEF GetFailureMap, FailedUris, FailedLines, PickleOf
  <1>2. \A id \in FailedAttempts : id[1] \in TestCases
    BY AttemptOfData DEF FailedAttempts, LastAttempts
  <1>3. \A uri \in FailedUris : uri # ""
    BY <1>2, UrisAssumption DEF FailedUris
  <1>4. RerunFile = SetToSeq(R)
    BY DEF RerunFile
  <1> HIDE DEF map
  <1>5. IsFiniteSet(FailedUris)
    <2> DEFINE N == Len(Pickles)
               f == [i \in 1 .. N |-> Pickles[i].uri]
    <2>1. N \in Nat /\ TestCases = 1 .. N
      BY ReportsAssumption, PicklesAssumption
    <2>2. IsFiniteSet(1 .. N)
      BY <2>1, FS_Interval, 1 \in Int
    <2>3. f \in Surjection(1 .. N, {Pickles[i].uri : i \in 1 .. N})
      BY DEF Surjection
    <2>4. IsFiniteSet({Pickles[i].uri : i \in 1 .. N})
      BY <2>2, <2>3, FS_Surjection
    <2>5. FailedUris \in SUBSET {Pickles[i].uri : i \in 1 .. N}
      BY <1>2, <2>1 DEF FailedUris
    <2>6. QED
      BY <2>4, <2>5, FS_Subset
  <1>6. IsFiniteSet(Told)
    <2>1. Path \in Surjection(FailedUris, Told)
      BY DEF Surjection
    <2>2. QED
      BY <1>5, <2>1, FS_Surjection
  <1>7. map = << >> => FailedUris = {}
    BY <1>1
  <1>8. map # << >> => FailedUris # {}
    <2>1. map = [uri \in FailedUris |-> FailedLines(uri)]
      BY DEF map, GetFailureMap, FailedUris, FailedLines, PickleOf
    <2>2. QED
      BY <2>1
  <1>9. map # << >> => R = Told
    BY <1>1
  <1>10. IsFiniteSet(R) /\ R # {} /\ {path \in R : path.uri # ""} = Told
    <2>1. CASE map = << >>
      <3>1. R = {[uri |-> "", lines |-> {}]}
        BY <2>1
      <3>2. Told = {}
        BY <1>7, <2>1
      <3> HIDE DEF R, Told
      <3>3. IsFiniteSet(R)
        BY <3>1, FS_Singleton
      <3>4. {path \in R : path.uri # ""} = {}
        <4>1. [uri |-> "", lines |-> {}].uri = ""
          OBVIOUS
        <4>2. QED
          BY <3>1, <4>1
      <3>5. QED
        BY <3>1, <3>2, <3>3, <3>4
    <2>2. CASE map # << >>
      <3>1. Told # {} /\ \A path \in Told : path.uri # ""
        <4>1. \A uri : [uri |-> uri, lines |-> FailedLines(uri)].uri = uri
          OBVIOUS
        <4>2. \A path \in Told : path.uri # ""
          BY <1>3, <4>1
        <4>3. PICK uri \in FailedUris : TRUE
          BY <1>8, <2>2
        <4>4. [uri |-> uri, lines |-> FailedLines(uri)] \in Told
          OBVIOUS
        <4>5. QED
          BY <4>2, <4>4
      <3> HIDE DEF R, Told
      <3>2. QED
        BY <1>6, <1>9, <2>2, <3>1
    <2>3. QED
      BY <2>1, <2>2
  <1> HIDE DEF R
  <1>11. SetToSeq(R) \in Seq(R) /\ ToSet(SetToSeq(R)) = R
    BY <1>10, SetAsSequence
  <1>12. SetToSeq(R) # <<>>
    <2>1. ToSet(<<>>) = {}
      BY DEF ToSet
    <2>2. QED
      BY <1>10, <1>11, <2>1
  <1> HIDE DEF Told
  <1>13. QED
    BY <1>4, <1>10, <1>11, <1>12 DEF Told

(* The lines that are wanted of the files that the rerun file names.       *)
LEMMA LinesOfRerun ==
    ASSUME NEW paths,
           ToSet(paths) = {[uri |-> uri, lines |-> FailedLines(uri)] : uri \in FailedUris}
    PROVE  LET lines == GetFeatureUriToLinesMapping(paths)
           IN DOMAIN lines = FailedUris /\ \A uri \in FailedUris : lines[uri] = FailedLines(uri)
  <1> DEFINE lines == GetFeatureUriToLinesMapping(paths)
             Path(uri) == [uri |-> uri, lines |-> FailedLines(uri)]
             ofLines == {path \in ToSet(paths) : path.lines # {}}
  <1>1. \A uri : Path(uri).uri = uri /\ Path(uri).lines = FailedLines(uri)
    OBVIOUS
  <1>2. \A uri \in FailedUris : FailedLines(uri) # {}
    BY DEF FailedUris, FailedLines
  <1>3. ToSet(paths) = {Path(uri) : uri \in FailedUris}
    OBVIOUS
  <1> HIDE DEF Path
  <1>4. ofLines = {Path(uri) : uri \in FailedUris}
    BY <1>1, <1>2, <1>3
  <1>5. lines = [uri \in {path.uri : path \in ofLines} |->
                    UNION {path.lines : path \in {p \in ofLines : p.uri = uri}}]
    BY DEF GetFeatureUriToLinesMapping
  <1> HIDE DEF ofLines, lines
  <1>6. {path.uri : path \in ofLines} = FailedUris
    BY <1>1, <1>4
  <1>7. ASSUME NEW uri \in FailedUris
        PROVE  UNION {path.lines : path \in {p \in ofLines : p.uri = uri}} = FailedLines(uri)
    <2>1. {p \in ofLines : p.uri = uri} = {Path(uri)}
      BY <1>1, <1>4
    <2>2. {path.lines : path \in {Path(uri)}} = {FailedLines(uri)}
      BY <1>1
    <2>3. QED
      BY <2>1, <2>2
  <1>8. QED
    BY <1>5, <1>6, <1>7 DEF lines

(* Running the rerun file runs the scenarios of its lines.                 *)
LEMMA RerunIsOfLines ==
    ASSUME IInv
    PROVE  \A pickle : pickle \in Rerun(RerunFile) <=>
               \E t \in TestCases : /\ pickle = Pickles[t] /\ Pickles[t].uri \in FailedUris
                                    /\ FailedLines(Pickles[t].uri) \cap Pickles[t].lines # {}
  <1> DEFINE file == RerunFile
             paths == GetUnexpandedSourcePaths(<<[rerun |-> file]>>)
             Path(uri) == [uri |-> uri, lines |-> FailedLines(uri)]
             lines == GetFeatureUriToLinesMapping(paths)
             filter == [lines |-> lines, names |-> {},
                        tagExpression |-> {pickle.tags : pickle \in ToSet(Pickles)}]
             Of == {t \in TestCases : Pickles[t].uri \in ToSet(ExpandSourcePaths(paths))}
             loaded == Keep(Pickles, Of)
             Selects(pickle) == /\ MatchesAnyLine(filter, pickle)
                                /\ MatchesAnyName(filter, pickle)
                                /\ MatchesAllTagExpressions(filter.tagExpression, pickle)
             kept == {i \in DOMAIN loaded : Selects(loaded[i])}
  <1>1. PICK S : /\ file \in Seq(S) /\ file # <<>>
                 /\ {path \in ToSet(file) : path.uri # ""} = {Path(uri) : uri \in FailedUris}
    BY RerunFileTells
  <1> HIDE DEF file
  <1>2. paths \in Seq(S) /\ ToSet(paths) = {Path(uri) : uri \in FailedUris}
    <2>1. paths \in Seq(S) /\ ToSet(paths) = {path \in ToSet(file) : path.uri # ""}
      BY <1>1, RerunPaths
    <2>2. QED
      BY <1>1, <2>1
  <1> HIDE DEF paths
  <1>3. DOMAIN lines = FailedUris /\ \A uri \in FailedUris : lines[uri] = FailedLines(uri)
    BY <1>2, LinesOfRerun
  <1>4. \A uri : Path(uri).uri = uri
    OBVIOUS
  <1> HIDE DEF lines, Path
  <1>5. \A uri \in FailedUris : Glob[uri] = <<uri>>
    <2>1. \A id \in FailedAttempts : id[1] \in TestCases
      BY AttemptOfData DEF FailedAttempts, LastAttempts
    <2>2. QED
      BY <2>1, UrisAssumption DEF FailedUris
  <1>6. ToSet(ExpandSourcePaths(paths)) = FailedUris
    <2>1. \A path \in ToSet(paths) : Glob[path.uri] = <<path.uri>>
      BY <1>2, <1>4, <1>5
    <2>2. ToSet(ExpandSourcePaths(paths)) = {path.uri : path \in ToSet(paths)}
      BY <1>2, <2>1, FilesOfPaths
    <2>3. {path.uri : path \in ToSet(paths)} = FailedUris
      BY <1>2, <1>4
    <2>4. QED
      BY <2>2, <2>3
  <1>7. Of = {t \in TestCases : Pickles[t].uri \in FailedUris}
    BY <1>6
  <1>8. loaded \in Seq(ToSet(Pickles)) /\ ToSet(loaded) = {Pickles[t] : t \in Of}
    <2>1. Pickles \in Seq(ToSet(Pickles)) /\ TestCases = DOMAIN Pickles
      BY PicklesAssumption, ReportsAssumption
    <2>2. DOMAIN Pickles = 1 .. Len(Pickles)
      BY <2>1
    <2>3. Of \in SUBSET (1 .. Len(Pickles))
      BY <2>1, <2>2
    <2> HIDE DEF Of
    <2>4. QED
      BY <2>1, <2>3, KeepIsPart
  <1> HIDE DEF loaded, Of
  <1>9. ToSet(FilterPickles(filter, loaded)) = {loaded[i] : i \in kept}
    <2>1. FilterPickles(filter, loaded) = Keep(loaded, kept)
      BY DEF FilterPickles
    <2>2. kept \in SUBSET (1 .. Len(loaded))
      <3>1. DOMAIN loaded = 1 .. Len(loaded)
        BY <1>8
      <3>2. kept \subseteq DOMAIN loaded
        OBVIOUS
      <3>3. QED
        BY <3>1, <3>2
    <2> HIDE DEF kept, filter
    <2>3. loaded \in Seq(ToSet(Pickles))
      BY <1>8
    <2>4. ToSet(Keep(loaded, kept)) = {loaded[i] : i \in kept}
      BY <2>2, <2>3, KeepIsPart
    <2>5. QED
      BY <2>1, <2>4
  <1>10. Rerun(file) = ToSet(FilterPickles(filter, loaded))
    BY DEF Rerun, paths, lines, loaded, Of
  <1>11. filter.lines = lines /\ filter.names = {}
         /\ filter.tagExpression = {pickle.tags : pickle \in ToSet(Pickles)}
    OBVIOUS
  <1> HIDE DEF filter
  <1>12. \A pickle \in ToSet(Pickles) : pickle.uri \in FailedUris =>
             (Selects(pickle) <=> FailedLines(pickle.uri) \cap pickle.lines # {})
    <2> SUFFICES ASSUME NEW pickle \in ToSet(Pickles), pickle.uri \in FailedUris
                 PROVE  Selects(pickle) <=> FailedLines(pickle.uri) \cap pickle.lines # {}
      OBVIOUS
    <2>1. MatchesAnyLine(filter, pickle) <=> FailedLines(pickle.uri) \cap pickle.lines # {}
      BY <1>3, <1>11 DEF MatchesAnyLine
    <2>2. MatchesAnyName(filter, pickle)
      BY <1>11 DEF MatchesAnyName
    <2>3. MatchesAllTagExpressions(filter.tagExpression, pickle)
      BY <1>11 DEF MatchesAllTagExpressions
    <2>4. QED
      BY <2>1, <2>2, <2>3
  <1> HIDE DEF Selects
  <1>13. \A pickle : pickle \in Rerun(file) <=> pickle \in ToSet(loaded) /\ Selects(pickle)
    <2>1. ToSet(loaded) = {loaded[i] : i \in DOMAIN loaded}
      BY DEF ToSet
    <2>2. {loaded[i] : i \in kept} = {pickle \in ToSet(loaded) : Selects(pickle)}
      BY <2>1
    <2>3. QED
      BY <1>9, <1>10, <2>2
  <1>14. \A t \in TestCases : Pickles[t] \in ToSet(Pickles)
    BY ReportsAssumption DEF ToSet
  <1>15. ASSUME NEW pickle
         PROVE  pickle \in Rerun(file) <=>
                    \E t \in TestCases : /\ pickle = Pickles[t] /\ Pickles[t].uri \in FailedUris
                                         /\ FailedLines(Pickles[t].uri) \cap Pickles[t].lines # {}
    <2>1. pickle \in ToSet(loaded) <=> \E t \in TestCases : pickle = Pickles[t] /\ Pickles[t].uri \in FailedUris
      BY <1>7, <1>8
    <2>2. \A t \in TestCases : Pickles[t].uri \in FailedUris =>
              (Selects(Pickles[t]) <=> FailedLines(Pickles[t].uri) \cap Pickles[t].lines # {})
      BY <1>12, <1>14
    <2>3. QED
      BY <1>13, <2>1, <2>2
  <1>16. QED
    BY <1>15 DEF file

(* The last attempt at a case with test steps counts as failed unless it   *)
(* has passed.                                                             *)
LEMMA FailedOfCase ==
    ASSUME IInv, NEW t \in TestCases, HasTestStep(t)
    PROVE  (\E id \in FailedAttempts : id[1] = t) <=>
               /\ t \in Started
               /\ Open(t) \/ (~Busy(t) /\ RunnerStatus(Current(t).results) # "PASSED")
  <1> DEFINE n == Len(attempts[t])
  <1>1. \A id \in LastAttempts : id[1] = t => t \in Started /\ ~LeftBetween(t) /\ id = LastOf(t)
    BY LastOfCase
  <1>2. ASSUME t \in Started, ~LeftBetween(t)
        PROVE  /\ LastOf(t) \in LastAttempts /\ LastOf(t)[1] = t
               /\ data[LastOf(t)].worst # "PASSED" <=>
                      Open(t) \/ (~Busy(t) /\ RunnerStatus(Current(t).results) # "PASSED")
    <2>1. LastOf(t) \in LastAttempts /\ n \in DOMAIN attempts[t] /\ Current(t) = attempts[t][n]
      BY <1>2, LastOfCase
    <2>2. LastOf(t) = <<t, n>> /\ LastOf(t)[1] = t
      BY DEF LastOf
    <2>3. attempts[t] # <<>>
      BY <1>2 DEF Started
    <2>4. CASE Current(t).state = "open"
      <3>1. data[<<t, n>>].worst = "UNKNOWN"
        BY <2>1, <2>4, DataOfAttempt
      <3>2. QED
        BY <2>1, <2>2, <2>3, <2>4, <3>1 DEF Open
    <2>5. CASE Current(t).state # "open"
      <3>1. ~Busy(t) /\ ~Open(t)
        BY <1>2, <2>5 DEF LeftBetween, Open
      <3>2. DOMAIN attempts[t][n].results = DOMAIN TestStepsOf[t]
        BY <2>1, <2>5, WorstOfAttempt
      <3>3. TestStepsOf[t] # <<>> /\ TestStepsOf[t] \in Seq(ToSet(TestStepsOf[t]))
        BY EventDataAssumption DEF HasTestStep
      <3>4. 1 \in DOMAIN attempts[t][n].results
        BY <3>2, <3>3
      <3>5. attempts[t][n].results # <<>>
        BY <3>4
      <3>6. data[<<t, n>>].worst = RunnerStatus(attempts[t][n].results)
        BY <2>1, <2>5, <3>5, WorstOfAttempt
      <3>7. QED
        BY <2>1, <2>2, <3>1, <3>6
    <2>6. QED
      BY <2>4, <2>5
  <1>3. Open(t) \/ ~Busy(t) => ~LeftBetween(t)
    BY DEF LeftBetween
  <1>4. QED
    BY <1>1, <1>2, <1>3 DEF FailedAttempts

(* Rerunning what is in the rerun file runs what has not passed.           *)
LEMMA RerunHolds ==
    ASSUME IInv, Printed
    PROVE  RerunRoundTrip
  <1>1. output.rerun = RerunFile
    BY DEF IInv, PrintedAtTheEnd
  <1>2. \A t, u \in TestCases : Pickles[t] = Pickles[u] => t = u
    BY PicklesAssumption
  <1>3. ASSUME NEW t \in TestCases
        PROVE  Pickles[t] \in Rerun(RerunFile) <=> \E id \in FailedAttempts : id[1] = t
    <2>1. Pickles[t] \in Rerun(RerunFile) <=>
              Pickles[t].uri \in FailedUris /\ FailedLines(Pickles[t].uri) \cap Pickles[t].lines # {}
      BY <1>2, RerunIsOfLines
    <2>2. \A id \in FailedAttempts : id[1] \in TestCases
      BY AttemptOfData DEF FailedAttempts, LastAttempts
    <2>3. \A u \in TestCases : Pickles[u].uri = Pickles[t].uri => (Line[u] \in Pickles[t].lines <=> t = u)
      BY PicklesAssumption
    <2>4. FailedLines(Pickles[t].uri) \cap Pickles[t].lines # {} <=> \E id \in FailedAttempts : id[1] = t
      <3>1. FailedLines(Pickles[t].uri) \cap Pickles[t].lines # {} <=>
                \E id \in FailedAttempts : Pickles[id[1]].uri = Pickles[t].uri /\ Line[id[1]] \in Pickles[t].lines
        BY DEF FailedLines
      <3>2. QED
        BY <2>2, <2>3, <3>1
    <2>5. (\E id \in FailedAttempts : id[1] = t) => Pickles[t].uri \in FailedUris
      BY DEF FailedUris
    <2>6. QED
      BY <2>1, <2>4, <2>5
  <1>4. QED
    BY <1>1, <1>3, FailedOfCase DEF RerunRoundTrip

(* A run of the rerun file runs just what has not passed of the scenarios  *)
(* that were started and have test steps, the one whose worker was lost in *)
(* the middle included.                                                    *)
THEOREM RerunRunsWhatFailed == Spec => []RerunRoundTrip
  <1>1. IInv => RerunRoundTrip
    BY RerunHolds DEF RerunRoundTrip
  <1>2. QED
    BY <1>1, Invariance, PTL


-----------------------------------------------------------------------------
(* Tables. *)

(* A table of its rows: as many rows, and as many cells in each.           *)
IsTableOf(table, m, n) ==
    /\ m \in Nat \ {0} /\ n \in Nat \ {0}
    /\ DOMAIN table.rows = 1 .. m /\ Len(table.rows) = m
    /\ \A j \in 1 .. m : DOMAIN table.rows[j] = 1 .. n /\ Len(table.rows[j]) = n
    /\ Head(table.rows) = table.rows[1]
    /\ ToSet(table.rows) = {table.rows[j] : j \in 1 .. m}

LEMMA TableIs ==
    ASSUME NEW table \in Tables
    PROVE  /\ IsTableOf(table, Len(table.rows), Len(Head(table.rows)))
           /\ table.rows \in Seq(ToSet(table.rows))
           /\ \A j \in DOMAIN table.rows : table.rows[j] \in Seq(ToSet(table.rows[j]))
           /\ \A j \in DOMAIN table.rows : \A k \in DOMAIN table.rows[j] :
                  table.rows[j][k] \in Seq(ToSet(table.rows[j][k]))
           /\ table = [kind |-> "dataTable", rows |-> table.rows]
  <1> DEFINE rows == table.rows
             m == Len(rows)
             n == Len(Head(rows))
  <1>1. /\ table = [kind |-> "dataTable", rows |-> rows]
        /\ rows \in Seq(ToSet(rows)) /\ rows # <<>>
        /\ \A row \in ToSet(rows) : /\ row \in Seq(ToSet(row)) /\ row # <<>> /\ Len(row) = n
                                    /\ \A cell \in ToSet(row) : cell \in Seq(ToSet(cell))
    BY TablesAssumption
  <1> HIDE DEF rows
  <1>2. m \in Nat \ {0} /\ DOMAIN rows = 1 .. m /\ Head(rows) = rows[1]
    BY <1>1
  <1>3. ToSet(rows) = {rows[j] : j \in 1 .. m}
    BY <1>2 DEF ToSet
  <1>4. ASSUME NEW j \in 1 .. m
        PROVE  /\ rows[j] \in Seq(ToSet(rows[j])) /\ DOMAIN rows[j] = 1 .. n /\ Len(rows[j]) = n
               /\ n \in Nat \ {0}
               /\ \A k \in DOMAIN rows[j] : rows[j][k] \in Seq(ToSet(rows[j][k]))
    <2>1. rows[j] \in ToSet(rows)
      BY <1>3
    <2>2. rows[j] \in Seq(ToSet(rows[j])) /\ rows[j] # <<>> /\ Len(rows[j]) = n
          /\ \A cell \in ToSet(rows[j]) : cell \in Seq(ToSet(cell))
      BY <1>1, <2>1
    <2>3. DOMAIN rows[j] = 1 .. n /\ n \in Nat \ {0}
      BY <2>2
    <2>4. \A k \in DOMAIN rows[j] : rows[j][k] \in ToSet(rows[j])
      BY DEF ToSet
    <2>5. QED
      BY <2>2, <2>3, <2>4
  <1>5. n \in Nat \ {0}
    BY <1>2, <1>4
  <1>6. IsTableOf(table, m, n)
    BY <1>2, <1>3, <1>4, <1>5 DEF IsTableOf, rows
  <1>7. QED
    BY <1>1, <1>2, <1>4, <1>6 DEF rows

(* The columns of a table are the rows of another.                         *)
IsTransposed(other, table, m, n) ==
    /\ other = [kind |-> "dataTable", rows |-> other.rows]
    /\ other.rows = [i \in 1 .. n |-> other.rows[i]]
    /\ \A i \in 1 .. n : other.rows[i] = [j \in 1 .. m |-> table.rows[j][i]]
    /\ IsTableOf(other, n, m)

LEMMA Transposed ==
    ASSUME NEW table, NEW m, NEW n, IsTableOf(table, m, n),
           table = [kind |-> "dataTable", rows |-> table.rows]
    PROVE  IsTransposed(Transpose(table), table, m, n)
  <1> DEFINE rows == table.rows
             columns == [i \in 1 .. n |-> Column(table, i)]
             other == Transpose(table)
  <1>1. /\ m \in Nat \ {0} /\ n \in Nat \ {0} /\ DOMAIN rows = 1 .. m
        /\ Head(rows) = rows[1] /\ DOMAIN rows[1] = 1 .. n
    BY DEF IsTableOf
  <1>2. columns = [i \in DOMAIN Head(rows) |-> Column(table, i)]
    BY <1>1
  <1>3. other = [table EXCEPT !.rows = columns]
    BY <1>2 DEF Transpose
  <1>4. \A x : [table EXCEPT !.rows = x] = [kind |-> "dataTable", rows |-> x]
    <2>1. PICK r : table = [kind |-> "dataTable", rows |-> r]
      OBVIOUS
    <2> HIDE DEF rows, columns, other
    <2>2. QED
      BY <2>1
  <1>5. \A i \in 1 .. n : columns[i] = [j \in 1 .. m |-> rows[j][i]]
    BY <1>1 DEF Column
  <1> HIDE DEF columns, other
  <1>6. other = [kind |-> "dataTable", rows |-> columns]
    BY <1>3, <1>4
  <1>7. other.rows = columns
    BY <1>6
  <1>8. DOMAIN columns = 1 .. n /\ Len(columns) = n /\ Head(columns) = columns[1]
        /\ ToSet(columns) = {columns[i] : i \in 1 .. n}
    <2>1. DOMAIN columns = 1 .. n
      BY DEF columns
    <2>2. columns \in Seq({columns[i] : i \in 1 .. n})
      <3>1. columns = [i \in 1 .. n |-> columns[i]]
        BY DEF columns
      <3>2. \A i \in 1 .. n : columns[i] \in {columns[k] : k \in 1 .. n}
        OBVIOUS
      <3>3. QED
        BY <1>1, <3>1, <3>2
    <2>3. Len(columns) = n
      BY <1>1, <2>1, <2>2
    <2>4. Head(columns) = columns[1]
      BY <1>1, <2>1, <2>2
    <2>5. QED
      BY <2>1, <2>3, <2>4 DEF ToSet
  <1>9. \A i \in 1 .. n : DOMAIN columns[i] = 1 .. m /\ Len(columns[i]) = m
    <2> SUFFICES ASSUME NEW i \in 1 .. n
                 PROVE  DOMAIN columns[i] = 1 .. m /\ Len(columns[i]) = m
      OBVIOUS
    <2>1. columns[i] = [j \in 1 .. m |-> rows[j][i]]
      BY <1>5
    <2>2. QED
      BY <1>1, <2>1
  <1>10. IsTableOf(other, n, m)
    BY <1>1, <1>7, <1>8, <1>9 DEF IsTableOf
  <1>11. columns = [i \in 1 .. n |-> columns[i]]
    BY DEF columns
  <1>12. IsTransposed(other, table, m, n)
    BY <1>5, <1>6, <1>7, <1>10, <1>11 DEF IsTransposed
  <1>13. QED
    BY <1>12 DEF other

(* A table that is transposed twice is as it was.                          *)
LEMMA TransposedTwice ==
    ASSUME NEW table \in Tables
    PROVE  Transpose(Transpose(table)) = table
  <1> DEFINE m == Len(table.rows)
             n == Len(Head(table.rows))
             other == Transpose(table)
             again == Transpose(other)
  <1>0. IsTableOf(table, m, n) /\ table = [kind |-> "dataTable", rows |-> table.rows]
    BY TableIs
  <1>1. /\ table.rows \in Seq(ToSet(table.rows))
        /\ \A j \in DOMAIN table.rows : table.rows[j] \in Seq(ToSet(table.rows[j]))
    BY TableIs
  <1>2. PICK rows : rows = table.rows
    OBVIOUS
  <1> HIDE DEF m, n, other, again
  <1>3. IsTransposed(other, table, m, n)
    BY <1>0, Transposed DEF other
  <1>4. /\ other = [kind |-> "dataTable", rows |-> other.rows]
        /\ \A i \in 1 .. n : other.rows[i] = [j \in 1 .. m |-> table.rows[j][i]]
        /\ IsTableOf(other, n, m)
    BY <1>3 DEF IsTransposed
  <1>9. IsTransposed(again, other, n, m)
    BY <1>4, Transposed DEF again
  <1>10. /\ again = [kind |-> "dataTable", rows |-> again.rows]
         /\ again.rows = [j \in 1 .. m |-> again.rows[j]]
         /\ \A j \in 1 .. m : again.rows[j] = [i \in 1 .. n |-> other.rows[i][j]]
    BY <1>9 DEF IsTransposed
  <1>5. DOMAIN rows = 1 .. m /\ \A j \in 1 .. m : DOMAIN rows[j] = 1 .. n
    BY <1>0, <1>2 DEF IsTableOf
  <1>6. ASSUME NEW j \in 1 .. m
        PROVE  again.rows[j] = rows[j]
    <2>1. again.rows[j] = [i \in 1 .. n |-> other.rows[i][j]]
      BY <1>10
    <2>2. \A i \in 1 .. n : other.rows[i][j] = rows[j][i]
      BY <1>2, <1>4
    <2>3. PICK row : row = rows[j]
      OBVIOUS
    <2>4. row = [i \in 1 .. n |-> row[i]]
      <3>1. row \in Seq(ToSet(row)) /\ DOMAIN row = 1 .. n
        BY <1>1, <1>2, <1>5, <2>3
      <3>2. QED
        BY <3>1
    <2>5. QED
      BY <2>1, <2>2, <2>3, <2>4
  <1>7. again.rows = rows
    <2>1. rows \in Seq(ToSet(rows))
      BY <1>1, <1>2
    <2>2. rows = [j \in 1 .. m |-> rows[j]]
      BY <1>5, <2>1
    <2>3. again.rows = [j \in 1 .. m |-> again.rows[j]]
      BY <1>10
    <2>4. QED
      BY <1>6, <2>2, <2>3
  <1>8. QED
    BY <1>0, <1>2, <1>7, <1>10 DEF again, other

(* The row of an object: a value of each key, the one of its last column.  *)
LEMMA HashTells ==
    ASSUME NEW keys, NEW values, NEW n \in Nat, DOMAIN keys = 1 .. n, NEW k \in 1 .. n
    PROVE  HashOf(keys, values)[keys[k]] = values[k]
               \/ \E later \in k + 1 .. n : keys[later] = keys[k]
  <1> DEFINE S == {i \in DOMAIN keys : keys[i] = keys[k]}
  <1>1. keys[k] \in ToSet(keys)
    BY DEF ToSet
  <1>2. HashOf(keys, values)[keys[k]] = values[Max(S)]
    BY <1>1 DEF HashOf
  <1>3. k \in S /\ S \subseteq 1 .. n
    OBVIOUS
  <1>4. Max(S) \in S /\ \A i \in S : i <= Max(S)
    <2> HIDE DEF S
    <2>1. S \in SUBSET (1 .. n) /\ S # {}
      BY <1>3
    <2>2. QED
      BY <2>1, GreatestOfNaturals
  <1>5. PICK i \in S : i = Max(S) /\ k <= i
    BY <1>3, <1>4
  <1>6. CASE i = k
    BY <1>2, <1>5, <1>6
  <1>7. CASE i # k
    <2>1. i \in k + 1 .. n /\ keys[i] = keys[k]
      BY <1>3, <1>5, <1>7
    <2>2. QED
      BY <2>1
  <1>8. QED
    BY <1>6, <1>7

LEMMA HashesTell ==
    ASSUME NEW table \in Tables, NEW j \in DOMAIN DataRows(table), NEW k \in DOMAIN Head(table.rows)
    PROVE  Hashes(table)[j][Head(table.rows)[k]] = DataRows(table)[j][k]
               \/ \E later \in k + 1 .. Len(Head(table.rows)) :
                      Head(table.rows)[later] = Head(table.rows)[k]
  <1> DEFINE m == Len(table.rows)
             n == Len(Head(table.rows))
             keys == Head(table.rows)
             values == DataRows(table)[j]
  <1>1. IsTableOf(table, m, n)
    BY TableIs
  <1>2. n \in Nat /\ DOMAIN keys = 1 .. n
    BY <1>1 DEF IsTableOf
  <1>3. Hashes(table)[j] = HashOf(keys, values)
    BY DEF Hashes
  <1> HIDE DEF keys, values, n
  <1>4. k \in 1 .. n
    BY <1>2 DEF keys
  <1>5. HashOf(keys, values)[keys[k]] = values[k] \/ \E later \in k + 1 .. n : keys[later] = keys[k]
    BY <1>2, <1>4, HashTells
  <1>6. QED
    BY <1>3, <1>5 DEF keys, values, n

(* The pairs of a table of two columns are the row of its columns.         *)
LEMMA PairsAreColumns ==
    ASSUME NEW table \in Tables
    PROVE  RowsHash(table) =
               IF HasTwoColumns(table) THEN <<Head(Hashes(Transpose(table)))>> ELSE <<>>
  <1> DEFINE m == Len(table.rows)
             n == Len(Head(table.rows))
             other == Transpose(table)
             first == Column(table, 1)
             second == Column(table, 2)
  <1>1. IsTableOf(table, m, n) /\ table = [kind |-> "dataTable", rows |-> table.rows]
    BY TableIs
  <1>2. \A row \in ToSet(table.rows) : Len(row) \in Nat
    BY <1>1 DEF IsTableOf
  <1>3. CASE ~HasTwoColumns(table)
    BY <1>3 DEF HasTwoColumns, RowsHash
  <1>4. CASE HasTwoColumns(table)
    <2>1. n = 2
      BY <1>1, <1>4 DEF HasTwoColumns, IsTableOf
    <2>2. RowsHash(table) = <<HashOf(first, second)>>
      BY <1>4 DEF HasTwoColumns, RowsHash
    <2> HIDE DEF other, m, n
    <2>3. IsTransposed(other, table, m, n)
      BY <1>1, Transposed DEF other
    <2>4. /\ other.rows[1] = [j \in 1 .. m |-> table.rows[j][1]]
          /\ other.rows[2] = [j \in 1 .. m |-> table.rows[j][2]]
          /\ Head(other.rows) = other.rows[1]
          /\ DOMAIN other.rows = 1 .. 2
          /\ other.rows = [i \in 1 .. 2 |-> other.rows[i]]
      BY <2>1, <2>3 DEF IsTransposed, IsTableOf
    <2>5. DOMAIN table.rows = 1 .. m
      BY <1>1 DEF IsTableOf
    <2>6. other.rows[1] = first /\ other.rows[2] = second
      BY <2>4, <2>5 DEF Column
    <2> HIDE DEF first, second
    <2>7. DataRows(other) = <<second>>
      <3>1. PICK rows : rows = other.rows
        OBVIOUS
      <3>2. rows = <<first, second>>
        BY <2>4, <2>6, <3>1
      <3>3. Tail(rows) = <<second>>
        BY <3>2
      <3>4. QED
        BY <3>1, <3>3 DEF DataRows
    <2>8. Hashes(other) = [i \in 1 .. 1 |-> HashOf(first, <<second>>[i])]
      BY <2>4, <2>6, <2>7 DEF Hashes
    <2>9. Head(Hashes(other)) = HashOf(first, second)
      <3>1. PICK h : h = HashOf(first, second)
        OBVIOUS
      <3>2. Hashes(other) = [i \in 1 .. 1 |-> h]
        BY <2>8, <3>1
      <3>3. [i \in 1 .. 1 |-> h] = <<h>>
        OBVIOUS
      <3>4. QED
        BY <3>1, <3>2, <3>3
    <2>10. QED
      BY <1>4, <2>2, <2>9 DEF other
  <1>5. QED
    BY <1>3, <1>4

LEMMA TablesAreRead == StepsReadTables
  BY TransposedTwice, HashesTell, PairsAreColumns DEF StepsReadTables

-----------------------------------------------------------------------------
(* What is printed for a character of a cell.                              *)
Escaped(c) ==
    CASE c = Backslash -> <<Backslash, Backslash>>
      [] c = Newline -> <<Backslash, "n">>
      [] OTHER -> <<c>>

LEMMA CharactersEscaped ==
    /\ Escaped(Backslash) = <<Backslash, Backslash>>
    /\ Escaped(Newline) = <<Backslash, "n">>
    /\ \A c : c # Backslash /\ c # Newline => Escaped(c) = <<c>>
    /\ Backslash # Newline /\ Backslash # "n" /\ Newline # "n"
  <1>1. Backslash # Newline /\ Backslash # "n" /\ Newline # "n"
    BY DEF Backslash, Newline
  <1>2. \A c : c # Backslash /\ c # Newline => Escaped(c) = <<c>>
    BY DEF Escaped
  <1>3. QED
    BY <1>1, <1>2 DEF Escaped

(* What is printed for a character comes behind the first o of the whole.  *)
PrintedBehind(whole, o, c) == \A k \in 1 .. Len(Escaped(c)) : whole[o + k] = Escaped(c)[k]

(* Of two characters that are printed there one is the other.              *)
LEMMA EscapedApart ==
    ASSUME NEW c, NEW d, NEW whole, NEW o \in Nat,
           PrintedBehind(whole, o, c), PrintedBehind(whole, o, d)
    PROVE  c = d
  <1>1. /\ Len(Escaped(Backslash)) = 2 /\ Escaped(Backslash)[1] = Backslash /\ Escaped(Backslash)[2] = Backslash
        /\ Len(Escaped(Newline)) = 2 /\ Escaped(Newline)[1] = Backslash /\ Escaped(Newline)[2] = "n"
        /\ \A x : x # Backslash /\ x # Newline => Len(Escaped(x)) = 1 /\ Escaped(x)[1] = x
    BY CharactersEscaped
  <1>2. whole[o + 1] = Escaped(c)[1] /\ whole[o + 1] = Escaped(d)[1]
    BY <1>1 DEF PrintedBehind
  <1>3. CASE c # Backslash /\ c # Newline
    BY <1>1, <1>2, <1>3, CharactersEscaped
  <1>4. CASE d # Backslash /\ d # Newline
    BY <1>1, <1>2, <1>4, CharactersEscaped
  <1>5. CASE c \in {Backslash, Newline} /\ d \in {Backslash, Newline}
    <2>1. whole[o + 2] = Escaped(c)[2] /\ whole[o + 2] = Escaped(d)[2]
      BY <1>1, <1>5 DEF PrintedBehind
    <2>2. Escaped(c)[2] = Escaped(d)[2]
      BY <2>1
    <2>3. Backslash # "n"
      BY CharactersEscaped
    <2>4. Escaped(Backslash)[2] # Escaped(Newline)[2]
      BY <1>1, <2>3, Zenon
    <2>5. CASE c = Backslash /\ d = Newline
      BY <2>2, <2>4, <2>5
    <2>6. CASE c = Newline /\ d = Backslash
      BY <2>2, <2>4, <2>6
    <2>7. QED
      BY <1>5, <2>5, <2>6
  <1>6. QED
    BY <1>3, <1>4, <1>5

(* A cell is printed as what is printed for its characters, one by one.    *)
LEMMA CellIsEscaped ==
    ASSUME NEW C, NEW cell \in Seq(C)
    PROVE  /\ EscapeCell(cell) \in Seq(C \cup {Backslash, "n"})
           /\ Newline \notin ToSet(EscapeCell(cell))
           /\ \E end : IsLaidOut(EscapeCell(cell), [i \in 1 .. Len(cell) |-> Escaped(cell[i])], Len(cell), end)
  <1> DEFINE N == Len(cell)
             s == [i \in 1 .. N |-> Escaped(cell[i])]
             D == (C \cup {Backslash, "n"}) \ {Newline}
  <1>1. EscapeCell(cell) = FlattenSeq(s)
    <2>1. DOMAIN cell = 1 .. N
      OBVIOUS
    <2>2. QED
      BY <2>1 DEF EscapeCell, Escaped
  <1>2. N \in Nat /\ \A i \in 1 .. N : cell[i] \in C
    OBVIOUS
  <1>3. \A c \in C : Escaped(c) \in Seq(D)
    <2> SUFFICES ASSUME NEW c \in C PROVE Escaped(c) \in Seq(D)
      OBVIOUS
    <2>1. Backslash \in D /\ "n" \in D
      BY CharactersEscaped
    <2>2. c # Newline => c \in D
      OBVIOUS
    <2> HIDE DEF D
    <2>3. CASE c = Backslash
      BY <2>1, <2>3, CharactersEscaped
    <2>4. CASE c = Newline
      BY <2>1, <2>4, CharactersEscaped
    <2>5. CASE c # Backslash /\ c # Newline
      <3>1. Escaped(c) = <<c>>
        BY <2>5, CharactersEscaped
      <3>2. QED
        BY <2>2, <2>5, <3>1
    <2>6. QED
      BY <2>3, <2>4, <2>5
  <1>4. \A i \in 1 .. N : s[i] \in Seq(D)
    BY <1>2, <1>3
  <1>5. DOMAIN s = 1 .. N /\ Len(s) = N
    <2>1. s \in Seq(Seq(D))
      <3>1. \A i \in 1 .. N : Escaped(cell[i]) \in Seq(D)
        BY <1>2, <1>3
      <3> HIDE DEF D
      <3>2. QED
        BY <1>2, <3>1
    <2>2. DOMAIN s = 1 .. N
      OBVIOUS
    <2> HIDE DEF s, D
    <2>3. QED
      BY <1>2, <2>1, <2>2
  <1> HIDE DEF s, D, N
  <1>6. FlattenSeq(s) \in Seq(D) /\ \E end : IsLaidOut(FlattenSeq(s), s, N, end)
    BY <1>2, <1>4, <1>5, FlattenedSet, FlattenedAt
  <1>7. EscapeCell(cell) \in Seq(C \cup {Backslash, "n"}) /\ Newline \notin ToSet(EscapeCell(cell))
    <2>1. D \subseteq C \cup {Backslash, "n"} /\ Newline \notin D
      BY DEF D
    <2>2. \A i \in DOMAIN FlattenSeq(s) : FlattenSeq(s)[i] \in D
      BY <1>6
    <2>3. QED
      BY <1>1, <1>6, <2>1, <2>2 DEF ToSet
  <1>8. QED
    BY <1>1, <1>6, <1>7 DEF s, N

(* The characters of two cells agree as far as the cells are laid out.     *)
LEMMA LaidOutAlike ==
    ASSUME NEW whole, NEW N \in Nat, NEW M \in Nat, N <= M, NEW a, NEW b, NEW end, NEW last,
           Len(whole) \in Nat,
           IsLaidOut(whole, [i \in 1 .. N |-> Escaped(a[i])], N, end),
           IsLaidOut(whole, [i \in 1 .. M |-> Escaped(b[i])], M, last)
    PROVE  N = M /\ \A i \in 1 .. N : a[i] = b[i]
  <1>0. end[0] = 0 /\ last[0] = 0
    BY DEF IsLaidOut
  <1>1. /\ end \in [0 .. N -> Nat] /\ end[0] = 0 /\ end[N] = Len(whole)
        /\ \A i \in 1 .. N : /\ end[i] = end[i - 1] + Len(Escaped(a[i]))
                             /\ \A k \in 1 .. Len(Escaped(a[i])) : whole[end[i - 1] + k] = Escaped(a[i])[k]
    BY DEF IsLaidOut
  <1>2. /\ last \in [0 .. M -> Nat] /\ last[0] = 0
        /\ \A i \in 1 .. M : /\ last[i] = last[i - 1] + Len(Escaped(b[i])) /\ last[i] <= Len(whole)
                             /\ \A k \in 1 .. Len(Escaped(b[i])) : whole[last[i - 1] + k] = Escaped(b[i])[k]
    BY DEF IsLaidOut
  <1> DEFINE Otherwise == {i \in 1 .. N : a[i] # b[i] \/ end[i] # last[i]}
  <1>3. ASSUME Otherwise # {} PROVE FALSE
    <2>1. PICK m \in Otherwise : \A i \in Otherwise : m <= i
      <3>1. Otherwise \in SUBSET Nat
        OBVIOUS
      <3> HIDE DEF Otherwise
      <3>2. QED
        BY <1>3, <3>1, LeastOfNaturals
    <2>2. m \in 1 .. N /\ m \in 1 .. M /\ (a[m] # b[m] \/ end[m] # last[m])
      OBVIOUS
    <2>3. m - 1 \in 0 .. N /\ m - 1 \in 0 .. M /\ (m - 1 = 0 \/ m - 1 \in 1 .. N)
      BY <2>2
    <2>4. end[m - 1] = last[m - 1] /\ end[m - 1] \in Nat
      <3>1. CASE m - 1 = 0
        <4>1. end[m - 1] = end[0] /\ last[m - 1] = last[0]
          BY <3>1
        <4>2. QED
          BY <1>0, <4>1
      <3>2. CASE m - 1 \in 1 .. N
        <4>1. m - 1 \notin Otherwise
          <5> SUFFICES ASSUME m - 1 \in Otherwise PROVE FALSE
            OBVIOUS
          <5> HIDE DEF Otherwise
          <5>1. m <= m - 1
            BY <2>1
          <5>2. QED
            BY <2>2, <5>1
        <4>2. QED
          BY <1>1, <2>3, <3>2, <4>1
      <3>3. end[m - 1] \in Nat
        BY <1>1, <2>3
      <3>4. QED
        BY <2>3, <3>1, <3>2, <3>3
    <2>5. a[m] = b[m]
      <3> DEFINE o == end[m - 1]
      <3>1. o \in Nat
        BY <2>4
      <3>2. PrintedBehind(whole, o, a[m])
        BY <1>1, <2>2 DEF PrintedBehind
      <3>3. PrintedBehind(whole, o, b[m])
        BY <1>2, <2>2, <2>4 DEF PrintedBehind
      <3> HIDE DEF o
      <3>4. QED
        BY <3>1, <3>2, <3>3, EscapedApart
    <2>6. end[m] = last[m]
      BY <1>1, <1>2, <2>2, <2>4, <2>5
    <2>7. QED
      BY <2>2, <2>5, <2>6
  <1>4. \A i \in 1 .. N : a[i] = b[i] /\ end[i] = last[i]
    BY <1>3
  <1>5. ASSUME N # M PROVE FALSE
    <2>1. N + 1 \in 1 .. M /\ N \in 0 .. M /\ (N + 1) - 1 = N
      BY <1>5
    <2>2. last[N] = Len(whole)
      <3>1. CASE N = 0
        BY <1>1, <1>2, <3>1
      <3>2. CASE N # 0
        BY <1>1, <1>4, <3>2
      <3>3. QED
        BY <3>1, <3>2
    <2>3. last[N + 1] = last[N] + Len(Escaped(b[N + 1])) /\ last[N + 1] <= Len(whole)
      BY <1>2, <2>1
    <2>4. \A c : Len(Escaped(c)) \in {1, 2}
      BY CharactersEscaped
    <2>5. PICK width \in {1, 2} : Len(Escaped(b[N + 1])) = width
      BY <2>4
    <2>6. Len(whole) + width <= Len(whole)
      BY <2>2, <2>3, <2>5
    <2>7. QED
      BY <2>6
  <1>6. QED
    BY <1>4, <1>5

(* No two cells are printed alike.                                         *)
LEMMA CellsApart ==
    ASSUME NEW A, NEW B, NEW a \in Seq(A), NEW b \in Seq(B), EscapeCell(a) = EscapeCell(b)
    PROVE  a = b
  <1> DEFINE whole == EscapeCell(a)
             N == Len(a)
             M == Len(b)
  <1>1. N \in Nat /\ M \in Nat
    OBVIOUS
  <1>2. Len(whole) \in Nat
    <2>1. whole \in Seq(A \cup {Backslash, "n"})
      BY CellIsEscaped
    <2>2. QED
      BY <2>1
  <1>3. PICK end : IsLaidOut(whole, [i \in 1 .. N |-> Escaped(a[i])], N, end)
    BY CellIsEscaped
  <1>4. PICK last : IsLaidOut(EscapeCell(b), [i \in 1 .. M |-> Escaped(b[i])], M, last)
    BY CellIsEscaped
  <1>5. IsLaidOut(whole, [i \in 1 .. M |-> Escaped(b[i])], M, last)
    BY <1>4
  <1> HIDE DEF whole, N, M
  <1>6. N = M /\ \A i \in 1 .. N : a[i] = b[i]
    <2>1. CASE N <= M
      BY <1>1, <1>2, <1>3, <1>5, <2>1, LaidOutAlike
    <2>2. CASE M <= N
      BY <1>1, <1>2, <1>3, <1>5, <2>2, LaidOutAlike
    <2>3. QED
      BY <1>1, <2>1, <2>2
  <1>7. DOMAIN a = 1 .. N /\ DOMAIN b = 1 .. M
    BY DEF N, M
  <1>8. a = [i \in 1 .. N |-> a[i]] /\ b = [i \in 1 .. M |-> b[i]]
    BY DEF N, M
  <1>9. QED
    BY <1>6, <1>8

(* What a test step is given and shown of its argument.                    *)
LEMMA TablesOfStep ==
    ASSUME NEW t \in TestCases, NEW i \in DOMAIN TestStepsOf[t], NEW table \in TablesOf(t, i)
    PROVE  /\ table \in Tables
           /\ IsStep(TestStepsOf[t][i])
           /\ PickleStepOf(t, i).argument = <<table>>
           /\ table.kind = "dataTable"
           /\ ShownArgument[t][i] = <<FormatDataTable(table)>>
  <1>1. table \in ToSet(ArgumentIn(t, i)) /\ table.kind = "dataTable"
    BY DEF TablesOf
  <1>2. table \in Tables
    BY DEF Tables
  <1>3. IsStep(TestStepsOf[t][i])
    BY <1>1 DEF ArgumentIn, ToSet
  <1> DEFINE argument == PickleStepOf(t, i).argument
  <1>4. ArgumentIn(t, i) = argument
    BY <1>3 DEF ArgumentIn
  <1>5. argument = <<>> \/ argument = <<argument[1]>>
    BY <1>3, PickleStepsAssumption, TestStepsAssumption DEF PickleStepOf
  <1> HIDE DEF argument
  <1>6. argument = <<table>>
    <2>1. argument # <<>>
      BY <1>1, <1>4 DEF ToSet
    <2>2. PICK a : argument = <<a>>
      BY <1>5, <2>1
    <2>3. ToSet(<<a>>) = {a}
      BY DEF ToSet
    <2>4. QED
      BY <1>1, <1>4, <2>2, <2>3
  <1>7. ShownArgument[t][i] = FormatStepArgument(argument)
    BY <1>4 DEF ShownArgument
  <1>8. FormatStepArgument(<<table>>) = <<FormatDataTable(table)>>
    <2>1. PICK printed : printed = FormatDataTable(table)
      OBVIOUS
    <2>2. FormatStepArgument(<<table>>) = [k \in 1 .. 1 |-> printed]
      <3>1. \A k \in 1 .. 1 : <<table>>[k] = table
        OBVIOUS
      <3>2. DOMAIN <<table>> = 1 .. 1
        OBVIOUS
      <3>3. QED
        BY <1>1, <2>1, <3>1, <3>2 DEF FormatStepArgument
    <2>3. [k \in 1 .. 1 |-> printed] = <<printed>>
      OBVIOUS
    <2>4. QED
      BY <2>1, <2>2, <2>3
  <1>9. QED
    BY <1>1, <1>2, <1>3, <1>6, <1>7, <1>8 DEF argument

LEMMA TableInJson ==
    ASSUME NEW table, table.kind = "dataTable", NEW gherkinStep
    PROVE  FormatStepArgumentJson(<<table>>, gherkinStep) = <<[rows |-> table.rows]>>
  <1>1. PICK said : said = [rows |-> table.rows]
    OBVIOUS
  <1>2. FormatStepArgumentJson(<<table>>, gherkinStep) = [k \in 1 .. 1 |-> said]
    <2>1. \A k \in 1 .. 1 : <<table>>[k] = table
      OBVIOUS
    <2>2. DOMAIN <<table>> = 1 .. 1
      OBVIOUS
    <2>3. QED
      BY <1>1, <2>1, <2>2 DEF FormatStepArgumentJson, Raw
  <1>3. [k \in 1 .. 1 |-> said] = <<said>>
    OBVIOUS
  <1>4. QED
    BY <1>1, <1>2, <1>3

(* A cell is printed as no other cell of the suite is, on one line.        *)
LEMMA CellIsItsOwn ==
    ASSUME NEW table \in Tables, NEW j \in DOMAIN table.rows, NEW k \in DOMAIN table.rows[j]
    PROVE  /\ FormatDataTable(table)[j][k] = EscapeCell(table.rows[j][k])
           /\ Newline \notin ToSet(EscapeCell(table.rows[j][k]))
           /\ \A cell \in DOMAIN PrintedCell :
                  EscapeCell(table.rows[j][k]) = PrintedCell[cell] => cell = table.rows[j][k]
  <1>1. FormatDataTable(table)[j][k] = EscapeCell(table.rows[j][k])
    BY DEF FormatDataTable
  <1>2. table.rows[j][k] \in Seq(ToSet(table.rows[j][k]))
    BY TableIs
  <1>3. Newline \notin ToSet(EscapeCell(table.rows[j][k]))
    BY <1>2, CellIsEscaped
  <1>4. ASSUME NEW cell \in DOMAIN PrintedCell, EscapeCell(table.rows[j][k]) = PrintedCell[cell]
        PROVE  cell = table.rows[j][k]
    <2>1. PrintedCell[cell] = EscapeCell(cell)
      BY DEF PrintedCell
    <2>2. cell \in UNION {UNION {ToSet(row) : row \in ToSet(other.rows)} : other \in Tables}
      BY DEF PrintedCell
    <2>3. PICK other \in Tables : \E row \in ToSet(other.rows) : cell \in ToSet(row)
      BY <2>2
    <2>4. PICK row \in ToSet(other.rows) : cell \in ToSet(row)
      BY <2>3
    <2>5. cell \in Seq(ToSet(cell))
      BY <2>4, TablesAssumption
    <2>6. QED
      BY <1>2, <1>4, <2>1, <2>5, CellsApart
  <1>5. QED
    BY <1>1, <1>3, <1>4

(* The tables reach the reports as they reach the step functions.          *)
LEMMA ArgumentsHold ==
    ASSUME IInv, Printed
    PROVE  ArgumentsComeThrough
  <1> DEFINE report == output.json
             issues == output.issues
  <1>1. report = JsonReport /\ issues = LogIssues("synchronous")
    BY DEF IInv, PrintedAtTheEnd
  <1>2. ASSUME NEW s \in UNION {report[uri] : uri \in DOMAIN report}, NEW i \in DOMAIN s.steps,
               NEW table \in TablesOf(s.attempt[1], i)
        PROVE  s.steps[i].arguments = <<[rows |-> table.rows]>>
    <2>1. PICK id \in LastAttempts : s = GetScenarioData(id)
      BY <1>1, <1>2, ScenariosOfReport
    <2>2. s.attempt = id /\ s.steps = [k \in DOMAIN TestStepsOf[id[1]] |-> GetStepData(id, k)]
      BY <2>1, ScenarioIsReported
    <2>3. id[1] \in TestCases /\ i \in DOMAIN TestStepsOf[id[1]] /\ table \in TablesOf(id[1], i)
      BY <1>2, <2>2, LastIsAnAttempt
    <2>4. IsStep(TestStepsOf[id[1]][i]) /\ PickleStepOf(id[1], i).argument = <<table>> /\ table.kind = "dataTable"
      BY <2>3, TablesOfStep
    <2>5. StepSays(s.steps[i], id, i)
      BY <2>2, <2>3, StepIsReported
    <2>6. s.steps[i].arguments = FormatStepArgumentJson(<<table>>, GherkinStep[id[1]][i])
      BY <2>4, <2>5 DEF StepSays
    <2>7. QED
      BY <2>4, <2>6, TableInJson
  <1>3. ASSUME IssuesParse, NEW issue \in issues, NEW t \in TestCases,
               Pickles[t].uri = issue.uri, Line[t] = issue.line, NEW i \in DOMAIN issue.steps,
               NEW table \in TablesOf(t, i)
        PROVE  \A j \in DOMAIN table.rows : \A k \in DOMAIN table.rows[j] :
                   /\ Newline \notin ToSet(issue.steps[i].argument[1][j][k])
                   /\ \A cell \in DOMAIN PrintedCell :
                          issue.steps[i].argument[1][j][k] = PrintedCell[cell] => cell = table.rows[j][k]
    <2>1. PICK id \in Failures \cup Warnings : issue = FormatIssue("synchronous", id)
      BY <1>1, <1>3 DEF LogIssues
    <2>2. id[1] \in TestCases
      BY IssuesAreTroubles, TroubledIsAnAttempt
    <2>3. /\ issue.uri = Pickles[id[1]].uri /\ issue.line = Line[id[1]]
          /\ issue.steps = [k \in DOMAIN TestStepsOf[id[1]] |-> FormatStep(ParseStep("synchronous", id, k))]
      BY <2>1 DEF FormatIssue, ParseTestCaseAttempt, PickleOf
    <2>4. t = id[1]
      BY <1>3, <2>2, <2>3, LinesDiffer
    <2>5. i \in DOMAIN TestStepsOf[t] /\ issue.steps[i] = FormatStep(ParseStep("synchronous", id, i))
      BY <1>3, <2>3, <2>4
    <2>6. issue.steps[i].argument = ShownArgument[t][i]
      BY <2>4, <2>5 DEF FormatStep, ParseStep
    <2>7. ShownArgument[t][i] = <<FormatDataTable(table)>> /\ table \in Tables
      BY <2>5, TablesOfStep
    <2>8. issue.steps[i].argument[1] = FormatDataTable(table)
      <3>1. \A x : <<x>>[1] = x
        OBVIOUS
      <3>2. QED
        BY <2>6, <2>7, <3>1
    <2>9. QED
      BY <2>7, <2>8, CellIsItsOwn
  <1>4. QED
    BY <1>2, <1>3, TablesAreRead DEF ArgumentsComeThrough

(* The rows of a table, and the hashes made of them, are those of the      *)
(* feature file; the JSON report tells them, and in an issue no two cells  *)
(* of the suite are printed alike.                                         *)
THEOREM TablesComeThrough == Spec => []ArgumentsComeThrough
  <1>1. IInv => ArgumentsComeThrough
    BY ArgumentsHold DEF ArgumentsComeThrough
  <1>2. QED
    BY <1>1, Invariance, PTL

-----------------------------------------------------------------------------
(* The use of definitions. *)

AnyOf(s) == CHOOSE x \in s : TRUE

(* The sums of f over the parts of a set.                                  *)
Sums(g, f, S) ==
    /\ g \in [SUBSET S -> Nat]
    /\ \A s \in SUBSET S : g[s] = IF s = {} THEN 0 ELSE f[AnyOf(s)] + g[s \ {AnyOf(s)}]

(* There are such sums: those of the parts with up to N elements, by N.    *)
LEMMA SumsExist ==
    ASSUME NEW S, IsFiniteSet(S), NEW f \in [S -> Nat]
    PROVE  \E g : Sums(g, f, S)
  <1> DEFINE N == Cardinality(S) + 1
             V == [SUBSET S -> Nat]
             Next1(g, s) == IF s = {} THEN 0 ELSE f[AnyOf(s)] + g[s \ {AnyOf(s)}]
             first == [s \in SUBSET S |-> 0]
             F == [p \in (1 .. N) \X V |-> [s \in SUBSET S |-> Next1(p[2], s)]]
  <1>1. N \in Nat /\ N - 1 = Cardinality(S) /\ Cardinality(S) \in Nat
    BY FS_CardinalityType
  <1>2. \A s \in SUBSET S : s # {} => AnyOf(s) \in s /\ AnyOf(s) \in S
    BY DEF AnyOf
  <1>3. first \in V
    OBVIOUS
  <1>4. \A g \in V : \A s \in SUBSET S : Next1(g, s) \in Nat
    <2> SUFFICES ASSUME NEW g \in V, NEW s \in SUBSET S PROVE Next1(g, s) \in Nat
      OBVIOUS
    <2>1. CASE s = {}
      BY <2>1
    <2>2. CASE s # {}
      <3>1. f[AnyOf(s)] \in Nat
        BY <1>2, <2>2
      <3>2. s \ {AnyOf(s)} \in SUBSET S
        OBVIOUS
      <3>3. g[s \ {AnyOf(s)}] \in Nat
        BY <3>2
      <3>4. QED
        BY <2>2, <3>1, <3>3
    <2>3. QED
      BY <2>1, <2>2
  <1>5. \A p \in (1 .. N) \X V : F[p] \in V /\ \A s \in SUBSET S : F[p][s] = Next1(p[2], s)
    <2> SUFFICES ASSUME NEW p \in (1 .. N) \X V
                 PROVE  F[p] \in V /\ \A s \in SUBSET S : F[p][s] = Next1(p[2], s)
      OBVIOUS
    <2>1. p[2] \in V
      OBVIOUS
    <2>2. \A s \in SUBSET S : Next1(p[2], s) \in Nat
      BY <1>4, <2>1
    <2> HIDE DEF Next1, V
    <2>3. F[p] = [s \in SUBSET S |-> Next1(p[2], s)]
      OBVIOUS
    <2>4. QED
      BY <2>2, <2>3 DEF V
  <1>6. F \in [(1 .. N) \X V -> V]
    <2>1. \A p \in (1 .. N) \X V : F[p] \in V
      BY <1>5
    <2>2. F = [p \in (1 .. N) \X V |-> F[p]]
      OBVIOUS
    <2> HIDE DEF F, V
    <2>3. QED
      BY <2>1, <2>2
  <1>7. \E h : IsDefinedBy(h, N, V, first, F)
    <2> HIDE DEF F, V, first, N
    <2>1. QED
      BY <1>1, <1>3, <1>6, DefinedByRecursion, Zenon
  <1>8. PICK h \in [0 .. N -> V] : h[0] = first /\ \A i \in 1 .. N : h[i] = F[<<i, h[i - 1]>>]
    BY <1>7 DEF IsDefinedBy
  <1>9. \A i \in 1 .. N : \A s \in SUBSET S : h[i][s] = Next1(h[i - 1], s)
    <2> SUFFICES ASSUME NEW i \in 1 .. N, NEW s \in SUBSET S PROVE h[i][s] = Next1(h[i - 1], s)
      OBVIOUS
    <2>1. i - 1 \in 0 .. N
      BY <1>1
    <2>2. h[i - 1] \in V
      BY <2>1
    <2>3. <<i, h[i - 1]>> \in (1 .. N) \X V /\ <<i, h[i - 1]>>[2] = h[i - 1]
      BY <2>2
    <2> HIDE DEF F, V, Next1
    <2>4. QED
      BY <1>5, <1>8, <2>3
  <1>10. \A s \in SUBSET S : /\ IsFiniteSet(s) /\ Cardinality(s) \in Nat /\ Cardinality(s) < N
                             /\ s = {} <=> Cardinality(s) = 0
                             /\ s # {} => Cardinality(s \ {AnyOf(s)}) = Cardinality(s) - 1
    <2> SUFFICES ASSUME NEW s \in SUBSET S
                 PROVE  /\ IsFiniteSet(s) /\ Cardinality(s) \in Nat /\ Cardinality(s) < N
                        /\ s = {} <=> Cardinality(s) = 0
                        /\ s # {} => Cardinality(s \ {AnyOf(s)}) = Cardinality(s) - 1
      OBVIOUS
    <2>1. IsFiniteSet(s) /\ Cardinality(s) \in Nat /\ Cardinality(s) <= Cardinality(S)
      BY FS_Subset, FS_CardinalityType
    <2>2. s = {} <=> Cardinality(s) = 0
      BY <2>1, FS_EmptySet
    <2>3. s # {} => Cardinality(s \ {AnyOf(s)}) = Cardinality(s) - 1
      BY <1>2, <2>1, FS_RemoveElement
    <2>4. QED
      BY <1>1, <2>1, <2>2, <2>3
  <1> HIDE DEF F, V, first, Next1
  <1> DEFINE Otherwise == {i \in 1 .. N : \E s \in SUBSET S : Cardinality(s) < i /\ h[i][s] # h[i - 1][s]}
  <1>11. ASSUME Otherwise # {} PROVE FALSE
    <2>1. PICK m \in Otherwise : \A i \in Otherwise : m <= i
      <3>1. Otherwise \in SUBSET Nat
        OBVIOUS
      <3> HIDE DEF Otherwise
      <3>2. QED
        BY <1>11, <3>1, LeastOfNaturals
    <2>2. m \in 1 .. N
      OBVIOUS
    <2>3. PICK s \in SUBSET S : Cardinality(s) < m /\ h[m][s] # h[m - 1][s]
      OBVIOUS
    <2>4. h[m][s] = Next1(h[m - 1], s)
      BY <1>9, <2>2
    <2>5. CASE m = 1
      <3>0. Cardinality(s) \in Nat /\ (s = {} <=> Cardinality(s) = 0)
        BY <1>10
      <3>1. s = {}
        BY <2>3, <2>5, <3>0
      <3>2. h[m][s] = 0
        BY <2>4, <3>1 DEF Next1
      <3>3. h[m - 1] = first
        <4>1. m - 1 = 0
          BY <2>5
        <4>2. QED
          BY <1>8, <4>1, Zenon
      <3>4. h[m - 1][s] = 0
        BY <3>3 DEF first
      <3>5. QED
        BY <2>3, <3>2, <3>4
    <2>6. CASE m # 1
      <3>1. m - 1 \in 1 .. N
        BY <1>1, <2>2, <2>6
      <3>2. h[m - 1][s] = Next1(h[(m - 1) - 1], s)
        BY <1>9, <3>1
      <3>3. m - 1 \notin Otherwise
        <4> SUFFICES ASSUME m - 1 \in Otherwise PROVE FALSE
          OBVIOUS
        <4> HIDE DEF Otherwise
        <4>1. m <= m - 1
          BY <2>1
        <4>2. QED
          BY <2>2, <4>1
      <3>4. \A r \in SUBSET S : Cardinality(r) < m - 1 => h[m - 1][r] = h[(m - 1) - 1][r]
        BY <3>1, <3>3
      <3> HIDE DEF Otherwise
      <3>5. CASE s = {}
        BY <2>3, <2>4, <3>2, <3>5 DEF Next1
      <3>6. CASE s # {}
        <4>1. s \ {AnyOf(s)} \in SUBSET S /\ Cardinality(s \ {AnyOf(s)}) < m - 1
          <5>1. Cardinality(s) \in Nat /\ Cardinality(s \ {AnyOf(s)}) = Cardinality(s) - 1
            BY <1>10, <3>6
          <5>2. m \in Nat /\ Cardinality(s) < m
            BY <2>2, <2>3
          <5>3. s \ {AnyOf(s)} \in SUBSET S
            OBVIOUS
          <5>4. QED
            BY <5>1, <5>2, <5>3
        <4>2. h[m - 1][s \ {AnyOf(s)}] = h[(m - 1) - 1][s \ {AnyOf(s)}]
          BY <3>4, <4>1
        <4>3. QED
          BY <2>3, <2>4, <3>2, <3>6, <4>2 DEF Next1
      <3>7. QED
        BY <3>5, <3>6
    <2>7. QED
      BY <2>5, <2>6
  <1>12. N \in 1 .. N /\ N - 1 \in 0 .. N
    BY <1>1
  <1>13. h[N - 1] \in V
    BY <1>12
  <1>14. \A s \in SUBSET S : h[N - 1][s] = Next1(h[N - 1], s)
    <2> SUFFICES ASSUME NEW s \in SUBSET S PROVE h[N - 1][s] = Next1(h[N - 1], s)
      OBVIOUS
    <2>1. N \notin Otherwise
      BY <1>11
    <2>2. h[N][s] = h[N - 1][s]
      BY <1>10, <1>12, <2>1
    <2>3. h[N][s] = Next1(h[N - 1], s)
      BY <1>9, <1>12
    <2>4. QED
      BY <2>2, <2>3
  <1>15. Sums(h[N - 1], f, S)
    BY <1>13, <1>14 DEF Sums, Next1, V
  <1>16. QED
    BY <1>15

(* What iterates over the parts in the way of the sums is the sums.        *)
Iterated(e, f, S) ==
    /\ e = [s \in SUBSET S |-> e[s]]
    /\ \A s \in SUBSET S : e[s] = IF s = {} THEN 0 ELSE f[AnyOf(s)] + e[s \ {AnyOf(s)}]

LEMMA SumsAreUnique ==
    ASSUME NEW S, IsFiniteSet(S), NEW f \in [S -> Nat], NEW g, NEW e, Sums(g, f, S), Iterated(e, f, S)
    PROVE  e = g
  <1> DEFINE Otherwise == {n \in Nat : \E s \in SUBSET S : Cardinality(s) = n /\ e[s] # g[s]}
  <1>0. /\ e = [s \in SUBSET S |-> e[s]]
        /\ \A s \in SUBSET S : e[s] = IF s = {} THEN 0 ELSE f[AnyOf(s)] + e[s \ {AnyOf(s)}]
    BY DEF Iterated
  <1>1. \A s \in SUBSET S : Cardinality(s) \in Nat
                            /\ (s # {} => Cardinality(s \ {AnyOf(s)}) = Cardinality(s) - 1)
    <2> SUFFICES ASSUME NEW s \in SUBSET S
                 PROVE  Cardinality(s) \in Nat
                        /\ (s # {} => Cardinality(s \ {AnyOf(s)}) = Cardinality(s) - 1)
      OBVIOUS
    <2>1. IsFiniteSet(s) /\ Cardinality(s) \in Nat
      BY FS_Subset, FS_CardinalityType
    <2>2. s # {} => AnyOf(s) \in s
      BY DEF AnyOf
    <2>3. QED
      BY <2>1, <2>2, FS_RemoveElement
  <1>2. ASSUME Otherwise # {} PROVE FALSE
    <2>1. PICK n \in Otherwise : \A i \in Otherwise : n <= i
      <3>1. Otherwise \in SUBSET Nat
        OBVIOUS
      <3> HIDE DEF Otherwise
      <3>2. QED
        BY <1>2, <3>1, LeastOfNaturals
    <2>2. PICK s \in SUBSET S : Cardinality(s) = n /\ e[s] # g[s]
      OBVIOUS
    <2>3. s # {}
      BY <1>0, <2>2 DEF Sums
    <2> DEFINE r == s \ {AnyOf(s)}
    <2>4. r \in SUBSET S /\ Cardinality(r) \in Nat /\ Cardinality(r) = Cardinality(s) - 1
      BY <1>1, <2>3
    <2>5. e[s] = f[AnyOf(s)] + e[r] /\ g[s] = f[AnyOf(s)] + g[r]
      BY <1>0, <2>3 DEF Sums
    <2>6. e[r] # g[r]
      BY <2>2, <2>5
    <2> HIDE DEF r
    <2>7. Cardinality(r) \in Otherwise
      BY <2>4, <2>6
    <2>8. n \in Nat /\ Cardinality(r) = n - 1
      BY <2>2, <2>4
    <2> HIDE DEF Otherwise
    <2>9. n <= Cardinality(r)
      BY <2>1, <2>7
    <2>10. QED
      BY <2>8, <2>9
  <1>3. \A s \in SUBSET S : e[s] = g[s]
    BY <1>1, <1>2
  <1>4. g = [s \in SUBSET S |-> g[s]]
    BY DEF Sums
  <1>5. QED
    BY <1>0, <1>3, <1>4

(* What a set takes is the sum over all of it.                             *)
LEMMA DurationsAreSummed ==
    ASSUME NEW S, IsFiniteSet(S), NEW f \in [S -> Nat], f = [x \in S |-> DurationOf(x)],
           \E g : Sums(g, f, S)
    PROVE  \E g : Sums(g, f, S) /\ MapThenSumSet(DurationOf, S) = g[S]
  <1> DEFINE Value(g, s) == IF s = {} THEN 0 ELSE DurationOf(AnyOf(s)) + g[s \ {AnyOf(s)}]
             Iterates(g) == g = [s \in SUBSET S |-> Value(g, s)]
  <1>1. MapThenSumSet(DurationOf, S) = (CHOOSE g : Iterates(g))[S]
    BY DEF MapThenSumSet, MapThenFoldSet, AnyOf
  <1>2. \A s \in SUBSET S : s # {} => f[AnyOf(s)] = DurationOf(AnyOf(s))
    <2>1. \A s \in SUBSET S : s # {} => AnyOf(s) \in S
      BY DEF AnyOf
    <2>2. QED
      BY <2>1
  <1>3. ASSUME NEW g, Sums(g, f, S) PROVE Iterates(g)
    <2>1. \A s \in SUBSET S : g[s] = Value(g, s)
      BY <1>2, <1>3 DEF Sums
    <2>2. g = [s \in SUBSET S |-> g[s]]
      BY <1>3 DEF Sums
    <2> HIDE DEF Value
    <2>3. QED
      BY <2>1, <2>2
  <1>4. PICK g : Iterates(g) /\ MapThenSumSet(DurationOf, S) = g[S]
    <2> HIDE DEF Iterates
    <2>1. QED
      BY <1>1, <1>3
  <1>5. /\ DOMAIN g = SUBSET S /\ g = [s \in SUBSET S |-> g[s]]
        /\ \A s \in SUBSET S : g[s] = Value(g, s)
    BY <1>4
  <1>6. \A s \in SUBSET S : g[s] = IF s = {} THEN 0 ELSE f[AnyOf(s)] + g[s \ {AnyOf(s)}]
    BY <1>2, <1>5
  <1>7. PICK e : Sums(e, f, S)
    OBVIOUS
  <1> HIDE DEF Value, Iterates
  <1>8. g = e
    <2>1. Iterated(g, f, S)
      BY <1>5, <1>6 DEF Iterated
    <2>2. QED
      BY <1>7, <2>1, SumsAreUnique, Zenon
  <1>9. QED
    BY <1>4, <1>7, <1>8

(* And so is what it would take if all of it is executed.                  *)
LEMMA TimesAreSummed ==
    ASSUME NEW S, IsFiniteSet(S), NEW f \in [S -> Nat], f = [x \in S |-> TimeOf(x)],
           \E g : Sums(g, f, S)
    PROVE  \E g : Sums(g, f, S) /\ MapThenSumSet(TimeOf, S) = g[S]
  <1> DEFINE Value(g, s) == IF s = {} THEN 0 ELSE TimeOf(AnyOf(s)) + g[s \ {AnyOf(s)}]
             Iterates(g) == g = [s \in SUBSET S |-> Value(g, s)]
  <1>1. MapThenSumSet(TimeOf, S) = (CHOOSE g : Iterates(g))[S]
    BY DEF MapThenSumSet, MapThenFoldSet, AnyOf
  <1>2. \A s \in SUBSET S : s # {} => f[AnyOf(s)] = TimeOf(AnyOf(s))
    <2>1. \A s \in SUBSET S : s # {} => AnyOf(s) \in S
      BY DEF AnyOf
    <2>2. QED
      BY <2>1
  <1>3. ASSUME NEW g, Sums(g, f, S) PROVE Iterates(g)
    <2>1. \A s \in SUBSET S : g[s] = Value(g, s)
      BY <1>2, <1>3 DEF Sums
    <2>2. g = [s \in SUBSET S |-> g[s]]
      BY <1>3 DEF Sums
    <2> HIDE DEF Value
    <2>3. QED
      BY <2>1, <2>2
  <1>4. PICK g : Iterates(g) /\ MapThenSumSet(TimeOf, S) = g[S]
    <2> HIDE DEF Iterates
    <2>1. QED
      BY <1>1, <1>3
  <1>5. /\ DOMAIN g = SUBSET S /\ g = [s \in SUBSET S |-> g[s]]
        /\ \A s \in SUBSET S : g[s] = Value(g, s)
    BY <1>4
  <1>6. \A s \in SUBSET S : g[s] = IF s = {} THEN 0 ELSE f[AnyOf(s)] + g[s \ {AnyOf(s)}]
    BY <1>2, <1>5
  <1>7. PICK e : Sums(e, f, S)
    OBVIOUS
  <1> HIDE DEF Value, Iterates
  <1>8. g = e
    <2>1. Iterated(g, f, S)
      BY <1>5, <1>6 DEF Iterated
    <2>2. QED
      BY <1>7, <2>1, SumsAreUnique, Zenon
  <1>9. QED
    BY <1>4, <1>7, <1>8

(* Whichever element is taken first, the sum is the same.                  *)
SumsAnyway(g, f, S) == \A s \in SUBSET S : \A x \in s : g[s] = f[x] + g[s \ {x}]

LEMMA SumWithout ==
    ASSUME NEW S, IsFiniteSet(S), NEW f \in [S -> Nat], NEW g, Sums(g, f, S)
    PROVE  SumsAnyway(g, f, S)
  <1> DEFINE Wrong(s) == \E x \in s : g[s] # f[x] + g[s \ {x}]
             Otherwise == {n \in Nat : \E s \in SUBSET S : Cardinality(s) = n /\ Wrong(s)}
  <1>1. \A s \in SUBSET S : Cardinality(s) \in Nat
                            /\ \A x \in s : Cardinality(s \ {x}) = Cardinality(s) - 1
    <2> SUFFICES ASSUME NEW s \in SUBSET S
                 PROVE  Cardinality(s) \in Nat /\ \A x \in s : Cardinality(s \ {x}) = Cardinality(s) - 1
      OBVIOUS
    <2>1. IsFiniteSet(s) /\ Cardinality(s) \in Nat
      BY FS_Subset, FS_CardinalityType
    <2>2. QED
      BY <2>1, FS_RemoveElement
  <1>2. /\ \A s \in SUBSET S : g[s] \in Nat
        /\ \A s \in SUBSET S : s # {} => g[s] = f[AnyOf(s)] + g[s \ {AnyOf(s)}]
        /\ \A x \in S : f[x] \in Nat
    BY DEF Sums
  <1>3. ASSUME Otherwise # {} PROVE FALSE
    <2>1. PICK n \in Otherwise : \A i \in Otherwise : n <= i
      <3>1. Otherwise \in SUBSET Nat
        OBVIOUS
      <3> HIDE DEF Otherwise
      <3>2. QED
        BY <1>3, <3>1, LeastOfNaturals
    <2>2. PICK s \in SUBSET S : Cardinality(s) = n /\ Wrong(s)
      OBVIOUS
    <2>3. PICK x \in s : g[s] # f[x] + g[s \ {x}]
      BY <2>2
    <2> DEFINE y == AnyOf(s)
               both == (s \ {x}) \ {y}
    <2>4. y \in s
      BY DEF AnyOf
    <2>5. g[s] = f[y] + g[s \ {y}]
      BY <1>2
    <2>6. x # y
      BY <2>3, <2>5
    <2>7. \A r \in SUBSET S : Cardinality(r) < n => ~Wrong(r)
      <3> SUFFICES ASSUME NEW r \in SUBSET S, Cardinality(r) < n, Wrong(r) PROVE FALSE
        OBVIOUS
      <3>1. Cardinality(r) \in Nat /\ n \in Nat
        BY <1>1, <2>2
      <3>2. Cardinality(r) \in Otherwise
        BY <3>1
      <3> HIDE DEF Otherwise
      <3>3. n <= Cardinality(r)
        BY <2>1, <3>2
      <3>4. QED
        BY <3>1, <3>3
    <2>8. /\ s \ {x} \in SUBSET S /\ Cardinality(s \ {x}) < n
          /\ s \ {y} \in SUBSET S /\ Cardinality(s \ {y}) < n
      BY <1>1, <2>2, <2>4
    <2>9. g[s \ {y}] = f[x] + g[both]
      <3>1. ~Wrong(s \ {y}) /\ x \in s \ {y}
        BY <2>6, <2>7, <2>8
      <3>2. (s \ {y}) \ {x} = both
        OBVIOUS
      <3>3. QED
        BY <3>1, <3>2
    <2>10. g[s \ {x}] = f[y] + g[both]
      <3>1. ~Wrong(s \ {x}) /\ y \in s \ {x}
        BY <2>4, <2>6, <2>7, <2>8
      <3>2. QED
        BY <3>1
    <2>11. both \in SUBSET S /\ x \in S /\ y \in S
      BY <2>4
    <2>12. g[both] \in Nat /\ f[x] \in Nat /\ f[y] \in Nat
      BY <1>2, <2>11
    <2> HIDE DEF y, both
    <2>13. QED
      BY <2>3, <2>5, <2>9, <2>10, <2>12
  <1>4. QED
    <2> SUFFICES ASSUME NEW s \in SUBSET S PROVE ~Wrong(s)
      BY DEF SumsAnyway
    <2>1. Cardinality(s) \in Nat
      BY <1>1
    <2>2. Cardinality(s) \notin Otherwise
      BY <1>3
    <2>3. QED
      BY <2>1, <2>2

(* What is nothing need not be added.                                      *)
LEMMA SumOfPart ==
    ASSUME NEW S, IsFiniteSet(S), NEW T \in SUBSET S, NEW f \in [S -> Nat], NEW e \in [T -> Nat],
           NEW g, NEW h, Sums(g, f, S), Sums(h, e, T),
           \A x \in S : f[x] = IF x \in T THEN e[x] ELSE 0
    PROVE  g[S] = h[T]
  <1> DEFINE Wrong(s) == g[s] # h[s \cap T]
             Otherwise == {n \in Nat : \E s \in SUBSET S : Cardinality(s) = n /\ Wrong(s)}
  <1>1. \A s \in SUBSET S : Cardinality(s) \in Nat
                            /\ \A x \in s : Cardinality(s \ {x}) = Cardinality(s) - 1
    <2> SUFFICES ASSUME NEW s \in SUBSET S
                 PROVE  Cardinality(s) \in Nat /\ \A x \in s : Cardinality(s \ {x}) = Cardinality(s) - 1
      OBVIOUS
    <2>1. IsFiniteSet(s) /\ Cardinality(s) \in Nat
      BY FS_Subset, FS_CardinalityType
    <2>2. QED
      BY <2>1, FS_RemoveElement
  <1>2. /\ \A s \in SUBSET S : g[s] \in Nat
        /\ \A s \in SUBSET S : \A x \in s : g[s] = f[x] + g[s \ {x}]
    <2>1. SumsAnyway(g, f, S)
      BY SumWithout, Zenon
    <2>2. QED
      BY <2>1 DEF Sums, SumsAnyway
  <1>3. \A s \in SUBSET T : \A x \in s : h[s] = e[x] + h[s \ {x}]
    <2>1. IsFiniteSet(T)
      BY FS_Subset
    <2>2. SumsAnyway(h, e, T)
      BY <2>1, SumWithout, Zenon
    <2>3. QED
      BY <2>2 DEF SumsAnyway
  <1>4. ASSUME Otherwise # {} PROVE FALSE
    <2>1. PICK n \in Otherwise : \A i \in Otherwise : n <= i
      <3>1. Otherwise \in SUBSET Nat
        OBVIOUS
      <3> HIDE DEF Otherwise
      <3>2. QED
        BY <1>4, <3>1, LeastOfNaturals
    <2>2. PICK s \in SUBSET S : Cardinality(s) = n /\ Wrong(s)
      OBVIOUS
    <2>3. s # {}
      <3> SUFFICES ASSUME s = {} PROVE FALSE
        OBVIOUS
      <3>1. g[{}] = 0 /\ h[{}] = 0
        BY DEF Sums
      <3>2. s \cap T = {}
        OBVIOUS
      <3>3. QED
        BY <2>2, <3>1, <3>2
    <2>4. PICK x \in s : TRUE
      BY <2>3
    <2> DEFINE r == s \ {x}
    <2>5. r \in SUBSET S /\ Cardinality(r) \in Nat /\ Cardinality(r) = Cardinality(s) - 1
      BY <1>1
    <2>6. g[r] = h[r \cap T]
      <3> SUFFICES ASSUME Wrong(r) PROVE FALSE
        OBVIOUS
      <3>1. Cardinality(r) \in Otherwise
        BY <2>5
      <3>2. n \in Nat /\ Cardinality(r) = n - 1
        BY <2>2, <2>5
      <3> HIDE DEF Otherwise, r
      <3>3. n <= Cardinality(r)
        BY <2>1, <3>1
      <3>4. QED
        BY <3>2, <3>3
    <2>7. g[s] = f[x] + g[r]
      BY <1>2
    <2>8. CASE x \in T
      <3>1. x \in s \cap T /\ (s \cap T) \ {x} = r \cap T /\ s \cap T \in SUBSET T
        BY <2>8
      <3>2. h[s \cap T] = e[x] + h[r \cap T]
        BY <1>3, <3>1
      <3>3. f[x] = e[x]
        BY <2>8
      <3>4. QED
        BY <2>2, <2>6, <2>7, <3>2, <3>3
    <2>9. CASE x \notin T
      <3>1. s \cap T = r \cap T
        BY <2>9
      <3>2. f[x] = 0 /\ g[r] \in Nat
        BY <1>2, <2>5, <2>9
      <3>3. g[s] = g[r]
        BY <2>7, <3>2
      <3>4. QED
        BY <2>2, <2>6, <3>1, <3>3
    <2>10. QED
      BY <2>8, <2>9
  <1>5. ~Wrong(S)
    <2>1. Cardinality(S) \in Nat
      BY <1>1
    <2>2. Cardinality(S) \notin Otherwise
      BY <1>4
    <2>3. QED
      BY <2>1, <2>2
  <1>6. S \cap T = T
    OBVIOUS
  <1>7. QED
    BY <1>5, <1>6

(* The durations of S add up to the times of those that did take some.     *)
LEMMA TotalIsOfExecuted ==
    ASSUME NEW S, IsFiniteSet(S), NEW T \in SUBSET S,
           \A x \in T : TimeOf(x) \in Nat,
           \A x \in S : DurationOf(x) = IF x \in T THEN TimeOf(x) ELSE 0
    PROVE  /\ MapThenSumSet(DurationOf, S) = MapThenSumSet(TimeOf, T)
           /\ MapThenSumSet(DurationOf, S) \in Nat
           /\ S = {} => MapThenSumSet(DurationOf, S) = 0
  <1> DEFINE f == [x \in S |-> DurationOf(x)]
             e == [x \in T |-> TimeOf(x)]
  <1>1. f \in [S -> Nat] /\ e \in [T -> Nat]
    OBVIOUS
  <1>2. \A x \in S : f[x] = IF x \in T THEN e[x] ELSE 0
    OBVIOUS
  <1>3. IsFiniteSet(T)
    BY FS_Subset
  <1>4. f = [x \in S |-> DurationOf(x)] /\ e = [x \in T |-> TimeOf(x)]
    OBVIOUS
  <1> HIDE DEF f, e
  <1>5. PICK g : Sums(g, f, S) /\ MapThenSumSet(DurationOf, S) = g[S]
    BY <1>1, <1>4, SumsExist, DurationsAreSummed
  <1>6. PICK h : Sums(h, e, T) /\ MapThenSumSet(TimeOf, T) = h[T]
    BY <1>1, <1>3, <1>4, SumsExist, TimesAreSummed
  <1>7. g[S] = h[T]
    BY <1>1, <1>2, <1>5, <1>6, SumOfPart
  <1>8. g[S] \in Nat /\ (S = {} => g[S] = 0)
    BY <1>5 DEF Sums
  <1>9. QED
    BY <1>5, <1>6, <1>7, <1>8

(* A strict order of a set in which any two elements are comparable.       *)
IsStrictOrder(R, S) ==
    /\ \A x \in S : <<x, x>> \notin R
    /\ \A x, y \in S : x # y => <<x, y>> \in R \/ <<y, x>> \in R
    /\ \A x, y, z \in S : <<x, y>> \in R /\ <<y, z>> \in R => <<x, z>> \in R

BeforeIt(R, S, m) == {x \in S : <<x, m>> \in R}

FirstOf(R, S, M) == {m \in S : Cardinality(BeforeIt(R, S, m)) < M}

(* The first M elements are M if there are as many, and none comes before. *)
LEMMA FirstAreFirst ==
    ASSUME NEW S, IsFiniteSet(S), NEW R, IsStrictOrder(R, S), NEW M \in Nat
    PROVE  /\ Cardinality(S) \in Nat
           /\ Cardinality(FirstOf(R, S, M)) = IF Cardinality(S) > M THEN M ELSE Cardinality(S)
           /\ \A h \in S \ FirstOf(R, S, M) : \A u \in FirstOf(R, S, M) : <<u, h>> \in R
  <1> DEFINE n == Cardinality(S)
             B(m) == BeforeIt(R, S, m)
             place(m) == Cardinality(B(m))
             r == [m \in S |-> place(m)]
             few == IF n > M THEN M ELSE n
             shown == FirstOf(R, S, M)
  <1>1. n \in Nat
    BY FS_CardinalityType
  <1>2. \A m \in S : IsFiniteSet(B(m)) /\ place(m) \in 0 .. n - 1
    <2> SUFFICES ASSUME NEW m \in S PROVE IsFiniteSet(B(m)) /\ place(m) \in 0 .. n - 1
      OBVIOUS
    <2>1. B(m) \in SUBSET S /\ m \notin B(m)
      BY DEF BeforeIt, IsStrictOrder
    <2> HIDE DEF B
    <2>3. IsFiniteSet(B(m)) /\ Cardinality(B(m)) <= n /\ Cardinality(B(m)) # n
      BY <2>1, FS_Subset
    <2>4. Cardinality(B(m)) \in Nat
      BY <2>3, FS_CardinalityType
    <2>5. QED
      BY <1>1, <2>3, <2>4
  <1>3. \A m, k \in S : <<m, k>> \in R => place(m) < place(k)
    <2> SUFFICES ASSUME NEW m \in S, NEW k \in S, <<m, k>> \in R PROVE place(m) < place(k)
      OBVIOUS
    <2>1. B(m) \in SUBSET B(k) /\ m \in B(k) /\ m \notin B(m)
      BY DEF BeforeIt, IsStrictOrder
    <2>2. IsFiniteSet(B(k)) /\ place(m) \in Nat /\ place(k) \in Nat
      BY <1>1, <1>2
    <2> HIDE DEF B
    <2>3. Cardinality(B(m)) <= Cardinality(B(k)) /\ Cardinality(B(m)) # Cardinality(B(k))
      BY <2>1, <2>2, FS_Subset
    <2>4. QED
      BY <2>2, <2>3
  <1>4. \A m, k \in S : m # k => place(m) # place(k)
    <2> SUFFICES ASSUME NEW m \in S, NEW k \in S, m # k PROVE place(m) # place(k)
      OBVIOUS
    <2>1. <<m, k>> \in R \/ <<k, m>> \in R
      BY DEF IsStrictOrder
    <2>2. place(m) \in Nat /\ place(k) \in Nat
      BY <1>1, <1>2
    <2> HIDE DEF place
    <2>3. QED
      BY <1>3, <2>1, <2>2
  <1>5. r \in [S -> 0 .. n - 1] /\ \A m \in S : r[m] = place(m)
    BY <1>2
  <1> HIDE DEF r, place
  <1>6. IsFiniteSet(0 .. n - 1) /\ Cardinality(0 .. n - 1) = n
    <2>1. 0 \in Int /\ n - 1 \in Int
      BY <1>1
    <2>2. QED
      BY <1>1, <2>1, FS_Interval
  <1>7. r \in Surjection(S, 0 .. n - 1)
    <2>1. r \in Injection(S, 0 .. n - 1)
      BY <1>4, <1>5 DEF Injection, IsInjective
    <2>2. QED
      BY <1>6, <2>1, FS_Injection
  <1>8. \A i \in 0 .. n - 1 : \E m \in S : r[m] = i
    BY <1>7 DEF Surjection
  <1>9. few \in Nat /\ \A i \in Nat : i \in 0 .. few - 1 <=> i \in 0 .. n - 1 /\ i < M
    BY <1>1
  <1>10. shown = {m \in S : r[m] < M}
    BY <1>5 DEF FirstOf, place
  <1> HIDE DEF shown, few
  <1>11. shown \in SUBSET S /\ IsFiniteSet(shown)
    <2>1. shown \in SUBSET S
      BY <1>10
    <2>2. QED
      BY <2>1, FS_Subset
  <1> DEFINE q == [m \in shown |-> r[m]]
  <1>12. q \in Bijection(shown, 0 .. few - 1)
    <2>1. \A m \in shown : r[m] \in Nat /\ r[m] \in 0 .. n - 1 /\ r[m] < M
      BY <1>5, <1>10
    <2>2. \A m \in shown : r[m] \in 0 .. few - 1
      BY <1>9, <2>1
    <2>3. q \in [shown -> 0 .. few - 1]
      BY <2>2
    <2>4. \A m, k \in shown : q[m] = q[k] => m = k
      BY <1>4, <1>5, <1>11
    <2>5. ASSUME NEW i \in 0 .. few - 1 PROVE \E m \in shown : q[m] = i
      <3>1. i \in Nat
        BY <1>9
      <3>2. i \in 0 .. n - 1 /\ i < M
        BY <1>9, <3>1
      <3>3. PICK m \in S : r[m] = i
        BY <1>8, <3>2
      <3>4. m \in shown
        BY <1>10, <3>2, <3>3
      <3>5. QED
        BY <3>3, <3>4
    <2> HIDE DEF q
    <2>6. QED
      BY <2>3, <2>4, <2>5 DEF Bijection, Injection, Surjection, IsInjective
  <1>13. Cardinality(shown) = few
    <2>1. Cardinality(0 .. few - 1) = Cardinality(shown)
      BY <1>11, <1>12, FS_Bijection DEF ExistsBijection
    <2>2. 0 \in Int /\ few - 1 \in Int
      BY <1>9
    <2>3. Cardinality(0 .. few - 1) = few
      BY <1>9, <2>2, FS_Interval
    <2>4. QED
      BY <2>1, <2>3
  <1>14. ASSUME NEW h \in S \ shown, NEW u \in shown PROVE <<u, h>> \in R
    <2>1. r[h] \in Nat /\ r[u] \in Nat /\ r[u] < M /\ ~(r[h] < M) /\ u \in S /\ h \in S
      BY <1>1, <1>5, <1>10
    <2>2. r[u] < r[h]
      BY <2>1
    <2>3. u # h
      BY <1>14
    <2>4. <<h, u>> \notin R
      <3> SUFFICES ASSUME <<h, u>> \in R PROVE FALSE
        OBVIOUS
      <3>1. r[h] < r[u]
        BY <1>3, <1>5, <2>1
      <3>2. QED
        BY <2>1, <2>2, <3>1
    <2>5. QED
      BY <2>1, <2>3, <2>4 DEF IsStrictOrder
  <1>15. QED
    BY <1>1, <1>13, <1>14 DEF shown, few

(* Products of naturals, as the provers need them.                         *)
LEMMA Products ==
    ASSUME NEW a \in Nat, NEW b \in Nat, NEW c \in Nat
    PROVE  /\ a * b \in Nat /\ a * b = b * a /\ (a * b) * c = a * (b * c)
           /\ a <= b => a * c <= b * c
           /\ a < b /\ c # 0 => a * c < b * c
           /\ a = 0 => a * b = 0
  OBVIOUS

(* What takes longer than what takes longer takes longer.                  *)
LEMMA MeansChain ==
    ASSUME NEW ta \in Nat, NEW tb \in Nat, NEW tc \in Nat,
           NEW ma \in Nat \ {0}, NEW mb \in Nat \ {0}, NEW mc \in Nat \ {0},
           ta * mb > tb * ma, tb * mc > tc * mb
    PROVE  ta * mc > tc * ma
  <1>1. /\ ta * mb \in Nat /\ tb * ma \in Nat /\ tb * mc \in Nat /\ tc * mb \in Nat
        /\ ta * mc \in Nat /\ tc * ma \in Nat
    BY Products
  <1>2. (tb * ma) * mc < (ta * mb) * mc
    BY <1>1, Products
  <1>3. (tc * mb) * ma < (tb * mc) * ma
    BY <1>1, Products
  <1>4. (tb * ma) * mc = (tb * mc) * ma
    <2>1. (tb * ma) * mc = tb * (ma * mc) /\ (tb * mc) * ma = tb * (mc * ma) /\ ma * mc = mc * ma
      BY Products
    <2>2. QED
      BY <2>1
  <1>5. (ta * mb) * mc = (ta * mc) * mb
    <2>1. (ta * mb) * mc = ta * (mb * mc) /\ (ta * mc) * mb = ta * (mc * mb) /\ mb * mc = mc * mb
      BY Products
    <2>2. QED
      BY <2>1
  <1>6. (tc * mb) * ma = (tc * ma) * mb
    <2>1. (tc * mb) * ma = tc * (mb * ma) /\ (tc * ma) * mb = tc * (ma * mb) /\ mb * ma = ma * mb
      BY Products
    <2>2. QED
      BY <2>1
  <1>7. (tc * ma) * mb < (ta * mc) * mb
    <2>1. (tc * ma) * mb \in Nat /\ (tb * ma) * mc \in Nat /\ (ta * mc) * mb \in Nat
      BY <1>1, Products
    <2>2. QED
      BY <1>2, <1>3, <1>4, <1>5, <1>6, <2>1
  <1>8. QED
    <2> SUFFICES ASSUME ta * mc <= tc * ma PROVE FALSE
      BY <1>1
    <2>1. (ta * mc) * mb <= (tc * ma) * mb
      BY <1>1, Products
    <2>2. (tc * ma) * mb \in Nat /\ (ta * mc) * mb \in Nat
      BY <1>1, Products
    <2>3. QED
      BY <1>7, <2>1, <2>2

(* Means in whole seconds compare as the means do.                         *)
LEMMA MeansCompare ==
    ASSUME NEW t \in Nat, NEW u \in Nat, NEW m \in Nat \ {0}, NEW k \in Nat \ {0},
           u * m <= t * k
    PROVE  u \div k <= t \div m
  <1> DEFINE p == u \div k
             q == t \div m
  <1>1. p \in Nat /\ q \in Nat /\ p * k <= u /\ t < (q + 1) * m
    OBVIOUS
  <1> HIDE DEF p, q
  <1>2. SUFFICES ASSUME q + 1 <= p PROVE FALSE
    BY <1>1 DEF p, q
  <1>3. p * k \in Nat /\ (q + 1) * m \in Nat /\ u * m \in Nat /\ t * k \in Nat
    BY <1>1, Products
  <1>4. (p * k) * m <= u * m
    BY <1>1, <1>3, Products
  <1>5. t * k < ((q + 1) * m) * k
    BY <1>1, <1>3, Products
  <1>6. ((q + 1) * m) * k <= (p * m) * k
    <2>1. q + 1 \in Nat
      BY <1>1
    <2>2. (q + 1) * m <= p * m /\ p * m \in Nat
      BY <1>1, <1>2, <2>1, Products
    <2>3. QED
      BY <1>3, <2>2, Products
  <1>7. (p * k) * m = (p * m) * k
    <2>1. (p * k) * m = p * (k * m) /\ (p * m) * k = p * (m * k) /\ k * m = m * k
      BY <1>1, Products
    <2>2. QED
      BY <2>1
  <1>8. (p * k) * m \in Nat /\ ((q + 1) * m) * k \in Nat
    BY <1>3, Products
  <1>9. QED
    BY <1>3, <1>4, <1>5, <1>6, <1>7, <1>8

-----------------------------------------------------------------------------
IsMeasured(use) ==
    use.total \in Nat /\ use.measured \in Nat /\ (use.measured = 0 => use.total = 0)

LEMMA SlowerIsAnOrder ==
    ASSUME NEW a, NEW b, NEW c, IsMeasured(a), IsMeasured(b), IsMeasured(c)
    PROVE  ~Slower(a, a) /\ (Slower(a, b) /\ Slower(b, c) => Slower(a, c))
  <1>1. ~Slower(a, a)
    <2>1. a.total * a.measured \in Nat
      BY Products DEF IsMeasured
    <2>2. QED
      BY <2>1 DEF Slower
  <1>2. ASSUME Slower(a, b), Slower(b, c) PROVE Slower(a, c)
    <2>1. a.measured # 0 /\ b.measured # 0 /\ a.total * b.measured > b.total * a.measured
      BY <1>2 DEF Slower
    <2>2. CASE c.measured = 0
      BY <2>1, <2>2 DEF Slower
    <2>3. CASE c.measured # 0
      <3>1. b.total * c.measured > c.total * b.measured
        BY <1>2, <2>3 DEF Slower
      <3>2. a.total * c.measured > c.total * a.measured
        BY <2>1, <2>3, <3>1, MeansChain DEF IsMeasured
      <3>3. QED
        BY <2>1, <3>2 DEF Slower
    <2>4. QED
      BY <2>2, <2>3
  <1>3. QED
    BY <1>1, <1>2

LEMMA NotSlower ==
    ASSUME NEW a, NEW b, IsMeasured(a), IsMeasured(b), ~Slower(b, a)
    PROVE  /\ a.total * b.measured >= b.total * a.measured
           /\ b.measured # 0 => a.measured # 0 /\ a.total \div a.measured >= b.total \div b.measured
  <1>1. a.total * b.measured \in Nat /\ b.total * a.measured \in Nat
    BY Products DEF IsMeasured
  <1>2. CASE b.measured = 0
    <2>1. b.total * a.measured = 0
      BY <1>2, Products DEF IsMeasured
    <2>2. QED
      BY <1>1, <1>2, <2>1
  <1>3. CASE b.measured # 0
    <2>1. a.measured # 0 /\ ~(b.total * a.measured > a.total * b.measured)
      BY <1>3 DEF Slower
    <2>2. b.total * a.measured <= a.total * b.measured
      BY <1>1, <2>1
    <2>3. b.total \div b.measured <= a.total \div a.measured
      BY <1>3, <2>1, <2>2, MeansCompare DEF IsMeasured
    <2>4. a.total \div a.measured \in Int /\ b.total \div b.measured \in Int
      BY <1>3, <2>1 DEF IsMeasured
    <2>5. QED
      BY <1>1, <2>1, <2>2, <2>3, <2>4
  <1>4. QED
    BY <1>2, <1>3

(* How many of the entries are slower than each.                           *)
SlowerThan(usage) == [i \in DOMAIN usage |-> Cardinality({j \in DOMAIN usage : Slower(usage[j], usage[i])})]

(* Sorting by it keeps each entry, with no entry before a slower one.      *)
LEMMA SlowestFirst ==
    ASSUME NEW N \in Nat, NEW usage, DOMAIN usage = 1 .. N, \A i \in 1 .. N : IsMeasured(usage[i])
    PROVE  LET sorted == SortBy(usage, SlowerThan(usage))
           IN /\ DOMAIN sorted = 1 .. N /\ Len(sorted) = N
              /\ ToSet(sorted) = {usage[i] : i \in 1 .. N}
              /\ \A i, j \in 1 .. N : i < j => ~Slower(sorted[j], sorted[i])
  <1> DEFINE keys == SlowerThan(usage)
             at(k) == SortedPositions(keys)[k]
             sorted == SortBy(usage, keys)
             Ahead(i) == {j \in 1 .. N : Slower(usage[j], usage[i])}
  <1>1. \A i \in 1 .. N : IsFiniteSet(Ahead(i)) /\ Cardinality(Ahead(i)) \in Nat
    <2> SUFFICES ASSUME NEW i \in 1 .. N PROVE IsFiniteSet(Ahead(i)) /\ Cardinality(Ahead(i)) \in Nat
      OBVIOUS
    <2>1. IsFiniteSet(1 .. N)
      BY FS_Interval, 1 \in Int, N \in Int
    <2>2. Ahead(i) \in SUBSET (1 .. N)
      OBVIOUS
    <2> HIDE DEF Ahead
    <2>3. QED
      BY <2>1, <2>2, FS_Subset, FS_CardinalityType
  <1>2. keys = [i \in 1 .. N |-> Cardinality(Ahead(i))]
    BY DEF SlowerThan
  <1>3. keys \in [1 .. N -> Nat] /\ \A i \in 1 .. N : keys[i] = Cardinality(Ahead(i))
    <2> HIDE DEF Ahead, keys
    <2>1. QED
      BY <1>1, <1>2
  <1> HIDE DEF keys
  <1>4. /\ \A k \in 1 .. N : at(k) \in 1 .. N
        /\ \A i \in 1 .. N : \E k \in 1 .. N : at(k) = i
        /\ \A k, l \in 1 .. N : k < l => Precedes(keys, at(k), at(l))
    BY <1>3, SortingArranges
  <1>5. sorted = [k \in 1 .. N |-> usage[at(k)]]
    BY DEF SortBy
  <1> HIDE DEF at, sorted, Ahead
  <1>6. DOMAIN sorted = 1 .. N /\ \A k \in 1 .. N : sorted[k] = usage[at(k)]
    BY <1>5
  <1>7. Len(sorted) = N
    <2> DEFINE T == {usage[i] : i \in 1 .. N}
    <2>1. \A k \in 1 .. N : usage[at(k)] \in T
      BY <1>4
    <2> HIDE DEF T
    <2>2. sorted = [k \in 1 .. N |-> sorted[k]] /\ \A k \in 1 .. N : sorted[k] \in T
      BY <1>5, <1>6, <2>1
    <2>3. sorted \in Seq(T)
      BY <2>2
    <2>4. QED
      BY <1>6, <2>3
  <1>8. ToSet(sorted) = {usage[i] : i \in 1 .. N}
    <2>1. ToSet(sorted) = {sorted[k] : k \in 1 .. N}
      BY <1>6 DEF ToSet
    <2>2. ASSUME NEW k \in 1 .. N
          PROVE  sorted[k] \in {usage[i] : i \in 1 .. N}
      BY <1>4, <1>6
    <2>3. ASSUME NEW i \in 1 .. N
          PROVE  usage[i] \in {sorted[k] : k \in 1 .. N}
      BY <1>4, <1>6
    <2>4. QED
      BY <2>1, <2>2, <2>3
  <1>9. ASSUME NEW i \in 1 .. N, NEW j \in 1 .. N, i < j, Slower(sorted[j], sorted[i]) PROVE FALSE
    <2> DEFINE p == at(i)
               q == at(j)
    <2>1. p \in 1 .. N /\ q \in 1 .. N /\ Slower(usage[q], usage[p])
      BY <1>4, <1>6, <1>9
    <2>2. Precedes(keys, p, q)
      BY <1>4, <1>9
    <2> HIDE DEF p, q
    <2>3. keys[p] <= keys[q] /\ keys[p] \in Nat /\ keys[q] \in Nat
      BY <1>3, <2>1, <2>2 DEF Precedes
    <2>4. Ahead(q) \in SUBSET Ahead(p)
      <3> SUFFICES ASSUME NEW k \in 1 .. N, Slower(usage[k], usage[q]) PROVE Slower(usage[k], usage[p])
        BY DEF Ahead
      <3>1. QED
        BY <2>1, SlowerIsAnOrder
    <2>5. q \in Ahead(p) /\ q \notin Ahead(q)
      <3>1. ~Slower(usage[q], usage[q])
        BY <2>1, SlowerIsAnOrder
      <3>2. QED
        BY <2>1, <3>1 DEF Ahead
    <2>6. Cardinality(Ahead(q)) <= Cardinality(Ahead(p)) /\ Cardinality(Ahead(q)) # Cardinality(Ahead(p))
      BY <1>1, <2>1, <2>4, <2>5, FS_Subset
    <2>7. QED
      BY <1>3, <2>1, <2>3, <2>6
  <1>10. QED
    BY <1>6, <1>7, <1>8, <1>9 DEF sorted, keys

-----------------------------------------------------------------------------
(* The uses of a definition.                                               *)
UsesOf(d) == UNION {UNION {{<<<<t, n>>, i>> : i \in StepsDefinedBy[d][t]} : n \in DOMAIN attempts[t]} : t \in TestCases}

ResultOf(use) ==
    LET results == attempts[use[1][1]][use[1][2]].results
    IN IF use[2] \in DOMAIN results THEN results[use[2]] ELSE "UNKNOWN"

(* There are finitely many attempts.                                       *)
LEMMA AttemptsAreFinite ==
    ASSUME IInv
    PROVE  IsFiniteSet(GetTestCaseAttempts)
  <1> DEFINE f == [t \in TestCases |-> {t} \X DOMAIN attempts[t]]
  <1>1. ASSUME NEW t \in TestCases
        PROVE  IsFiniteSet(f[t])
    <2>1. attempts[t] \in Seq(Attempt(t))
      BY DEF IInv, TypeOK
    <2>2. DOMAIN attempts[t] = 1 .. Len(attempts[t]) /\ Len(attempts[t]) \in Nat
      BY <2>1
    <2>3. IsFiniteSet(DOMAIN attempts[t])
      BY <2>2, FS_Interval
    <2>4. IsFiniteSet({t})
      BY FS_Singleton
    <2>5. IsFiniteSet({t} \X DOMAIN attempts[t])
      BY <2>3, <2>4, FS_Product
    <2>6. QED
      BY <2>5
  <1>2. GetTestCaseAttempts = UNION {f[t] : t \in TestCases}
    BY DEF IInv, DataTellAttempts, GetTestCaseAttempts, AttemptIds
  <1> HIDE DEF f
  <1>3. QED
    BY <1>1, <1>2, CasesAreFinite, UnionIsFinite

(* What the collector has of a definition are its uses.                    *)
LEMMA MatchesAreUses ==
    ASSUME IInv, NEW d \in StepDefinitions
    PROVE  /\ Matches(d) = UsesOf(d) /\ IsFiniteSet(Matches(d))
           /\ \A use \in Matches(d) :
                  /\ use[1][1] \in TestCases /\ use[1][2] \in DOMAIN attempts[use[1][1]]
                  /\ use = <<<<use[1][1], use[1][2]>>, use[2]>>
                  /\ use[2] \in DOMAIN TestStepsOf[use[1][1]]
                  /\ data[use[1]].stepResults[use[2]] = ResultOf(use)
                  /\ use[1][1] \in Nat /\ use[1][2] \in Nat /\ use[2] \in Nat
  <1> DEFINE f == [id \in GetTestCaseAttempts |-> {<<id, i>> : i \in StepsDefinedBy[d][id[1]]}]
  <1>1. ASSUME NEW t \in TestCases
        PROVE  StepsDefinedBy[d][t] \subseteq DOMAIN TestStepsOf[t]
    BY DEF StepsDefinedBy
  <1>2. ASSUME NEW use \in Matches(d)
        PROVE  /\ use[1] \in GetTestCaseAttempts /\ use[2] \in StepsDefinedBy[d][use[1][1]]
               /\ use = <<use[1], use[2]>>
    BY <1>2 DEF Matches, UsesIn
  <1>3. ASSUME NEW use \in Matches(d)
        PROVE  /\ use[1][1] \in TestCases /\ use[1][2] \in DOMAIN attempts[use[1][1]]
               /\ use[1] = <<use[1][1], use[1][2]>>
    BY <1>2, <1>3, AttemptOfData
  <1>4. ASSUME NEW use \in UsesOf(d)
        PROVE  use \in Matches(d)
    <2>1. PICK t \in TestCases : \E n \in DOMAIN attempts[t] : \E i \in StepsDefinedBy[d][t] :
              use = <<<<t, n>>, i>>
      BY <1>4 DEF UsesOf
    <2>2. PICK n \in DOMAIN attempts[t] : \E i \in StepsDefinedBy[d][t] : use = <<<<t, n>>, i>>
      BY <2>1
    <2>3. PICK i \in StepsDefinedBy[d][t] : use = <<<<t, n>>, i>>
      BY <2>2
    <2>4. <<t, n>> \in GetTestCaseAttempts
      BY DataOfAttempt
    <2>5. <<t, n>>[1] = t
      OBVIOUS
    <2>6. QED
      BY <2>3, <2>4, <2>5 DEF Matches, UsesIn
  <1>5. ASSUME NEW use \in Matches(d)
        PROVE  use \in UsesOf(d)
    BY <1>2, <1>3, <1>5 DEF UsesOf
  <1>6. IsFiniteSet(Matches(d))
    <2>1. IsFiniteSet(GetTestCaseAttempts)
      BY AttemptsAreFinite
    <2>2. ASSUME NEW id \in GetTestCaseAttempts
          PROVE  IsFiniteSet(f[id])
      <3> DEFINE steps == StepsDefinedBy[d][id[1]]
                 g == [i \in steps |-> <<id, i>>]
                 T == {<<id, i>> : i \in steps}
      <3>1. IsFiniteSet(steps)
        BY <1>1, AttemptOfData, CasesAreFinite, FS_Subset
      <3>2. f[id] = T
        OBVIOUS
      <3> HIDE DEF steps
      <3>3. g \in Surjection(steps, T)
        BY DEF Surjection
      <3>4. QED
        BY <3>1, <3>2, <3>3, FS_Surjection
    <2>3. Matches(d) = UNION {f[id] : id \in GetTestCaseAttempts}
      BY DEF Matches, UsesIn
    <2> HIDE DEF f
    <2>4. QED
      BY <2>1, <2>2, <2>3, UnionIsFinite
  <1>7. ASSUME NEW use \in Matches(d)
        PROVE  data[use[1]].stepResults[use[2]] = ResultOf(use)
    <2> DEFINE t == use[1][1]
               n == use[1][2]
    <2>1. data[<<t, n>>].stepResults = ResultsIn(t, attempts[t][n])
      BY <1>3, DataOfAttempt
    <2>2. data[use[1]].stepResults = ResultsIn(t, attempts[t][n])
      BY <1>3, <2>1
    <2>3. use[2] \in DOMAIN TestStepsOf[t]
      BY <1>1, <1>2, <1>3
    <2>4. QED
      BY <2>2, <2>3 DEF ResultsIn, ResultOf
  <1>8. ASSUME NEW use \in Matches(d)
        PROVE  /\ use[2] \in DOMAIN TestStepsOf[use[1][1]]
               /\ use[1][1] \in Nat /\ use[1][2] \in Nat /\ use[2] \in Nat
    <2> DEFINE t == use[1][1]
    <2>1. use[2] \in DOMAIN TestStepsOf[t]
      BY <1>1, <1>2, <1>3
    <2>2. TestStepsOf[t] \in Seq(ToSet(TestStepsOf[t]))
      BY <1>3, EventDataAssumption
    <2>3. attempts[t] \in Seq(Attempt(t))
      BY <1>3 DEF IInv, TypeOK
    <2>4. TestCases \subseteq Nat
      <3>1. Pickles \in Seq(ToSet(Pickles)) /\ TestCases = DOMAIN Pickles
        BY PicklesAssumption, ReportsAssumption
      <3>2. TestCases = 1 .. Len(Pickles) /\ Len(Pickles) \in Nat
        BY <3>1
      <3>3. \A n \in Nat : 1 .. n \subseteq Nat
        OBVIOUS
      <3>4. QED
        BY <3>2, <3>3
    <2>5. t \in Nat
      BY <1>3, <2>4
    <2>6. use[1][2] \in Nat
      BY <1>3, <2>3
    <2>7. use[2] \in Nat
      BY <2>1, <2>2
    <2>8. QED
      BY <2>1, <2>5, <2>6, <2>7
  <1>9. Matches(d) = UsesOf(d)
    BY <1>4, <1>5
  <1>10. \A use \in Matches(d) : use = <<<<use[1][1], use[1][2]>>, use[2]>>
    BY <1>2, <1>3
  <1>11. QED
    BY <1>3, <1>6, <1>7, <1>8, <1>9, <1>10

Executed(d) == {use \in UsesOf(d) : ResultOf(use) \in {"PASSED", "FAILED", "PENDING"}}

ToBe(d) == {use \in UsesOf(d) : ResultOf(use) = "UNKNOWN"}

(* What takes time is executed, what is to be executed has taken none.     *)
LEMMA UsesAreMeasured ==
    ASSUME IInv, NEW d \in StepDefinitions
    PROVE  /\ MeasuredOf(UsesOf(d)) = Executed(d) \cup ToBe(d)
           /\ Executed(d) \cap ToBe(d) = {}
           /\ \A use \in UsesOf(d) : TimeOf(use) \in Nat
           /\ \A use \in UsesOf(d) : DurationOf(use) = IF use \in ToBe(d) THEN 0 ELSE TimeOf(use)
  <1>1. ASSUME NEW use \in UsesOf(d)
        PROVE  ResultOf(use) \in Status /\ data[use[1]].stepResults[use[2]] = ResultOf(use)
    <2> DEFINE t == use[1][1]
               n == use[1][2]
    <2>1. t \in TestCases /\ n \in DOMAIN attempts[t] /\ data[use[1]].stepResults[use[2]] = ResultOf(use)
      BY MatchesAreUses
    <2>2. attempts[t][n].results \in Seq(Status \ {"UNKNOWN"})
      <3>1. attempts[t] \in Seq(Attempt(t))
        BY <2>1 DEF IInv, TypeOK
      <3>2. attempts[t][n] \in Attempt(t)
        BY <2>1, <3>1
      <3>3. QED
        BY <3>2 DEF Attempt
    <2>3. CASE use[2] \in DOMAIN attempts[t][n].results
      <3>1. attempts[t][n].results[use[2]] \in Status
        BY <2>2, <2>3
      <3>2. QED
        BY <2>1, <2>3, <3>1 DEF ResultOf
    <2>4. CASE use[2] \notin DOMAIN attempts[t][n].results
      BY <2>1, <2>4 DEF ResultOf, Status
    <2>5. QED
      BY <2>3, <2>4
  <1>2. ASSUME NEW use \in UsesOf(d)
        PROVE  /\ use \in MeasuredOf(UsesOf(d)) <=> use \in Executed(d) \cup ToBe(d)
               /\ DurationOf(use) = IF use \in ToBe(d) THEN 0 ELSE TimeOf(use)
    <2>1. ResultOf(use) \notin UnexecutedStatuses <=> ResultOf(use) \in {"PASSED", "FAILED", "PENDING", "UNKNOWN"}
      BY <1>1 DEF UnexecutedStatuses, Status
    <2>2. QED
      BY <1>1, <2>1 DEF MeasuredOf, Executed, ToBe, DurationOf
  <1>3. ASSUME NEW use \in UsesOf(d)
        PROVE  TimeOf(use) \in Nat
    <2>1. use[1][1] \in TestCases /\ use[2] \in DOMAIN TestStepsOf[use[1][1]]
      BY MatchesAreUses
    <2>2. QED
      BY <2>1, ReportsAssumption DEF TimeOf
  <1>4. \A use \in MeasuredOf(UsesOf(d)) \cup Executed(d) \cup ToBe(d) : use \in UsesOf(d)
    BY DEF MeasuredOf, Executed, ToBe
  <1>5. Executed(d) \cap ToBe(d) = {}
    BY DEF Executed, ToBe
  <1>6. QED
    BY <1>2, <1>3, <1>4, <1>5

(* The entry of a definition has all its uses and the sum of their times.  *)
LEMMA UsageIs ==
    ASSUME IInv, NEW d \in StepDefinitions
    PROVE  LET entry == UsageOf(d)
           IN /\ entry.definition = d /\ entry.matches = UsesOf(d)
              /\ entry.measured = Cardinality(Executed(d) \cup ToBe(d))
              /\ entry.total = MapThenSumSet(TimeOf, Executed(d))
              /\ IsMeasured(entry)
  <1> DEFINE M == Executed(d) \cup ToBe(d)
             E == Executed(d)
             total == MapThenSumSet(DurationOf, M)
  <1>1. Matches(d) = UsesOf(d) /\ MeasuredOf(UsesOf(d)) = M
    BY MatchesAreUses, UsesAreMeasured
  <1>2. M \subseteq UsesOf(d) /\ E \in SUBSET M
    BY DEF Executed, ToBe
  <1>3. IsFiniteSet(M)
    BY <1>1, <1>2, MatchesAreUses, FS_Subset
  <1>4. \A x \in E : TimeOf(x) \in Nat
    BY <1>2, UsesAreMeasured
  <1>5. \A x \in M : DurationOf(x) = IF x \in E THEN TimeOf(x) ELSE 0
    BY <1>2, UsesAreMeasured
  <1>6. UsageOf(d) = [definition |-> d, matches |-> UsesOf(d), measured |-> Cardinality(M), total |-> total]
    BY <1>1 DEF UsageOf
  <1> HIDE DEF M, E
  <1>7. total = MapThenSumSet(TimeOf, E) /\ total \in Nat /\ (M = {} => total = 0)
    BY <1>2, <1>3, <1>4, <1>5, TotalIsOfExecuted
  <1>8. Cardinality(M) \in Nat /\ (Cardinality(M) = 0 <=> M = {})
    BY <1>3, FS_CardinalityType, FS_EmptySet
  <1> HIDE DEF total
  <1>9. IsMeasured(UsageOf(d))
    BY <1>6, <1>7, <1>8 DEF IsMeasured
  <1>10. QED
    BY <1>6, <1>7, <1>9 DEF M, E

(* There is an entry of each definition, and none comes before a slower    *)
(* one.                                                                    *)
LEMMA UsageIsOfAll ==
    ASSUME IInv
    PROVE  LET usage == GetUsage
           IN /\ DOMAIN usage = 1 .. Len(usage) /\ Len(usage) = Cardinality(StepDefinitions)
              /\ {entry.definition : entry \in ToSet(usage)} = StepDefinitions
              /\ \A entry \in ToSet(usage) : \E d \in StepDefinitions : entry = UsageOf(d)
              /\ \A i, j \in DOMAIN usage : i < j => ~Slower(usage[j], usage[i])
  <1> DEFINE definitions == SetToSeq(StepDefinitions)
             N == Len(definitions)
             all == [i \in DOMAIN definitions |-> UsageOf(definitions[i])]
             usage == SortBy(all, SlowerThan(all))
  <1>1. /\ DOMAIN definitions = 1 .. N /\ N = Cardinality(StepDefinitions) /\ N \in Nat
        /\ ToSet(definitions) = StepDefinitions
    BY ReportsAssumption, SetAsSequence
  <1>2. GetUsage = usage
    BY DEF GetUsage, SlowerThan
  <1>3. /\ \A i \in 1 .. N : definitions[i] \in StepDefinitions
        /\ \A d \in StepDefinitions : \E i \in 1 .. N : definitions[i] = d
    BY <1>1 DEF ToSet
  <1> HIDE DEF definitions, N
  <1>4. DOMAIN all = 1 .. N /\ \A i \in 1 .. N : all[i] = UsageOf(definitions[i])
    BY <1>1
  <1> HIDE DEF all
  <1>5. \A i \in 1 .. N : IsMeasured(all[i]) /\ all[i].definition = definitions[i]
    BY <1>3, <1>4, UsageIs
  <1>6. /\ DOMAIN usage = 1 .. N /\ Len(usage) = N
        /\ ToSet(usage) = {all[i] : i \in 1 .. N}
        /\ \A i, j \in 1 .. N : i < j => ~Slower(usage[j], usage[i])
    BY <1>1, <1>4, <1>5, SlowestFirst
  <1> HIDE DEF usage
  <1>7. \A entry \in ToSet(usage) : \E d \in StepDefinitions : entry = UsageOf(d)
    BY <1>3, <1>4, <1>6
  <1>8. \A d : d \in {entry.definition : entry \in ToSet(usage)} <=> d \in StepDefinitions
    BY <1>3, <1>5, <1>6
  <1>9. {entry.definition : entry \in ToSet(usage)} = StepDefinitions
    BY <1>8
  <1>10. QED
    BY <1>1, <1>2, <1>6, <1>7, <1>9

(* So none has a lower mean than one behind it.                            *)
LEMMA MeansGoDown ==
    ASSUME IInv
    PROVE  LET usage == GetUsage
               json == LogUsageJson(usage)
           IN /\ \A i, j \in DOMAIN json : i < j /\ json[j].seconds # <<>> =>
                     json[i].seconds # <<>> /\ json[i].seconds[1] >= json[j].seconds[1]
              /\ \A i, j \in DOMAIN usage : i < j =>
                     usage[i].total * usage[j].measured >= usage[j].total * usage[i].measured
  <1> DEFINE usage == GetUsage
             json == LogUsageJson(usage)
             Mean(i) == usage[i].total \div usage[i].measured
  <1>1. /\ \A i \in DOMAIN usage : IsMeasured(usage[i])
        /\ \A i, j \in DOMAIN usage : i < j => ~Slower(usage[j], usage[i])
    <2>1. /\ \A entry \in ToSet(usage) : \E d \in StepDefinitions : entry = UsageOf(d)
          /\ \A i, j \in DOMAIN usage : i < j => ~Slower(usage[j], usage[i])
      BY UsageIsOfAll
    <2>2. \A i \in DOMAIN usage : usage[i] \in ToSet(usage)
      BY DEF ToSet
    <2> HIDE DEF usage
    <2>3. QED
      BY <2>1, <2>2, UsageIs
  <1> HIDE DEF usage
  <1>2. DOMAIN json = DOMAIN usage
        /\ \A i \in DOMAIN usage : json[i].seconds = IF usage[i].measured = 0 THEN <<>> ELSE <<Mean(i)>>
    BY DEF LogUsageJson
  <1> HIDE DEF json
  <1>3. ASSUME NEW i \in DOMAIN usage, NEW j \in DOMAIN usage, i < j
        PROVE  /\ usage[i].total * usage[j].measured >= usage[j].total * usage[i].measured
               /\ usage[j].measured # 0 => usage[i].measured # 0 /\ Mean(i) >= Mean(j)
    BY <1>1, <1>3, NotSlower
  <1>4. ASSUME NEW i \in DOMAIN json, NEW j \in DOMAIN json, i < j, json[j].seconds # <<>>
        PROVE  json[i].seconds # <<>> /\ json[i].seconds[1] >= json[j].seconds[1]
    <2>1. usage[j].measured # 0
      BY <1>2, <1>4
    <2>2. usage[i].measured # 0 /\ Mean(i) >= Mean(j)
      BY <1>2, <1>3, <1>4, <2>1
    <2> HIDE DEF Mean
    <2>3. json[i].seconds = <<Mean(i)>> /\ json[j].seconds = <<Mean(j)>>
      BY <1>2, <2>1, <2>2
    <2>4. QED
      BY <2>2, <2>3
  <1>5. QED
    BY <1>3, <1>4 DEF usage, json

Earlier(time, m1, m2) ==
    \/ time[m1] > time[m2]
    \/ time[m1] = time[m2] /\ m1[1][1] < m2[1][1]
    \/ time[m1] = time[m2] /\ m1[1][1] = m2[1][1] /\ m1[1][2] < m2[1][2]
    \/ time[m1] = time[m2] /\ m1[1] = m2[1] /\ m1[2] < m2[2]

InTime(time, S) == {pair \in S \X S : Earlier(time, pair[1], pair[2])}

IsUse(m) == m = <<<<m[1][1], m[1][2]>>, m[2]>> /\ m[1][1] \in Nat /\ m[1][2] \in Nat /\ m[2] \in Nat

(* Slower uses come first, those that are as slow in their order.          *)
LEMMA UsesAreOrdered ==
    ASSUME NEW S, \A m \in S : IsUse(m), NEW time \in [S -> Int]
    PROVE  IsStrictOrder(InTime(time, S), S)
  <1>1. ASSUME NEW m \in S, NEW k \in S
        PROVE  <<m, k>> \in InTime(time, S) <=> Earlier(time, m, k)
    BY DEF InTime
  <1>2. \A m \in S : time[m] \in Int
    OBVIOUS
  <1>3. ASSUME NEW m \in S
        PROVE  ~Earlier(time, m, m)
    BY <1>2 DEF Earlier, IsUse
  <1>4. ASSUME NEW m \in S, NEW k \in S, m # k
        PROVE  Earlier(time, m, k) \/ Earlier(time, k, m)
    <2>1. m[1] = k[1] => m[2] # k[2]
      BY <1>4 DEF IsUse
    <2>2. m[1][1] = k[1][1] /\ m[1][2] = k[1][2] => m[1] = k[1]
      BY DEF IsUse
    <2>3. time[m] \in Int /\ time[k] \in Int
      OBVIOUS
    <2>4. /\ m[1][1] \in Nat /\ m[1][2] \in Nat /\ m[2] \in Nat
          /\ k[1][1] \in Nat /\ k[1][2] \in Nat /\ k[2] \in Nat
      BY DEF IsUse
    <2>5. CASE time[m] # time[k]
      BY <2>3, <2>5 DEF Earlier
    <2>6. CASE time[m] = time[k] /\ m[1] # k[1]
      BY <2>2, <2>4, <2>6 DEF Earlier
    <2>7. CASE time[m] = time[k] /\ m[1] = k[1]
      BY <2>1, <2>4, <2>7 DEF Earlier
    <2>8. QED
      BY <2>5, <2>6, <2>7
  <1>5. ASSUME NEW m \in S, NEW k \in S, NEW l \in S, Earlier(time, m, k), Earlier(time, k, l)
        PROVE  Earlier(time, m, l)
    <2>1. time[m] \in Int /\ time[k] \in Int /\ time[l] \in Int
      OBVIOUS
    <2>2. m[1][1] = l[1][1] /\ m[1][2] = l[1][2] => m[1] = l[1]
      BY DEF IsUse
    <2>3. /\ m[1] = k[1] => m[1][1] = k[1][1] /\ m[1][2] = k[1][2]
          /\ k[1] = l[1] => k[1][1] = l[1][1] /\ k[1][2] = l[1][2]
      OBVIOUS
    <2>4. QED
      BY <1>5, <2>1, <2>2, <2>3 DEF Earlier, IsUse
  <1>6. QED
    BY <1>1, <1>3, <1>4, <1>5 DEF IsStrictOrder

(* The row of a definition that is not used says so, and the uses it shows *)
(* are the slowest.                                                        *)
LEMMA RowShowsSlowest ==
    ASSUME IInv, NEW d \in StepDefinitions
    PROVE  LET row == UsageRow(UsageOf(d))
           IN /\ row.duration = "UNUSED" <=> UsesOf(d) = {}
              /\ Cardinality(row.shown) + row.more = Cardinality(UsesOf(d))
              /\ row.more > 0 => Cardinality(row.shown) = MaxShown
              /\ \A hidden \in Executed(d) \ row.shown : \A use \in row.shown :
                     /\ use \in Executed(d) \cup ToBe(d)
                     /\ TimeOf(hidden) <= IF use \in Executed(d) THEN TimeOf(use) ELSE 0
  <1> DEFINE S == UsesOf(d)
             M == Executed(d) \cup ToBe(d)
             time == [m \in S |-> IF m \in M THEN DurationOf(m) ELSE -1]
             R == InTime(time, S)
             number == Cardinality(S)
             shown == FirstOf(R, S, MaxShown)
             row == UsageRow(UsageOf(d))
  <1>1. IsFiniteSet(S) /\ \A m \in S : IsUse(m)
    BY MatchesAreUses DEF IsUse
  <1>2. /\ UsageOf(d).matches = S /\ MeasuredOf(S) = M /\ Executed(d) \cap ToBe(d) = {}
        /\ \A m \in S : TimeOf(m) \in Nat
        /\ \A m \in S : DurationOf(m) = IF m \in ToBe(d) THEN 0 ELSE TimeOf(m)
    BY UsageIs, UsesAreMeasured
  <1>3. Executed(d) \subseteq S /\ ToBe(d) \subseteq S
    BY DEF Executed, ToBe
  <1>4. /\ row.duration = IF number = 0 THEN "UNUSED" ELSE IF M # {} THEN "mean" ELSE "-"
        /\ row.shown = {m \in S : Cardinality({x \in S : Earlier(time, x, m)}) < MaxShown}
        /\ row.more = IF number > MaxShown THEN number - MaxShown ELSE 0
    BY <1>2 DEF UsageRow, Earlier
  <1> HIDE DEF S, row
  <1>5. \A m \in S : DurationOf(m) \in Nat
    BY <1>2
  <1> HIDE DEF M
  <1>6. /\ time \in [S -> Int]
        /\ \A m \in S : time[m] = IF m \in M THEN DurationOf(m) ELSE -1
    BY <1>5
  <1> HIDE DEF time
  <1>7. \A m \in S : {x \in S : Earlier(time, x, m)} = BeforeIt(R, S, m)
    BY DEF BeforeIt, InTime
  <1>8. row.shown = shown
    BY <1>4, <1>7 DEF FirstOf
  <1>9. IsStrictOrder(R, S)
    BY <1>1, <1>6, UsesAreOrdered
  <1>10. MaxShown \in Nat \ {0}
    BY ReportsAssumption
  <1> HIDE DEF R
  <1>11. /\ number \in Nat
         /\ Cardinality(shown) = IF number > MaxShown THEN MaxShown ELSE number
         /\ \A h \in S \ shown : \A u \in shown : <<u, h>> \in R
    BY <1>1, <1>9, <1>10, FirstAreFirst
  <1>12. number = 0 <=> S = {}
    BY <1>1, FS_EmptySet
  <1>13. row.duration = "UNUSED" <=> S = {}
    BY <1>4, <1>12
  <1>14. shown \subseteq S
    BY DEF FirstOf
  <1> HIDE DEF shown, number
  <1>15. /\ Cardinality(row.shown) + row.more = number
         /\ row.more > 0 => Cardinality(row.shown) = MaxShown
    <2>1. CASE number > MaxShown
      <3>1. Cardinality(row.shown) = MaxShown /\ row.more = number - MaxShown
        BY <1>4, <1>8, <1>11, <2>1
      <3>2. QED
        BY <1>10, <1>11, <3>1
    <2>2. CASE ~(number > MaxShown)
      <3>1. Cardinality(row.shown) = number /\ row.more = 0
        BY <1>4, <1>8, <1>11, <2>2
      <3>2. QED
        BY <1>11, <3>1
    <2>3. QED
      BY <2>1, <2>2
  <1>16. ASSUME NEW hidden \in Executed(d) \ row.shown, NEW use \in row.shown
         PROVE  /\ use \in M
                /\ TimeOf(hidden) <= IF use \in Executed(d) THEN TimeOf(use) ELSE 0
    <2>1. hidden \in S /\ use \in S /\ hidden \notin ToBe(d)
      BY <1>2, <1>3, <1>8, <1>14
    <2>2. <<use, hidden>> \in R
      BY <1>8, <1>11, <2>1
    <2>3. time[use] > time[hidden] \/ time[use] = time[hidden]
      BY <2>1, <2>2 DEF R, InTime, Earlier
    <2>4. time[hidden] = TimeOf(hidden) /\ TimeOf(hidden) \in Nat
      BY <1>2, <1>6, <2>1 DEF M
    <2>5. time[use] = IF use \in M THEN DurationOf(use) ELSE -1
      BY <1>6, <2>1
    <2>6. DurationOf(use) \in Nat /\ DurationOf(use) = IF use \in ToBe(d) THEN 0 ELSE TimeOf(use)
      BY <1>2, <1>5, <2>1
    <2>7. use \in M
      BY <2>3, <2>4, <2>5
    <2>8. TimeOf(hidden) <= DurationOf(use)
      BY <2>3, <2>4, <2>5, <2>6, <2>7
    <2>9. use \in Executed(d) <=> use \notin ToBe(d)
      BY <1>2, <2>7 DEF M
    <2>10. QED
      BY <2>6, <2>7, <2>8, <2>9
  <1>17. QED
    BY <1>13, <1>15, <1>16 DEF S, M, row, number

(* What is said of each entry is true of the usage.                        *)
LEMMA UsesHold ==
    ASSUME IInv
    PROVE  UsesAreCounted
  <1> SUFFICES ASSUME Printed PROVE UsesAreCounted
    BY DEF UsesAreCounted
  <1>1. output.usage = GetUsage
    BY DEF IInv, PrintedAtTheEnd
  <1>2. ASSUME NEW d \in StepDefinitions
        PROVE  LET entry == UsageOf(d)
                   row == UsageRow(entry)
               IN /\ entry.definition = d /\ entry.matches = UsesOf(d)
                  /\ entry.measured = Cardinality(Executed(d) \cup ToBe(d))
                  /\ entry.total = MapThenSumSet(TimeOf, Executed(d))
                  /\ row.duration = "UNUSED" <=> UsesOf(d) = {}
                  /\ Cardinality(row.shown) + row.more = Cardinality(UsesOf(d))
                  /\ row.more > 0 => Cardinality(row.shown) = MaxShown
                  /\ \A hidden \in Executed(d) \ row.shown : \A use \in row.shown :
                         /\ use \in Executed(d) \cup ToBe(d)
                         /\ TimeOf(hidden) <= IF use \in Executed(d) THEN TimeOf(use) ELSE 0
    BY UsageIs, RowShowsSlowest
  <1>3. ASSUME NEW entry \in ToSet(GetUsage)
        PROVE  LET row == UsageRow(entry)
                   d == entry.definition
               IN /\ entry.matches = UsesOf(d)
                  /\ entry.measured = Cardinality(Executed(d) \cup ToBe(d))
                  /\ entry.total = MapThenSumSet(TimeOf, Executed(d))
                  /\ row.duration = "UNUSED" <=> UsesOf(d) = {}
                  /\ Cardinality(row.shown) + row.more = Cardinality(UsesOf(d))
                  /\ row.more > 0 => Cardinality(row.shown) = MaxShown
                  /\ \A hidden \in Executed(d) \ row.shown : \A use \in row.shown :
                         /\ use \in Executed(d) \cup ToBe(d)
                         /\ TimeOf(hidden) <= IF use \in Executed(d) THEN TimeOf(use) ELSE 0
    <2>1. PICK d \in StepDefinitions : entry = UsageOf(d)
      BY UsageIsOfAll
    <2>2. entry.definition = d
      BY <1>2, <2>1
    <2>3. QED
      BY <1>2, <2>1, <2>2
  <1>4. /\ Len(GetUsage) = Cardinality(StepDefinitions)
        /\ {entry.definition : entry \in ToSet(GetUsage)} = StepDefinitions
    BY UsageIsOfAll
  <1>5. QED
    BY <1>1, <1>3, <1>4, MeansGoDown DEF UsesAreCounted, UsesOf, Executed, ToBe, ResultOf

(* Each definition is listed with every use it has had and the sum of      *)
(* their times, slower ones first, and the uses that are left out of its   *)
(* row are its fastest (src/src/formatter/helpers/usage_helpers).          *)
THEOREM UsesAreAllCounted == Spec => []UsesAreCounted
  <1>1. QED
    BY Invariance, UsesHold, PTL
===============================================================================
