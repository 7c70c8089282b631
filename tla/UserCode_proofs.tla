---------------------------- MODULE UserCode_proofs ----------------------------
(***************************************************************************)
(* Safety of UserCode, for every plan of calls, whatever the code of each  *)
(* does in its own call or later.                                          *)
(***************************************************************************)
EXTENDS UserCode, TLAPS

InCall == stage \in {"arguments", "transforming", "code", "waiting"}

(* The call that is being made has not returned, nor has a later one.      *)
CallsInOrder ==
    /\ stage \notin {"gap", "crashed"} => current \in Calls
    /\ InCall => outcomes[current] = "none"
    /\ \A c \in Calls : c > current => outcomes[c] = "none"
    /\ testStep # 0 => testStep = current /\ outcomes[current] = "none"

(* A turn of its own is one the event loop could start.                    *)
TurnsOfTheLoop == turn # 0 => stage \in {"gap", "transforming", "waiting"}

(* Only the call that is awaited listens and may be timed.                 *)
OnlyTheAwaited ==
    /\ listeners = IF stage = "waiting" THEN {current} ELSE {}
    /\ timers \subseteq listeners

(* A race is of the call that is awaited and settled by its own answer.    *)
RacesAreOwn ==
    /\ \A c \in raced : c <= current
    /\ InCall /\ stage # "waiting" => current \notin raced
    /\ stage = "waiting" /\ race = "ok" => answers[current] = "ok"

(* A World has what hooks of the run have written, and what its attempt    *)
(* has.                                                                    *)
WorldsHoldTheirOwn ==
    /\ \A c \in parameters : scope[c] = TestRun
    /\ \A w \in DOMAIN worlds : \A c \in worlds[w] : scope[c] = w \/ c \in parameters

IInv ==
    /\ TypeOK
    /\ CallsInOrder
    /\ TurnsOfTheLoop
    /\ OnlyTheAwaited
    /\ RacesAreOwn
    /\ WorldsHoldTheirOwn
    /\ PassedByOwnAnswer

-----------------------------------------------------------------------------
(* The invariant holds before the first call.                              *)
LEMMA InitIInv == Init => IInv
  <1> SUFFICES ASSUME Init PROVE IInv
    OBVIOUS
  <1> USE UserCodeAssumption DEF Init
  <1>1. TypeOK
    BY DEF TypeOK, Stages, Settled
  <1>2. CallsInOrder /\ TurnsOfTheLoop /\ OnlyTheAwaited
    BY DEF CallsInOrder, TurnsOfTheLoop, OnlyTheAwaited, InCall
  <1>3. RacesAreOwn /\ WorldsHoldTheirOwn /\ PassedByOwnAnswer
    BY DEF RacesAreOwn, WorldsHoldTheirOwn, PassedByOwnAnswer, InCall
  <1>4. QED
    BY <1>1, <1>2, <1>3 DEF IInv

(* A call begins behind the one before it and is over when it returns.     *)
LEMMA CallsInOrderStep ==
    ASSUME IInv, [Next]_vars
    PROVE  CallsInOrder'
  <1> USE UserCodeAssumption DEF IInv, TypeOK, Stages, CallsInOrder, InCall, Calls, runnerVars,
         codeVars, worldVars
  <1>1. CASE NextCall
    BY <1>1 DEF NextCall, ResetTestProgressData, NewWorld
  <1>2. CASE AwaitTransformer
    BY <1>2 DEF AwaitTransformer
  <1>3. CASE Invoke
    BY <1>3 DEF Invoke, ArgumentsKnown
  <1>4. CASE Refuse
    BY <1>4 DEF Refuse, ArgumentsKnown, EndStep
  <1>5. CASE CodeThrows
    BY <1>5 DEF CodeThrows, EndStep, RejectedBy
  <1>6. CASE CodeReturnsValue
    BY <1>6 DEF CodeReturnsValue, EndStep, TakesCallback
  <1>7. CASE CodeUsesBoth
    BY <1>7 DEF CodeUsesBoth, EndStep, RejectedBy, TakesCallback
  <1>8. CASE CodeReturnsPending
    BY <1>8 DEF CodeReturnsPending, ListenerOf, TimerOf, TakesCallback
  <1>9. CASE Return
    BY <1>9 DEF Return, EndStep
  <1>10. CASE TimerFires
    BY <1>10 DEF TimerFires, Idle, Drained
  <1>11. CASE ReportRejections
    BY <1>11 DEF ReportRejections, Drained, UncaughtException
  <1>12. CASE \E c \in Calls : StartTurn(c)
    BY <1>12 DEF StartTurn, Idle, Drained
  <1>13. CASE \E c \in Calls, answer \in {"ok", "error"} : Answer(c, answer)
    BY <1>13 DEF Answer, Running
  <1>14. CASE \E c \in Calls : Attach(c)
    BY <1>14 DEF Attach, Running, OnAttachment
  <1>15. CASE \E c \in Calls : Write(c)
    BY <1>15 DEF Write, Running
  <1>16. CASE \E c \in Calls : AttachStream(c)
    BY <1>16 DEF AttachStream, Running
  <1>17. CASE \E c \in Calls : StreamEnds(c)
    BY <1>17 DEF StreamEnds, UncaughtException, Idle, Drained, OnAttachment
  <1>18. CASE \E c \in Calls : StreamFails(c)
    BY <1>18 DEF StreamFails, Idle, Drained
  <1>19. CASE \E c \in Calls : Throw(c)
    BY <1>19 DEF Throw, UncaughtException
  <1>20. CASE EndTurn
    BY <1>20 DEF EndTurn
  <1>21. CASE UNCHANGED vars
    BY <1>21 DEF vars
  <1>22. QED
    BY <1>1, <1>2, <1>3, <1>4, <1>5, <1>6, <1>7, <1>8, <1>9, <1>10, <1>11, <1>12, <1>13, <1>14,
       <1>15, <1>16, <1>17, <1>18, <1>19, <1>20, <1>21 DEF Next, Turn, CodeEnds, Crashed

(* A turn ends before the thread goes on.                                  *)
LEMMA TurnsOfTheLoopStep ==
    ASSUME IInv, [Next]_vars
    PROVE  TurnsOfTheLoop'
  <1> USE UserCodeAssumption DEF IInv, TypeOK, Stages, TurnsOfTheLoop, Idle, Drained, runnerVars,
         codeVars, worldVars
  <1>1. CASE NextCall
    BY <1>1 DEF NextCall, ResetTestProgressData, NewWorld
  <1>2. CASE AwaitTransformer
    BY <1>2 DEF AwaitTransformer
  <1>3. CASE Invoke
    BY <1>3 DEF Invoke, ArgumentsKnown
  <1>4. CASE Refuse
    BY <1>4 DEF Refuse, ArgumentsKnown, EndStep
  <1>5. CASE CodeThrows
    BY <1>5 DEF CodeThrows, EndStep, RejectedBy
  <1>6. CASE CodeReturnsValue
    BY <1>6 DEF CodeReturnsValue, EndStep, TakesCallback
  <1>7. CASE CodeUsesBoth
    BY <1>7 DEF CodeUsesBoth, EndStep, RejectedBy, TakesCallback
  <1>8. CASE CodeReturnsPending
    BY <1>8 DEF CodeReturnsPending, ListenerOf, TimerOf, TakesCallback
  <1>9. CASE Return
    BY <1>9 DEF Return, EndStep
  <1>10. CASE TimerFires
    BY <1>10 DEF TimerFires, Idle, Drained
  <1>11. CASE ReportRejections
    BY <1>11 DEF ReportRejections, Drained, UncaughtException
  <1>12. CASE \E c \in Calls : StartTurn(c)
    BY <1>12 DEF StartTurn, Idle, Drained
  <1>13. CASE \E c \in Calls, answer \in {"ok", "error"} : Answer(c, answer)
    BY <1>13 DEF Answer, Running
  <1>14. CASE \E c \in Calls : Attach(c)
    BY <1>14 DEF Attach, Running, OnAttachment
  <1>15. CASE \E c \in Calls : Write(c)
    BY <1>15 DEF Write, Running
  <1>16. CASE \E c \in Calls : AttachStream(c)
    BY <1>16 DEF AttachStream, Running
  <1>17. CASE \E c \in Calls : StreamEnds(c)
    BY <1>17 DEF StreamEnds, UncaughtException, Idle, Drained, OnAttachment
  <1>18. CASE \E c \in Calls : StreamFails(c)
    BY <1>18 DEF StreamFails, Idle, Drained
  <1>19. CASE \E c \in Calls : Throw(c)
    BY <1>19 DEF Throw, UncaughtException
  <1>20. CASE EndTurn
    BY <1>20 DEF EndTurn
  <1>21. CASE UNCHANGED vars
    BY <1>21 DEF vars
  <1>22. QED
    BY <1>1, <1>2, <1>3, <1>4, <1>5, <1>6, <1>7, <1>8, <1>9, <1>10, <1>11, <1>12, <1>13, <1>14,
       <1>15, <1>16, <1>17, <1>18, <1>19, <1>20, <1>21 DEF Next, Turn, CodeEnds, Crashed

(* To be awaited is to listen.                                             *)
LEMMA OnlyTheAwaitedStep ==
    ASSUME IInv, [Next]_vars
    PROVE  OnlyTheAwaited'
  <1> USE UserCodeAssumption DEF IInv, OnlyTheAwaited, runnerVars, codeVars, worldVars
  <1>1. CASE NextCall
    BY <1>1 DEF NextCall, ResetTestProgressData, NewWorld
  <1>2. CASE AwaitTransformer
    BY <1>2 DEF AwaitTransformer
  <1>3. CASE Invoke
    BY <1>3 DEF Invoke, ArgumentsKnown
  <1>4. CASE Refuse
    BY <1>4 DEF Refuse, ArgumentsKnown, EndStep
  <1>5. CASE CodeThrows
    BY <1>5 DEF CodeThrows, EndStep, RejectedBy
  <1>6. CASE CodeReturnsValue
    BY <1>6 DEF CodeReturnsValue, EndStep, TakesCallback
  <1>7. CASE CodeUsesBoth
    BY <1>7 DEF CodeUsesBoth, EndStep, RejectedBy, TakesCallback
  <1>8. CASE CodeReturnsPending
    BY <1>8 DEF CodeReturnsPending, ListenerOf, TimerOf, TakesCallback
  <1>9. CASE Return
    BY <1>9 DEF Return, EndStep
  <1>10. CASE TimerFires
    BY <1>10 DEF TimerFires, Idle, Drained
  <1>11. CASE ReportRejections
    BY <1>11 DEF ReportRejections, Drained, UncaughtException
  <1>12. CASE \E c \in Calls : StartTurn(c)
    BY <1>12 DEF StartTurn, Idle, Drained
  <1>13. CASE \E c \in Calls, answer \in {"ok", "error"} : Answer(c, answer)
    BY <1>13 DEF Answer, Running
  <1>14. CASE \E c \in Calls : Attach(c)
    BY <1>14 DEF Attach, Running, OnAttachment
  <1>15. CASE \E c \in Calls : Write(c)
    BY <1>15 DEF Write, Running
  <1>16. CASE \E c \in Calls : AttachStream(c)
    BY <1>16 DEF AttachStream, Running
  <1>17. CASE \E c \in Calls : StreamEnds(c)
    BY <1>17 DEF StreamEnds, UncaughtException, Idle, Drained, OnAttachment
  <1>18. CASE \E c \in Calls : StreamFails(c)
    BY <1>18 DEF StreamFails, Idle, Drained
  <1>19. CASE \E c \in Calls : Throw(c)
    BY <1>19 DEF Throw, UncaughtException
  <1>20. CASE EndTurn
    BY <1>20 DEF EndTurn
  <1>21. CASE UNCHANGED vars
    BY <1>21 DEF vars
  <1>22. QED
    BY <1>1, <1>2, <1>3, <1>4, <1>5, <1>6, <1>7, <1>8, <1>9, <1>10, <1>11, <1>12, <1>13, <1>14,
       <1>15, <1>16, <1>17, <1>18, <1>19, <1>20, <1>21 DEF Next, Turn, CodeEnds, Crashed

(* A race begins with its call and only its answer settles it as passed.   *)
LEMMA RacesAreOwnStep ==
    ASSUME IInv, [Next]_vars
    PROVE  RacesAreOwn'
  <1> USE UserCodeAssumption DEF IInv, TypeOK, Settled, CallsInOrder, RacesAreOwn, InCall, Calls,
         runnerVars, codeVars, worldVars
  <1>1. CASE NextCall
    BY <1>1 DEF NextCall, ResetTestProgressData, NewWorld
  <1>2. CASE AwaitTransformer
    BY <1>2 DEF AwaitTransformer
  <1>3. CASE Invoke
    BY <1>3 DEF Invoke, ArgumentsKnown
  <1>4. CASE Refuse
    BY <1>4 DEF Refuse, ArgumentsKnown, EndStep
  <1>5. CASE CodeThrows
    BY <1>5 DEF CodeThrows, EndStep, RejectedBy
  <1>6. CASE CodeReturnsValue
    BY <1>6 DEF CodeReturnsValue, EndStep, TakesCallback
  <1>7. CASE CodeUsesBoth
    BY <1>7 DEF CodeUsesBoth, EndStep, RejectedBy, TakesCallback
  <1>8. CASE CodeReturnsPending
    BY <1>8 DEF CodeReturnsPending, ListenerOf, TimerOf, TakesCallback
  <1>9. CASE Return
    BY <1>9 DEF Return, EndStep
  <1>10. CASE TimerFires
    BY <1>10 DEF TimerFires, Idle, Drained
  <1>11. CASE ReportRejections
    BY <1>11 DEF ReportRejections, Drained, UncaughtException
  <1>12. CASE \E c \in Calls : StartTurn(c)
    BY <1>12 DEF StartTurn, Idle, Drained
  <1>13. CASE \E c \in Calls, answer \in {"ok", "error"} : Answer(c, answer)
    BY <1>13 DEF Answer, Running
  <1>14. CASE \E c \in Calls : Attach(c)
    BY <1>14 DEF Attach, Running, OnAttachment
  <1>15. CASE \E c \in Calls : Write(c)
    BY <1>15 DEF Write, Running
  <1>16. CASE \E c \in Calls : AttachStream(c)
    BY <1>16 DEF AttachStream, Running
  <1>17. CASE \E c \in Calls : StreamEnds(c)
    BY <1>17 DEF StreamEnds, UncaughtException, Idle, Drained, OnAttachment
  <1>18. CASE \E c \in Calls : StreamFails(c)
    BY <1>18 DEF StreamFails, Idle, Drained
  <1>19. CASE \E c \in Calls : Throw(c)
    BY <1>19 DEF Throw, UncaughtException
  <1>20. CASE EndTurn
    BY <1>20 DEF EndTurn
  <1>21. CASE UNCHANGED vars
    BY <1>21 DEF vars
  <1>22. QED
    BY <1>1, <1>2, <1>3, <1>4, <1>5, <1>6, <1>7, <1>8, <1>9, <1>10, <1>11, <1>12, <1>13, <1>14,
       <1>15, <1>16, <1>17, <1>18, <1>19, <1>20, <1>21 DEF Next, Turn, CodeEnds, Crashed

(* Worlds are written by their own attempt only.                           *)
LEMMA WorldsHoldTheirOwnStep ==
    ASSUME IInv, [Next]_vars
    PROVE  WorldsHoldTheirOwn'
  <1> USE UserCodeAssumption DEF IInv, TypeOK, WorldsHoldTheirOwn, runnerVars, codeVars, worldVars
  <1>1. CASE NextCall
    BY <1>1 DEF NextCall, ResetTestProgressData, NewWorld
  <1>2. CASE AwaitTransformer
    BY <1>2 DEF AwaitTransformer
  <1>3. CASE Invoke
    BY <1>3 DEF Invoke, ArgumentsKnown
  <1>4. CASE Refuse
    BY <1>4 DEF Refuse, ArgumentsKnown, EndStep
  <1>5. CASE CodeThrows
    BY <1>5 DEF CodeThrows, EndStep, RejectedBy
  <1>6. CASE CodeReturnsValue
    BY <1>6 DEF CodeReturnsValue, EndStep, TakesCallback
  <1>7. CASE CodeUsesBoth
    BY <1>7 DEF CodeUsesBoth, EndStep, RejectedBy, TakesCallback
  <1>8. CASE CodeReturnsPending
    BY <1>8 DEF CodeReturnsPending, ListenerOf, TimerOf, TakesCallback
  <1>9. CASE Return
    BY <1>9 DEF Return, EndStep
  <1>10. CASE TimerFires
    BY <1>10 DEF TimerFires, Idle, Drained
  <1>11. CASE ReportRejections
    BY <1>11 DEF ReportRejections, Drained, UncaughtException
  <1>12. CASE \E c \in Calls : StartTurn(c)
    BY <1>12 DEF StartTurn, Idle, Drained
  <1>13. CASE \E c \in Calls, answer \in {"ok", "error"} : Answer(c, answer)
    BY <1>13 DEF Answer, Running
  <1>14. CASE \E c \in Calls : Attach(c)
    BY <1>14 DEF Attach, Running, OnAttachment
  <1>15. CASE \E c \in Calls : Write(c)
    BY <1>15 DEF Write, Running, GetWorld, GetContext, GetStore
  <1>16. CASE \E c \in Calls : AttachStream(c)
    BY <1>16 DEF AttachStream, Running
  <1>17. CASE \E c \in Calls : StreamEnds(c)
    BY <1>17 DEF StreamEnds, UncaughtException, Idle, Drained, OnAttachment
  <1>18. CASE \E c \in Calls : StreamFails(c)
    BY <1>18 DEF StreamFails, Idle, Drained
  <1>19. CASE \E c \in Calls : Throw(c)
    BY <1>19 DEF Throw, UncaughtException
  <1>20. CASE EndTurn
    BY <1>20 DEF EndTurn
  <1>21. CASE UNCHANGED vars
    BY <1>21 DEF vars
  <1>22. QED
    BY <1>1, <1>2, <1>3, <1>4, <1>5, <1>6, <1>7, <1>8, <1>9, <1>10, <1>11, <1>12, <1>13, <1>14,
       <1>15, <1>16, <1>17, <1>18, <1>19, <1>20, <1>21 DEF Next, Turn, CodeEnds, Crashed

(* A call that passes was answered before, and the first answer stands.    *)
LEMMA PassedByOwnAnswerStep ==
    ASSUME IInv, [Next]_vars
    PROVE  PassedByOwnAnswer'
  <1> USE UserCodeAssumption DEF IInv, TypeOK, CallsInOrder, RacesAreOwn, InCall,
         PassedByOwnAnswer, Calls, runnerVars, codeVars, worldVars
  <1>1. CASE NextCall
    BY <1>1 DEF NextCall, ResetTestProgressData, NewWorld
  <1>2. CASE AwaitTransformer
    BY <1>2 DEF AwaitTransformer
  <1>3. CASE Invoke
    BY <1>3 DEF Invoke, ArgumentsKnown
  <1>4. CASE Refuse
    BY <1>4 DEF Refuse, ArgumentsKnown, EndStep
  <1>5. CASE CodeThrows
    BY <1>5 DEF CodeThrows, EndStep, RejectedBy
  <1>6. CASE CodeReturnsValue
    BY <1>6 DEF CodeReturnsValue, EndStep, TakesCallback
  <1>7. CASE CodeUsesBoth
    BY <1>7 DEF CodeUsesBoth, EndStep, RejectedBy, TakesCallback
  <1>8. CASE CodeReturnsPending
    BY <1>8 DEF CodeReturnsPending, ListenerOf, TimerOf, TakesCallback
  <1>9. CASE Return
    BY <1>9 DEF Return, EndStep
  <1>10. CASE TimerFires
    BY <1>10 DEF TimerFires, Idle, Drained
  <1>11. CASE ReportRejections
    BY <1>11 DEF ReportRejections, Drained, UncaughtException
  <1>12. CASE \E c \in Calls : StartTurn(c)
    BY <1>12 DEF StartTurn, Idle, Drained
  <1>13. CASE \E c \in Calls, answer \in {"ok", "error"} : Answer(c, answer)
    BY <1>13 DEF Answer, Running
  <1>14. CASE \E c \in Calls : Attach(c)
    BY <1>14 DEF Attach, Running, OnAttachment
  <1>15. CASE \E c \in Calls : Write(c)
    BY <1>15 DEF Write, Running
  <1>16. CASE \E c \in Calls : AttachStream(c)
    BY <1>16 DEF AttachStream, Running
  <1>17. CASE \E c \in Calls : StreamEnds(c)
    BY <1>17 DEF StreamEnds, UncaughtException, Idle, Drained, OnAttachment
  <1>18. CASE \E c \in Calls : StreamFails(c)
    BY <1>18 DEF StreamFails, Idle, Drained
  <1>19. CASE \E c \in Calls : Throw(c)
    BY <1>19 DEF Throw, UncaughtException
  <1>20. CASE EndTurn
    BY <1>20 DEF EndTurn
  <1>21. CASE UNCHANGED vars
    BY <1>21 DEF vars
  <1>22. QED
    BY <1>1, <1>2, <1>3, <1>4, <1>5, <1>6, <1>7, <1>8, <1>9, <1>10, <1>11, <1>12, <1>13, <1>14,
       <1>15, <1>16, <1>17, <1>18, <1>19, <1>20, <1>21 DEF Next, Turn, CodeEnds, Crashed

(* Every step keeps every variable in its type.                            *)
LEMMA TypeStep ==
    ASSUME IInv, [Next]_vars
    PROVE  TypeOK'
  <1> USE UserCodeAssumption DEF IInv, TypeOK, CallsInOrder, Stages, Settled, Calls, runnerVars,
         codeVars, worldVars
  <1>1. CASE NextCall
    <2>1. current + 1 \in Calls /\ current' = current + 1 /\ testStep' \in {0, current'}
      BY <1>1 DEF NextCall
    <2>2. scope[current'] \in Attempts \cup {TestRun}
      BY <2>1
    <2>3. \A w \in DOMAIN worlds' : w \in Attempts /\ worlds'[w] \subseteq Writing
      BY <1>1, <2>2 DEF NextCall, ResetTestProgressData, NewWorld
    <2>4. QED
      BY <1>1, <2>1, <2>3 DEF NextCall
  <1>2. CASE AwaitTransformer
    BY <1>2 DEF AwaitTransformer
  <1>3. CASE Invoke
    BY <1>3 DEF Invoke, ArgumentsKnown
  <1>4. CASE Refuse
    BY <1>4 DEF Refuse, ArgumentsKnown, EndStep
  <1>5. CASE CodeThrows
    BY <1>5 DEF CodeThrows, EndStep, RejectedBy
  <1>6. CASE CodeReturnsValue
    BY <1>6 DEF CodeReturnsValue, EndStep, TakesCallback
  <1>7. CASE CodeUsesBoth
    BY <1>7 DEF CodeUsesBoth, EndStep, RejectedBy, TakesCallback
  <1>8. CASE CodeReturnsPending
    BY <1>8 DEF CodeReturnsPending, ListenerOf, TimerOf, TakesCallback
  <1>9. CASE Return
    BY <1>9 DEF Return, EndStep
  <1>10. CASE TimerFires
    BY <1>10 DEF TimerFires, Idle, Drained
  <1>11. CASE ReportRejections
    BY <1>11 DEF ReportRejections, Drained, UncaughtException
  <1>12. CASE \E c \in Calls : StartTurn(c)
    BY <1>12 DEF StartTurn, Idle, Drained
  <1>13. CASE \E c \in Calls, answer \in {"ok", "error"} : Answer(c, answer)
    BY <1>13 DEF Answer, Running
  <1>14. CASE \E c \in Calls : Attach(c)
    <2>1. testStep \in Calls
      BY <1>14 DEF Attach, Attachable
    <2>2. QED
      BY <1>14, <2>1 DEF Attach, OnAttachment
  <1>15. CASE \E c \in Calls : Write(c)
    <2>1. parameters' \subseteq Writing
      BY <1>15 DEF Write
    <2>2. \A w \in DOMAIN worlds' : w \in Attempts /\ worlds'[w] \subseteq Writing
      BY <1>15 DEF Write
    <2>3. QED
      BY <1>15, <2>1, <2>2 DEF Write
  <1>16. CASE \E c \in Calls : AttachStream(c)
    BY <1>16 DEF AttachStream, Running
  <1>17. CASE \E c \in Calls : StreamEnds(c)
    <2>1. PICK c \in Calls : StreamEnds(c)
      BY <1>17
    <2>2. attachments' \subseteq [by : Calls, step : Calls]
      <3>1. CASE \E world \in GetWorld(c) : Attachable(world)
        BY <2>1, <3>1 DEF StreamEnds, OnAttachment, Attachable
      <3>2. CASE ~\E world \in GetWorld(c) : Attachable(world)
        BY <2>1, <3>2 DEF StreamEnds
      <3>3. QED
        BY <3>1, <3>2
    <2>3. stage' \in Stages /\ race' \in Settled \cup {"exception", "timeout"}
      BY <2>1 DEF StreamEnds, UncaughtException
    <2>4. QED
      BY <2>1, <2>2, <2>3 DEF StreamEnds
  <1>18. CASE \E c \in Calls : StreamFails(c)
    BY <1>18 DEF StreamFails, Idle, Drained
  <1>19. CASE \E c \in Calls : Throw(c)
    BY <1>19 DEF Throw, UncaughtException
  <1>20. CASE EndTurn
    BY <1>20 DEF EndTurn
  <1>21. CASE UNCHANGED vars
    BY <1>21 DEF vars
  <1>22. QED
    BY <1>1, <1>2, <1>3, <1>4, <1>5, <1>6, <1>7, <1>8, <1>9, <1>10, <1>11, <1>12, <1>13, <1>14,
       <1>15, <1>16, <1>17, <1>18, <1>19, <1>20, <1>21 DEF Next, Turn, CodeEnds, Crashed

-----------------------------------------------------------------------------
(* Theorems. *)

(* The invariant is one: it holds whatever user code does, and when.       *)
THEOREM Invariance == Spec => []IInv
  <1>1. IInv /\ [Next]_vars => IInv'
    BY TypeStep, CallsInOrderStep, TurnsOfTheLoopStep, OnlyTheAwaitedStep, RacesAreOwnStep,
       WorldsHoldTheirOwnStep, PassedByOwnAnswerStep DEF IInv
  <1>2. QED
    BY <1>1, InitIInv, PTL DEF Spec

(* Every variable of the thread stays in its type.                         *)
THEOREM TypeCorrectness == Spec => []TypeOK
  <1>1. IInv => TypeOK
    BY DEF IInv
  <1>2. QED
    BY <1>1, Invariance, PTL

(* finalPromise of run(): a late answer passes no call but its own.        *)
THEOREM AnswersAreOwn == Spec => []PassedByOwnAnswer
  <1>1. IInv => PassedByOwnAnswer
    BY DEF IInv
  <1>2. QED
    BY <1>1, Invariance, PTL

(* UncaughtExceptionManager: the handler is there for as long as a call is *)
(* awaited and no longer, so that no exception ends the process meanwhile. *)
THEOREM AwaitedCallsAreSafe == Spec => ListensWhileAwaited
  <1>1. ASSUME IInv, [Next]_vars, IInv'
        PROVE  [/\ stage = "waiting" => stage' # "crashed"
                /\ stage' # "waiting" => listeners' = {} /\ timers' = {}]_vars
    <2>1. stage' # "waiting" => listeners' = {} /\ timers' = {}
      BY <1>1 DEF IInv, OnlyTheAwaited
    <2>2. stage = "waiting" => listeners # {}
      BY <1>1 DEF IInv, OnlyTheAwaited
    <2>3. stage = "waiting" => stage' # "crashed"
      BY <1>1, <2>2 DEF Next, Turn, CodeEnds, Crashed, vars, NextCall, AwaitTransformer, Invoke,
         Refuse, CodeThrows, CodeReturnsValue, CodeUsesBoth, CodeReturnsPending, EndStep, Return,
         TimerFires, ReportRejections, StartTurn, Answer, Attach, Write, AttachStream, StreamEnds,
         StreamFails, Throw, EndTurn, UncaughtException
    <2>4. QED
      BY <2>1, <2>3
  <1>2. QED
    BY <1>1, Invariance, PTL DEF Spec, ListensWhileAwaited

(* currentTestStepId and the onAttachment of a test case: what is attached *)
(* goes to the open step, and that step is of the same test case.          *)
THEOREM AttachmentsGoToOpenSteps == Spec => AttachedWhileOpen
  <1>1. ASSUME IInv, [Next]_vars
        PROVE  [\A a \in attachments' \ attachments :
                  /\ a.step = current /\ outcomes[a.step] = "none"
                  /\ CaseOf(a.by) = CaseOf(a.step)
                  /\ CaseOf(a.by) \in TestCases]_vars
    <2> SUFFICES ASSUME NEW a \in attachments' \ attachments
                 PROVE  /\ a.step = current /\ outcomes[a.step] = "none"
                        /\ CaseOf(a.by) = CaseOf(a.step)
                        /\ CaseOf(a.by) \in TestCases
      OBVIOUS
    <2>1. PICK c \in Calls : OnAttachment(c) /\ \E world \in GetWorld(c) : Attachable(world)
      BY <1>1 DEF Next, Turn, CodeEnds, Crashed, vars, codeVars, NextCall, AwaitTransformer, Invoke,
         Refuse, CodeThrows, CodeReturnsValue, CodeUsesBoth, CodeReturnsPending, EndStep, Return,
         TimerFires, ReportRejections, StartTurn, Answer, Attach, Write, AttachStream, StreamEnds,
         StreamFails, Throw, EndTurn
    <2>2. a.by = c /\ a.step = testStep
      BY <2>1 DEF OnAttachment
    <2>3. scope[c] # TestRun /\ testStep # 0 /\ CaseOf(testStep) = scope[c].case
      BY <2>1 DEF GetWorld, GetStore, Attachable
    <2>4. scope[c] \in Attempts
      BY <1>1, <2>3, UserCodeAssumption DEF IInv, TypeOK
    <2>5. CaseOf(c) = scope[c].case /\ CaseOf(c) \in TestCases
      BY <2>3, <2>4 DEF CaseOf, Attempts
    <2>6. QED
      BY <1>1, <2>2, <2>3, <2>5 DEF IInv, CallsInOrder
  <1>2. QED
    BY <1>1, Invariance, PTL DEF Spec, AttachedWhileOpen

(* ResetTestProgressData and the world proxy: each attempt has a World of  *)
(* its own, made from what the hooks of the run had written by then.       *)
THEOREM WorldsStayApart == Spec => WorldsKeptApart
  <1>1. ASSUME IInv, [Next]_vars, IInv'
        PROVE  [/\ \A c \in parameters' \ parameters : scope[c] = TestRun
                /\ \A w \in DOMAIN worlds' :
                       LET had == IF w \in DOMAIN worlds THEN worlds[w] ELSE parameters
                       IN /\ had \subseteq worlds'[w]
                          /\ \A c \in worlds'[w] \ {x \in parameters : scope[x] = TestRun} :
                                 scope[c] = w]_vars
    <2>1. UNCHANGED scope
      BY <1>1 DEF Next, Turn, CodeEnds, Crashed, vars, NextCall, AwaitTransformer, Invoke, Refuse,
         CodeThrows, CodeReturnsValue, CodeUsesBoth, CodeReturnsPending, EndStep, Return,
         TimerFires, ReportRejections, StartTurn, Answer, Attach, Write, AttachStream, StreamEnds,
         StreamFails, Throw, EndTurn
    <2>2. CASE NextCall
      BY <1>1, <2>1, <2>2 DEF NextCall, ResetTestProgressData, NewWorld, IInv, WorldsHoldTheirOwn
    <2>3. CASE \E c \in Calls : Write(c)
      BY <1>1, <2>1, <2>3 DEF Write, GetWorld, GetContext, GetStore, IInv, WorldsHoldTheirOwn
    <2>4. CASE UNCHANGED worldVars
      BY <1>1, <2>1, <2>4 DEF worldVars, IInv, WorldsHoldTheirOwn
    <2>5. QED
      BY <1>1, <2>2, <2>3, <2>4 DEF Next, Turn, CodeEnds, Crashed, vars, worldVars,
         AwaitTransformer, Invoke, Refuse, CodeThrows, CodeReturnsValue, CodeUsesBoth,
         CodeReturnsPending, EndStep, Return, TimerFires, ReportRejections, StartTurn, Answer,
         Attach, AttachStream, StreamEnds, StreamFails, Throw, EndTurn
  <1>2. QED
    BY <1>1, Invariance, PTL DEF Spec, WorldsKeptApart
=============================================================================
