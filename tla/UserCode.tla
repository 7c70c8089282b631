------------------------------- MODULE UserCode -------------------------------
(***************************************************************************)
(* The calls of user code a thread makes, one after another: test steps of *)
(* test cases and hooks of the run (src/src/user_code_runner.ts, time.ts,  *)
(* uncaught_exception_manager.ts, runtime/step_runner.ts), the scope each  *)
(* runs in (runtime/scope) with the World of its attempt, and what that    *)
(* code may still do when its call is long over: answer, throw, attach     *)
(* (AttachmentManager, and the currentTestStepId of TestCaseRunner) or     *)
(* write to the World.                                                     *)
(*                                                                         *)
(* The thread is one event loop.  A turn runs some user code to its end;   *)
(* the continuations of promises follow, up to the next thing waited for;  *)
(* then the rejections nobody has handled are reported; only then comes    *)
(* the next turn.                                                          *)
(***************************************************************************)
EXTENDS Naturals

CONSTANTS
    NumCalls,    \* how many calls are made
    TestCases,   \* the test cases run on the thread
    TestRun,     \* stands for the test run, whose hooks belong to no attempt
    Plans,       \* what each call may be made for: an attempt at a test case, or the test run
    Timed,       \* the calls whose timeoutInMilliseconds is not negative
    GapAfter,    \* the calls after which the thread waits for an event, unless
                 \* the next is for the same test case
    Transforming,\* the steps with a parameter type whose transformer is awaited
    Streaming,   \* the calls that may attach a stream
    Writing      \* the calls that may write to the World, or to the context of the run

Calls == 1 .. NumCalls

Attempts == [case : TestCases, attempt : Nat \ {0}]

ASSUME UserCodeAssumption ==
    /\ NumCalls \in Nat \ {0}
    /\ TestRun \notin Attempts
    /\ \A plan \in Plans : DOMAIN plan = Calls /\ \A c \in Calls : plan[c] \in Attempts \cup {TestRun}
    /\ Timed \subseteq Calls
    /\ GapAfter \subseteq Calls
    /\ Transforming \subseteq Calls
    /\ Streaming \subseteq Calls
    /\ Writing \subseteq Calls

VARIABLES
    scope,           \* what each call is made for
    current,         \* the call being made, or the last one
    stage,           \* where the thread is with it
    turn,            \* the call whose code the event loop is running, 0 if none
    answerable,      \* the calls that were given a callback or returned a promise
    raced,           \* the calls whose callback or promise is in a race
    answers,         \* how the callback or promise of each call was settled
    unhandled,       \* the calls with a rejected promise nobody has handled
    race,            \* how finalPromise of the current call was settled
    listeners,       \* the calls whose 'uncaughtException' handler is registered
    timers,          \* the calls whose timeout is running
    outcomes,        \* what the calls have returned
    testStep,        \* currentTestStepId, 0 for null
    attachments,     \* the attachment envelopes: made by a call, for a step
    streams,         \* the calls that have attached a stream still being read
    parameters,      \* the calls that have written to the world parameters of the run
    worlds           \* the calls whose writing each World has, for each attempt so far

runnerVars == <<race, listeners, timers>>

codeVars == <<answerable, raced, answers, unhandled, attachments, streams>>

worldVars == <<parameters, worlds>>

vars == <<scope, current, stage, turn, runnerVars, codeVars, worldVars, outcomes, testStep>>

Stages ==
    {"gap", "between", "arguments", "transforming", "code", "waiting", "crashed"}

Settled == {"none", "ok", "error"}

TypeOK ==
    /\ scope \in Plans
    /\ current \in 0 .. NumCalls
    /\ stage \in Stages
    /\ turn \in 0 .. NumCalls
    /\ answerable \subseteq Calls
    /\ raced \subseteq answerable
    /\ answers \in [Calls -> Settled]
    /\ unhandled \subseteq Calls
    /\ race \in Settled \cup {"exception", "timeout"}
    /\ listeners \subseteq Calls
    /\ timers \subseteq Calls
    /\ outcomes \in [Calls -> {"none", "passed", "failed"}]
    /\ testStep \in 0 .. NumCalls
    /\ attachments \subseteq [by : Calls, step : Calls]
    /\ streams \subseteq Streaming
    /\ parameters \subseteq Writing
    /\ \A w \in DOMAIN worlds : w \in Attempts /\ worlds[w] \subseteq Writing

Init ==
    /\ scope \in Plans
    /\ current = 0
    /\ stage = "gap"
    /\ turn = 0
    /\ answerable = {}
    /\ raced = {}
    /\ answers = [c \in Calls |-> "none"]
    /\ unhandled = {}
    /\ race = "none"
    /\ listeners = {}
    /\ timers = {}
    /\ outcomes = [c \in Calls |-> "none"]
    /\ testStep = 0
    /\ attachments = {}
    /\ streams = {}
    /\ parameters = {}
    /\ worlds = << >>

CaseOf(c) == IF scope[c] = TestRun THEN TestRun ELSE scope[c].case

(* No user code and no continuation can run.                               *)
Drained ==
    /\ turn = 0
    /\ stage \in {"gap", "transforming"} \/ (stage = "waiting" /\ race = "none")

(* The event loop can take its next event.                                 *)
Idle == Drained /\ unhandled = {}

-----------------------------------------------------------------------------
(* The runner. *)

(* A World keeps the parameters it is given.                               *)
NewWorld(given) == given

(* A test case, and each attempt at it after the first, begins with a new  *)
(* World and its own copy of the world parameters of the run.              *)
ResetTestProgressData(call) ==
    worlds' = [w \in DOMAIN worlds \cup ({call} \ {TestRun}) |->
                  IF w \in DOMAIN worlds THEN worlds[w] ELSE NewWorld(parameters)]

(* The executor begins a hook of the run, or aroundTestStep the next step. *)
NextCall ==
    /\ current < NumCalls
    /\ stage = "between" \/ (stage = "gap" /\ Idle)
    /\ current' = current + 1
    /\ testStep' = IF scope[current'] = TestRun THEN 0 ELSE current'
    /\ ResetTestProgressData(scope[current'])
    /\ stage' = "arguments"
    /\ UNCHANGED <<scope, turn, runnerVars, codeVars, parameters, outcomes>>

(* A worker waits for its next command; the adapter of the main thread and *)
(* the runner of a test case go on at once.                                *)
Waits ==
    \/ current = NumCalls
    \/ current \in GapAfter /\ CaseOf(current) # CaseOf(current + 1)

(* run() returns and aroundTestStep ends the step.                         *)
\* Wrong variant: the current step is not reset.
EndStep_StepKept(outcome) ==
    /\ outcomes' = [outcomes EXCEPT ![current] = outcome]
    /\ stage' = IF Waits THEN "gap" ELSE "between"
    /\ UNCHANGED <<scope, current, worldVars, testStep>>

EndStep(outcome) ==
    /\ outcomes' = [outcomes EXCEPT ![current] = outcome]
    /\ testStep' = 0
    /\ stage' = IF Waits THEN "gap" ELSE "between"
    /\ UNCHANGED <<scope, current, worldVars>>

(* getInvocationParameters awaits what a transformer returned.  There is   *)
(* no timeout yet, and nobody listens for exceptions.                      *)
AwaitTransformer ==
    /\ stage = "arguments"
    /\ current \in Transforming /\ scope[current] # TestRun
    /\ stage' = "transforming"
    /\ UNCHANGED <<scope, current, turn, runnerVars, codeVars, worldVars, outcomes, testStep>>

(* The arguments are there, or the transformer's promise is settled.       *)
ArgumentsKnown == stage = "arguments" \/ (stage = "transforming" /\ Idle)

(* run() applies the function, which may take its callback.                *)
Invoke ==
    /\ ArgumentsKnown
    /\ stage' = "code"
    /\ answerable' \in {answerable, answerable \cup {current}}
    /\ UNCHANGED <<scope, current, turn, runnerVars, raced, answers, unhandled>>
    /\ UNCHANGED <<attachments, streams, worldVars, outcomes, testStep>>

(* A transformer threw or was rejected, or the function takes a number of  *)
(* arguments it cannot be given: it is not applied.  Hooks of the run take *)
(* what they are given.                                                    *)
Refuse ==
    /\ ArgumentsKnown
    /\ scope[current] # TestRun
    /\ EndStep("failed")
    /\ UNCHANGED <<turn, runnerVars, codeVars>>

(* fn.length = argsArray.length                                            *)
TakesCallback == current \in answerable

(* A rejected promise of the call that is in no race.                      *)
RejectedBy(answer) == IF answer = "error" THEN {current} ELSE {}

(* The function throws before it returns.                                  *)
CodeThrows ==
    /\ stage = "code"
    /\ EndStep("failed")
    /\ unhandled' = unhandled \cup RejectedBy(answers[current])
    /\ UNCHANGED <<turn, runnerVars, answerable, raced, answers, attachments, streams>>

(* It returns nothing to wait for and takes no callback.                   *)
CodeReturnsValue ==
    /\ stage = "code" /\ ~TakesCallback
    /\ EndStep("passed")
    /\ UNCHANGED <<turn, runnerVars, codeVars>>

(* It takes a callback and returns a promise: neither is waited for.  Of   *)
(* the two, `answers` keeps the one that is rejected, if any.              *)
CodeUsesBoth ==
    /\ stage = "code" /\ TakesCallback
    /\ \E answer \in IF answers[current] = "none" THEN Settled ELSE {answers[current], "error"} :
           /\ answers' = [answers EXCEPT ![current] = answer]
           /\ unhandled' = unhandled \cup RejectedBy(answer)
    /\ EndStep("failed")
    /\ UNCHANGED <<turn, runnerVars, answerable, raced, attachments, streams>>

\* Wrong variants: only callbacks are timed; only they listen.
TimerOf_CallbacksOnly(c) == IF c \in Timed /\ TakesCallback THEN {c} ELSE {}

TimerOf(c) == IF c \in Timed THEN {c} ELSE {}

ListenerOf_CallbacksOnly(c) == IF TakesCallback THEN {c} ELSE {}

ListenerOf(c) == {c}

(* It takes a callback or returns a promise, which may be settled already: *)
(* run() awaits the first of that answer, an uncaught exception and the    *)
(* timeout.                                                                *)
CodeReturnsPending ==
    /\ stage = "code"
    /\ \E answer \in IF TakesCallback THEN {answers[current]} ELSE Settled :
           /\ answers' = [answers EXCEPT ![current] = answer]
           /\ race' = answer
    /\ answerable' = answerable \cup {current}
    /\ raced' = raced \cup {current}
    /\ listeners' = listeners \cup ListenerOf(current)
    /\ timers' = timers \cup TimerOf(current)
    /\ stage' = "waiting"
    /\ UNCHANGED <<scope, current, turn, unhandled, attachments, streams, worldVars, outcomes, testStep>>

(* finalPromise is settled: the timer is cleared, the handler unregistered *)
(* and the error, if any, returned.                                        *)
Return ==
    /\ stage = "waiting" /\ turn = 0 /\ race # "none"
    /\ timers' = timers \ {current}
    /\ listeners' = listeners \ {current}
    /\ race' = "none"
    /\ EndStep(IF race = "ok" THEN "passed" ELSE "failed")
    /\ UNCHANGED <<turn, codeVars>>

TimerFires ==
    /\ Idle /\ current \in timers
    /\ race' = "timeout"
    /\ timers' = timers \ {current}
    /\ UNCHANGED <<scope, current, stage, turn, listeners, codeVars, worldVars, outcomes, testStep>>

(* The process tells its listeners of an exception, or dies of it.         *)
UncaughtException ==
    IF listeners = {}
    THEN stage' = "crashed" /\ UNCHANGED race
    ELSE race' = (IF race = "none" THEN "exception" ELSE race) /\ UNCHANGED stage

(* Unhandled rejections are raised as exceptions, all at once.             *)
ReportRejections ==
    /\ Drained /\ unhandled # {}
    /\ unhandled' = {}
    /\ UncaughtException
    /\ UNCHANGED <<scope, current, turn, listeners, timers, answerable, raced, answers>>
    /\ UNCHANGED <<attachments, streams, worldVars, outcomes, testStep>>

-----------------------------------------------------------------------------
(* User code, in its call or in a turn of its own: a timer, a socket or a  *)
(* stream it has set up, however long ago.                                 *)

Running == IF stage = "code" THEN current ELSE turn

StartTurn(c) ==
    /\ Idle
    /\ c <= current
    /\ turn' = c
    /\ UNCHANGED <<scope, current, stage, runnerVars, codeVars, worldVars, outcomes, testStep>>

EndTurn ==
    /\ turn # 0
    /\ turn' = 0
    /\ UNCHANGED <<scope, current, stage, runnerVars, codeVars, worldVars, outcomes, testStep>>

(* The callback is called, or the promise settled, for the first time.  An *)
(* answer to a call that has returned is ignored, except that a rejection  *)
(* of a promise that was in no race is unhandled.                          *)
\* Wrong variant: any answer settles the race of the call being made.
Answer_AnyCall(c, answer) ==
    /\ Running = c /\ c \in answerable /\ answers[c] = "none"
    /\ answers' = [answers EXCEPT ![c] = answer]
    /\ race' = IF stage = "waiting" /\ race = "none" THEN answer ELSE race
    /\ unhandled' = IF stage # "code" /\ c \notin raced /\ answer = "error"
                    THEN unhandled \cup {c} ELSE unhandled
    /\ UNCHANGED <<scope, current, stage, turn, listeners, timers, answerable, raced>>
    /\ UNCHANGED <<attachments, streams, worldVars, outcomes, testStep>>

Answer(c, answer) ==
    /\ Running = c /\ c \in answerable /\ answers[c] = "none"
    /\ answers' = [answers EXCEPT ![c] = answer]
    /\ race' = IF stage = "waiting" /\ c = current /\ race = "none" THEN answer ELSE race
    /\ unhandled' = IF stage # "code" /\ c \notin raced /\ answer = "error"
                    THEN unhandled \cup {c} ELSE unhandled
    /\ UNCHANGED <<scope, current, stage, turn, listeners, timers, answerable, raced>>
    /\ UNCHANGED <<attachments, streams, worldVars, outcomes, testStep>>

(* The store a scope was entered with goes with the code run in it, however *)
(* late (AsyncLocalStorage).                                               *)
GetStore(c) == scope[c]

(* What the world proxy stands for when code of a call looks at it; it     *)
(* throws in a hook of the run, whose store is another.                    *)
GetWorld(c) == {GetStore(c)} \ {TestRun}

(* And the context proxy, which throws everywhere but in such a hook.      *)
GetContext(c) == {GetStore(c)} \cap {TestRun}

(* What is written through a proxy, or `this`, goes to the thing it stands *)
(* for: the World, or the parameters the run has for all of them.          *)
\* Wrong variant: the Worlds share the parameters of the run.
Write_ToShared(c) ==
    /\ Running = c
    /\ c \in Writing
    /\ worlds' = [w \in DOMAIN worlds |-> worlds[w] \cup {c}]
    /\ parameters' = parameters \cup {c}
    /\ UNCHANGED <<scope, current, stage, turn, runnerVars, codeVars, outcomes, testStep>>

Write(c) ==
    /\ Running = c
    /\ c \in Writing
    /\ worlds' = [w \in DOMAIN worlds |-> IF w \in GetWorld(c) THEN worlds[w] \cup {c} ELSE worlds[w]]
    /\ parameters' = IF GetContext(c) # {} THEN parameters \cup {c} ELSE parameters
    /\ UNCHANGED <<scope, current, stage, turn, runnerVars, codeVars, outcomes, testStep>>

(* The onAttachment of a test case, which the Worlds of all its attempts   *)
(* share, is for the step of it that is running; it throws when there is   *)
(* none.                                                                   *)
Attachable(world) == testStep # 0 /\ CaseOf(testStep) = world.case

OnAttachment(c) == attachments' = attachments \cup {[by |-> c, step |-> testStep]}

(* attach(), log() or link() of the World with text or a buffer.           *)
Attach(c) ==
    /\ Running = c
    /\ \E world \in GetWorld(c) : Attachable(world)
    /\ OnAttachment(c)
    /\ UNCHANGED <<scope, current, stage, turn, runnerVars, answerable, raced, answers>>
    /\ UNCHANGED <<unhandled, streams, worldVars, outcomes, testStep>>

(* attach() of a stream, which need not be over before the step is.        *)
AttachStream(c) ==
    /\ Running = c
    /\ c \in Streaming \ streams /\ GetWorld(c) # {}
    /\ streams' = streams \cup {c}
    /\ UNCHANGED <<scope, current, stage, turn, runnerVars, answerable, raced, answers>>
    /\ UNCHANGED <<unhandled, attachments, worldVars, outcomes, testStep>>

(* All of the stream is read: it is attached now.                          *)
StreamEnds(c) ==
    /\ Idle /\ c \in streams
    /\ streams' = streams \ {c}
    /\ IF \E world \in GetWorld(c) : Attachable(world)
       THEN OnAttachment(c) /\ UNCHANGED <<stage, race>>
       ELSE UncaughtException /\ UNCHANGED attachments
    /\ UNCHANGED <<scope, current, turn, listeners, timers, answerable, raced, answers>>
    /\ UNCHANGED <<unhandled, worldVars, outcomes, testStep>>

(* The stream fails: the promise attach() returned is rejected, which its  *)
(* user may have looked at, or a callback be called.                       *)
StreamFails(c) ==
    /\ Idle /\ c \in streams
    /\ streams' = streams \ {c}
    /\ unhandled' \in {unhandled, unhandled \cup {c}}
    /\ UNCHANGED <<scope, current, stage, turn, runnerVars, answerable, raced, answers>>
    /\ UNCHANGED <<attachments, worldVars, outcomes, testStep>>

(* The code throws in a turn of its own, for reasons of its own, because   *)
(* it attaches when it cannot or what cannot be attached, or because it    *)
(* uses a proxy out of its scope.                                          *)
Throw(c) ==
    /\ turn = c
    /\ turn' = 0
    /\ UncaughtException
    /\ UNCHANGED <<scope, current, listeners, timers, codeVars, worldVars, outcomes, testStep>>

-----------------------------------------------------------------------------
CodeEnds == CodeThrows \/ CodeReturnsValue \/ CodeUsesBoth \/ CodeReturnsPending

Turn(c) ==
    \/ StartTurn(c)
    \/ \E answer \in {"ok", "error"} : Answer(c, answer)
    \/ Attach(c)
    \/ Write(c)
    \/ AttachStream(c)
    \/ StreamEnds(c)
    \/ StreamFails(c)
    \/ Throw(c)

Crashed == stage = "crashed" /\ UNCHANGED vars

Next ==
    \/ NextCall
    \/ AwaitTransformer
    \/ Invoke
    \/ Refuse
    \/ CodeEnds
    \/ Return
    \/ TimerFires
    \/ ReportRejections
    \/ \E c \in Calls : Turn(c)
    \/ EndTurn
    \/ Crashed

(* Synchronous code and turns end, and continuations run.  The event loop  *)
(* visits its timers in every round, so that other turns cannot keep one   *)
(* from firing for ever.  Nothing makes user code answer, nor a            *)
(* transformer.                                                            *)
Fairness ==
    /\ WF_vars(NextCall)
    /\ WF_vars(stage = "arguments" /\ (AwaitTransformer \/ Invoke \/ Refuse))
    /\ WF_vars(CodeEnds)
    /\ WF_vars(Return)
    /\ WF_vars(ReportRejections)
    /\ WF_vars(EndTurn)
    /\ SF_vars(TimerFires)

Spec == Init /\ [][Next]_vars

FairSpec == Spec /\ Fairness

-----------------------------------------------------------------------------
(* Properties. *)

(* While a call is awaited no exception ends the process, not even one     *)
(* thrown by the code of an earlier call or by a promise nobody looked at; *)
(* and whatever ended the call, nothing of it listens for exceptions or is *)
(* timed once it has returned.                                             *)
ListensWhileAwaited ==
    [][/\ stage = "waiting" => stage' # "crashed"
       /\ stage' # "waiting" => listeners' = {} /\ timers' = {}]_vars

(* A call that was waited for passes only by its own answer: one that      *)
(* arrives late, after a timeout, passes no later call in its place.       *)
PassedByOwnAnswer ==
    \A c \in raced : outcomes[c] = "passed" => answers[c] = "ok"

(* What user code attaches, in time or too late, goes out between the      *)
(* start and the end of the test step it names, and that step is of the    *)
(* test case the code was run for, never of the one that is running now    *)
(* (but of an attempt at it that may be another).                          *)
AttachedWhileOpen ==
    [][\A a \in attachments' \ attachments :
          /\ a.step = current /\ outcomes[a.step] = "none"
          /\ CaseOf(a.by) = CaseOf(a.step)
          /\ CaseOf(a.by) \in TestCases]_vars

(* docs/support_files/hooks.md: hooks of the run can "update the parameters *)
(* with extra context which will then be available to other hooks and      *)
(* steps", that is to every World made from then on.  What the code of an  *)
(* attempt writes, in time or too late, its own World has and no other,    *)
(* nor one made later, nor a hook of the run.                              *)
WorldsKeptApart ==
    [][/\ \A c \in parameters' \ parameters : scope[c] = TestRun
       /\ \A w \in DOMAIN worlds' :
              LET had == IF w \in DOMAIN worlds THEN worlds[w] ELSE parameters
              IN /\ had \subseteq worlds'[w]
                 /\ \A c \in worlds'[w] \ {x \in parameters : scope[x] = TestRun} : scope[c] = w]_vars

(* A call with a timeout comes back, although its own code may never       *)
(* answer and that of earlier calls may keep the event loop busy.          *)
TimedCallReturns ==
    \A c \in Timed : (stage = "waiting" /\ current = c) ~> outcomes[c] # "none"
=============================================================================
