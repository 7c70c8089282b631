-------------------------------- MODULE Errors --------------------------------
(***************************************************************************)
(* What a report tells of an error: its stack and the chain of its causes  *)
(* (src/src/runtime/format_error.ts).                                      *)
(***************************************************************************)
EXTENDS StackTraces

CONSTANTS
    FramesOf,           \* the stack of each error
    CauseOf,            \* the cause of each: an error, some other value, or NoCause
    NoCause,            \* stands for undefined and null
    MaxCauseDepth,      \* MAX_CAUSE_DEPTH, 10
    FilterStackTraces   \* options.filterStackTraces

ThrownErrors == DOMAIN FramesOf

ASSUME ErrorsAssumption ==
    /\ \A error \in ThrownErrors : FramesOf[error] \in Seq(StackFrame)
    /\ DOMAIN CauseOf = ThrownErrors
    /\ NoCause \notin ThrownErrors
    /\ MaxCauseDepth \in Nat
    /\ FilterStackTraces \in BOOLEAN

(* An error that cannot be parsed, having no frames, and one that nothing  *)
(* is left of, are told with the stack they have.                          *)
FormatSingleError(error) ==
    LET filtered == IF FilterStackTraces THEN FilterStackTrace(FramesOf[error]) ELSE FramesOf[error]
    IN [error |-> error, stack |-> IF filtered = <<>> THEN FramesOf[error] ELSE filtered]

(* A cause that is no error has no cause.                                  *)
FormatCause(cause) ==
    IF cause \in ThrownErrors THEN FormatSingleError(cause) ELSE [error |-> cause, stack |-> <<>>]

(* The error and its causes, as far as they may be followed.               *)
CausesOf(error) ==
    LET cause[depth \in 0 .. MaxCauseDepth + 1] ==
            IF depth = 0 THEN error
            ELSE IF cause[depth - 1] \in ThrownErrors THEN CauseOf[cause[depth - 1]] ELSE NoCause
    IN cause

(* Whether a cause is among those that have been told.                     *)
\* Wrong variant: the error itself is not.
IsSeen_CausesOnly(cause, depth) == \E i \in 1 .. depth - 1 : cause[i] = cause[depth]

IsSeen(cause, depth) == \E i \in 0 .. depth - 1 : cause[i] = cause[depth]

(* They are told until there are no more, there are too many, or one has   *)
(* been told already.                                                      *)
FormatErrorAndCauses(error) ==
    LET cause == CausesOf(error)
        Breaks(depth) == cause[depth] = NoCause \/ depth > MaxCauseDepth \/ IsSeen(cause, depth)
        last == Min({depth \in 1 .. MaxCauseDepth + 1 : Breaks(depth)})
    IN [told |-> [i \in 1 .. last |-> FormatCause(cause[i - 1])],
        ends |-> CASE cause[last] = NoCause -> "whole"
                   [] cause[last] # NoCause /\ last > MaxCauseDepth -> "truncated"
                   [] OTHER -> "circular"]

(* What is not an error is told as it is.                                  *)
FormatError(error) ==
    IF error \in ThrownErrors THEN FormatErrorAndCauses(error)
    ELSE [told |-> <<FormatCause(error)>>, ends |-> "whole"]
=============================================================================
