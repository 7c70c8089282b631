------------------------------ MODULE StackTraces ------------------------------
(***************************************************************************)
(* Stack traces, as sequences of frames with the innermost first: what is  *)
(* kept of one in a report (src/src/filter_stack_trace.ts), and where a    *)
(* call of the support code was made                                       *)
(* (support_code_library_builder/get_definition_line_and_uri.ts).          *)
(***************************************************************************)
EXTENDS Naturals, SequencesExt

(* A frame is in a file of cucumber or of the user, in a module of Node.js *)
(* with a separator in its name or without, or in none, as native code is. *)
StackFrame ==
    [file : {"cucumber", "user", "node:internal/a", "node:a", "none"}, line : Nat]

IsFrameInCucumber(frame) == frame.file = "cucumber"

IsFrameInNode(frame) == frame.file \in {"node:a", "none"}

(* The first frame that is not of Node.js is in cucumber.                  *)
IsErrorInCucumber(frames) ==
    LET index == SelectInSeq(frames, LAMBDA frame : ~IsFrameInNode(frame))
    IN index # 0 /\ IsFrameInCucumber(frames[index])

(* Up to the first frame in cucumber.                                      *)
FilterStackTrace(frames) ==
    LET index == SelectInSeq(frames, IsFrameInCucumber)
    IN IF IsErrorInCucumber(frames) \/ index = 0 THEN frames
       ELSE SubSeq(frames, 1, index - 1)

(* The first frame that is not in cucumber, if the stack is not cut off at *)
(* its limit before.                                                       *)
DefinitionFrame(frames) == SelectInSeq(frames, LAMBDA frame : ~IsFrameInCucumber(frame))

(* A frame without a file is asked for its name.                           *)
IsLocated(frames) == \A i \in 1 .. DefinitionFrame(frames) : frames[i].file # "none"

GetDefinitionLineAndUri(frames) ==
    LET index == DefinitionFrame(frames)
    IN IF index = 0 THEN [uri |-> "unknown", line |-> 0]
       ELSE [uri |-> frames[index].file, line |-> frames[index].line]
=============================================================================
