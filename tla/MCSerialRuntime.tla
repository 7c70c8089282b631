--------------------------- MODULE MCSerialRuntime ---------------------------
(***************************************************************************)
(* An instance of SerialRuntime for TLC.                                   *)
(***************************************************************************)
EXTENDS SerialRuntime

MCBeforeTestRunHooks == {1, 2}
MCAfterTestRunHooks == {3, 4}
MCOnCoordinator == {2, 3}
=============================================================================
