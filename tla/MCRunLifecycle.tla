---------------------------- MODULE MCRunLifecycle ----------------------------
(***************************************************************************)
(* An instance of RunLifecycle for TLC.                                    *)
(***************************************************************************)
EXTENDS RunLifecycle

(* stdout and the second file are written by plugins, the first file by a  *)
(* class.                                                                  *)
MCPluginFormatters == {NumPlugins + 1, NumPlugins + 3}
=============================================================================
