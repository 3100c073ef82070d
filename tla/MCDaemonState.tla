----------------------------- MODULE MCDaemonState -----------------------------
(***************************************************************************)
(* Instances of DaemonState for TLC.                                       *)
(***************************************************************************)
EXTENDS DaemonState
===============================================================================
