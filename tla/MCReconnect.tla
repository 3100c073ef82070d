------------------------------ MODULE MCReconnect ------------------------------
(***************************************************************************)
(* Instances of Reconnect for TLC.                                         *)
(***************************************************************************)
EXTENDS Reconnect
================================================================================
