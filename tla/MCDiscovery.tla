------------------------------ MODULE MCDiscovery ------------------------------
(***************************************************************************)
(* Two daemons for TLC, one of which may start twice.  The intervals are   *)
(* the protocol's in ticks of two seconds: a beacon every tick, a prune    *)
(* every second tick, a timeout of five ticks.                             *)
(***************************************************************************)
EXTENDS Discovery, TLC

CONSTANTS d1, d2, p1, p2

MCStarts == (d1 :> 1) @@ (d2 :> 2)
PortSymmetry == Permutations(Port)
================================================================================
