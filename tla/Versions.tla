------------------------------- MODULE Versions -------------------------------
(***************************************************************************)
(* Versions of clipboard events and their order: a logical counter, ties   *)
(* broken by the device that produced the event.  Device identifiers are   *)
(* strings that the program only compares lexicographically, so a device   *)
(* is a natural number here: its rank among the identifiers in that order. *)
(***************************************************************************)
EXTENDS Integers

CONSTANTS
    Node,        \* the devices, by the rank of their identifier
    NoVersion    \* the resolver's `lastApplied` before any event

ASSUME NodeAssumption == Node \subseteq Nat

Version == [counter : Nat, deviceId : Node]

ASSUME NoVersionAssumption == NoVersion \notin Version

\* Mutant: the tie-break on the device is forgotten.
compareVersions_NoTieBreak(a, b) ==
    CASE a.counter > b.counter -> 1
      [] a.counter < b.counter -> -1
      [] OTHER -> 0

compareVersions(a, b) ==
    CASE a.counter > b.counter -> 1
      [] a.counter < b.counter -> -1
      [] a.counter = b.counter /\ a.deviceId < b.deviceId -> -1
      [] a.counter = b.counter /\ a.deviceId > b.deviceId -> 1
      [] OTHER -> 0

\* v is applied before w could be: nothing applied yet, or w strictly newer.
Newer(w, v) == v = NoVersion \/ (v # NoVersion /\ compareVersions(w, v) = 1)

\* w has been reached by v: v is w or something newer.
Reached(w, v) == v # NoVersion /\ compareVersions(w, v) # 1
===============================================================================
