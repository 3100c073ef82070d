---------------------------- MODULE SharedClipboard ----------------------------
(***************************************************************************)
(* What the clipboard protocol promises, without clocks, handlers or       *)
(* messages.  Every copy that is broadcast gets a version; a version is    *)
(* given once, and it is newer than anything its node had given or applied *)
(* before.  A node applies only versions that other nodes have issued, and *)
(* each is newer than the one it applied before: a last-writer-wins        *)
(* register per node.                                                      *)
(***************************************************************************)
EXTENDS Versions

VARIABLES
    versions,    \* the versions given so far
    applied      \* per node, the last version it applied, or NoVersion

vars == <<versions, applied>>

Init == /\ versions = {}
        /\ applied = [n \in Node |-> NoVersion]

Issue(n) ==
    \E v \in versions' \ versions :
        /\ versions' = versions \union {v}
        /\ v \in Version /\ v.deviceId = n
        /\ \A w \in versions : w.deviceId = n => w.counter < v.counter
        /\ Newer(v, applied[n])
        /\ UNCHANGED applied

Apply(n) ==
    \E v \in versions :
        /\ v.deviceId # n
        /\ Newer(v, applied[n])
        /\ applied' = [applied EXCEPT ![n] = v]
        /\ UNCHANGED versions

Next == \E n \in Node : Issue(n) \/ Apply(n)

Spec == Init /\ [][Next]_vars
================================================================================
