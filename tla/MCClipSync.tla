------------------------------ MODULE MCClipSync ------------------------------
(***************************************************************************)
(* Instances of ClipSync for TLC.                                          *)
(***************************************************************************)
EXTENDS ClipSync

(***************************************************************************)
(* An envelope on its way to a node that stays up, from a peer that the    *)
(* node shares with, is eventually reached: its version, or a newer one,   *)
(* is the last applied.  Losing it, a death or an opt-out excuse.          *)
(***************************************************************************)
MaxCounter == 3

Settles ==
    \A m \in Node : \A o \in Node \ {m} : \A c \in 1 .. MaxCounter :
        (\E d \in net : d.to = m /\ d.event.origin = o /\ d.event.counter = c)
            ~> \/ Reached([counter |-> c, deviceId |-> o], resolver[m].lastApplied)
               \/ ~Undisturbed
===============================================================================
