------------------------------- MODULE Pairing --------------------------------
(***************************************************************************)
(* The initiator's side of pairing (src/application/pair-device.ts): look  *)
(* the peer up, derive the code that both users compare                    *)
(* (src/infrastructure/crypto/pairing-code.ts), show it, and ask the peer. *)
(* Two daemons may do so at the same time, for each other.                 *)
(*                                                                         *)
(* The admin server answers every pairing request with an error before it  *)
(* comes to this use case: what is modelled is what the composition root   *)
(* has wired to it.                                                        *)
(***************************************************************************)
EXTENDS Naturals

CONSTANTS Fingerprint    \* of the daemons; compared as strings are

ASSUME PairingAssumption == Fingerprint \subseteq Nat

VARIABLES
    pair,     \* of each daemon: progress of its call of pairWith, and the peer
    shown,    \* history: the codes that its UI port has logged or posted
    sent      \* history: the peers that it has sent a request

pairVars == <<pair, shown, sent>>

NoPair == [at |-> "idle", peer |-> 0]

Outcomes == {"not-found", "already-paired", "ok", "thrown"}
PairStages == {"idle", "looking", "deriving", "presenting", "sending"} \cup Outcomes

\* The hash is named by what is hashed: the two fingerprints in order.
derivePairingCode(a, b) == IF a < b THEN <<a, b>> ELSE <<b, a>>

Code(n) == derivePairingCode(n, pair[n].peer)

PairInit ==
    /\ pair = [n \in Fingerprint |-> NoPair]
    /\ shown = [n \in Fingerprint |-> {}]
    /\ sent = [n \in Fingerprint |-> {}]

Turn(n, s) == pair' = [pair EXCEPT ![n].at = s]

\* The peer is in the map of visible peers, or not.
pairWith(n, m) ==
    /\ pair[n].at = "idle" /\ m # n
    /\ pair' = [pair EXCEPT ![n] = [at |-> "looking", peer |-> m]]
    /\ UNCHANGED <<shown, sent>>

NotFound(n, m) ==
    /\ pair[n].at = "idle" /\ m # n
    /\ pair' = [pair EXCEPT ![n] = [at |-> "not-found", peer |-> m]]
    /\ UNCHANGED <<shown, sent>>

\* The registry has it already, or not.
LookUp(n) ==
    /\ pair[n].at = "looking"
    /\ Turn(n, "already-paired") \/ Turn(n, "deriving")
    /\ UNCHANGED <<shown, sent>>

\* The local key is read, and the code derived.
Derive(n) ==
    /\ pair[n].at = "deriving"
    /\ Turn(n, "presenting") \/ Turn(n, "thrown")
    /\ UNCHANGED <<shown, sent>>

\* presentPairingCode has resolved, or rejected.
Presented(n) ==
    /\ pair[n].at = "presenting"
    /\ Turn(n, "sending")
    /\ shown' = [shown EXCEPT ![n] = @ \cup {Code(n)}]
    /\ UNCHANGED sent

NotPresented(n) ==
    /\ pair[n].at = "presenting"
    /\ Turn(n, "thrown")
    /\ UNCHANGED <<shown, sent>>

\* A peer that is not connected is no error: nothing is sent, and all is well.
\* A closed transport throws.
Send(n) ==
    /\ pair[n].at = "sending"
    /\ \/ Turn(n, "ok") /\ sent' = [sent EXCEPT ![n] = @ \cup {pair[n].peer}]
       \/ Turn(n, "ok") /\ UNCHANGED sent
       \/ Turn(n, "thrown") /\ UNCHANGED sent
    /\ UNCHANGED shown

PairInput == \E n, m \in Fingerprint : pairWith(n, m) \/ NotFound(n, m)
PairStep(n) == LookUp(n) \/ Derive(n) \/ Send(n)

PairTypeOK ==
    /\ pair \in [Fingerprint -> [at : PairStages, peer : Fingerprint \cup {0}]]
    /\ shown \in [Fingerprint -> SUBSET (Fingerprint \X Fingerprint)]
    /\ sent \in [Fingerprint -> SUBSET Fingerprint]
===============================================================================
