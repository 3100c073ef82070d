----------------------------- MODULE ClipSyncProofs -----------------------------
(***************************************************************************)
(* Proofs about ClipSync for every number of nodes and every bound: the    *)
(* order of versions and the resolver's reducer, the type invariant, the   *)
(* uniqueness of versions, Lamport's condition on the clocks, that it      *)
(* implements the last-writer-wins register of SharedClipboard, and that   *)
(* all nodes end with the same winner.                                     *)
(***************************************************************************)
EXTENDS ClipSync, TLAPS

-------------------------------------------------------------------------------
(***************************************************************************)
(* The order of versions and the resolver's reducer.                       *)
(*                                                                         *)
(* compareVersions returns 1 exactly for a higher counter, or an equal     *)
(* counter of a higher device.                                             *)
(***************************************************************************)
LEMMA CompareIsOne ==
    ASSUME NEW a \in Version, NEW b \in Version
    PROVE  compareVersions(a, b) = 1 <=>
              \/ a.counter > b.counter
              \/ a.counter = b.counter /\ a.deviceId > b.deviceId
  BY NodeAssumption DEF compareVersions, Version

(***************************************************************************)
(* Two versions compare as equal only when they are the same: no two       *)
(* distinct events are taken for one another by the resolver's rule for    *)
(* equal versions.                                                         *)
(***************************************************************************)
THEOREM EqualOnlyIfSame ==
    ASSUME NEW a \in Version, NEW b \in Version
    PROVE  compareVersions(a, b) = 0 <=> a = b
<1>1. a = b => compareVersions(a, b) = 0
  BY NodeAssumption DEF compareVersions, Version
<1>2. compareVersions(a, b) = 0 => a.counter = b.counter /\ a.deviceId = b.deviceId
  BY NodeAssumption DEF compareVersions, Version
<1>3. a.counter = b.counter /\ a.deviceId = b.deviceId => a = b
  BY DEF Version
<1> QED
  BY <1>1, <1>2, <1>3

(***************************************************************************)
(* compareVersions orders the versions totally: it is antisymmetric and    *)
(* transitive, so every device that compares two events picks the same     *)
(* winner.                                                                 *)
(***************************************************************************)
THEOREM VersionsTotallyOrdered ==
    ASSUME NEW a \in Version, NEW b \in Version, NEW c \in Version
    PROVE  /\ compareVersions(a, b) \in {-1, 0, 1}
           /\ compareVersions(b, a) = -compareVersions(a, b)
           /\ compareVersions(a, b) = 1 /\ compareVersions(b, c) = 1
                => compareVersions(a, c) = 1
<1>1. compareVersions(a, b) \in {-1, 0, 1}
  BY NodeAssumption DEF compareVersions, Version
<1>2. compareVersions(b, a) = -compareVersions(a, b)
  BY NodeAssumption DEF compareVersions, Version
<1>3. compareVersions(a, b) = 1 /\ compareVersions(b, c) = 1 => compareVersions(a, c) = 1
  <2>1. /\ a.counter \in Nat /\ b.counter \in Nat /\ c.counter \in Nat
        /\ a.deviceId \in Nat /\ b.deviceId \in Nat /\ c.deviceId \in Nat
    BY NodeAssumption DEF Version
  <2>2. /\ compareVersions(a, b) = 1 <=> \/ a.counter > b.counter
                                         \/ a.counter = b.counter /\ a.deviceId > b.deviceId
        /\ compareVersions(b, c) = 1 <=> \/ b.counter > c.counter
                                         \/ b.counter = c.counter /\ b.deviceId > c.deviceId
        /\ compareVersions(a, c) = 1 <=> \/ a.counter > c.counter
                                         \/ a.counter = c.counter /\ a.deviceId > c.deviceId
    BY CompareIsOne
  <2> QED
    BY <2>1, <2>2
<1> QED
  BY <1>1, <1>2, <1>3

(***************************************************************************)
(* A version that is applied has been reached.                             *)
(***************************************************************************)
LEMMA ReachedItself ==
    ASSUME NEW v \in Version
    PROVE  Reached(v, v)
<1>1. v # NoVersion
  BY NoVersionAssumption
<1>2. compareVersions(v, v) = 0
  BY EqualOnlyIfSame
<1> QED
  BY <1>1, <1>2 DEF Reached

(***************************************************************************)
(* What the reducer does with an event whose message it has not seen: the  *)
(* state it leaves has reached the event's version, and had not gone back. *)
(* The last applied version is always the newest observed.                 *)
(***************************************************************************)
THEOREM ObserveReachesTheNewest ==
    ASSUME NEW state, NEW version \in Version, NEW id,
           state.lastApplied \in Version \union {NoVersion},
           id \notin state.seenMessageIds
    PROVE  LET next == observe(state, version, id).state.lastApplied
           IN  /\ next \in Version
               /\ Reached(version, next)
               /\ state.lastApplied # NoVersion => Reached(state.lastApplied, next)
<1> DEFINE o == observe(state, version, id)
<1>1. CASE Newer(version, state.lastApplied)
  <2>1. o.state.lastApplied = version
    BY <1>1 DEF observe
  <2>2. Reached(version, version)
    BY ReachedItself
  <2>3. state.lastApplied # NoVersion => Reached(state.lastApplied, version)
    BY <1>1, NoVersionAssumption, VersionsTotallyOrdered DEF Reached, Newer
  <2> QED
    BY <2>1, <2>2, <2>3
<1>2. CASE ~Newer(version, state.lastApplied)
  <2>1. o.state = state
    BY <1>2 DEF observe
  <2>2. state.lastApplied \in Version /\ compareVersions(version, state.lastApplied) # 1
    BY <1>2 DEF Newer
  <2>3. Reached(state.lastApplied, state.lastApplied)
    BY <2>2, ReachedItself
  <2> QED
    BY <2>1, <2>2, <2>3, NoVersionAssumption DEF Reached
<1> QED
  BY <1>1, <1>2

-------------------------------------------------------------------------------
(***************************************************************************)
(* The type invariant is not enough for the rest.  Two facts strengthen    *)
(* it: what travels or is handled was issued, by another node at a         *)
(* receiver; and no counter is ahead of the clock of the node that issued, *)
(* is resolving or has applied it.                                         *)
(***************************************************************************)
OnlyIssued ==
    /\ \A n \in Node : \A h \in out[n] : h.event \in issued
    /\ \A d \in net : d.event \in issued
    /\ \A n \in Node : \A h \in inc[n] : h.event \in issued /\ h.event.origin # n

ClockAhead ==
    /\ \A e \in issued : e.counter <= counter[e.origin]
    /\ \A n \in Node : \A h \in inc[n] :
          h.at = "resolving" => h.event.counter <= counter[n]
    /\ \A n \in Node : resolver[n].lastApplied # NoVersion
          => resolver[n].lastApplied.counter <= counter[n]

Inv == TypeOK /\ OnlyIssued /\ ClockAhead /\ VersionsUnique

-------------------------------------------------------------------------------
(***************************************************************************)
(* A tick advances the clock; observing a remote counter moves it to the   *)
(* greater of the two.                                                     *)
(***************************************************************************)
LEMMA TickAdvances ==
    ASSUME NEW c \in Nat
    PROVE  tick(c) \in Nat /\ tick(c) > c
  BY DEF tick

LEMMA ObserveCovers ==
    ASSUME NEW c \in Nat, NEW remote \in Nat
    PROVE  /\ observeCounter(c, remote) \in Nat
           /\ observeCounter(c, remote) >= c
           /\ observeCounter(c, remote) >= remote
  BY DEF observeCounter

LEMMA EventVersion ==
    ASSUME NEW e \in Event
    PROVE  VersionOf(e) \in Version /\ messageId(e) \in Node \X (Nat \ {0})
  BY DEF Event, VersionOf, messageId, Version

(***************************************************************************)
(* The reducer keeps the resolver's type.                                  *)
(***************************************************************************)
LEMMA ObserveType ==
    ASSUME NEW r \in ResolverState, NEW v \in Version, NEW id \in Node \X (Nat \ {0})
    PROVE  observe(r, v, id).state \in ResolverState
<1>1. CASE observe(r, v, id).state = r
  BY <1>1
<1>2. CASE observe(r, v, id).state = [lastApplied |-> v,
                                     seenMessageIds |-> r.seenMessageIds \union {id}]
  BY <1>2 DEF ResolverState
<1>3. \/ observe(r, v, id).state = r
      \/ observe(r, v, id).state = [lastApplied |-> v,
                                    seenMessageIds |-> r.seenMessageIds \union {id}]
  BY DEF observe
<1> QED
  BY <1>1, <1>2, <1>3

(***************************************************************************)
(* What the local-change handler may do to the variables it touches: leave *)
(* them, consume the gate, or issue one event with the next counter.       *)
(***************************************************************************)
NextEvent(n, t) ==
    [origin |-> n, id |-> made[n] + 1, counter |-> tick(counter[n]), text |-> t]

LEMMA LocalChangeCases ==
    ASSUME NEW n, NEW t, LocalChange(n, t)
    PROVE  \/ UNCHANGED <<counter, gate, out, issued, made>>
           \/ gate' = [gate EXCEPT ![n] = FALSE] /\ UNCHANGED <<counter, out, issued, made>>
           \/ t # NoText /\ Issue(n, t)
  BY DEF LocalChange, Suppress

LEMMA NextEventType ==
    ASSUME TypeOK, NEW n \in Node, NEW t \in Text
    PROVE  NextEvent(n, t) \in Event
<1>1. made[n] \in Nat /\ counter[n] \in Nat
  BY DEF TypeOK
<1>2. made[n] + 1 \in Nat \ {0} /\ tick(counter[n]) \in Nat
  BY <1>1, TickAdvances
<1> QED
  BY <1>2 DEF NextEvent, Event

LEMMA LocalChangeType ==
    ASSUME TypeOK, NEW n \in Node, NEW t \in Text \union {NoText}, LocalChange(n, t)
    PROVE  /\ counter' \in [Node -> Nat]
           /\ gate' \in [Node -> BOOLEAN]
           /\ out' \in [Node -> SUBSET Outgoing]
           /\ issued' \subseteq Event
           /\ made' \in [Node -> Nat]
<1>1. CASE UNCHANGED <<counter, gate, out, issued, made>>
  BY <1>1 DEF TypeOK
<1>2. CASE gate' = [gate EXCEPT ![n] = FALSE] /\ UNCHANGED <<counter, out, issued, made>>
  BY <1>2 DEF TypeOK
<1>3. CASE t # NoText /\ Issue(n, t)
  <2> DEFINE e == NextEvent(n, t)
  <2>1. e \in Event /\ e.counter \in Nat /\ e.id \in Nat
    BY <1>3, NextEventType DEF Event
  <2>2. /\ counter' = [counter EXCEPT ![n] = e.counter]
        /\ made' = [made EXCEPT ![n] = e.id]
        /\ issued' = issued \union {e}
        /\ out' = [out EXCEPT ![n] = @ \union {[event |-> e, at |-> "listing", todo |-> {}]}]
        /\ UNCHANGED gate
    BY <1>3 DEF Issue, NextEvent
  <2>3. [event |-> e, at |-> "listing", todo |-> {}] \in Outgoing
    BY <2>1 DEF Outgoing
  <2> QED
    BY <2>1, <2>2, <2>3 DEF TypeOK
<1> QED
  BY <1>1, <1>2, <1>3, LocalChangeCases

-------------------------------------------------------------------------------
(***************************************************************************)
(* The type invariant: every state of ClipSync is well typed, and nothing  *)
(* empty is ever given a version, sent or handled.                         *)
(***************************************************************************)
LEMMA InitType == ASSUME Init PROVE TypeOK
<1>1. resolver \in [Node -> ResolverState]
  BY DEF Init, ResolverState, initResolver
<1> QED
  BY <1>1, ClipSyncAssumption DEF Init, TypeOK, Status

LEMMA DieType ==
    ASSUME TypeOK, NEW n \in Node, Die(n)
    PROVE  /\ status' \in [Node -> Status]
           /\ out' \in [Node -> SUBSET Outgoing]
           /\ inc' \in [Node -> SUBSET Incoming]
           /\ poll' \in [Node -> Text \union {NoText, Idle}]
           /\ gate' \in [Node -> BOOLEAN]
  BY DEF TypeOK, Die, Status

LEMMA StepType == ASSUME TypeOK, [Next]_vars PROVE TypeOK'
<1> USE DEF TypeOK, local, os, bounds
<1>1. ASSUME NEW n \in Node, NEW t \in Text \union {NoText}, UserCopy(n, t) PROVE TypeOK'
  BY <1>1 DEF UserCopy
<1>2. ASSUME NEW n \in Node, PollRead(n) PROVE TypeOK'
  BY <1>2 DEF PollRead
<1>3. ASSUME NEW n \in Node, PollCompare(n) PROVE TypeOK'
  <2>1. poll[n] \in Text \union {NoText}
    BY <1>3 DEF PollCompare
  <2>2. LocalChange(n, poll[n])
    BY <1>3 DEF PollCompare
  <2>3. /\ lastText' = [lastText EXCEPT ![n] = poll[n]]
        /\ poll' = [poll EXCEPT ![n] = Idle]
        /\ UNCHANGED <<status, resolver, clip, inc, sharing, net, bounds>>
    BY <1>3 DEF PollCompare
  <2>4. /\ counter' \in [Node -> Nat]
        /\ gate' \in [Node -> BOOLEAN]
        /\ out' \in [Node -> SUBSET Outgoing]
        /\ issued' \subseteq Event
        /\ made' \in [Node -> Nat]
    BY <2>1, <2>2, LocalChangeType
  <2> QED
    BY <2>1, <2>3, <2>4
<1>4. ASSUME NEW n \in Node, NEW h \in out[n], ListPeers(n, h) PROVE TypeOK'
  <2>1. h \in Outgoing /\ sharing[n] \in SUBSET Node
    BY <1>4
  <2>2. [h EXCEPT !.at = "sending", !.todo = sharing[n]] \in Outgoing
    BY <2>1 DEF Outgoing
  <2>3. out' \in [Node -> SUBSET Outgoing]
    BY <1>4, <2>2 DEF ListPeers
  <2> QED
    BY <1>4, <2>3 DEF ListPeers
<1>5. ASSUME NEW n \in Node, NEW h \in out[n], NEW m \in h.todo, SendTo(n, h, m)
      PROVE  TypeOK'
  <2>1. h \in Outgoing /\ m \in Node /\ h.event \in Event
    BY <1>5 DEF Outgoing
  <2>2. [h EXCEPT !.todo = @ \ {m}] \in Outgoing
    BY <2>1 DEF Outgoing
  <2>3. out' \in [Node -> SUBSET Outgoing]
    BY <1>5, <2>2 DEF SendTo
  <2>4. net' \subseteq [to : Node, event : Event]
    BY <1>5, <2>1 DEF SendTo
  <2> QED
    BY <1>5, <2>3, <2>4 DEF SendTo
<1>6. ASSUME NEW n \in Node, NEW h \in out[n], SendFails(n, h) PROVE TypeOK'
  <2>1. Die(n) /\ faults' \in Nat
    BY <1>6 DEF SendFails
  <2> QED
    BY <1>6, <2>1, DieType DEF SendFails
<1>7. ASSUME NEW d \in net, d.to \in Node, Receive(d) PROVE TypeOK'
  <2>1. d.event \in Event
    BY <1>7
  <2>2. [event |-> d.event, at |-> "listing"] \in Incoming
    BY <2>1 DEF Incoming
  <2>3. inc' \in [Node -> SUBSET Incoming]
    BY <1>7, <2>2 DEF Receive
  <2> QED
    BY <1>7, <2>3 DEF Receive
<1>8. ASSUME NEW n \in Node, NEW h \in inc[n], CheckOrigin(n, h) PROVE TypeOK'
  <2>1. h \in Incoming /\ h.event.counter \in Nat /\ counter[n] \in Nat
    BY <1>8 DEF Incoming, Event
  <2>2. [h EXCEPT !.at = "resolving"] \in Incoming
    BY <2>1 DEF Incoming
  <2>3. counter' \in [Node -> Nat]
    BY <1>8, <2>1, ObserveCovers DEF CheckOrigin
  <2>4. inc' \in [Node -> SUBSET Incoming]
    BY <1>8, <2>2 DEF CheckOrigin
  <2> QED
    BY <1>8, <2>3, <2>4 DEF CheckOrigin
<1>9. ASSUME NEW n \in Node, NEW h \in inc[n], Resolve(n, h) PROVE TypeOK'
  <2>1. h \in Incoming /\ h.event \in Event /\ resolver[n] \in ResolverState
    BY <1>9 DEF Incoming
  <2>2. observe(resolver[n], VersionOf(h.event), messageId(h.event)).state \in ResolverState
    BY <2>1, EventVersion, ObserveType
  <2>3. resolver' \in [Node -> ResolverState]
    BY <1>9, <2>2 DEF Resolve
  <2>4. [h EXCEPT !.at = "writing"] \in Incoming
    BY <2>1 DEF Incoming
  <2>5. inc' \in [Node -> SUBSET Incoming]
    <3>1. \/ inc' = [inc EXCEPT ![n] = (@ \ {h}) \union {[h EXCEPT !.at = "writing"]}]
          \/ inc' = [inc EXCEPT ![n] = @ \ {h}]
      BY <1>9 DEF Resolve
    <3> QED
      BY <3>1, <2>4
  <2>6. gate' \in [Node -> BOOLEAN]
    <3>1. gate' = [gate EXCEPT ![n] = TRUE] \/ gate' = gate
      BY <1>9 DEF Resolve
    <3> QED
      BY <3>1
  <2> QED
    BY <1>9, <2>3, <2>5, <2>6 DEF Resolve
<1>10. ASSUME NEW n \in Node, NEW h \in inc[n], WriteLands(n, h) PROVE TypeOK'
  <2>1. h \in Incoming /\ h.event.text \in Text
    BY <1>10 DEF Incoming, Event
  <2>2. [h EXCEPT !.at = "notifying"] \in Incoming
    BY <2>1 DEF Incoming
  <2>3. inc' \in [Node -> SUBSET Incoming] /\ clip' \in [Node -> Text \union {NoText}]
    BY <1>10, <2>1, <2>2 DEF WriteLands
  <2> QED
    BY <1>10, <2>3 DEF WriteLands
<1>11. ASSUME NEW n \in Node, NEW h \in inc[n], Notify(n, h) PROVE TypeOK'
  <2>1. h.event.text \in Text
    BY <1>11 DEF Incoming, Event
  <2>2. LocalChange(n, h.event.text)
    BY <1>11 DEF Notify
  <2>3. /\ counter' \in [Node -> Nat]
        /\ gate' \in [Node -> BOOLEAN]
        /\ out' \in [Node -> SUBSET Outgoing]
        /\ issued' \subseteq Event
        /\ made' \in [Node -> Nat]
    BY <2>1, <2>2, LocalChangeType
  <2>4. /\ inc' = [inc EXCEPT ![n] = @ \ {h}]
        /\ UNCHANGED <<status, resolver, os, sharing, net, bounds>>
    BY <1>11 DEF Notify
  <2> QED
    BY <2>3, <2>4
<1>12. ASSUME NEW n \in Node, NEW h \in inc[n], WriteFails(n, h) PROVE TypeOK'
  <2>1. Die(n) /\ faults' \in Nat
    BY <1>12 DEF WriteFails
  <2> QED
    BY <1>12, <2>1, DieType DEF WriteFails
<1>13. ASSUME NEW n \in Node, NEW m \in Node, NEW enabled \in BOOLEAN,
              SetSharing(n, m, enabled)
       PROVE  TypeOK'
  BY <1>13 DEF SetSharing
<1>14. ASSUME NEW n \in Node, CloseTransport(n) PROVE TypeOK'
  BY <1>14 DEF CloseTransport, Status
<1>15. ASSUME NEW n \in Node, Unsubscribe(n) PROVE TypeOK'
  BY <1>15 DEF Unsubscribe, Status
<1>16. ASSUME NEW d \in net, Lose(d) PROVE TypeOK'
  BY <1>16 DEF Lose
<1>17. CASE UNCHANGED vars
  BY <1>17 DEF vars
<1> QED
  BY <1>1, <1>2, <1>3, <1>4, <1>5, <1>6, <1>7, <1>8, <1>9, <1>10, <1>11, <1>12,
     <1>13, <1>14, <1>15, <1>16, <1>17
  DEF Next, Outbound, Inbound, Deliver

(***************************************************************************)
(* ClipSync is well typed, for any nodes, texts and bounds.                *)
(***************************************************************************)
THEOREM TypeCorrect == Spec => []TypeOK
<1>1. Init => TypeOK
  BY InitType
<1>2. TypeOK /\ [Next]_vars => TypeOK'
  BY StepType
<1> QED
  BY <1>1, <1>2, PTL DEF Spec

-------------------------------------------------------------------------------
(***************************************************************************)
(* What the local-change handler contributes to the invariant.  The event  *)
(* it issues, if any, has the next counter of its node, which is above     *)
(* every counter the node has given: this is where uniqueness comes from.  *)
(***************************************************************************)
LEMMA LocalChangeInv ==
    ASSUME Inv, NEW n \in Node, NEW t \in Text \union {NoText}, LocalChange(n, t)
    PROVE  /\ issued \subseteq issued'
           /\ \A k \in Node : counter'[k] \in Nat /\ counter[k] \in Nat /\ counter'[k] >= counter[k]
           /\ \A k \in Node : \A h \in out'[k] : h.event \in issued'
           /\ \A e \in issued' : e.counter <= counter'[e.origin]
           /\ VersionsUnique'
<1>0. \A k \in Node : counter[k] \in Nat
  BY DEF Inv, TypeOK
<1>1. CASE UNCHANGED <<counter, gate, out, issued, made>>
  BY <1>0, <1>1 DEF Inv, OnlyIssued, ClockAhead, VersionsUnique
<1>2. CASE gate' = [gate EXCEPT ![n] = FALSE] /\ UNCHANGED <<counter, out, issued, made>>
  BY <1>0, <1>2 DEF Inv, OnlyIssued, ClockAhead, VersionsUnique
<1>3. CASE t # NoText /\ Issue(n, t)
  <2> DEFINE e == NextEvent(n, t)
  <2>1. e \in Event /\ e.origin = n /\ e.counter = tick(counter[n])
    BY <1>3, NextEventType DEF Inv, NextEvent
  <2>2. e.counter \in Nat /\ e.counter > counter[n]
    BY <1>0, <2>1, TickAdvances
  <2>3. /\ counter' = [counter EXCEPT ![n] = e.counter]
        /\ issued' = issued \union {e}
        /\ out' = [out EXCEPT ![n] = @ \union {[event |-> e, at |-> "listing", todo |-> {}]}]
    BY <1>3 DEF Issue, NextEvent
  <2> HIDE DEF e
  <2>4. counter \in [Node -> Nat] /\ out \in [Node -> SUBSET Outgoing] /\ issued \subseteq Event
    BY DEF Inv, TypeOK
  <2>5. \A k \in Node : counter'[k] \in Nat /\ counter[k] \in Nat /\ counter'[k] >= counter[k]
    BY <2>2, <2>3, <2>4
  <2>6. \A k \in Node : \A h \in out'[k] : h.event \in issued'
    BY <2>3, <2>4 DEF Inv, OnlyIssued
  <2>7. \A f \in issued : f.origin \in Node /\ f.counter \in Nat /\ f.counter <= counter[f.origin]
    BY <2>4 DEF Inv, ClockAhead, Event
  <2>8. \A f \in issued' : f.counter <= counter'[f.origin]
    BY <2>1, <2>2, <2>3, <2>4, <2>5, <2>7
  <2>9. \A f \in issued : VersionOf(f) # VersionOf(e)
    BY <2>1, <2>2, <2>4, <2>7 DEF VersionOf
  <2>10. VersionsUnique'
    BY <2>3, <2>9 DEF Inv, VersionsUnique
  <2> QED
    BY <2>3, <2>5, <2>6, <2>8, <2>10
<1> QED
  BY <1>1, <1>2, <1>3, LocalChangeCases

(***************************************************************************)
(* The handlers that LocalChange does not touch keep their part of the     *)
(* invariant when clocks only move forward and no issued event is lost.    *)
(***************************************************************************)
LEMMA ClockForward ==
    ASSUME Inv, issued \subseteq issued', UNCHANGED resolver,
           \A k \in Node : inc'[k] \subseteq inc[k],
           \A k \in Node : counter'[k] \in Nat /\ counter[k] \in Nat /\ counter'[k] >= counter[k]
    PROVE  /\ \A k \in Node : \A h \in inc'[k] : h.event \in issued' /\ h.event.origin # k
           /\ \A k \in Node : \A h \in inc'[k] :
                 h.at = "resolving" => h.event.counter <= counter'[k]
           /\ \A k \in Node : resolver'[k].lastApplied # NoVersion
                 => resolver'[k].lastApplied.counter <= counter'[k]
<1>1. \A k \in Node : \A h \in inc[k] : h.event.counter \in Nat
  BY DEF Inv, TypeOK, Incoming, Event
<1>2. \A k \in Node : resolver[k].lastApplied # NoVersion => resolver[k].lastApplied.counter \in Nat
  BY DEF Inv, TypeOK, ResolverState, Version
<1>3. \A k \in Node : \A h \in inc'[k] : h.event \in issued' /\ h.event.origin # k
  BY DEF Inv, OnlyIssued
<1>4. \A k \in Node : \A h \in inc'[k] : h.at = "resolving" => h.event.counter <= counter'[k]
  BY <1>1 DEF Inv, ClockAhead
<1>5. \A k \in Node : resolver'[k].lastApplied # NoVersion
         => resolver'[k].lastApplied.counter <= counter'[k]
  BY <1>2 DEF Inv, ClockAhead
<1> QED
  BY <1>3, <1>4, <1>5

LEMMA InitInv == ASSUME Init PROVE Inv
<1>1. TypeOK
  BY InitType
<1>2. OnlyIssued /\ ClockAhead /\ VersionsUnique
  BY DEF Init, OnlyIssued, ClockAhead, VersionsUnique, initResolver
<1> QED
  BY <1>1, <1>2 DEF Inv

LEMMA StepInv == ASSUME Inv, [Next]_vars PROVE Inv'
<1> DEFINE Rest == OnlyIssued /\ ClockAhead /\ VersionsUnique
<1>0. TypeOK'
  BY StepType DEF Inv
<1>a. TypeOK /\ OnlyIssued /\ ClockAhead /\ VersionsUnique
  BY DEF Inv
<1> USE DEF local, os, bounds
<1>1. ASSUME NEW n \in Node, NEW t \in Text \union {NoText}, UserCopy(n, t) PROVE Rest'
  BY <1>a, <1>1 DEF UserCopy, OnlyIssued, ClockAhead, VersionsUnique
<1>2. ASSUME NEW n \in Node, PollRead(n) PROVE Rest'
  BY <1>a, <1>2 DEF PollRead, OnlyIssued, ClockAhead, VersionsUnique
<1>3. ASSUME NEW n \in Node, PollCompare(n) PROVE Rest'
  <2>1. poll[n] \in Text \union {NoText} /\ LocalChange(n, poll[n])
    BY <1>a, <1>3 DEF PollCompare, TypeOK
  <2>2. UNCHANGED <<resolver, inc, net>>
    BY <1>3 DEF PollCompare
  <2>3. /\ issued \subseteq issued'
        /\ \A k \in Node : counter'[k] \in Nat /\ counter[k] \in Nat /\ counter'[k] >= counter[k]
        /\ \A k \in Node : \A h \in out'[k] : h.event \in issued'
        /\ \A e \in issued' : e.counter <= counter'[e.origin]
        /\ VersionsUnique'
    BY <2>1, LocalChangeInv
  <2>4. \A d \in net' : d.event \in issued'
    BY <1>a, <2>2, <2>3 DEF OnlyIssued
  <2>5. \A k \in Node : inc'[k] \subseteq inc[k]
    BY <2>2
  <2> QED
    BY <2>2, <2>3, <2>4, <2>5, ClockForward DEF OnlyIssued, ClockAhead
<1>4. ASSUME NEW n \in Node, NEW h \in out[n], ListPeers(n, h) PROVE Rest'
  <2>1. h \in Outgoing /\ h.event \in issued
    BY <1>a DEF TypeOK, OnlyIssued
  <2>2. [h EXCEPT !.at = "sending", !.todo = sharing[n]].event = h.event
    BY <2>1 DEF Outgoing
  <2>3. \A k \in Node : \A g \in out'[k] : g.event \in issued'
    BY <1>a, <1>4, <2>1, <2>2 DEF ListPeers, OnlyIssued, TypeOK
  <2> QED
    BY <1>a, <1>4, <2>3 DEF ListPeers, OnlyIssued, ClockAhead, VersionsUnique
<1>5. ASSUME NEW n \in Node, NEW h \in out[n], NEW m \in h.todo, SendTo(n, h, m)
      PROVE  Rest'
  <2>1. h \in Outgoing /\ h.event \in issued
    BY <1>a DEF TypeOK, OnlyIssued
  <2>2. [h EXCEPT !.todo = @ \ {m}].event = h.event
    BY <2>1 DEF Outgoing
  <2>3. \A k \in Node : \A g \in out'[k] : g.event \in issued'
    BY <1>a, <1>5, <2>1, <2>2 DEF SendTo, OnlyIssued, TypeOK
  <2>4. \A d \in net' : d.event \in issued'
    BY <1>a, <1>5, <2>1 DEF SendTo, OnlyIssued
  <2> QED
    BY <1>a, <1>5, <2>3, <2>4 DEF SendTo, OnlyIssued, ClockAhead, VersionsUnique
<1>6. ASSUME NEW n \in Node, NEW h \in out[n], SendFails(n, h) PROVE Rest'
  <2>1. \A k \in Node : out'[k] \subseteq out[k] /\ inc'[k] \subseteq inc[k]
    BY <1>a, <1>6 DEF SendFails, Die, TypeOK
  <2> QED
    BY <1>a, <1>6, <2>1 DEF SendFails, OnlyIssued, ClockAhead, VersionsUnique
<1>7. ASSUME NEW d \in net, d.to \in Node, Receive(d) PROVE Rest'
  <2>1. \A k \in Node : \A g \in inc'[k] :
           \/ g \in inc[k]
           \/ g = [event |-> d.event, at |-> "listing"] /\ d.event.origin # k
    BY <1>a, <1>7 DEF Receive, TypeOK
  <2>2. \A k \in Node : \A g \in inc'[k] : g.event \in issued' /\ g.event.origin # k
    BY <1>a, <1>7, <2>1 DEF Receive, OnlyIssued
  <2>3. \A k \in Node : \A g \in inc'[k] : g.at = "resolving" => g.event.counter <= counter'[k]
    BY <1>a, <1>7, <2>1 DEF Receive, ClockAhead
  <2> QED
    BY <1>a, <1>7, <2>2, <2>3 DEF Receive, OnlyIssued, ClockAhead, VersionsUnique
<1>8. ASSUME NEW n \in Node, NEW h \in inc[n], CheckOrigin(n, h) PROVE Rest'
  <2>1. h \in Incoming /\ h.event.counter \in Nat
    BY <1>a DEF TypeOK, Incoming, Event
  <2>2. \A k \in Node : counter'[k] \in Nat /\ counter[k] \in Nat /\ counter'[k] >= counter[k]
    BY <1>a, <1>8, <2>1, ObserveCovers DEF CheckOrigin, TypeOK
  <2>3. \A k \in Node : \A g \in inc'[k] :
           \/ g \in inc[k]
           \/ k = n /\ g = [h EXCEPT !.at = "resolving"] /\ h.event.counter <= counter'[n]
    BY <1>a, <1>8, <2>1, ObserveCovers DEF CheckOrigin, TypeOK
  <2>4. [h EXCEPT !.at = "resolving"].event = h.event
    BY <2>1 DEF Incoming
  <2>5. \A k \in Node : \A g \in inc'[k] : g.event \in issued' /\ g.event.origin # k
    BY <1>a, <1>8, <2>3, <2>4 DEF CheckOrigin, OnlyIssued
  <2>6. \A k \in Node : \A g \in inc[k] : g.event.counter \in Nat
    BY <1>a DEF TypeOK, Incoming, Event
  <2>7. \A k \in Node : \A g \in inc'[k] : g.at = "resolving" => g.event.counter <= counter'[k]
    <3>1. ASSUME NEW k \in Node, NEW g \in inc[k], g.at = "resolving"
          PROVE  g.event.counter <= counter'[k]
      <4>1. g.event.counter <= counter[k] /\ counter'[k] >= counter[k]
        BY <1>a, <2>2, <3>1 DEF ClockAhead
      <4> QED
        BY <2>2, <2>6, <4>1
    <3> QED
      BY <2>3, <2>4, <3>1
  <2>8. \A e \in issued' : e.counter <= counter'[e.origin]
    <3>1. issued' = issued /\ \A e \in issued : e.counter \in Nat /\ e.origin \in Node
      BY <1>a, <1>8 DEF CheckOrigin, TypeOK, Event
    <3> QED
      BY <1>a, <2>2, <3>1 DEF ClockAhead
  <2>9. \A k \in Node : resolver'[k].lastApplied # NoVersion
           => resolver'[k].lastApplied.counter <= counter'[k]
    <3>1. \A k \in Node : resolver[k].lastApplied # NoVersion
             => resolver[k].lastApplied.counter \in Nat
      BY <1>a DEF TypeOK, ResolverState, Version
    <3> QED
      BY <1>a, <1>8, <2>2, <3>1 DEF ClockAhead, CheckOrigin
  <2> QED
    BY <1>a, <1>8, <2>5, <2>7, <2>8, <2>9 DEF CheckOrigin, OnlyIssued, ClockAhead, VersionsUnique
<1>9. ASSUME NEW n \in Node, NEW h \in inc[n], Resolve(n, h) PROVE Rest'
  <2>1. h \in Incoming /\ h.event \in Event
    BY <1>a DEF TypeOK, Incoming
  <2>2. \A k \in Node : \A g \in inc'[k] :
           g \in inc[k] \/ (k = n /\ g = [h EXCEPT !.at = "writing"])
    <3>1. \/ inc' = [inc EXCEPT ![n] = (@ \ {h}) \union {[h EXCEPT !.at = "writing"]}]
          \/ inc' = [inc EXCEPT ![n] = @ \ {h}]
      BY <1>9 DEF Resolve
    <3> QED
      BY <1>a, <3>1 DEF TypeOK
  <2>3. /\ [h EXCEPT !.at = "writing"].event = h.event
        /\ [h EXCEPT !.at = "writing"].at = "writing"
    BY <2>1 DEF Incoming
  <2>4. UNCHANGED <<counter, out, net, issued>>
    BY <1>9 DEF Resolve
  <2>5. \A k \in Node : resolver'[k].lastApplied # NoVersion
           => resolver'[k].lastApplied.counter <= counter'[k]
    <3>1. resolver' = [resolver EXCEPT ![n] =
                         observe(resolver[n], VersionOf(h.event), messageId(h.event)).state]
      BY <1>9 DEF Resolve
    <3>2. h.event.counter <= counter[n]
      BY <1>a, <1>9 DEF Resolve, ClockAhead
    <3>3. \/ resolver'[n] = resolver[n]
          \/ resolver'[n].lastApplied = VersionOf(h.event)
      BY <1>a, <3>1 DEF observe, TypeOK
    <3>4. \A k \in Node \ {n} : resolver'[k] = resolver[k]
      BY <1>a, <3>1 DEF TypeOK
    <3> QED
      BY <1>a, <2>4, <3>2, <3>3, <3>4 DEF ClockAhead, VersionOf
  <2>6. OnlyIssued'
    BY <1>a, <2>2, <2>3, <2>4 DEF OnlyIssued
  <2>7. \A k \in Node : \A g \in inc'[k] : g.at = "resolving" => g.event.counter <= counter'[k]
    BY <1>a, <2>2, <2>3, <2>4 DEF ClockAhead
  <2> QED
    BY <1>a, <2>4, <2>5, <2>6, <2>7 DEF ClockAhead, VersionsUnique
<1>10. ASSUME NEW n \in Node, NEW h \in inc[n], WriteLands(n, h) PROVE Rest'
  <2>1. h \in Incoming
    BY <1>a DEF TypeOK
  <2>2. \A k \in Node : \A g \in inc'[k] :
           g \in inc[k] \/ (k = n /\ g = [h EXCEPT !.at = "notifying"])
    BY <1>a, <1>10 DEF WriteLands, TypeOK
  <2>3. /\ [h EXCEPT !.at = "notifying"].event = h.event
        /\ [h EXCEPT !.at = "notifying"].at = "notifying"
    BY <2>1 DEF Incoming
  <2>4. UNCHANGED <<counter, resolver, out, net, issued>>
    BY <1>10 DEF WriteLands
  <2>5. OnlyIssued'
    BY <1>a, <2>2, <2>3, <2>4 DEF OnlyIssued
  <2> QED
    BY <1>a, <2>2, <2>3, <2>4, <2>5 DEF ClockAhead, VersionsUnique
<1>11. ASSUME NEW n \in Node, NEW h \in inc[n], Notify(n, h) PROVE Rest'
  <2>1. h.event.text \in Text \union {NoText} /\ LocalChange(n, h.event.text)
    BY <1>a, <1>11 DEF Notify, TypeOK, Incoming, Event
  <2>2. UNCHANGED <<resolver, net>> /\ \A k \in Node : inc'[k] \subseteq inc[k]
    BY <1>a, <1>11 DEF Notify, TypeOK
  <2>3. /\ issued \subseteq issued'
        /\ \A k \in Node : counter'[k] \in Nat /\ counter[k] \in Nat /\ counter'[k] >= counter[k]
        /\ \A k \in Node : \A g \in out'[k] : g.event \in issued'
        /\ \A e \in issued' : e.counter <= counter'[e.origin]
        /\ VersionsUnique'
    BY <2>1, LocalChangeInv
  <2>4. \A d \in net' : d.event \in issued'
    BY <1>a, <2>2, <2>3 DEF OnlyIssued
  <2> QED
    BY <2>2, <2>3, <2>4, ClockForward DEF OnlyIssued, ClockAhead
<1>12. ASSUME NEW n \in Node, NEW h \in inc[n], WriteFails(n, h) PROVE Rest'
  <2>1. \A k \in Node : out'[k] \subseteq out[k] /\ inc'[k] \subseteq inc[k]
    BY <1>a, <1>12 DEF WriteFails, Die, TypeOK
  <2> QED
    BY <1>a, <1>12, <2>1 DEF WriteFails, OnlyIssued, ClockAhead, VersionsUnique
<1>13. ASSUME NEW n \in Node, NEW m \in Node, NEW enabled \in BOOLEAN,
              SetSharing(n, m, enabled)
       PROVE  Rest'
  BY <1>a, <1>13 DEF SetSharing, OnlyIssued, ClockAhead, VersionsUnique
<1>14. ASSUME NEW n \in Node, CloseTransport(n) PROVE Rest'
  BY <1>a, <1>14 DEF CloseTransport, OnlyIssued, ClockAhead, VersionsUnique
<1>15. ASSUME NEW n \in Node, Unsubscribe(n) PROVE Rest'
  BY <1>a, <1>15 DEF Unsubscribe, OnlyIssued, ClockAhead, VersionsUnique
<1>16. ASSUME NEW d \in net, Lose(d) PROVE Rest'
  BY <1>a, <1>16 DEF Lose, OnlyIssued, ClockAhead, VersionsUnique
<1>17. ASSUME UNCHANGED vars PROVE Rest'
  BY <1>a, <1>17 DEF vars, OnlyIssued, ClockAhead, VersionsUnique
<1> HIDE DEF Rest
<1>18. Rest'
  BY <1>1, <1>2, <1>3, <1>4, <1>5, <1>6, <1>7, <1>8, <1>9, <1>10, <1>11, <1>12,
     <1>13, <1>14, <1>15, <1>16, <1>17
  DEF Next, Outbound, Inbound, Deliver
<1> QED
  BY <1>0, <1>18 DEF Inv, Rest

LEMMA Invariance == Spec => []Inv
<1>1. Init => Inv
  BY InitInv
<1>2. Inv /\ [Next]_vars => Inv'
  BY StepInv
<1> QED
  BY <1>1, <1>2, PTL DEF Spec

(***************************************************************************)
(* No two events ever share a version, however the handlers interleave.    *)
(***************************************************************************)
THEOREM UniqueVersions == Spec => []VersionsUnique
<1>1. Inv => VersionsUnique
  BY DEF Inv
<1> QED
  BY <1>1, Invariance, PTL

(***************************************************************************)
(* A node's next tick gives a version that is newer than everything the    *)
(* node has issued or applied.                                             *)
(***************************************************************************)
LEMMA HigherIsNewer ==
    ASSUME NEW v \in Version, NEW w \in Version, w.counter > v.counter
    PROVE  Newer(w, v)
<1>1. v # NoVersion
  BY NoVersionAssumption
<1>2. compareVersions(w, v) = 1
  BY CompareIsOne
<1> QED
  BY <1>1, <1>2 DEF Newer

LEMMA InvNextCopyWins == ASSUME Inv PROVE NextCopyWins
<1> SUFFICES ASSUME NEW n \in Node
             PROVE  LET next == [counter |-> tick(counter[n]), deviceId |-> n]
                    IN  /\ Newer(next, resolver[n].lastApplied)
                        /\ \A e \in issued : e.origin = n => Newer(next, VersionOf(e))
  BY DEF NextCopyWins
<1> DEFINE next == [counter |-> tick(counter[n]), deviceId |-> n]
<1>1. counter[n] \in Nat
  BY DEF Inv, TypeOK
<1>2. next \in Version /\ next.counter > counter[n] /\ next.counter \in Nat
  BY <1>1, TickAdvances DEF Version
<1> HIDE DEF next
<1>3. Newer(next, resolver[n].lastApplied)
  <2>1. CASE resolver[n].lastApplied = NoVersion
    BY <2>1 DEF Newer
  <2>2. CASE resolver[n].lastApplied # NoVersion
    <3>1. resolver[n].lastApplied \in Version
      BY <2>2 DEF Inv, TypeOK, ResolverState
    <3>2. resolver[n].lastApplied.counter \in Nat /\ resolver[n].lastApplied.counter <= counter[n]
      BY <2>2, <3>1 DEF Inv, ClockAhead, Version
    <3> QED
      BY <1>1, <1>2, <3>1, <3>2, HigherIsNewer
  <2> QED
    BY <2>1, <2>2
<1>4. ASSUME NEW e \in issued, e.origin = n
      PROVE  Newer(next, VersionOf(e))
  <2>1. e \in Event /\ VersionOf(e) \in Version /\ VersionOf(e).counter = e.counter
    BY EventVersion DEF Inv, TypeOK, VersionOf
  <2>2. e.counter \in Nat /\ e.counter <= counter[n]
    BY <1>4, <2>1 DEF Inv, ClockAhead, Event
  <2> QED
    BY <1>1, <1>2, <2>1, <2>2, HigherIsNewer
<1> QED
  BY <1>3, <1>4 DEF next

THEOREM NextCopyAlwaysWins == Spec => []NextCopyWins
<1>1. Inv => NextCopyWins
  BY InvNextCopyWins
<1> QED
  BY <1>1, Invariance, PTL

-------------------------------------------------------------------------------
(***************************************************************************)
(* ClipSync implements SharedClipboard.  Issuing an event is the abstract  *)
(* Issue, an accepted resolution is Apply, and every other step leaves the *)
(* versions and what is applied alone.                                     *)
(***************************************************************************)
LEMMA Stutters ==
    ASSUME UNCHANGED <<issued, resolver>>
    PROVE  UNCHANGED Abstract!vars
  BY DEF Abstract!vars

LEMMA SameOrder ==
    /\ Abstract!Version = Version
    /\ \A w, v : Abstract!Newer(w, v) <=> Newer(w, v)
  BY DEF Abstract!Version, Version, Abstract!Newer, Newer,
         Abstract!compareVersions, compareVersions

LEMMA IssueRefines ==
    ASSUME Inv, NEW n \in Node, NEW t \in Text, Issue(n, t), UNCHANGED resolver
    PROVE  Abstract!Next
<1> DEFINE e == NextEvent(n, t)
           v == VersionOf(e)
           versions == {VersionOf(f) : f \in issued}
<1>1. e \in Event /\ issued' = issued \union {e}
  BY NextEventType DEF Inv, Issue, NextEvent
<1>2. v = [counter |-> tick(counter[n]), deviceId |-> n]
  BY DEF NextEvent, VersionOf
<1>3. counter[n] \in Nat
  BY DEF Inv, TypeOK
<1>4. v \in Version /\ v.deviceId = n /\ v.counter \in Nat /\ v.counter > counter[n]
  BY <1>1, <1>2, <1>3, TickAdvances, EventVersion
<1>5. \A w \in versions : w.deviceId = n => w.counter < v.counter
  <2>1. ASSUME NEW f \in issued, f.origin = n
        PROVE  f.counter < v.counter
    <3>1. f.counter \in Nat /\ f.counter <= counter[n]
      BY <2>1 DEF Inv, TypeOK, ClockAhead, Event
    <3> QED
      BY <1>3, <1>4, <3>1
  <2> QED
    BY <2>1 DEF VersionOf
<1>6. v \in versions' \ versions
  <2>1. v \notin versions
    BY <1>4, <1>5
  <2>2. v \in versions'
    BY <1>1
  <2> QED
    BY <2>1, <2>2
<1>7. versions' = versions \union {v}
  BY <1>1
<1>8. Newer(v, resolver[n].lastApplied)
  BY <1>2, InvNextCopyWins DEF NextCopyWins
<1>9. [m \in Node |-> resolver[m].lastApplied]' = [m \in Node |-> resolver[m].lastApplied]
  OBVIOUS
<1> HIDE DEF v, e
<1>10. Abstract!Issue(n)
  BY <1>4, <1>5, <1>6, <1>7, <1>8, <1>9, SameOrder DEF Abstract!Issue
<1> QED
  BY <1>10 DEF Abstract!Next

LEMMA ResolveRefines ==
    ASSUME Inv, NEW n \in Node, NEW h \in inc[n], Resolve(n, h)
    PROVE  [Abstract!Next]_(Abstract!vars)
<1> DEFINE v == VersionOf(h.event)
           o == observe(resolver[n], v, messageId(h.event))
<1>1. resolver' = [resolver EXCEPT ![n] = o.state] /\ UNCHANGED issued
  BY DEF Resolve
<1>2. resolver \in [Node -> ResolverState]
  BY DEF Inv, TypeOK
<1>3. CASE o.state = resolver[n]
  <2>1. resolver' = resolver
    BY <1>1, <1>2, <1>3
  <2> QED
    BY <1>1, <2>1, Stutters
<1>4. CASE o.state.lastApplied = v /\ Newer(v, resolver[n].lastApplied)
  <2>1. v \in {VersionOf(f) : f \in issued} /\ v.deviceId # n
    BY DEF Inv, OnlyIssued, VersionOf
  <2>2. \A m \in Node : resolver'[m].lastApplied =
                            IF m = n THEN v ELSE resolver[m].lastApplied
    BY <1>1, <1>2, <1>4
  <2>3. [m \in Node |-> resolver[m].lastApplied]'
          = [[m \in Node |-> resolver[m].lastApplied] EXCEPT ![n] = v]
    BY <2>2
  <2> HIDE DEF v, o
  <2>4. Abstract!Apply(n)
    BY <1>1, <1>4, <2>1, <2>3, SameOrder DEF Abstract!Apply
  <2> QED
    BY <2>4 DEF Abstract!Next
<1>5. \/ o.state = resolver[n]
      \/ o.state.lastApplied = v /\ Newer(v, resolver[n].lastApplied)
  BY DEF observe
<1> QED
  BY <1>3, <1>4, <1>5

(***************************************************************************)
(* What a step may do to the events and the resolvers: nothing, issue the  *)
(* next event of a node, or show a node's resolver a remote event.         *)
(***************************************************************************)
LEMMA StepCases ==
    ASSUME TypeOK, [Next]_vars
    PROVE  \/ UNCHANGED <<issued, made, resolver>>
           \/ \E n \in Node, t \in Text : Issue(n, t) /\ UNCHANGED resolver
           \/ \E n \in Node : \E h \in inc[n] : Resolve(n, h) /\ UNCHANGED <<issued, made>>
<1> DEFINE Same == UNCHANGED <<issued, made, resolver>>
<1> USE DEF local, os, bounds
<1>1. ASSUME NEW n \in Node, NEW t \in Text \union {NoText}, LocalChange(n, t),
             UNCHANGED resolver
      PROVE  Same \/ \E k \in Node, u \in Text : Issue(k, u) /\ UNCHANGED resolver
  BY <1>1, LocalChangeCases
<1>2. ASSUME NEW n \in Node, PollCompare(n)
      PROVE  Same \/ \E k \in Node, u \in Text : Issue(k, u) /\ UNCHANGED resolver
  <2>1. poll[n] \in Text \union {NoText} /\ LocalChange(n, poll[n]) /\ UNCHANGED resolver
    BY <1>2 DEF PollCompare, TypeOK
  <2> QED
    BY <1>1, <2>1
<1>3. ASSUME NEW n \in Node, NEW h \in inc[n], Notify(n, h)
      PROVE  Same \/ \E k \in Node, u \in Text : Issue(k, u) /\ UNCHANGED resolver
  <2>1. h.event.text \in Text \union {NoText} /\ LocalChange(n, h.event.text)
        /\ UNCHANGED resolver
    BY <1>3 DEF Notify, TypeOK, Incoming, Event
  <2> QED
    BY <1>1, <2>1
<1>4. ASSUME NEW n \in Node, NEW h \in inc[n], Resolve(n, h) PROVE UNCHANGED <<issued, made>>
  BY <1>4 DEF Resolve
<1>5. ASSUME NEW n \in Node, NEW t \in Text \union {NoText}, UserCopy(n, t) PROVE Same
  BY <1>5 DEF UserCopy
<1>6. ASSUME NEW n \in Node, PollRead(n) PROVE Same
  BY <1>6 DEF PollRead
<1>7. ASSUME NEW n \in Node, Outbound(n) PROVE Same
  BY <1>7 DEF Outbound, ListPeers, SendTo
<1>8. ASSUME NEW n \in Node, NEW h \in out[n], SendFails(n, h) PROVE Same
  BY <1>8 DEF SendFails
<1>9. ASSUME NEW d \in net, Receive(d) \/ Lose(d) PROVE Same
  BY <1>9 DEF Receive, Lose
<1>10. ASSUME NEW n \in Node, NEW h \in inc[n],
              CheckOrigin(n, h) \/ WriteLands(n, h) \/ WriteFails(n, h)
       PROVE  Same
  BY <1>10 DEF CheckOrigin, WriteLands, WriteFails
<1>11. ASSUME NEW n \in Node, NEW m \in Node, NEW enabled \in BOOLEAN,
              SetSharing(n, m, enabled)
       PROVE  Same
  BY <1>11 DEF SetSharing
<1>12. ASSUME NEW n \in Node, CloseTransport(n) \/ Unsubscribe(n) PROVE Same
  BY <1>12 DEF CloseTransport, Unsubscribe
<1>13. ASSUME UNCHANGED vars PROVE Same
  BY <1>13 DEF vars
<1> HIDE DEF Same
<1>14. \/ Same
       \/ \E n \in Node, t \in Text : Issue(n, t) /\ UNCHANGED resolver
       \/ \E n \in Node : \E h \in inc[n] : Resolve(n, h) /\ UNCHANGED <<issued, made>>
  BY <1>2, <1>3, <1>4, <1>5, <1>6, <1>7, <1>8, <1>9, <1>10, <1>11, <1>12, <1>13
  DEF Next, Inbound, Deliver
<1> QED
  BY <1>14 DEF Same

LEMMA StepRefines == ASSUME Inv, [Next]_vars PROVE [Abstract!Next]_(Abstract!vars)
<1>1. CASE UNCHANGED <<issued, made, resolver>>
  BY <1>1, Stutters
<1>2. ASSUME NEW n \in Node, NEW t \in Text, Issue(n, t), UNCHANGED resolver
      PROVE  [Abstract!Next]_(Abstract!vars)
  BY <1>2, IssueRefines
<1>3. ASSUME NEW n \in Node, NEW h \in inc[n], Resolve(n, h)
      PROVE  [Abstract!Next]_(Abstract!vars)
  BY <1>3, ResolveRefines
<1> QED
  BY <1>1, <1>2, <1>3, StepCases DEF Inv

LEMMA InitRefines == ASSUME Init PROVE Abstract!Init
  BY DEF Init, initResolver, Abstract!Init

(***************************************************************************)
(* Every behaviour of the handlers is one of the last-writer-wins register:*)
(* a version is given once and never below what its node applied, and what *)
(* a node applies was issued by another node and is always newer.          *)
(***************************************************************************)
THEOREM ImplementsRegister == Spec => ImplementsSharedClipboard
<1>1. Init => Abstract!Init
  BY InitRefines
<1>2. Inv /\ [Next]_vars => [Abstract!Next]_(Abstract!vars)
  BY StepRefines
<1> QED
  BY <1>1, <1>2, Invariance, PTL DEF Spec, ImplementsSharedClipboard, Abstract!Spec

-------------------------------------------------------------------------------
(***************************************************************************)
(* The gate.  GateMeansWriting is inductive with the type invariant: an    *)
(* accepted event arms the gate and is writing in the same step, and the   *)
(* step in which a write is notified consumes the gate, because what was   *)
(* written is never empty.                                                 *)
(***************************************************************************)
Writing(h) == h.at \in {"writing", "notifying"}

LEMMA LocalChangeGate ==
    ASSUME TypeOK, NEW n \in Node, NEW t, LocalChange(n, t)
    PROVE  /\ \A k \in Node : gate'[k] => gate[k]
           /\ t # NoText /\ Subscribed(n) => ~gate'[n]
  BY DEF LocalChange, Suppress, Issue, TypeOK

LEMMA StepGate ==
    ASSUME TypeOK, GateMeansWriting, [Next]_vars
    PROVE  GateMeansWriting'
<1> USE DEF local, os, bounds
<1>1. ASSUME \A n \in Node : Subscribed(n)' => Subscribed(n),
             \A n \in Node : Subscribed(n)' /\ gate'[n] => gate[n],
             \A n \in Node : Subscribed(n)' /\ gate'[n] =>
                \A h \in inc[n] : Writing(h) => \E g \in inc'[n] : Writing(g)
      PROVE  GateMeansWriting'
  BY <1>1 DEF GateMeansWriting, Writing
<1>2. ASSUME UNCHANGED <<status, gate, inc>> PROVE GateMeansWriting'
  BY <1>2 DEF GateMeansWriting, Subscribed
<1>3. ASSUME NEW n \in Node, PollCompare(n) PROVE GateMeansWriting'
  <2>1. LocalChange(n, poll[n]) /\ UNCHANGED <<status, inc>>
    BY <1>3 DEF PollCompare
  <2> QED
    BY <2>1, <1>1, LocalChangeGate DEF Subscribed
<1>4. ASSUME NEW n \in Node, Die(n) PROVE GateMeansWriting'
  <2>1. \A k \in Node : gate'[k] => gate[k] /\ k # n
    BY <1>4 DEF Die, TypeOK
  <2>2. \A k \in Node \ {n} : inc'[k] = inc[k] /\ status'[k] = status[k]
    BY <1>4 DEF Die, TypeOK
  <2> QED
    BY <2>1, <2>2 DEF GateMeansWriting, Subscribed
<1>5. ASSUME NEW d \in net, d.to \in Node, Receive(d) PROVE GateMeansWriting'
  <2>1. \A k \in Node : inc[k] \subseteq inc'[k]
    BY <1>5 DEF Receive, TypeOK
  <2>2. UNCHANGED <<status, gate>>
    BY <1>5 DEF Receive
  <2> QED
    BY <2>1, <2>2, <1>1 DEF Subscribed
<1>6. ASSUME NEW n \in Node, NEW h \in inc[n], CheckOrigin(n, h) PROVE GateMeansWriting'
  <2>1. \A k \in Node : \A g \in inc[k] : g \in inc'[k] \/ g = h
    BY <1>6 DEF CheckOrigin, TypeOK
  <2>2. ~Writing(h) /\ UNCHANGED <<status, gate>>
    BY <1>6 DEF CheckOrigin, Writing
  <2> QED
    BY <2>1, <2>2, <1>1 DEF Subscribed
<1>7. ASSUME NEW n \in Node, NEW h \in inc[n], Resolve(n, h) PROVE GateMeansWriting'
  <2>1. h \in Incoming /\ ~Writing(h) /\ UNCHANGED status
    BY <1>7 DEF Resolve, Writing, TypeOK
  <2>2. CASE /\ gate' = [gate EXCEPT ![n] = TRUE]
             /\ inc' = [inc EXCEPT ![n] = (@ \ {h}) \union {[h EXCEPT !.at = "writing"]}]
    <3>1. [h EXCEPT !.at = "writing"].at = "writing"
      BY <2>1 DEF Incoming
    <3>2. \E g \in inc'[n] : Writing(g)
      BY <2>2, <3>1 DEF TypeOK, Writing
    <3>3. \A k \in Node \ {n} : gate'[k] = gate[k] /\ inc'[k] = inc[k]
      BY <2>2 DEF TypeOK
    <3> QED
      BY <2>1, <3>2, <3>3 DEF GateMeansWriting, Subscribed, Writing
  <2>3. CASE UNCHANGED gate /\ inc' = [inc EXCEPT ![n] = @ \ {h}]
    <3>1. \A k \in Node : \A g \in inc[k] : g \in inc'[k] \/ g = h
      BY <2>3 DEF TypeOK
    <3> QED
      BY <2>1, <2>3, <3>1, <1>1 DEF Subscribed
  <2> QED
    BY <1>7, <2>2, <2>3 DEF Resolve
<1>8. ASSUME NEW n \in Node, NEW h \in inc[n], WriteLands(n, h) PROVE GateMeansWriting'
  <2>1. h \in Incoming /\ UNCHANGED <<status, gate>>
    BY <1>8 DEF WriteLands, TypeOK
  <2>2. Writing([h EXCEPT !.at = "notifying"])
    BY <2>1 DEF Incoming, Writing
  <2>3. \A k \in Node : \A g \in inc[k] :
           g \in inc'[k] \/ (k = n /\ [h EXCEPT !.at = "notifying"] \in inc'[k])
    BY <1>8 DEF WriteLands, TypeOK
  <2> QED
    BY <2>1, <2>2, <2>3, <1>1 DEF Subscribed
<1>9. ASSUME NEW n \in Node, NEW h \in inc[n], Notify(n, h) PROVE GateMeansWriting'
  <2>1. h.event.text # NoText
    BY ClipSyncAssumption DEF TypeOK, Incoming, Event
  <2>2. LocalChange(n, h.event.text) /\ UNCHANGED status
    BY <1>9 DEF Notify
  <2>3. /\ \A k \in Node : gate'[k] => gate[k]
        /\ Subscribed(n) => ~gate'[n]
    BY <2>1, <2>2, LocalChangeGate
  <2>4. \A k \in Node \ {n} : inc'[k] = inc[k]
    BY <1>9 DEF Notify, TypeOK
  <2>5. \A k \in Node : Subscribed(k)' <=> Subscribed(k)
    BY <2>2 DEF Subscribed
  <2> QED
    BY <2>3, <2>4, <2>5 DEF GateMeansWriting
<1>10. ASSUME NEW n \in Node, CloseTransport(n) \/ Unsubscribe(n) PROVE GateMeansWriting'
  <2>1. UNCHANGED <<gate, inc>>
    BY <1>10 DEF CloseTransport, Unsubscribe
  <2>2. \A k \in Node : Subscribed(k)' => Subscribed(k)
    BY <1>10 DEF CloseTransport, Unsubscribe, Subscribed, TypeOK
  <2> QED
    BY <2>1, <2>2, <1>1
<1>11. ASSUME NEW n \in Node, NEW t \in Text \union {NoText}, UserCopy(n, t)
       PROVE  UNCHANGED <<status, gate, inc>>
  BY <1>11 DEF UserCopy
<1>12. ASSUME NEW n \in Node, PollRead(n) PROVE UNCHANGED <<status, gate, inc>>
  BY <1>12 DEF PollRead
<1>13. ASSUME NEW n \in Node, Outbound(n) PROVE UNCHANGED <<status, gate, inc>>
  BY <1>13 DEF Outbound, ListPeers, SendTo
<1>14. ASSUME NEW d \in net, Lose(d) PROVE UNCHANGED <<status, gate, inc>>
  BY <1>14 DEF Lose
<1>15. ASSUME NEW n \in Node, NEW m \in Node, NEW enabled \in BOOLEAN,
              SetSharing(n, m, enabled)
       PROVE  UNCHANGED <<status, gate, inc>>
  BY <1>15 DEF SetSharing
<1>16. ASSUME UNCHANGED vars PROVE UNCHANGED <<status, gate, inc>>
  BY <1>16 DEF vars
<1>17. ASSUME NEW n \in Node, \E h \in out[n] : SendFails(n, h) PROVE Die(n)
  BY <1>17 DEF SendFails
<1>18. ASSUME NEW n \in Node, \E h \in inc[n] : WriteFails(n, h) PROVE Die(n)
  BY <1>18 DEF WriteFails
<1> QED
  BY <1>2, <1>3, <1>4, <1>5, <1>6, <1>7, <1>8, <1>9, <1>10, <1>11, <1>12, <1>13, <1>14,
     <1>15, <1>16, <1>17, <1>18
  DEF Next, Inbound, Deliver

(***************************************************************************)
(* While a node is subscribed, an armed gate always belongs to a remote    *)
(* write that has not been notified yet.                                   *)
(***************************************************************************)
THEOREM GateCorrect == Spec => []GateMeansWriting
<1>1. Init => GateMeansWriting
  BY DEF Init, GateMeansWriting
<1>2. TypeOK /\ GateMeansWriting /\ [Next]_vars => GateMeansWriting'
  BY StepGate
<1> QED
  BY <1>1, <1>2, TypeCorrect, PTL DEF Spec

-------------------------------------------------------------------------------
(***************************************************************************)
(* Convergence.  NoCopyLost speaks of quiet states only, so the invariant  *)
(* behind it follows an event through the states between: as long as       *)
(* nothing was disturbed, an event that a node has not reached waits in    *)
(* its sender's handler, in flight or in the node's handler.  Two more     *)
(* facts make it inductive.  Message identifiers are unique, and a seen    *)
(* identifier is that of an event that was reached: without them the       *)
(* resolver's deduplication could drop an event for good.                  *)
(***************************************************************************)
IdsUnique ==
    /\ \A e \in issued : e.id <= made[e.origin]
    /\ \A e, f \in issued : messageId(e) = messageId(f) => e = f

SeenReached ==
    \A m \in Node : \A id \in resolver[m].seenMessageIds :
        \E e \in issued : /\ messageId(e) = id
                          /\ Reached(VersionOf(e), resolver[m].lastApplied)

AppliedIssued ==
    \A m \in Node : resolver[m].lastApplied # NoVersion =>
        \E e \in issued : e.origin # m /\ VersionOf(e) = resolver[m].lastApplied

OnItsWay(e, m) ==
    \/ \E h \in out[e.origin] : h.event = e /\ (h.at = "listing" \/ m \in h.todo)
    \/ \E d \in net : d.to = m /\ d.event = e
    \/ \E h \in inc[m] : h.event = e /\ h.at \in {"listing", "resolving"}

Arrives ==
    Undisturbed =>
        /\ \A n \in Node : sharing[n] = Node \ {n}
        /\ \A e \in issued : \A m \in Node \ {e.origin} :
              Reached(VersionOf(e), resolver[m].lastApplied) \/ OnItsWay(e, m)

Converging == IdsUnique /\ SeenReached /\ AppliedIssued /\ Arrives

(***************************************************************************)
(* The reducer only moves forward: what its state has reached stays        *)
(* reached, and it remembers no message but the one it is shown.           *)
(***************************************************************************)
LEMMA ReachedTransitive ==
    ASSUME NEW w \in Version, NEW v \in Version, NEW u \in Version \union {NoVersion},
           Reached(w, v), Reached(v, u)
    PROVE  Reached(w, u)
<1>1. u \in Version /\ u # NoVersion /\ compareVersions(w, v) # 1 /\ compareVersions(v, u) # 1
  BY DEF Reached
<1>2. \A x \in Version : x.counter \in Nat /\ x.deviceId \in Nat
  BY NodeAssumption DEF Version
<1>3. compareVersions(w, u) # 1
  BY <1>1, <1>2, CompareIsOne
<1> QED
  BY <1>1, <1>3 DEF Reached

LEMMA ObserveAdvances ==
    ASSUME NEW r \in ResolverState, NEW v \in Version, NEW id \in Node \X (Nat \ {0})
    PROVE  LET next == observe(r, v, id).state
           IN  /\ next.seenMessageIds = r.seenMessageIds
                    \/ (/\ next.seenMessageIds = r.seenMessageIds \union {id}
                        /\ next.lastApplied = v)
               /\ next.lastApplied = r.lastApplied \/ next.lastApplied = v
               /\ id \notin r.seenMessageIds => Reached(v, next.lastApplied)
               /\ \A w \in Version : Reached(w, r.lastApplied) => Reached(w, next.lastApplied)
<1> DEFINE next == observe(r, v, id).state
<1>1. r.lastApplied \in Version \union {NoVersion}
  BY DEF ResolverState
<1>2. id \notin r.seenMessageIds =>
         /\ next.lastApplied \in Version
         /\ Reached(v, next.lastApplied)
         /\ r.lastApplied # NoVersion => Reached(r.lastApplied, next.lastApplied)
  BY <1>1, ObserveReachesTheNewest
<1>3. id \in r.seenMessageIds => next = r
  BY DEF observe
<1>4. ASSUME NEW w \in Version, Reached(w, r.lastApplied)
      PROVE  Reached(w, next.lastApplied)
  <2> HIDE DEF next
  <2>1. r.lastApplied \in Version
    BY <1>1, <1>4 DEF Reached
  <2> QED
    BY <1>2, <1>3, <1>4, <2>1, NoVersionAssumption, ReachedTransitive
<1>5. \/ next = r
      \/ next = [lastApplied |-> v, seenMessageIds |-> r.seenMessageIds \union {id}]
  BY DEF observe
<1> HIDE DEF next
<1>6. /\ next.seenMessageIds = r.seenMessageIds
          \/ (next.seenMessageIds = r.seenMessageIds \union {id} /\ next.lastApplied = v)
      /\ next.lastApplied = r.lastApplied \/ next.lastApplied = v
  BY <1>5
<1> QED
  BY <1>2, <1>4, <1>6 DEF next

LEMMA StepSeen ==
    ASSUME Inv, IdsUnique, SeenReached, AppliedIssued, [Next]_vars
    PROVE  IdsUnique' /\ SeenReached' /\ AppliedIssued'
<1> DEFINE Kept == IdsUnique' /\ SeenReached' /\ AppliedIssued'
<1>0. /\ TypeOK /\ OnlyIssued
      /\ made \in [Node -> Nat] /\ resolver \in [Node -> ResolverState]
      /\ \A e \in issued : /\ e \in Event /\ e.origin \in Node /\ e.id \in Nat \ {0}
                           /\ messageId(e) = <<e.origin, e.id>> /\ VersionOf(e) \in Version
  BY EventVersion DEF Inv, TypeOK, Event, messageId
<1>1. CASE UNCHANGED <<issued, made, resolver>>
  BY <1>1 DEF IdsUnique, SeenReached, AppliedIssued
<1>2. ASSUME NEW n \in Node, NEW t \in Text, Issue(n, t), UNCHANGED resolver
      PROVE  Kept
  <2> DEFINE e == NextEvent(n, t)
  <2>1. /\ e \in Event /\ e.origin = n /\ e.id = made[n] + 1 /\ messageId(e) = <<n, made[n] + 1>>
        /\ issued' = issued \union {e} /\ made' = [made EXCEPT ![n] = made[n] + 1]
    BY <1>0, <1>2, NextEventType DEF Issue, NextEvent, messageId
  <2> HIDE DEF e
  <2>2. \A f \in issued : f.id <= made[f.origin] /\ messageId(f) # messageId(e)
    BY <1>0, <2>1 DEF IdsUnique
  <2>3. \A f \in issued' : f.id <= made'[f.origin]
    BY <1>0, <2>1, <2>2
  <2>4. IdsUnique'
    BY <2>1, <2>2, <2>3 DEF IdsUnique
  <2> QED
    BY <1>2, <2>1, <2>4 DEF SeenReached, AppliedIssued
<1>3. ASSUME NEW n \in Node, NEW h \in inc[n], Resolve(n, h), UNCHANGED <<issued, made>>
      PROVE  Kept
  <2> DEFINE v == VersionOf(h.event)
             id == messageId(h.event)
             next == observe(resolver[n], v, id).state
  <2>1. h.event \in issued /\ h.event.origin # n /\ v \in Version /\ id \in Node \X (Nat \ {0})
    BY <1>0, EventVersion DEF OnlyIssued
  <2>2. resolver' = [resolver EXCEPT ![n] = next]
    BY <1>3 DEF Resolve
  <2>3. /\ next.seenMessageIds = resolver[n].seenMessageIds
             \/ (/\ next.seenMessageIds = resolver[n].seenMessageIds \union {id}
                 /\ next.lastApplied = v)
        /\ next.lastApplied = resolver[n].lastApplied \/ next.lastApplied = v
        /\ \A w \in Version : Reached(w, resolver[n].lastApplied) => Reached(w, next.lastApplied)
    BY <1>0, <2>1, ObserveAdvances
  <2> HIDE DEF next
  <2>4. resolver'[n] = next /\ \A k \in Node \ {n} : resolver'[k] = resolver[k]
    BY <1>0, <2>2
  <2>5. ASSUME NEW x \in next.seenMessageIds
        PROVE  \E e \in issued : messageId(e) = x /\ Reached(VersionOf(e), next.lastApplied)
    <3>1. CASE x \in resolver[n].seenMessageIds
      BY <1>0, <2>3, <3>1 DEF SeenReached
    <3>2. CASE x = id /\ next.lastApplied = v
      BY <2>1, <3>2, ReachedItself
    <3> QED
      BY <2>3, <2>5, <3>1, <3>2
  <2>6. next.lastApplied # NoVersion =>
           \E e \in issued : e.origin # n /\ VersionOf(e) = next.lastApplied
    BY <2>1, <2>3 DEF AppliedIssued
  <2>7. SeenReached'
    BY <1>3, <2>4, <2>5 DEF SeenReached
  <2>8. AppliedIssued'
    BY <1>3, <2>4, <2>6 DEF AppliedIssued
  <2> QED
    BY <1>3, <2>7, <2>8 DEF IdsUnique
<1> HIDE DEF Kept
<1>4. Kept
  BY <1>0, <1>1, <1>2, <1>3, StepCases DEF Kept
<1> QED
  BY <1>4 DEF Kept

(***************************************************************************)
(* An event on its way to a node stays on its way, or is reached, as long  *)
(* as nothing is disturbed.                                                *)
(***************************************************************************)
LEMMA StaysUndisturbed ==
    ASSUME TypeOK, [Next]_vars, Undisturbed'
    PROVE  Undisturbed /\ UNCHANGED sharing
<1> USE DEF local, os, bounds
<1>1. faults \in Nat /\ toggles \in Nat /\ status \in [Node -> Status]
  BY DEF TypeOK
<1>2. \A n \in Node : status'[n] = "running" /\ faults' = 0 /\ toggles' = 0
  BY DEF Undisturbed
<1>3. ASSUME UNCHANGED <<status, sharing, toggles, faults>>
      PROVE  Undisturbed /\ UNCHANGED sharing
  BY <1>3 DEF Undisturbed
<1>4. ASSUME NEW n \in Node, Die(n) PROVE FALSE
  BY <1>1, <1>2, <1>4 DEF Die
<1>5. ASSUME NEW n \in Node, NEW h \in out[n], SendFails(n, h) PROVE FALSE
  BY <1>4, <1>5 DEF SendFails
<1>6. ASSUME NEW n \in Node, NEW h \in inc[n], WriteFails(n, h) PROVE FALSE
  BY <1>4, <1>6 DEF WriteFails
<1>7. ASSUME NEW n \in Node, CloseTransport(n) \/ Unsubscribe(n) PROVE FALSE
  BY <1>1, <1>2, <1>7 DEF CloseTransport, Unsubscribe
<1>8. ASSUME NEW n \in Node, NEW m \in Node, NEW enabled \in BOOLEAN,
             SetSharing(n, m, enabled)
      PROVE  FALSE
  BY <1>1, <1>2, <1>8 DEF SetSharing
<1>9. ASSUME NEW d \in net, Lose(d)
      PROVE  FALSE
  <2>1. d.to \in Node
    BY DEF TypeOK
  <2> QED
    BY <1>1, <1>2, <1>9, <2>1 DEF Lose
<1>10. ASSUME NEW n \in Node, NEW t \in Text \union {NoText}, UserCopy(n, t)
       PROVE  UNCHANGED <<status, sharing, toggles, faults>>
  BY <1>10 DEF UserCopy
<1>11. ASSUME NEW n \in Node, PollRead(n) \/ PollCompare(n)
       PROVE  UNCHANGED <<status, sharing, toggles, faults>>
  BY <1>11 DEF PollRead, PollCompare
<1>12. ASSUME NEW n \in Node, Outbound(n) \/ Deliver(n) \/ Inbound(n)
       PROVE  UNCHANGED <<status, sharing, toggles, faults>>
  BY <1>12 DEF Outbound, ListPeers, SendTo, Deliver, Receive,
               Inbound, CheckOrigin, Resolve, WriteLands, Notify
<1>13. ASSUME UNCHANGED vars PROVE UNCHANGED <<status, sharing, toggles, faults>>
  BY <1>13 DEF vars
<1> QED
  BY <1>3, <1>5, <1>6, <1>7, <1>8, <1>9, <1>10, <1>11, <1>12, <1>13 DEF Next

LEMMA StepOnItsWay ==
    ASSUME Inv, IdsUnique, SeenReached, Arrives, [Next]_vars, Undisturbed'
    PROVE  \A e \in issued : \A m \in Node \ {e.origin} :
              OnItsWay(e, m) => \/ OnItsWay(e, m)'
                                \/ Reached(VersionOf(e), resolver'[m].lastApplied)
<1> DEFINE Goal == \A e \in issued : \A m \in Node \ {e.origin} :
              OnItsWay(e, m) => \/ OnItsWay(e, m)'
                                \/ Reached(VersionOf(e), resolver'[m].lastApplied)
<1> USE DEF local, os, bounds
<1>0. TypeOK /\ OnlyIssued /\ \A e \in issued : e \in Event /\ e.origin \in Node
  BY DEF Inv, TypeOK, Event
<1>a. Undisturbed /\ \A n \in Node : sharing[n] = Node \ {n}
  BY <1>0, StaysUndisturbed DEF Arrives
<1>1. ASSUME \A k \in Node : out[k] \subseteq out'[k], net \subseteq net',
             \A k \in Node : \A h \in inc[k] : h \in inc'[k] \/ Writing(h)
      PROVE  Goal
  BY <1>0, <1>1 DEF OnItsWay, Writing
<1>2. ASSUME UNCHANGED <<out, net, inc>> PROVE Goal
  BY <1>1, <1>2
<1>3. ASSUME NEW n \in Node, NEW t, LocalChange(n, t) PROVE \A k \in Node : out[k] \subseteq out'[k]
  BY <1>0, <1>3 DEF LocalChange, Suppress, Issue, TypeOK
<1>4. ASSUME NEW n \in Node, PollCompare(n) PROVE Goal
  BY <1>1, <1>3, <1>4 DEF PollCompare
<1>5. ASSUME NEW n \in Node, NEW h \in inc[n], Notify(n, h) PROVE Goal
  BY <1>0, <1>1, <1>3, <1>5 DEF Notify, TypeOK, Writing
<1>6. ASSUME NEW n \in Node, NEW h \in out[n], ListPeers(n, h) PROVE Goal
  <2> DEFINE g == [h EXCEPT !.at = "sending", !.todo = sharing[n]]
  <2>1. h \in Outgoing /\ h.event \in issued
    BY <1>0 DEF TypeOK, OnlyIssued
  <2>2. g.event = h.event /\ g.todo = Node \ {n}
    BY <1>a, <2>1 DEF Outgoing
  <2> HIDE DEF g
  <2>3. /\ \A k \in Node : \A f \in out[k] : f \in out'[k] \/ (k = n /\ f = h)
        /\ sharing[n] # {} => g \in out'[n]
        /\ UNCHANGED <<net, inc>>
    BY <1>0, <1>6 DEF ListPeers, TypeOK, g
  <2> QED
    BY <1>0, <1>a, <2>2, <2>3 DEF OnItsWay
<1>7. ASSUME NEW n \in Node, NEW h \in out[n], NEW x \in h.todo, SendTo(n, h, x) PROVE Goal
  <2> DEFINE g == [h EXCEPT !.todo = @ \ {x}]
  <2>1. h \in Outgoing /\ h.event \in issued /\ h.at = "sending"
    BY <1>0, <1>7 DEF TypeOK, OnlyIssued, SendTo
  <2>2. g.event = h.event /\ g.todo = h.todo \ {x}
    BY <2>1 DEF Outgoing
  <2> HIDE DEF g
  <2>3. /\ \A k \in Node : \A f \in out[k] : f \in out'[k] \/ (k = n /\ f = h)
        /\ h.todo # {x} => g \in out'[n]
        /\ net' = net \union {[to |-> x, event |-> h.event]}
        /\ UNCHANGED inc
    BY <1>0, <1>7 DEF SendTo, TypeOK, g
  <2>4. ASSUME NEW e \in issued, NEW m \in Node \ {e.origin}, OnItsWay(e, m)
        PROVE  OnItsWay(e, m)'
    <3>1. CASE \E f \in out[e.origin] : f.event = e /\ (f.at = "listing" \/ m \in f.todo)
      <4>1. PICK f \in out[e.origin] : f.event = e /\ (f.at = "listing" \/ m \in f.todo)
        BY <3>1
      <4>2. CASE f \in out'[e.origin]
        BY <4>1, <4>2 DEF OnItsWay
      <4>3. CASE e.origin = n /\ f = h /\ m = x
        <5>1. [to |-> m, event |-> e] \in net'
          BY <2>3, <4>1, <4>3
        <5> QED
          BY <5>1 DEF OnItsWay
      <4>4. CASE e.origin = n /\ f = h /\ m # x
        <5>1. m \in g.todo /\ h.todo # {x}
          BY <2>1, <2>2, <4>1, <4>4
        <5> QED
          BY <2>2, <2>3, <4>1, <4>4, <5>1 DEF OnItsWay
      <4> QED
        BY <1>0, <2>3, <4>2, <4>3, <4>4
    <3>2. CASE ~ \E f \in out[e.origin] : f.event = e /\ (f.at = "listing" \/ m \in f.todo)
      BY <2>3, <2>4, <3>2 DEF OnItsWay
    <3> QED
      BY <3>1, <3>2
  <2> QED
    BY <2>4
<1>8. ASSUME NEW d \in net, d.to \in Node, Receive(d) PROVE Goal
  <2> DEFINE g == [event |-> d.event, at |-> "listing"]
  <2>1. /\ \A k \in Node : inc[k] \subseteq inc'[k]
        /\ d.event.origin # d.to => g \in inc'[d.to]
        /\ net' = net \ {d}
        /\ UNCHANGED out
    BY <1>0, <1>8 DEF Receive, TypeOK
  <2> QED
    BY <1>0, <2>1 DEF OnItsWay
<1>9. ASSUME NEW n \in Node, NEW h \in inc[n], CheckOrigin(n, h) PROVE Goal
  <2> DEFINE g == [h EXCEPT !.at = "resolving"]
  <2>1. h \in Incoming /\ h.event.origin \in sharing[n]
    BY <1>0, <1>a DEF TypeOK, OnlyIssued
  <2>2. g.event = h.event /\ g.at = "resolving"
    BY <2>1 DEF Incoming
  <2> HIDE DEF g
  <2>3. /\ \A k \in Node : \A f \in inc[k] : f \in inc'[k] \/ (k = n /\ f = h)
        /\ g \in inc'[n]
        /\ UNCHANGED <<out, net>>
    BY <1>0, <1>9, <2>1 DEF CheckOrigin, TypeOK, g
  <2> QED
    BY <1>0, <2>2, <2>3 DEF OnItsWay
<1>10. ASSUME NEW n \in Node, NEW h \in inc[n], Resolve(n, h) PROVE Goal
  <2> DEFINE v == VersionOf(h.event)
             id == messageId(h.event)
             next == observe(resolver[n], v, id).state
  <2>1. /\ h.event \in issued /\ v \in Version /\ id \in Node \X (Nat \ {0})
        /\ resolver[n] \in ResolverState
    BY <1>0, EventVersion DEF OnlyIssued, TypeOK
  <2>2. /\ id \notin resolver[n].seenMessageIds => Reached(v, next.lastApplied)
        /\ \A w \in Version : Reached(w, resolver[n].lastApplied) => Reached(w, next.lastApplied)
    BY <2>1, ObserveAdvances
  <2> HIDE DEF next
  <2>3. id \in resolver[n].seenMessageIds => Reached(v, next.lastApplied)
    BY <2>1, <2>2 DEF SeenReached, IdsUnique
  <2>4. resolver' = [resolver EXCEPT ![n] = next] /\ UNCHANGED <<out, net>>
    BY <1>10 DEF Resolve, next
  <2>5. resolver'[n] = next
    BY <1>0, <2>4 DEF TypeOK
  <2>6. \A k \in Node : \A f \in inc[k] : f \in inc'[k] \/ (k = n /\ f = h)
    <3>1. \/ inc' = [inc EXCEPT ![n] = (@ \ {h}) \union {[h EXCEPT !.at = "writing"]}]
          \/ inc' = [inc EXCEPT ![n] = @ \ {h}]
      BY <1>10 DEF Resolve
    <3> QED
      BY <1>0, <3>1 DEF TypeOK
  <2> HIDE DEF v, id
  <2>7. Reached(v, resolver'[n].lastApplied)
    BY <2>2, <2>3, <2>5
  <2> QED
    BY <1>0, <2>4, <2>6, <2>7 DEF OnItsWay, v
<1>11. ASSUME NEW n \in Node, NEW h \in inc[n], WriteLands(n, h) PROVE Goal
  <2>1. \A k \in Node : \A f \in inc[k] : f \in inc'[k] \/ Writing(f)
    BY <1>0, <1>11 DEF WriteLands, TypeOK, Writing
  <2> QED
    BY <1>1, <1>11, <2>1 DEF WriteLands
<1>12. ASSUME NEW n \in Node, NEW t \in Text \union {NoText}, UserCopy(n, t)
       PROVE  UNCHANGED <<out, net, inc>>
  BY <1>12 DEF UserCopy
<1>13. ASSUME NEW n \in Node, PollRead(n) PROVE UNCHANGED <<out, net, inc>>
  BY <1>13 DEF PollRead
<1>14. ASSUME NEW n \in Node, NEW h \in out[n], SendFails(n, h) PROVE FALSE
  BY <1>14 DEF SendFails, Die, Undisturbed, TypeOK, Inv
<1>15. ASSUME NEW n \in Node, NEW h \in inc[n], WriteFails(n, h) PROVE FALSE
  BY <1>15 DEF WriteFails, Die, Undisturbed, TypeOK, Inv
<1>16. ASSUME NEW n \in Node, NEW m \in Node, NEW enabled \in BOOLEAN,
              SetSharing(n, m, enabled)
       PROVE  UNCHANGED <<out, net, inc>>
  BY <1>16 DEF SetSharing
<1>17. ASSUME NEW n \in Node, CloseTransport(n) \/ Unsubscribe(n)
       PROVE  UNCHANGED <<out, net, inc>>
  BY <1>17 DEF CloseTransport, Unsubscribe
<1>18. ASSUME NEW d \in net, Lose(d) PROVE FALSE
  BY <1>0, <1>a, <1>18 DEF Lose, Undisturbed, TypeOK
<1>19. ASSUME UNCHANGED vars PROVE UNCHANGED <<out, net, inc>>
  BY <1>19 DEF vars
<1> HIDE DEF Goal
<1>20. Goal
  BY <1>2, <1>4, <1>5, <1>6, <1>7, <1>8, <1>9, <1>10, <1>11, <1>12, <1>13, <1>14, <1>15,
     <1>16, <1>17, <1>18, <1>19
  DEF Next, Outbound, Inbound, Deliver
<1> QED
  BY <1>20 DEF Goal

LEMMA StepArrives ==
    ASSUME Inv, Converging, [Next]_vars
    PROVE  Arrives'
<1> SUFFICES ASSUME Undisturbed'
             PROVE  /\ \A n \in Node : sharing'[n] = Node \ {n}
                    /\ \A e \in issued' : \A m \in Node \ {e.origin} :
                          Reached(VersionOf(e), resolver'[m].lastApplied) \/ OnItsWay(e, m)'
  BY DEF Arrives
<1>0. TypeOK /\ \A e \in issued : e \in Event /\ e.origin \in Node
  BY DEF Inv, TypeOK, Event
<1>1. Undisturbed /\ UNCHANGED sharing
  BY <1>0, StaysUndisturbed
<1>2. \A n \in Node : sharing'[n] = Node \ {n}
  BY <1>1 DEF Converging, Arrives
<1>3. \A e \in issued : \A m \in Node \ {e.origin} :
         OnItsWay(e, m) => OnItsWay(e, m)' \/ Reached(VersionOf(e), resolver'[m].lastApplied)
  BY StepOnItsWay DEF Converging
<1>4. \A m \in Node : \A w \in Version :
         Reached(w, resolver[m].lastApplied) => Reached(w, resolver'[m].lastApplied)
  <2>1. ASSUME NEW n \in Node, NEW h \in inc[n], Resolve(n, h),
               NEW m \in Node, NEW w \in Version, Reached(w, resolver[m].lastApplied)
        PROVE  Reached(w, resolver'[m].lastApplied)
    <3> DEFINE next == observe(resolver[n], VersionOf(h.event), messageId(h.event)).state
    <3>1. h.event \in Event /\ resolver \in [Node -> ResolverState]
      BY <1>0 DEF TypeOK, Incoming
    <3>2. \A u \in Version : Reached(u, resolver[n].lastApplied) => Reached(u, next.lastApplied)
      BY <3>1, EventVersion, ObserveAdvances
    <3>3. resolver' = [resolver EXCEPT ![n] = next]
      BY <2>1 DEF Resolve
    <3> HIDE DEF next
    <3> QED
      BY <2>1, <3>1, <3>2, <3>3
  <2> QED
    BY <1>0, <2>1, StepCases
<1>5. ASSUME NEW e \in issued' \ issued, NEW m \in Node \ {e.origin}
      PROVE  OnItsWay(e, m)'
  <2>1. PICK n \in Node, t \in Text : Issue(n, t)
    BY <1>0, <1>5, StepCases
  <2>2. e = NextEvent(n, t) /\ e.origin = n
    BY <2>1 DEF Issue, NextEvent
  <2>3. [event |-> e, at |-> "listing", todo |-> {}] \in out'[n]
    BY <1>0, <2>1, <2>2 DEF Issue, NextEvent, TypeOK
  <2> QED
    BY <2>2, <2>3 DEF OnItsWay
<1>6. ASSUME NEW e \in issued, NEW m \in Node \ {e.origin}
      PROVE  Reached(VersionOf(e), resolver'[m].lastApplied) \/ OnItsWay(e, m)'
  <2>1. VersionOf(e) \in Version
    BY <1>0, EventVersion
  <2>2. Reached(VersionOf(e), resolver[m].lastApplied) \/ OnItsWay(e, m)
    BY <1>1 DEF Converging, Arrives
  <2> QED
    BY <1>3, <1>4, <2>1, <2>2
<1> QED
  BY <1>2, <1>5, <1>6

LEMMA Convergence == Spec => []Converging
<1>1. Init => Converging
  BY DEF Init, initResolver, Converging, IdsUnique, SeenReached, AppliedIssued, Arrives
<1>2. Inv /\ Converging /\ [Next]_vars => Converging'
  BY StepSeen, StepArrives DEF Converging
<1> QED
  BY <1>1, <1>2, Invariance, PTL DEF Spec

(***************************************************************************)
(* When nothing is under way and nothing was disturbed, every event has    *)
(* reached every other node: the handlers lose no copy, in whatever order  *)
(* their continuations run.                                                *)
(***************************************************************************)
LEMMA QuietReached ==
    ASSUME TypeOK, Arrives, Undisturbed, Quiet
    PROVE  \A e \in issued : \A m \in Node \ {e.origin} :
              Reached(VersionOf(e), resolver[m].lastApplied)
<1>1. \A e \in issued : \A m \in Node : ~OnItsWay(e, m)
  BY DEF Quiet, OnItsWay, TypeOK, Event
<1> QED
  BY <1>1 DEF Arrives

THEOREM NoCopyIsLost == Spec => []NoCopyLost
<1>1. Inv /\ Converging => NoCopyLost
  <2> SUFFICES ASSUME Inv, Converging, Undisturbed, Quiet, NEW e \in issued,
                      NEW m \in Node \ {e.origin}
               PROVE  Reached(VersionOf(e), resolver[m].lastApplied)
    BY DEF NoCopyLost
  <2> QED
    BY QuietReached DEF Converging, Inv
<1> QED
  BY <1>1, Convergence, Invariance, PTL

(***************************************************************************)
(* The event of the highest version, if there is one, is then the last one *)
(* applied at every node but its own: a node that had applied another      *)
(* would have applied an older one, and not have reached it.               *)
(***************************************************************************)
THEOREM WinnerIsEverywhere == Spec => []WinnerEverywhere
<1>1. Inv /\ Converging => WinnerEverywhere
  <2> SUFFICES ASSUME Inv, Converging, Undisturbed, Quiet, NEW w \in issued,
                      \A e \in issued : \/ e = w
                                        \/ e.counter < w.counter
                                        \/ e.counter = w.counter /\ e.origin < w.origin,
                      NEW m \in Node \ {w.origin}
               PROVE  resolver[m].lastApplied = VersionOf(w)
    BY DEF WinnerEverywhere
  <2>1. Reached(VersionOf(w), resolver[m].lastApplied)
    BY QuietReached DEF Converging, Inv
  <2>2. PICK e \in issued : VersionOf(e) = resolver[m].lastApplied
    BY <2>1 DEF Converging, AppliedIssued, Reached
  <2>3. compareVersions(VersionOf(w), VersionOf(e)) # 1
    BY <2>1, <2>2 DEF Reached
  <2>4. CASE e = w
    BY <2>2, <2>4
  <2>5. CASE e # w
    <3>1. e \in Event /\ w \in Event
      BY DEF Inv, TypeOK
    <3>2. /\ VersionOf(w) \in Version /\ VersionOf(e) \in Version
          /\ VersionOf(w).counter = w.counter /\ VersionOf(e).counter = e.counter
          /\ VersionOf(w).deviceId = w.origin /\ VersionOf(e).deviceId = e.origin
      BY <3>1, EventVersion DEF VersionOf
    <3>3. /\ w.counter \in Nat /\ e.counter \in Nat /\ w.origin \in Nat /\ e.origin \in Nat
      BY <3>1, NodeAssumption DEF Event
    <3> QED
      BY <2>3, <2>5, <3>2, <3>3, CompareIsOne
  <2> QED
    BY <2>4, <2>5
<1> QED
  BY <1>1, Convergence, Invariance, PTL
=================================================================================
