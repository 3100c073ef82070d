------------------------------- MODULE ClipSync -------------------------------
(***************************************************************************)
(* The two use cases that keep clipboards in sync, running on every node:  *)
(* startLocalSync (src/application/sync-clipboard.ts) and                  *)
(* startRemoteReceiver (receive-clipboard.ts), with the parts of a node    *)
(* they share: the logical clock, the conflict resolver, the one-shot      *)
(* remote-write gate and the polling clipboard adapter.                    *)
(*                                                                         *)
(* Both use cases are asynchronous handlers.  Nothing serialises them, so  *)
(* several instances of each are under way at a node and interleave at     *)
(* every await; an action here is the code between two awaits.             *)
(*                                                                         *)
(* An envelope on its way is a member of the set `net`.  The order of a    *)
(* connection is not kept, because it does not survive: a receiver starts  *)
(* one instance per envelope and each awaits the registry on its own.      *)
(***************************************************************************)
EXTENDS ConflictResolver, FiniteSets

CONSTANTS
    Text,        \* what users copy
    NoText,      \* the empty clipboard
    Idle,        \* no poll under way
    MaxCopies,   \* bound: copies by users
    MaxEvents,   \* bound: events a node gives a version
    MaxToggles,  \* bound: changes of a sharing opt-in
    MaxFaults,   \* bound: lost envelopes, failed sends and writes
    MayStop      \* the nodes that may be shut down

ASSUME ClipSyncAssumption ==
    /\ NoText \notin Text
    /\ Idle \notin Text \union {NoText}
    /\ {MaxCopies, MaxEvents, MaxToggles, MaxFaults} \subseteq Nat

VARIABLES
    status,      \* of the node's daemon
    counter,     \* PersistentClock.counter
    resolver,    \* startRemoteReceiver's resolver
    gate,        \* the RemoteWriteGate's `suppressed`
    clip,        \* the text on the operating system's clipboard
    lastText,    \* the adapter's lastText
    poll,        \* the text the poll under way has read, or Idle
    out,         \* instances of the local-change handler, past the tick
    inc,         \* instances of the remote-envelope handler
    sharing,     \* the registry: peers with clipboardSharingEnabled
    net,         \* envelopes in flight
    issued,      \* history: every event that was given a version
    made,        \* history: number of events a node has issued (the identifiers)
    copies, toggles, faults      \* what the bounds count

local  == <<counter, resolver, gate>>
os     == <<clip, lastText, poll>>
bounds == <<copies, toggles, faults>>
vars   == <<status, local, os, out, inc, sharing, net, issued, made, bounds>>

Event == [origin : Node, id : Nat \ {0}, counter : Nat, text : Text]

\* The version and the message identifier of an event's envelope.
VersionOf(e) == [counter |-> e.counter, deviceId |-> e.origin]
messageId(e) == <<e.origin, e.id>>

ResolverState == [lastApplied : Version \union {NoVersion},
                  seenMessageIds : SUBSET (Node \X (Nat \ {0}))]

Outgoing == [event : Event, at : {"listing", "sending"}, todo : SUBSET Node]
Incoming == [event : Event, at : {"listing", "resolving", "writing", "notifying"}]

\* Running; the transport closed but still subscribed; unsubscribed; dead.
Status == {"running", "closing", "stopped", "dead"}

Subscribed(n) == status[n] \in {"running", "closing"}

Init ==
    /\ status   = [n \in Node |-> "running"]
    /\ counter  = [n \in Node |-> 0]
    /\ resolver = [n \in Node |-> initResolver]
    /\ gate     = [n \in Node |-> FALSE]
    /\ clip     = [n \in Node |-> NoText]
    /\ lastText = [n \in Node |-> NoText]
    /\ poll     = [n \in Node |-> Idle]
    /\ out      = [n \in Node |-> {}]
    /\ inc      = [n \in Node |-> {}]
    /\ sharing  = [n \in Node |-> Node \ {n}]
    /\ net      = {}
    /\ issued   = {}
    /\ made     = [n \in Node |-> 0]
    /\ copies = 0 /\ toggles = 0 /\ faults = 0

-------------------------------------------------------------------------------
(***************************************************************************)
(* The clock.                                                              *)
(***************************************************************************)
\* Mutant: tick reads the counter and forgets to store the next one.
tick_NotStored(c) == c

tick(c) == c + 1

\* Mutant: a remote counter is ignored.
observeCounter_Ignored(c, remote) == c

observeCounter(c, remote) == IF remote > c THEN remote ELSE c

-------------------------------------------------------------------------------
(***************************************************************************)
(* What the local-change handler does up to its first await, when the      *)
(* adapter notifies it of text t: an empty text is ignored, an armed gate  *)
(* is consumed and suppresses it, and otherwise the clock ticks and an     *)
(* instance waits for the registry.                                        *)
(***************************************************************************)
Suppress(n) == /\ gate' = [gate EXCEPT ![n] = FALSE]
               /\ UNCHANGED <<counter, out, issued, made>>

Issue(n, t) ==
    LET e == [origin |-> n, id |-> made[n] + 1, counter |-> tick(counter[n]), text |-> t]
    IN  /\ made[n] < MaxEvents
        /\ counter' = [counter EXCEPT ![n] = e.counter]
        /\ made' = [made EXCEPT ![n] = e.id]
        /\ issued' = issued \union {e}
        /\ out' = [out EXCEPT ![n] = @ \union {[event |-> e, at |-> "listing", todo |-> {}]}]
        /\ UNCHANGED gate

\* Mutant: the gate is only looked at, not consumed.
LocalChange_GateKept(n, t) ==
    \/ /\ t = NoText \/ ~Subscribed(n) \/ gate[n]
       /\ UNCHANGED <<counter, gate, out, issued, made>>
    \/ /\ t # NoText /\ Subscribed(n) /\ ~gate[n]
       /\ Issue(n, t)

\* Mutant: an empty text is broadcast like any other.
LocalChange_EmptyToo(n, t) ==
    \/ /\ ~Subscribed(n)
       /\ UNCHANGED <<counter, gate, out, issued, made>>
    \/ Subscribed(n) /\ gate[n] /\ Suppress(n)
    \/ Subscribed(n) /\ ~gate[n] /\ Issue(n, t)

LocalChange(n, t) ==
    \/ /\ t = NoText \/ ~Subscribed(n)
       /\ UNCHANGED <<counter, gate, out, issued, made>>
    \/ /\ t # NoText /\ Subscribed(n) /\ gate[n]
       /\ Suppress(n)
    \/ /\ t # NoText /\ Subscribed(n) /\ ~gate[n]
       /\ Issue(n, t)

(***************************************************************************)
(* The user copies a text, or empties the clipboard.                       *)
(***************************************************************************)
UserCopy(n, t) ==
    /\ copies < MaxCopies
    /\ t # clip[n]
    /\ clip' = [clip EXCEPT ![n] = t]
    /\ copies' = copies + 1
    /\ UNCHANGED <<status, local, lastText, poll, out, inc, sharing, net, issued, made,
                   toggles, faults>>

(***************************************************************************)
(* The adapter's poll: a subprocess reads the clipboard, then the          *)
(* continuation compares with lastText.  A poll that reads lastText does   *)
(* nothing and is left out; one poll at a time is under way (the timer     *)
(* fires once a second).                                                   *)
(***************************************************************************)
PollRead(n) ==
    /\ Subscribed(n) /\ poll[n] = Idle
    /\ clip[n] # lastText[n]
    /\ poll' = [poll EXCEPT ![n] = clip[n]]
    /\ UNCHANGED <<status, local, clip, lastText, out, inc, sharing, net, issued, made,
                   bounds>>

PollCompare(n) ==
    /\ poll[n] # Idle
    /\ lastText' = [lastText EXCEPT ![n] = poll[n]]
    /\ poll' = [poll EXCEPT ![n] = Idle]
    /\ LocalChange(n, poll[n])
    /\ UNCHANGED <<status, resolver, clip, inc, sharing, net, bounds>>

-------------------------------------------------------------------------------
(***************************************************************************)
(* The rest of the local-change handler: the registry answers, then one    *)
(* awaited send per eligible peer.                                         *)
(***************************************************************************)
ListPeers(n, h) ==
    /\ h.at = "listing"
    /\ out' = [out EXCEPT ![n] =
                 (@ \ {h}) \union (IF sharing[n] = {} THEN {}
                                   ELSE {[h EXCEPT !.at = "sending", !.todo = sharing[n]]})]
    /\ UNCHANGED <<status, local, os, inc, sharing, net, issued, made, bounds>>

\* Mutant: the fan-out stops after its first peer.
SendTo_FirstOnly(n, h, m) ==
    /\ h.at = "sending" /\ m \in h.todo
    /\ status[n] = "running"
    /\ net' = net \union {[to |-> m, event |-> h.event]}
    /\ out' = [out EXCEPT ![n] = @ \ {h}]
    /\ UNCHANGED <<status, local, os, inc, sharing, issued, made, bounds>>

SendTo(n, h, m) ==
    /\ h.at = "sending" /\ m \in h.todo
    /\ status[n] = "running"
    /\ net' = net \union {[to |-> m, event |-> h.event]}
    /\ out' = [out EXCEPT ![n] =
                 (@ \ {h}) \union (IF h.todo = {m} THEN {}
                                   ELSE {[h EXCEPT !.todo = @ \ {m}]})]
    /\ UNCHANGED <<status, local, os, inc, sharing, issued, made, bounds>>

(***************************************************************************)
(* Nobody catches a rejection of these handlers, and the runtime ends the  *)
(* process on an unhandled rejection: the poll and every instance are gone *)
(* with it.                                                                *)
(***************************************************************************)
Die(n) ==
    /\ status' = [status EXCEPT ![n] = "dead"]
    /\ out' = [out EXCEPT ![n] = {}]
    /\ inc' = [inc EXCEPT ![n] = {}]
    /\ poll' = [poll EXCEPT ![n] = Idle]
    /\ gate' = [gate EXCEPT ![n] = FALSE]

\* A send rejects: the peer's stream failed, or the transport is closed.
SendFails(n, h) ==
    /\ h.at = "sending"
    /\ \/ status[n] # "running" /\ UNCHANGED faults
       \/ status[n] = "running" /\ faults < MaxFaults /\ faults' = faults + 1
    /\ Die(n)
    /\ UNCHANGED <<counter, resolver, clip, lastText, sharing, net, issued, made,
                   copies, toggles>>

(***************************************************************************)
(* The connection is lost, or was never there (send returns silently), or  *)
(* the receiver is closed: the envelope disappears.                        *)
(***************************************************************************)
Lose(d) ==
    /\ \/ status[d.to] # "running" /\ UNCHANGED faults
       \/ status[d.to] = "running" /\ faults < MaxFaults /\ faults' = faults + 1
    /\ net' = net \ {d}
    /\ UNCHANGED <<status, local, os, out, inc, sharing, issued, made, copies, toggles>>

-------------------------------------------------------------------------------
(***************************************************************************)
(* The remote-envelope handler, at the receiving node n.                   *)
(***************************************************************************)
\* Mutant: an envelope that arrives while another is handled is dropped.
Receive_OnlyWhenFree(d) ==
    /\ status[d.to] = "running"
    /\ net' = net \ {d}
    /\ inc' = [inc EXCEPT ![d.to] =
                 @ \union (IF d.event.origin = d.to \/ @ # {} THEN {}
                           ELSE {[event |-> d.event, at |-> "listing"]})]
    /\ UNCHANGED <<status, local, os, out, sharing, issued, made, bounds>>

Receive(d) ==
    /\ status[d.to] = "running"
    /\ net' = net \ {d}
    /\ inc' = [inc EXCEPT ![d.to] =
                 @ \union (IF d.event.origin = d.to THEN {}
                           ELSE {[event |-> d.event, at |-> "listing"]})]
    /\ UNCHANGED <<status, local, os, out, sharing, issued, made, bounds>>

CheckOrigin(n, h) ==
    /\ h.at = "listing"
    /\ \/ /\ h.event.origin \notin sharing[n]
          /\ inc' = [inc EXCEPT ![n] = @ \ {h}]
          /\ UNCHANGED counter
       \/ /\ h.event.origin \in sharing[n]
          /\ counter' = [counter EXCEPT ![n] = observeCounter(@, h.event.counter)]
          /\ inc' = [inc EXCEPT ![n] = (@ \ {h}) \union {[h EXCEPT !.at = "resolving"]}]
    /\ UNCHANGED <<status, resolver, gate, os, out, sharing, net, issued, made, bounds>>

Resolve(n, h) ==
    LET o == observe(resolver[n], VersionOf(h.event), messageId(h.event))
    IN  /\ h.at = "resolving"
        /\ resolver' = [resolver EXCEPT ![n] = o.state]
        /\ \/ /\ o.result = "accepted"
              /\ gate' = [gate EXCEPT ![n] = TRUE]
              /\ inc' = [inc EXCEPT ![n] = (@ \ {h}) \union {[h EXCEPT !.at = "writing"]}]
           \/ /\ o.result # "accepted"
              /\ inc' = [inc EXCEPT ![n] = @ \ {h}]
              /\ UNCHANGED gate
        /\ UNCHANGED <<status, counter, os, out, sharing, net, issued, made, bounds>>

\* The writing subprocess sets the clipboard; later its exit is seen.
WriteLands(n, h) ==
    /\ h.at = "writing"
    /\ clip' = [clip EXCEPT ![n] = h.event.text]
    /\ inc' = [inc EXCEPT ![n] = (@ \ {h}) \union {[h EXCEPT !.at = "notifying"]}]
    /\ UNCHANGED <<status, local, lastText, poll, out, sharing, net, issued, made, bounds>>

WriteFails(n, h) ==
    /\ h.at = "writing"
    /\ faults < MaxFaults
    /\ faults' = faults + 1
    /\ Die(n)
    /\ UNCHANGED <<counter, resolver, clip, lastText, sharing, net, issued, made,
                   copies, toggles>>

Notify(n, h) ==
    /\ h.at = "notifying"
    /\ inc' = [inc EXCEPT ![n] = @ \ {h}]
    /\ LocalChange(n, h.event.text)
    /\ UNCHANGED <<status, resolver, os, sharing, net, bounds>>

-------------------------------------------------------------------------------
(***************************************************************************)
(* The user changes the opt-in of peer m at n, and the daemon's shutdown:  *)
(* the transport closes, and only later are the use cases unsubscribed.    *)
(***************************************************************************)
SetSharing(n, m, enabled) ==
    /\ toggles < MaxToggles
    /\ status[n] = "running" /\ m # n
    /\ (m \in sharing[n]) # enabled
    /\ sharing' = [sharing EXCEPT ![n] = IF enabled THEN @ \union {m} ELSE @ \ {m}]
    /\ toggles' = toggles + 1
    /\ UNCHANGED <<status, local, os, out, inc, net, issued, made, copies, faults>>

CloseTransport(n) ==
    /\ n \in MayStop /\ status[n] = "running"
    /\ status' = [status EXCEPT ![n] = "closing"]
    /\ UNCHANGED <<local, os, out, inc, sharing, net, issued, made, bounds>>

Unsubscribe(n) ==
    /\ status[n] = "closing"
    /\ status' = [status EXCEPT ![n] = "stopped"]
    /\ UNCHANGED <<local, os, out, inc, sharing, net, issued, made, bounds>>

-------------------------------------------------------------------------------
Outbound(n)  == \E h \in out[n] : \/ ListPeers(n, h)
                                  \/ \E m \in h.todo : SendTo(n, h, m)
Inbound(n)   == \E h \in inc[n] : \/ CheckOrigin(n, h)
                                  \/ Resolve(n, h)
                                  \/ WriteLands(n, h)
                                  \/ Notify(n, h)
Deliver(n)   == \E d \in net : d.to = n /\ Receive(d)

Next ==
    \/ \E n \in Node :
         \/ \E t \in Text \union {NoText} : UserCopy(n, t)
         \/ PollRead(n)
         \/ PollCompare(n)
         \/ Outbound(n)
         \/ \E h \in out[n] : SendFails(n, h)
         \/ Deliver(n)
         \/ Inbound(n)
         \/ \E h \in inc[n] : WriteFails(n, h)
         \/ \E m \in Node, enabled \in BOOLEAN : SetSharing(n, m, enabled)
         \/ CloseTransport(n)
         \/ Unsubscribe(n)
    \/ \E d \in net : Lose(d)

Spec == Init /\ [][Next]_vars

(***************************************************************************)
(* The event loop runs every continuation that is ready, subprocesses end, *)
(* the timer of the poll keeps firing and the network delivers.  Users,    *)
(* faults and shutdown owe nothing.                                        *)
(***************************************************************************)
FairSpec ==
    /\ Spec
    /\ \A n \in Node : /\ WF_vars(PollRead(n))
                       /\ WF_vars(PollCompare(n))
                       /\ WF_vars(Outbound(n))
                       /\ WF_vars(Deliver(n))
                       /\ WF_vars(Inbound(n))
-------------------------------------------------------------------------------
(***************************************************************************)
(* PROPERTIES                                                              *)
(***************************************************************************)
(* Every variable has its type; what is issued, sent or handled is a       *)
(* non-empty text with a version.                                          *)
TypeOK ==
    /\ status \in [Node -> Status]
    /\ counter \in [Node -> Nat]
    /\ resolver \in [Node -> ResolverState]
    /\ gate \in [Node -> BOOLEAN]
    /\ clip \in [Node -> Text \union {NoText}]
    /\ lastText \in [Node -> Text \union {NoText}]
    /\ poll \in [Node -> Text \union {NoText, Idle}]
    /\ out \in [Node -> SUBSET Outgoing]
    /\ inc \in [Node -> SUBSET Incoming]
    /\ sharing \in [Node -> SUBSET Node] /\ \A n \in Node : n \notin sharing[n]
    /\ net \subseteq [to : Node, event : Event]
    /\ issued \subseteq Event
    /\ made \in [Node -> Nat]
    /\ {copies, toggles, faults} \subseteq Nat

(***************************************************************************)
(* The tick of the clock is the only source of versions, and handlers that *)
(* interleave never share one: two events with the same version are the    *)
(* same event, so a receiver that deduplicates by version loses nothing.   *)
(***************************************************************************)
VersionsUnique ==
    \A e, f \in issued : VersionOf(e) = VersionOf(f) => e = f

(***************************************************************************)
(* Lamport's condition: whatever a node has issued or applied, its next    *)
(* tick gives a newer version.  A user's copy is therefore never judged    *)
(* older than the remote text it replaces.                                 *)
(***************************************************************************)
NextCopyWins ==
    \A n \in Node :
        LET next == [counter |-> tick(counter[n]), deviceId |-> n]
        IN  /\ Newer(next, resolver[n].lastApplied)
            /\ \A e \in issued : e.origin = n => Newer(next, VersionOf(e))

(***************************************************************************)
(* While the node is subscribed, an armed gate means that an accepted      *)
(* remote write has not been notified yet.  It is never left armed with    *)
(* nothing to suppress but the user's next copy.                           *)
(***************************************************************************)
GateMeansWriting ==
    \A n \in Node : Subscribed(n) /\ gate[n]
                       => \E h \in inc[n] : h.at \in {"writing", "notifying"}

Undisturbed == faults = 0 /\ toggles = 0 /\ \A n \in Node : status[n] = "running"

Quiet == net = {} /\ \A n \in Node : out[n] = {} /\ inc[n] = {} /\ poll[n] = Idle

(***************************************************************************)
(* When no handler and no envelope is under way, and nothing failed, every *)
(* event that got a version has reached every other node: it was applied   *)
(* there, or something newer was.                                          *)
(***************************************************************************)
NoCopyLost ==
    Undisturbed /\ Quiet =>
        \A e \in issued : \A m \in Node \ {e.origin} :
            Reached(VersionOf(e), resolver[m].lastApplied)

(***************************************************************************)
(* At the level of versions the claim of plans/002 holds: the event with   *)
(* the highest counter, and among equals the highest device, is the last   *)
(* one applied at every node but its own.                                  *)
(***************************************************************************)
WinnerEverywhere ==
    Undisturbed /\ Quiet =>
        \A w \in issued :
            (\A e \in issued : \/ e = w
                               \/ e.counter < w.counter
                               \/ e.counter = w.counter /\ e.origin < w.origin)
            => \A m \in Node \ {w.origin} : resolver[m].lastApplied = VersionOf(w)

(***************************************************************************)
(* The protocol implements the last-writer-wins register of                *)
(* SharedClipboard: versions are those of the issued events, applied is    *)
(* the resolver's lastApplied.                                             *)
(***************************************************************************)
Abstract == INSTANCE SharedClipboard
              WITH versions <- {VersionOf(e) : e \in issued},
                   applied  <- [n \in Node |-> resolver[n].lastApplied]

ImplementsSharedClipboard == Abstract!Spec

(***************************************************************************)
(* plans/008: "No echo loop after 10 alternating writes (outgoing envelope *)
(* count == 10)": no more events are broadcast than users made copies.     *)
(***************************************************************************)
NoEcho == Cardinality(issued) <= copies
===============================================================================
