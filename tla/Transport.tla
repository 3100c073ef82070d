------------------------------- MODULE Transport -------------------------------
(***************************************************************************)
(* TlsTcpTransport (src/infrastructure/transport/tls-tcp.ts): the          *)
(* connections of one transport, from the banner exchange that names the   *)
(* peer to the registry of peers, the queue that serialises the writes of  *)
(* a connection, send, broadcast and close.                                *)
(*                                                                         *)
(* A transport either listens, or dials one server, again each time the    *)
(* caller asks for it.  The banner exchanges of several connections, the   *)
(* writes of several callers and close() interleave at every await.        *)
(***************************************************************************)
EXTENDS Integers, Sequences, FiniteSets

CONSTANTS
    Conn,          \* connections
    NoConn,        \* no entry in #peers
    Fingerprint,   \* what a peer announces in its banner
    Known,         \* #knownPeers
    Expected,      \* #expectedFingerprint
    Limits,        \* values of #maxPeers to check
    MaxCalls       \* bound: calls of send and broadcast

ASSUME TransportAssumption ==
    /\ NoConn \notin Conn
    /\ Known \subseteq Fingerprint /\ Expected \in Fingerprint
    /\ Limits \subseteq Nat /\ MaxCalls \in Nat

VARIABLES
    mode,      \* "listen" or "dial"
    maxPeers,
    closed,    \* #closed
    step,      \* of the banner exchange on each connection
    announced, \* the fingerprint its peer announces
    link,      \* its socket: open, broken by the peer or the network, closed
    locked,    \* is its readable stream locked to a reader?
    reading,   \* does its envelope reader run?
    peers,     \* #peers
    queue,     \* writeQueue: the calls whose envelope waits
    writing,   \* the call whose envelope is being written, 0 for none
    flusher,   \* the call that runs #flushPeerQueue, 0 for none
    failed,    \* PeerConn.closed: a write has failed
    wire,      \* history: the envelopes written, by call
    calls,     \* the calls of send and broadcast so far
    ousted     \* history: fingerprints whose working peer lost its entry to another's
               \* registration or failure

conns  == <<step, announced, link, locked, reading>>
writes == <<queue, writing, flusher, failed, wire>>
vars   == <<mode, maxPeers, closed, conns, peers, writes, calls, ousted>>

Step == {"none", "accepted", "announcing", "awaiting", "registered", "refused"}
Call == 1 .. MaxCalls

\* A call: the connections it is for, those it still waits for, those whose
\* write it saw fail, and its outcome.
CallRecord == [kind : {"send", "broadcast"}, targets : SUBSET Conn, waiting : SUBSET Conn,
               errors : SUBSET Conn, result : {"pending", "resolved", "rejected"}]

Init ==
    /\ mode \in {"listen", "dial"} /\ maxPeers \in Limits
    /\ closed = FALSE
    /\ step      = [c \in Conn |-> "none"]
    /\ announced \in [Conn -> Fingerprint]
    /\ link      = [c \in Conn |-> "none"]
    /\ locked    = [c \in Conn |-> FALSE]
    /\ reading   = [c \in Conn |-> FALSE]
    /\ peers     = [f \in Fingerprint |-> NoConn]
    /\ queue     = [c \in Conn |-> <<>>]
    /\ writing   = [c \in Conn |-> 0]
    /\ flusher   = [c \in Conn |-> 0]
    /\ failed    = [c \in Conn |-> FALSE]
    /\ wire      = [c \in Conn |-> <<>>]
    /\ calls = <<>> /\ ousted = {}

Registered == {f \in Fingerprint : peers[f] # NoConn}

Goto(c, s) == step' = [step EXCEPT ![c] = s]

\* The banner exchange ends without a peer: the connection is closed.
Refuse(c) == /\ Goto(c, "refused")
             /\ link' = [link EXCEPT ![c] = "closed"]
             /\ UNCHANGED <<peers, reading, ousted>>

-------------------------------------------------------------------------------
(***************************************************************************)
(* Registration: the peer replaces any other of its fingerprint, whose     *)
(* connection is left as it is.  Then #startPeerReader asks the stream for *)
(* a reader, which throws while the banner's reader holds the lock: the    *)
(* promise of the handler or of dial() is rejected, the peer stays.        *)
(***************************************************************************)
register(c) ==
    LET f == announced[c]
    IN  /\ peers' = [peers EXCEPT ![f] = c]
        /\ ousted' = IF peers[f] = NoConn THEN ousted ELSE ousted \union {f}
        /\ reading' = [reading EXCEPT ![c] = ~locked[c]]
        /\ Goto(c, "registered")
        /\ UNCHANGED link

-------------------------------------------------------------------------------
(***************************************************************************)
(* Listening: our banner is sent first, then the client's is awaited.      *)
(***************************************************************************)
\* A connection that arrives with close() is dropped without being closed.
Accept(c) ==
    /\ mode = "listen" /\ step[c] = "none"
    /\ link' = [link EXCEPT ![c] = "open"]
    /\ \/ ~closed /\ Goto(c, "accepted") /\ locked' = [locked EXCEPT ![c] = TRUE]
       \/ closed /\ Goto(c, "refused") /\ UNCHANGED locked
    /\ UNCHANGED <<mode, maxPeers, closed, announced, reading, peers, writes, calls, ousted>>

\* The fingerprint callback or the banner's write fails, or our banner is out.
SendServerBanner(c) ==
    /\ mode = "listen" /\ step[c] = "accepted"
    /\ \/ Refuse(c)
       \/ Goto(c, "awaiting") /\ UNCHANGED <<link, peers, reading, ousted>>
    /\ UNCHANGED <<mode, maxPeers, closed, announced, locked, writes, calls>>

\* Mutant: the number of peers is not looked at again after the banner.
RecvClientBanner_NoLimit(c) ==
    /\ mode = "listen" /\ step[c] = "awaiting"
    /\ \/ Refuse(c)
       \/ announced[c] \in Known /\ register(c)
    /\ UNCHANGED <<mode, maxPeers, closed, announced, locked, writes, calls>>

\* The read fails, the peer is not known or there are too many, or it is
\* registered.  Whether the transport was closed meanwhile is not asked.
RecvClientBanner(c) ==
    /\ mode = "listen" /\ step[c] = "awaiting"
    /\ \/ Refuse(c)
       \/ /\ announced[c] \in Known
          /\ Cardinality(Registered) < maxPeers
          /\ register(c)
    /\ UNCHANGED <<mode, maxPeers, closed, announced, locked, writes, calls>>

(***************************************************************************)
(* Dialling: the server's banner is awaited and compared with the expected *)
(* fingerprint, then ours is sent.                                         *)
(***************************************************************************)
Dial(c) ==
    /\ mode = "dial" /\ ~closed /\ step[c] = "none"
    /\ \/ Refuse(c) /\ UNCHANGED locked
       \/ /\ Goto(c, "awaiting")
          /\ link' = [link EXCEPT ![c] = "open"]
          /\ locked' = [locked EXCEPT ![c] = TRUE]
          /\ UNCHANGED <<reading, peers, ousted>>
    /\ UNCHANGED <<mode, maxPeers, closed, announced, writes, calls>>

\* A fingerprint callback that throws leaves the connection open.
RecvServerBanner(c) ==
    /\ mode = "dial" /\ step[c] = "awaiting"
    /\ \/ Refuse(c)
       \/ Goto(c, "refused") /\ UNCHANGED <<link, peers, reading, ousted>>
       \/ /\ announced[c] = Expected
          /\ Goto(c, "announcing")
          /\ UNCHANGED <<link, peers, reading, ousted>>
    /\ UNCHANGED <<mode, maxPeers, closed, announced, locked, writes, calls>>

\* A write that fails makes dial() reject and leaves the connection open.
SendClientBanner(c) ==
    /\ mode = "dial" /\ step[c] = "announcing"
    /\ \/ /\ link[c] # "open"
          /\ Goto(c, "refused")
          /\ UNCHANGED <<link, peers, reading, ousted>>
       \/ register(c)
    /\ UNCHANGED <<mode, maxPeers, closed, announced, locked, writes, calls>>

\* The peer closes, or the network fails; nobody here is told.
Break(c) ==
    /\ link[c] = "open"
    /\ link' = [link EXCEPT ![c] = "broken"]
    /\ UNCHANGED <<mode, maxPeers, closed, step, announced, locked, reading, peers, writes,
                   calls, ousted>>

-------------------------------------------------------------------------------
(***************************************************************************)
(* Writes.  A task is queued; the caller that finds no flush running runs  *)
(* it, for its own task and for all that are queued meanwhile, and the     *)
(* others are done at once.                                                *)
(***************************************************************************)
Healthy(C) == {c \in C : ~failed[c]}

\* The connections of C on which this call has to run the flush.
Idle(C) == {c \in Healthy(C) : flusher[c] = 0}

NextCall == Len(calls) + 1

\* Mutant: a write starts at once, whatever is being written.
sendToPeers_Unqueued(C) ==
    /\ wire' = [c \in Conn |-> IF c \in Healthy(C) /\ c \notin Idle(C)
                               THEN Append(wire[c], NextCall) ELSE wire[c]]
    /\ writing' = [c \in Conn |-> IF c \in Idle(C) THEN NextCall ELSE writing[c]]
    /\ flusher' = [c \in Conn |-> IF c \in Idle(C) THEN NextCall ELSE flusher[c]]
    /\ UNCHANGED <<queue, failed>>

\* #sendToPeer for each connection of C, up to its first await.
sendToPeers(C) ==
    /\ queue' = [c \in Conn |-> IF c \in Healthy(C) /\ c \notin Idle(C)
                                THEN Append(queue[c], NextCall) ELSE queue[c]]
    /\ writing' = [c \in Conn |-> IF c \in Idle(C) THEN NextCall ELSE writing[c]]
    /\ flusher' = [c \in Conn |-> IF c \in Idle(C) THEN NextCall ELSE flusher[c]]
    /\ UNCHANGED <<failed, wire>>

Start(kind, C) ==
    /\ ~closed /\ NextCall \in Call
    /\ sendToPeers(C)
    /\ calls' = Append(calls,
                  [kind |-> kind, targets |-> Healthy(C), waiting |-> Idle(C), errors |-> {},
                   result |-> IF Idle(C) = {} THEN "resolved" ELSE "pending"])
    /\ UNCHANGED <<mode, maxPeers, closed, conns, peers, ousted>>

\* A peer that is not connected is not an error.
send(f) == Start("send", {peers[f]} \ {NoConn})

broadcast == Start("broadcast", {peers[f] : f \in Registered})

\* #removePeer: whatever connection has the fingerprint now.
removePeers(F) ==
    /\ peers' = [f \in Fingerprint |-> IF f \in F THEN NoConn ELSE peers[f]]
    /\ link' = [c \in Conn |-> IF c \in {peers[f] : f \in F} THEN "closed" ELSE link[c]]

\* The call that flushed connection c is done there, with or without an error.
Settle(k, c, error) ==
    LET call == calls[k]
    IN  calls' = [calls EXCEPT ![k] =
                   [call EXCEPT !.waiting = call.waiting \ {c},
                                !.errors  = call.errors \union (IF error THEN {c} ELSE {}),
                                !.result  = CASE call.kind = "broadcast" -> "pending"
                                              [] call.kind = "send" /\ error -> "rejected"
                                              [] OTHER -> "resolved"]]

\* Mutant: the flush ends with its own task.
WriteDone_OwnOnly(c) ==
    /\ writing[c] # 0 /\ link[c] # "closed"
    /\ wire' = [wire EXCEPT ![c] = Append(@, writing[c])]
    /\ writing' = [writing EXCEPT ![c] = 0]
    /\ flusher' = [flusher EXCEPT ![c] = 0]
    /\ Settle(flusher[c], c, FALSE)
    /\ UNCHANGED <<mode, maxPeers, closed, conns, peers, queue, failed, ousted>>

\* A write ends: the next task of the queue is written, or the flush is done.
WriteDone(c) ==
    /\ writing[c] # 0 /\ link[c] # "closed"
    /\ wire' = [wire EXCEPT ![c] = Append(@, writing[c])]
    /\ \/ /\ queue[c] # <<>>
          /\ writing' = [writing EXCEPT ![c] = Head(queue[c])]
          /\ queue' = [queue EXCEPT ![c] = Tail(@)]
          /\ UNCHANGED <<flusher, calls>>
       \/ /\ queue[c] = <<>>
          /\ writing' = [writing EXCEPT ![c] = 0]
          /\ flusher' = [flusher EXCEPT ![c] = 0]
          /\ Settle(flusher[c], c, FALSE)
          /\ UNCHANGED queue
    /\ UNCHANGED <<mode, maxPeers, closed, conns, peers, failed, ousted>>

\* Mutant: writeRunning is not reset when a write throws.
WriteFails_StillRunning(c) ==
    /\ writing[c] # 0 /\ link[c] # "open"
    /\ failed' = [failed EXCEPT ![c] = TRUE]
    /\ writing' = [writing EXCEPT ![c] = 0]
    /\ removePeers({announced[c]})
    /\ Settle(flusher[c], c, TRUE)
    /\ UNCHANGED <<mode, maxPeers, closed, step, announced, locked, reading, queue, flusher,
                   wire, ousted>>

\* A write fails, whichever call's it is: the flush throws to its caller and
\* leaves the rest of the queue.
WriteFails(c) ==
    /\ writing[c] # 0 /\ link[c] # "open"
    /\ failed' = [failed EXCEPT ![c] = TRUE]
    /\ writing' = [writing EXCEPT ![c] = 0]
    /\ flusher' = [flusher EXCEPT ![c] = 0]
    /\ removePeers({announced[c]})
    /\ Settle(flusher[c], c, TRUE)
    /\ UNCHANGED <<mode, maxPeers, closed, step, announced, locked, reading, queue, wire,
                   ousted>>

\* Mutant: one failure removes all the peers of the broadcast.
BroadcastEnds_AllTargets(k) ==
    /\ k \in DOMAIN calls
    /\ calls[k].kind = "broadcast" /\ calls[k].result = "pending" /\ calls[k].waiting = {}
    /\ removePeers(IF calls[k].errors = {} THEN {} ELSE {announced[c] : c \in calls[k].targets})
    /\ calls' = [calls EXCEPT ![k].result =
                   IF calls[k].errors = {} THEN "resolved" ELSE "rejected"]
    /\ UNCHANGED <<mode, maxPeers, closed, step, announced, locked, reading, writes, ousted>>

\* Every write of a broadcast has settled: the peers that failed are removed
\* once more, by their fingerprint, whoever has it now.
BroadcastEnds(k) ==
    /\ k \in DOMAIN calls
    /\ calls[k].kind = "broadcast" /\ calls[k].result = "pending" /\ calls[k].waiting = {}
    /\ removePeers({announced[c] : c \in calls[k].errors})
    /\ ousted' = ousted \union ({announced[c] : c \in calls[k].errors} \cap Registered)
    /\ calls' = [calls EXCEPT ![k].result =
                   IF calls[k].errors = {} THEN "resolved" ELSE "rejected"]
    /\ UNCHANGED <<mode, maxPeers, closed, step, announced, locked, reading, writes>>

close ==
    /\ ~closed
    /\ closed' = TRUE
    /\ removePeers(Fingerprint)
    /\ UNCHANGED <<mode, maxPeers, step, announced, locked, reading, writes, calls, ousted>>

-------------------------------------------------------------------------------
Handshake(c) == \/ Accept(c)
                \/ SendServerBanner(c)
                \/ RecvClientBanner(c)
                \/ Dial(c)
                \/ RecvServerBanner(c)
                \/ SendClientBanner(c)

Next ==
    \/ \E c \in Conn : Handshake(c) \/ Break(c) \/ WriteDone(c) \/ WriteFails(c)
    \/ \E f \in Fingerprint : send(f)
    \/ broadcast
    \/ \E k \in Call : BroadcastEnds(k)
    \/ close

Spec == Init /\ [][Next]_vars

\* A write ends one way or the other, and a broadcast goes on.
FairSpec ==
    /\ Spec
    /\ \A c \in Conn : WF_vars(WriteDone(c) \/ WriteFails(c))
    /\ \A k \in Call : WF_vars(BroadcastEnds(k))

-------------------------------------------------------------------------------
(***************************************************************************)
(* PROPERTIES                                                              *)
(***************************************************************************)
\* Every variable has its type.  A connection is being written to exactly
\* while one call flushes it.
TypeOK ==
    /\ mode \in {"listen", "dial"} /\ maxPeers \in Limits /\ closed \in BOOLEAN
    /\ step \in [Conn -> Step] /\ announced \in [Conn -> Fingerprint]
    /\ link \in [Conn -> {"none", "open", "broken", "closed"}]
    /\ locked \in [Conn -> BOOLEAN] /\ reading \in [Conn -> BOOLEAN]
    /\ peers \in [Fingerprint -> Conn \union {NoConn}]
    /\ writing \in [Conn -> Call \union {0}] /\ flusher \in [Conn -> Call \union {0}]
    /\ \A c \in Conn : writing[c] = 0 <=> flusher[c] = 0
    /\ failed \in [Conn -> BOOLEAN]
    /\ queue \in [Conn -> Seq(Call)] /\ wire \in [Conn -> Seq(Call)]
    /\ Len(calls) <= MaxCalls /\ calls \in Seq(CallRecord)
    /\ ousted \subseteq Fingerprint

(***************************************************************************)
(* tls-tcp.ts: "each peer's writes are queued to prevent frame             *)
(* interleaving".  The envelopes of a connection are written once each and *)
(* in the order of the calls, and those that wait come after them; none is *)
(* dropped on a connection whose writes succeed.                           *)
(***************************************************************************)
Line(c) == wire[c] \o (IF writing[c] = 0 THEN <<>> ELSE <<writing[c]>>) \o queue[c]

WrittenInOrder ==
    /\ \A c \in Conn : \A i, j \in DOMAIN Line(c) : i < j => Line(c)[i] < Line(c)[j]
    /\ \A k \in DOMAIN calls : \A c \in calls[k].targets :
          failed[c] \/ \E i \in DOMAIN Line(c) : Line(c)[i] = k

(***************************************************************************)
(* tls-tcp.ts: "manages up to maxPeers concurrent connections", also when  *)
(* several banner exchanges are under way.  A registered peer announced    *)
(* the fingerprint it is registered under, which is one that the transport *)
(* accepts, and it is registered once.                                     *)
(***************************************************************************)
PeersVetted ==
    /\ mode = "listen" => Cardinality(Registered) <= maxPeers
    /\ \A f \in Registered :
          /\ announced[peers[f]] = f /\ step[peers[f]] = "registered"
          /\ f \in IF mode = "listen" THEN Known ELSE {Expected}

(***************************************************************************)
(* tls-tcp.ts: "don't keep broken connections".  A connection with a       *)
(* failed write is not a peer any more, and it is closed, unless it had    *)
(* lost its entry before.  And a peer is removed only for a failure of its *)
(* own connection, or by close(), unless a broadcast under way has seen    *)
(* its fingerprint fail before, or an earlier working peer lost its entry  *)
(* and may now fail in its turn.                                           *)
(***************************************************************************)
FailedOut(c) ==
    /\ \A f \in Fingerprint : peers[f] # c
    /\ link[c] = "closed" \/ announced[c] \in ousted

MayRemove(f) ==
    \/ closed' \/ failed'[peers[f]]
    \/ f \in ousted
    \/ \E k \in DOMAIN calls : \E c \in calls[k].errors :
          announced[c] = f /\ calls[k].result = "pending"

RemovedIffFailed ==
    [][/\ \A c \in Conn : failed'[c] => FailedOut(c)'
       /\ \A f \in Registered : peers'[f] = NoConn => MayRemove(f)]_vars

(***************************************************************************)
(* What waits in a queue is eventually written, unless the connection is   *)
(* lost: once the callers stop, the queue runs empty.                      *)
(***************************************************************************)
QueueServed ==
    \A c \in Conn : (queue[c] # <<>>) ~> (queue[c] = <<>> \/ link[c] # "open")
===============================================================================
