---------------------------- MODULE TransportProofs ----------------------------
(***************************************************************************)
(* Proofs about Transport for every number of connections, peers and       *)
(* calls: its type invariant, that frames are written once and in order,   *)
(* that registered peers are vetted and not too many, and that a peer is   *)
(* removed exactly for a failure.                                          *)
(***************************************************************************)
EXTENDS Transport, FiniteSetTheorems, SequenceTheorems, TLAPS

(***************************************************************************)
(* A queue of calls in line: what a write that ends, fails or joins makes  *)
(* of it.                                                                  *)
(***************************************************************************)
Rising(s) == \A i, j \in DOMAIN s : i < j => s[i] < s[j]

LEMMA JoinedAt ==
    ASSUME NEW S, NEW a \in Seq(S), NEW m \in Seq(S), NEW q \in Seq(S)
    PROVE  /\ a \o m \o q \in Seq(S)
           /\ Len(a \o m \o q) = Len(a) + Len(m) + Len(q)
           /\ \A i \in 1 .. (Len(a) + Len(m) + Len(q)) : (a \o m \o q)[i] =
                 IF i <= Len(a) THEN a[i]
                 ELSE IF i <= Len(a) + Len(m) THEN m[i - Len(a)]
                 ELSE q[i - Len(a) - Len(m)]
  OBVIOUS

LEMMA InSeq ==
    ASSUME NEW S, NEW s \in Seq(S), NEW i \in DOMAIN s
    PROVE  s[i] \in S
  OBVIOUS

LEMMA NarrowSeq ==
    ASSUME NEW S, NEW T, NEW s \in Seq(S), \A i \in DOMAIN s : s[i] \in T
    PROVE  s \in Seq(T)
  OBVIOUS

LEMMA NextInLine ==
    ASSUME NEW S, NEW a \in Seq(S), NEW x \in S, NEW q \in Seq(S), q # <<>>
    PROVE  Append(a, x) \o <<Head(q)>> \o Tail(q) = a \o <<x>> \o q
<1>1. /\ Append(a, x) \in Seq(S) /\ <<Head(q)>> \in Seq(S) /\ Tail(q) \in Seq(S) /\ <<x>> \in Seq(S)
      /\ Len(Append(a, x)) = Len(a) + 1 /\ Len(Tail(q)) = Len(q) - 1 /\ Len(q) \in Nat \ {0} /\ Len(a) \in Nat
  OBVIOUS
<1> DEFINE s == Append(a, x) \o <<Head(q)>> \o Tail(q)
           t == a \o <<x>> \o q
<1>2. s \in Seq(S) /\ t \in Seq(S) /\ Len(s) = Len(t)
  BY <1>1, JoinedAt
<1>3. \A i \in 1 .. Len(s) : s[i] = t[i]
  BY <1>1, JoinedAt
<1> HIDE DEF s, t
<1>4. s = t
  BY <1>2, <1>3, SeqEqual
<1> QED
  BY <1>4 DEF s, t

LEMMA JoinsLine ==
    ASSUME NEW S, NEW a \in Seq(S), NEW m \in Seq(S), NEW q \in Seq(S), NEW x \in S
    PROVE  a \o m \o Append(q, x) = Append(a \o m \o q, x)
<1> DEFINE s == a \o m \o Append(q, x)
           t == Append(a \o m \o q, x)
<1>1. /\ Append(q, x) \in Seq(S) /\ Len(Append(q, x)) = Len(q) + 1
      /\ Len(a) \in Nat /\ Len(m) \in Nat /\ Len(q) \in Nat
  OBVIOUS
<1>2. s \in Seq(S) /\ t \in Seq(S) /\ Len(s) = Len(t)
  BY <1>1, JoinedAt
<1>3. \A i \in 1 .. Len(s) : s[i] = t[i]
  BY <1>1, JoinedAt
<1> HIDE DEF s, t
<1>4. s = t
  BY <1>2, <1>3, SeqEqual
<1> QED
  BY <1>4 DEF s, t

-------------------------------------------------------------------------------
(***************************************************************************)
(* The type invariant, with the fact it needs: a call that is queued,      *)
(* written, flushed or on the wire has been made.                          *)
(***************************************************************************)
Made ==
    /\ \A c \in Conn : writing[c] <= Len(calls) /\ flusher[c] <= Len(calls)
    /\ \A c \in Conn : \A i \in DOMAIN queue[c] : queue[c][i] <= Len(calls)
    /\ \A c \in Conn : \A i \in DOMAIN wire[c] : wire[c][i] <= Len(calls)

Typed == TypeOK /\ Made

LEMMA CallsAreNat == Call \subseteq Nat \ {0}
  BY DEF Call

\* The types of what the banner exchanges touch, and of what removals touch.
LEMMA RefuseType ==
    ASSUME TypeOK, NEW c \in Conn, Refuse(c)
    PROVE  /\ step' \in [Conn -> Step] /\ UNCHANGED <<peers, reading, ousted>>
           /\ link' \in [Conn -> {"none", "open", "broken", "closed"}]
  BY DEF TypeOK, Refuse, Goto, Step

LEMMA RegisterType ==
    ASSUME TypeOK, NEW c \in Conn, register(c)
    PROVE  /\ step' \in [Conn -> Step] /\ link' \in [Conn -> {"none", "open", "broken", "closed"}]
           /\ peers' \in [Fingerprint -> Conn \union {NoConn}]
           /\ reading' \in [Conn -> BOOLEAN] /\ ousted' \subseteq Fingerprint
  BY DEF TypeOK, register, Goto, Step

LEMMA RemoveType ==
    ASSUME TypeOK, NEW F, removePeers(F)
    PROVE  /\ peers' \in [Fingerprint -> Conn \union {NoConn}]
           /\ link' \in [Conn -> {"none", "open", "broken", "closed"}]
  BY DEF TypeOK, removePeers

LEMMA HandshakeType == ASSUME TypeOK, NEW c \in Conn, Handshake(c) PROVE TypeOK'
<1> USE DEF TypeOK, conns, writes
<1>1. CASE Accept(c)
  BY <1>1 DEF Accept, Goto, Step
<1>2. CASE SendServerBanner(c)
  BY <1>2, RefuseType DEF SendServerBanner, Goto, Step
<1>3. CASE RecvClientBanner(c)
  BY <1>3, RefuseType, RegisterType DEF RecvClientBanner
<1>4. CASE Dial(c)
  BY <1>4, RefuseType DEF Dial, Goto, Step
<1>5. CASE RecvServerBanner(c)
  BY <1>5, RefuseType DEF RecvServerBanner, Goto, Step
<1>6. CASE SendClientBanner(c)
  BY <1>6, RegisterType DEF SendClientBanner, Goto, Step
<1> HIDE DEF TypeOK, conns, writes
<1> QED
  BY <1>1, <1>2, <1>3, <1>4, <1>5, <1>6 DEF Handshake

(***************************************************************************)
(* A call: it gets the next number, and its envelope waits, is written or  *)
(* is dropped at once.                                                     *)
(***************************************************************************)
LEMMA StartCalls ==
    ASSUME Typed, NEW kind \in {"send", "broadcast"}, NEW C \in SUBSET Conn, Start(kind, C)
    PROVE  /\ NextCall = Len(calls) + 1 /\ NextCall \in Call
           /\ calls' \in Seq(CallRecord) /\ Len(calls') = NextCall
           /\ \A k \in DOMAIN calls : calls'[k] = calls[k]
           /\ calls'[NextCall].targets = Healthy(C) /\ calls'[NextCall].errors = {}
           /\ calls'[NextCall].kind = kind
<1> DEFINE r == [kind |-> kind, targets |-> Healthy(C), waiting |-> Idle(C), errors |-> {},
                 result |-> IF Idle(C) = {} THEN "resolved" ELSE "pending"]
<1>1. r \in CallRecord
  BY DEF CallRecord, Healthy, Idle
<1>2. calls' = Append(calls, r) /\ calls \in Seq(CallRecord)
  BY DEF Start, Typed, TypeOK
<1>3. r.targets = Healthy(C) /\ r.errors = {} /\ r.kind = kind
  OBVIOUS
<1> HIDE DEF r
<1> QED
  BY <1>1, <1>2, <1>3 DEF Start, NextCall

LEMMA StartTyped ==
    ASSUME Typed, NEW kind \in {"send", "broadcast"}, NEW C \in SUBSET Conn, Start(kind, C)
    PROVE  Typed'
<1>1. /\ NextCall = Len(calls) + 1 /\ NextCall \in Call /\ NextCall \in Nat \ {0}
      /\ calls' \in Seq(CallRecord) /\ Len(calls') = NextCall /\ Len(calls) \in Nat
  BY StartCalls, TransportAssumption DEF Typed, TypeOK, Call
<1>2. sendToPeers(C) /\ UNCHANGED <<mode, maxPeers, closed, conns, peers, ousted>>
  BY DEF Start
<1>3. \A c \in Conn : /\ queue'[c] = queue[c] \/ queue'[c] = Append(queue[c], NextCall)
                      /\ \/ writing'[c] = writing[c] /\ flusher'[c] = flusher[c]
                         \/ writing'[c] = NextCall /\ flusher'[c] = NextCall
  BY <1>2 DEF sendToPeers
<1>4. /\ queue' \in [Conn -> Seq(Call)] /\ UNCHANGED <<failed, wire>>
      /\ writing' \in [Conn -> Call \union {0}] /\ flusher' \in [Conn -> Call \union {0}]
  BY <1>1, <1>2 DEF sendToPeers, Typed, TypeOK
<1>5. TypeOK'
  BY <1>1, <1>2, <1>3, <1>4 DEF Typed, TypeOK, conns, Call
<1>6. Made'
  <2>1. \A c \in Conn : writing'[c] <= Len(calls') /\ flusher'[c] <= Len(calls')
    <3>1. \A c \in Conn : writing[c] \in Nat /\ flusher[c] \in Nat
      BY DEF Typed, TypeOK, Call
    <3> QED
      BY <1>1, <1>3, <3>1 DEF Typed, Made
  <2>2. \A c \in Conn : \A i \in DOMAIN queue'[c] : queue'[c][i] <= Len(calls')
    <3> SUFFICES ASSUME NEW c \in Conn PROVE \A i \in DOMAIN queue'[c] : queue'[c][i] <= Len(calls')
      OBVIOUS
    <3>1. queue[c] \in Seq(Call) /\ \A i \in DOMAIN queue[c] : queue[c][i] <= Len(calls)
      BY DEF Typed, TypeOK, Made
    <3>2. \A i \in DOMAIN queue[c] : queue[c][i] \in Nat
      BY <3>1, CallsAreNat, InSeq
    <3>3. CASE queue'[c] = queue[c]
      BY <1>1, <3>1, <3>2, <3>3
    <3>4. CASE queue'[c] = Append(queue[c], NextCall)
      BY <1>1, <3>1, <3>2, <3>4
    <3> QED
      BY <1>3, <3>3, <3>4
  <2>3. \A c \in Conn : \A i \in DOMAIN wire'[c] : wire'[c][i] <= Len(calls')
    <3> SUFFICES ASSUME NEW c \in Conn PROVE \A i \in DOMAIN wire'[c] : wire'[c][i] <= Len(calls')
      OBVIOUS
    <3>1. wire[c] \in Seq(Call) /\ \A i \in DOMAIN wire[c] : wire[c][i] <= Len(calls)
      BY DEF Typed, TypeOK, Made
    <3>2. \A i \in DOMAIN wire[c] : wire[c][i] \in Nat
      BY <3>1, CallsAreNat, InSeq
    <3> QED
      BY <1>1, <1>4, <3>1, <3>2
  <2> QED
    BY <2>1, <2>2, <2>3 DEF Made
<1> QED
  BY <1>5, <1>6 DEF Typed

(***************************************************************************)
(* A call that is done at a connection keeps its kind and its targets, and *)
(* sees the connection fail if there was an error.                         *)
(***************************************************************************)
LEMMA SettleCalls ==
    ASSUME Typed, NEW k \in 1 .. Len(calls), NEW c \in Conn, NEW error \in BOOLEAN,
           Settle(k, c, error)
    PROVE  /\ calls' \in Seq(CallRecord) /\ Len(calls') = Len(calls)
           /\ \A j \in DOMAIN calls :
                 /\ calls'[j].targets = calls[j].targets /\ calls'[j].kind = calls[j].kind
                 /\ calls'[j].errors \subseteq calls[j].errors \union {c}
                 /\ ~error => calls'[j].errors = calls[j].errors
<1>1. calls \in Seq(CallRecord) /\ calls[k] \in CallRecord
  BY DEF Typed, TypeOK
<1> DEFINE res == CASE calls[k].kind = "broadcast" -> "pending"
                    [] calls[k].kind = "send" /\ error -> "rejected"
                    [] OTHER -> "resolved"
           err == calls[k].errors \union (IF error THEN {c} ELSE {})
           r == [calls[k] EXCEPT !.waiting = calls[k].waiting \ {c}, !.errors = err, !.result = res]
<1>2. calls' = [calls EXCEPT ![k] = r]
  BY DEF Settle
<1>3. res \in {"pending", "resolved", "rejected"} /\ err \subseteq Conn
  BY <1>1 DEF CallRecord
<1>4. /\ r \in CallRecord /\ r.targets = calls[k].targets /\ r.kind = calls[k].kind
      /\ r.errors = err
  <2> HIDE DEF res, err
  <2> QED
    BY <1>1, <1>3 DEF CallRecord
<1> HIDE DEF r, res
<1>5. /\ calls' \in Seq(CallRecord) /\ Len(calls') = Len(calls)
      /\ \A j \in DOMAIN calls : calls'[j] = IF j = k THEN r ELSE calls[j]
  BY <1>1, <1>2, <1>4, ExceptSeq
<1> QED
  BY <1>4, <1>5

LEMMA WriteDoneTyped == ASSUME Typed, NEW c \in Conn, WriteDone(c) PROVE Typed'
<1>0. TypeOK /\ Made
  BY DEF Typed
<1>1. /\ writing[c] \in Call /\ flusher[c] \in Call /\ Call \subseteq Nat
      /\ flusher[c] \in 1 .. Len(calls) /\ writing[c] <= Len(calls) /\ Len(calls) \in Nat
  BY <1>0 DEF WriteDone, TypeOK, Made, Call
<1>2. calls' \in Seq(CallRecord) /\ Len(calls') = Len(calls)
  BY <1>0, <1>1, SettleCalls DEF WriteDone, Typed, TypeOK
<1>3. /\ wire' = [wire EXCEPT ![c] = Append(wire[c], writing[c])]
      /\ UNCHANGED <<mode, maxPeers, closed, conns, peers, failed, ousted>>
  BY DEF WriteDone
<1>4. wire' \in [Conn -> Seq(Call)]
  BY <1>0, <1>1, <1>3 DEF TypeOK
<1>5. \A d \in Conn : \A i \in DOMAIN wire'[d] : wire'[d][i] <= Len(calls)
  <2> SUFFICES ASSUME NEW d \in Conn, NEW i \in DOMAIN wire'[d] PROVE wire'[d][i] <= Len(calls)
    OBVIOUS
  <2>1. wire[d] \in Seq(Call) /\ \A j \in DOMAIN wire[d] : wire[d][j] <= Len(calls)
    BY <1>0 DEF TypeOK, Made
  <2>2. wire'[d] = IF d = c THEN Append(wire[d], writing[c]) ELSE wire[d]
    BY <1>0, <1>3 DEF TypeOK
  <2> QED
    BY <1>1, <2>1, <2>2
<1>6. CASE queue[c] # <<>> /\ UNCHANGED <<flusher, calls>>
           /\ writing' = [writing EXCEPT ![c] = Head(queue[c])]
           /\ queue' = [queue EXCEPT ![c] = Tail(@)]
  <2>1. /\ queue[c] \in Seq(Call) /\ Head(queue[c]) \in Call /\ Tail(queue[c]) \in Seq(Call)
        /\ Head(queue[c]) # 0 /\ Head(queue[c]) <= Len(calls)
        /\ \A i \in DOMAIN Tail(queue[c]) : Tail(queue[c])[i] <= Len(calls)
    <3>1. queue[c] \in Seq(Call) /\ \A i \in DOMAIN queue[c] : queue[c][i] <= Len(calls)
      BY <1>0 DEF TypeOK, Made
    <3>2. \A x \in Call : x # 0
      BY DEF Call
    <3> QED
      BY <1>6, <3>1, <3>2
  <2>2. TypeOK'
    BY <1>0, <1>1, <1>2, <1>3, <1>4, <1>6, <2>1 DEF TypeOK, conns
  <2>3. Made'
    BY <1>0, <1>2, <1>5, <1>6, <2>1 DEF TypeOK, Made
  <2> QED
    BY <2>2, <2>3 DEF Typed
<1>7. CASE UNCHANGED queue /\ writing' = [writing EXCEPT ![c] = 0]
           /\ flusher' = [flusher EXCEPT ![c] = 0]
  <2>1. TypeOK'
    BY <1>0, <1>2, <1>3, <1>4, <1>7 DEF TypeOK, conns
  <2>2. Made'
    BY <1>0, <1>1, <1>2, <1>5, <1>7 DEF TypeOK, Made
  <2> QED
    BY <2>1, <2>2 DEF Typed
<1> QED
  BY <1>6, <1>7 DEF WriteDone

LEMMA WriteFailsTyped == ASSUME Typed, NEW c \in Conn, WriteFails(c) PROVE Typed'
<1>0. TypeOK /\ Made
  BY DEF Typed
<1>1. flusher[c] \in 1 .. Len(calls) /\ Len(calls) \in Nat
  BY <1>0 DEF WriteFails, TypeOK, Made, Call
<1>2. calls' \in Seq(CallRecord) /\ Len(calls') = Len(calls)
  BY <1>1, SettleCalls DEF WriteFails
<1>3. /\ peers' \in [Fingerprint -> Conn \union {NoConn}]
      /\ link' \in [Conn -> {"none", "open", "broken", "closed"}]
  BY <1>0, RemoveType DEF WriteFails
<1>4. TypeOK'
  BY <1>0, <1>2, <1>3 DEF TypeOK, WriteFails
<1>5. Made'
  BY <1>0, <1>1, <1>2 DEF TypeOK, Made, WriteFails
<1> QED
  BY <1>4, <1>5 DEF Typed

(***************************************************************************)
(* A broadcast that ends changes its result and nothing else of the calls. *)
(***************************************************************************)
LEMMA BroadcastCalls ==
    ASSUME Typed, NEW k \in Call, BroadcastEnds(k)
    PROVE  /\ calls' \in Seq(CallRecord) /\ Len(calls') = Len(calls) /\ k \in DOMAIN calls
           /\ \A j \in DOMAIN calls :
                 /\ calls'[j].targets = calls[j].targets /\ calls'[j].kind = calls[j].kind
                 /\ calls'[j].errors = calls[j].errors
<1>1. calls \in Seq(CallRecord) /\ k \in 1 .. Len(calls) /\ calls[k] \in CallRecord
  BY DEF Typed, TypeOK, BroadcastEnds
<1> DEFINE res == IF calls[k].errors = {} THEN "resolved" ELSE "rejected"
           r == [calls[k] EXCEPT !.result = res]
<1>2. calls' = [calls EXCEPT ![k] = r]
  BY DEF BroadcastEnds
<1>3. /\ r \in CallRecord /\ r.targets = calls[k].targets /\ r.kind = calls[k].kind
      /\ r.errors = calls[k].errors
  BY <1>1 DEF CallRecord
<1> HIDE DEF r, res
<1>4. /\ calls' \in Seq(CallRecord) /\ Len(calls') = Len(calls)
      /\ \A j \in DOMAIN calls : calls'[j] = IF j = k THEN r ELSE calls[j]
  BY <1>1, <1>2, <1>3, ExceptSeq
<1> QED
  BY <1>1, <1>3, <1>4

LEMMA BroadcastTyped == ASSUME Typed, NEW k \in Call, BroadcastEnds(k) PROVE Typed'
<1>1. calls' \in Seq(CallRecord) /\ Len(calls') = Len(calls)
  BY BroadcastCalls
<1>2. /\ peers' \in [Fingerprint -> Conn \union {NoConn}]
      /\ link' \in [Conn -> {"none", "open", "broken", "closed"}]
  BY RemoveType DEF BroadcastEnds, Typed
<1>3. ousted' \subseteq Fingerprint
  BY DEF BroadcastEnds, Typed, TypeOK, Registered
<1>4. TypeOK'
  BY <1>1, <1>2, <1>3 DEF Typed, TypeOK, BroadcastEnds, writes
<1>5. Made'
  BY <1>1 DEF Typed, Made, BroadcastEnds, writes
<1> QED
  BY <1>4, <1>5 DEF Typed

(***************************************************************************)
(* Every step is one of the writers', or leaves their state alone.         *)
(***************************************************************************)
LEMMA StepCases ==
    ASSUME TypeOK, Next
    PROVE  \/ \E c \in Conn : Handshake(c) \/ Break(c) \/ WriteDone(c) \/ WriteFails(c)
           \/ \E kind \in {"send", "broadcast"}, C \in SUBSET Conn :
                 Start(kind, C) /\ \A c \in C : \E f \in Registered : peers[f] = c
           \/ \E k \in Call : BroadcastEnds(k)
           \/ close
<1>1. ASSUME NEW f \in Fingerprint, send(f)
      PROVE  \E C \in SUBSET Conn : Start("send", C) /\ \A c \in C : \E g \in Registered : peers[g] = c
  <2>1. {peers[f]} \ {NoConn} \subseteq Conn
    BY DEF TypeOK
  <2>2. \A c \in {peers[f]} \ {NoConn} : \E g \in Registered : peers[g] = c
    BY DEF Registered
  <2> QED
    BY <1>1, <2>1, <2>2 DEF send
<1>2. ASSUME broadcast
      PROVE  \E C \in SUBSET Conn : Start("broadcast", C) /\ \A c \in C : \E g \in Registered : peers[g] = c
  <2>1. {peers[f] : f \in Registered} \subseteq Conn
    BY DEF TypeOK, Registered
  <2> QED
    BY <1>2, <2>1 DEF broadcast
<1> QED
  BY <1>1, <1>2 DEF Next

LEMMA OthersLeaveWrites ==
    ASSUME (\E c \in Conn : Handshake(c) \/ Break(c)) \/ close
    PROVE  UNCHANGED <<writes, calls>>
  BY DEF Handshake, Accept, SendServerBanner, RecvClientBanner, Dial, RecvServerBanner,
         SendClientBanner, Break, close

LEMMA NextTyped == ASSUME Typed, Next PROVE Typed'
<1>1. ASSUME UNCHANGED <<writes, calls>>, TypeOK' PROVE Typed'
  BY <1>1 DEF Typed, Made, writes
<1>2. ASSUME NEW c \in Conn, Handshake(c) PROVE Typed'
  BY <1>1, <1>2, HandshakeType, OthersLeaveWrites DEF Typed
<1>3. ASSUME NEW c \in Conn, Break(c) PROVE Typed'
  <2>1. TypeOK'
    BY <1>3 DEF Typed, TypeOK, Break, writes
  <2> QED
    BY <1>1, <1>3, <2>1, OthersLeaveWrites
<1>4. ASSUME close PROVE Typed'
  <2>1. TypeOK'
    BY <1>4, RemoveType DEF Typed, TypeOK, close, writes
  <2> QED
    BY <1>1, <1>4, <2>1, OthersLeaveWrites
<1> QED
  BY <1>2, <1>3, <1>4, StepCases, StartTyped, WriteDoneTyped, WriteFailsTyped, BroadcastTyped
  DEF Typed

LEMMA TypedInvariant == Spec => []Typed
<1>1. Init => Typed
  <2> SUFFICES ASSUME Init PROVE Typed
    OBVIOUS
  <2>1. calls \in Seq(CallRecord) /\ Len(calls) = 0
    BY DEF Init
  <2>2. queue \in [Conn -> Seq(Call)] /\ wire \in [Conn -> Seq(Call)]
    BY DEF Init
  <2>3. Len(calls) <= MaxCalls
    BY <2>1, TransportAssumption
  <2>4. step \in [Conn -> Step] /\ link \in [Conn -> {"none", "open", "broken", "closed"}]
    BY DEF Init, Step
  <2>5. TypeOK
    BY <2>1, <2>2, <2>3, <2>4 DEF Init, TypeOK
  <2>6. Made
    BY <2>1, <2>2 DEF Init, Made
  <2> QED
    BY <2>5, <2>6 DEF Typed
<1>2. Typed /\ UNCHANGED vars => Typed'
  BY DEF Typed, TypeOK, Made, vars, conns, writes
<1> QED
  BY <1>1, <1>2, NextTyped, PTL DEF Spec

(***************************************************************************)
(* Every state of a transport is well typed; in particular a connection is *)
(* written to exactly while one call flushes its queue: writeRunning is    *)
(* reset when a write throws.                                              *)
(***************************************************************************)
THEOREM TypeCorrect == Spec => []TypeOK
<1>1. Typed => TypeOK
  BY DEF Typed
<1> QED
  BY <1>1, TypedInvariant, PTL

-------------------------------------------------------------------------------
(***************************************************************************)
(* The order of the frames needs two facts more: a connection on which a   *)
(* write failed is not written to again, and on any other nothing waits    *)
(* that no flush is there to write.                                        *)
(***************************************************************************)
Flowing ==
    \A c \in Conn : /\ failed[c] => writing[c] = 0
                    /\ ~failed[c] /\ flusher[c] = 0 => queue[c] = <<>>

InOrder == \A c \in Conn : Rising(Line(c))

Present ==
    \A k \in DOMAIN calls : \A c \in calls[k].targets :
        failed[c] \/ \E i \in DOMAIN Line(c) : Line(c)[i] = k

Frames == Typed /\ Flowing /\ InOrder /\ Present

Current(c) == IF writing[c] = 0 THEN <<>> ELSE <<writing[c]>>

LEMMA LineParts ==
    ASSUME Typed, NEW c \in Conn
    PROVE  /\ wire[c] \in Seq(Call) /\ Current(c) \in Seq(Call) /\ queue[c] \in Seq(Call)
           /\ Line(c) = wire[c] \o Current(c) \o queue[c]
           /\ Line(c) \in Seq(Call) /\ Line(c) \in Seq(1 .. Len(calls))
<1> DEFINE M == 1 .. Len(calls)
<1>1. wire[c] \in Seq(Call) /\ Current(c) \in Seq(Call) /\ queue[c] \in Seq(Call)
  BY DEF Typed, TypeOK, Current
<1>2. Line(c) = wire[c] \o Current(c) \o queue[c]
  BY DEF Line, Current
<1>3. /\ \A x \in Call : x <= Len(calls) => x \in M
      /\ writing[c] \in Call \union {0} /\ writing[c] <= Len(calls)
  BY DEF Typed, TypeOK, Made, Call
<1>4. wire[c] \in Seq(M)
  <2>1. \A i \in DOMAIN wire[c] : wire[c][i] \in M
    BY <1>1, <1>3, InSeq DEF Typed, Made
  <2> HIDE DEF M
  <2> QED
    BY <1>1, <2>1, NarrowSeq
<1>5. queue[c] \in Seq(M)
  <2>1. \A i \in DOMAIN queue[c] : queue[c][i] \in M
    BY <1>1, <1>3, InSeq DEF Typed, Made
  <2> HIDE DEF M
  <2> QED
    BY <1>1, <2>1, NarrowSeq
<1> HIDE DEF M
<1>6. Current(c) \in Seq(M)
  BY <1>3 DEF Current
<1>7. Line(c) \in Seq(Call) /\ Line(c) \in Seq(M)
  BY <1>1, <1>2, <1>4, <1>5, <1>6, JoinedAt
<1> QED
  BY <1>1, <1>2, <1>7 DEF M

(***************************************************************************)
(* A call joins the line of each of its targets at the end.                *)
(***************************************************************************)
LEMMA StartLine ==
    ASSUME Frames, NEW kind \in {"send", "broadcast"}, NEW C \in SUBSET Conn, Start(kind, C),
           NEW c \in Conn
    PROVE  Line(c)' = IF c \in Healthy(C) THEN Append(Line(c), NextCall) ELSE Line(c)
<1>1. sendToPeers(C) /\ NextCall \in Call /\ NextCall # 0
  BY StartCalls, CallsAreNat DEF Start, Frames
<1>2. /\ wire[c] \in Seq(Call) /\ Current(c) \in Seq(Call) /\ queue[c] \in Seq(Call)
      /\ Line(c) = wire[c] \o Current(c) \o queue[c]
  BY LineParts DEF Frames
<1>3. Line(c)' = wire'[c] \o Current(c)' \o queue'[c] /\ wire'[c] = wire[c]
  BY <1>1 DEF Line, Current, sendToPeers
<1>4. CASE c \notin Healthy(C)
  <2>1. queue'[c] = queue[c] /\ writing'[c] = writing[c]
    BY <1>1, <1>4 DEF sendToPeers, Idle
  <2> QED
    BY <1>2, <1>3, <1>4, <2>1 DEF Current
<1>5. CASE c \in Healthy(C) /\ flusher[c] = 0
  <2>1. queue'[c] = <<>> /\ queue[c] = <<>>
    BY <1>1, <1>5 DEF sendToPeers, Idle, Healthy, Frames, Flowing
  <2>2. writing'[c] = NextCall /\ writing[c] = 0
    BY <1>1, <1>5 DEF sendToPeers, Idle, Healthy, Frames, Typed, TypeOK
  <2>3. Line(c) = wire[c] /\ Line(c)' = wire[c] \o <<NextCall>>
    BY <1>1, <1>2, <1>3, <2>1, <2>2 DEF Current
  <2> QED
    BY <1>1, <1>2, <1>5, <2>3
<1>6. CASE c \in Healthy(C) /\ flusher[c] # 0
  <2>1. queue'[c] = Append(queue[c], NextCall) /\ writing'[c] = writing[c]
    BY <1>1, <1>6 DEF sendToPeers, Idle, Healthy
  <2>2. Line(c)' = wire[c] \o Current(c) \o Append(queue[c], NextCall)
    BY <1>3, <2>1 DEF Current
  <2>3. wire[c] \o Current(c) \o Append(queue[c], NextCall)
           = Append(wire[c] \o Current(c) \o queue[c], NextCall)
    <3> DEFINE a == wire[c]
               m == Current(c)
               q == queue[c]
               x == NextCall
    <3>1. a \in Seq(Call) /\ m \in Seq(Call) /\ q \in Seq(Call) /\ x \in Call
      BY <1>1, <1>2
    <3> HIDE DEF a, m, q, x
    <3>2. a \o m \o Append(q, x) = Append(a \o m \o q, x)
      BY <3>1, JoinsLine
    <3> QED
      BY <3>2 DEF a, m, q, x
  <2>4. Line(c)' = Append(Line(c), NextCall)
    BY <1>2, <2>2, <2>3, Zenon
  <2> QED
    BY <1>6, <2>4
<1> QED
  BY <1>4, <1>5, <1>6

LEMMA FramesByStart ==
    ASSUME Frames, NEW kind \in {"send", "broadcast"}, NEW C \in SUBSET Conn, Start(kind, C)
    PROVE  Frames'
<1>1. /\ NextCall = Len(calls) + 1 /\ calls' \in Seq(CallRecord) /\ Len(calls') = NextCall
      /\ \A k \in DOMAIN calls : calls'[k].targets = calls[k].targets
      /\ calls'[NextCall].targets = Healthy(C)
      /\ DOMAIN calls = 1 .. Len(calls) /\ DOMAIN calls' = 1 .. NextCall /\ Len(calls) \in Nat
  BY StartCalls DEF Frames, Typed, TypeOK
<1>2. Typed' /\ UNCHANGED failed
  BY StartTyped DEF Frames, Start, sendToPeers
<1>3. Flowing'
  BY <1>1, <1>2 DEF Frames, Flowing, Start, sendToPeers, Healthy, Idle
<1>4. ASSUME NEW c \in Conn
      PROVE  Rising(Line(c)') /\ \A i \in DOMAIN Line(c) : i \in DOMAIN Line(c)' /\ Line(c)'[i] = Line(c)[i]
  <2>1. /\ Line(c) \in Seq(Call) /\ Rising(Line(c)) /\ Len(Line(c)) \in Nat
        /\ \A i \in DOMAIN Line(c) : Line(c)[i] \in Nat /\ Line(c)[i] < NextCall
    <3>1. Line(c) \in Seq(Call) /\ Line(c) \in Seq(1 .. Len(calls)) /\ Rising(Line(c))
      BY LineParts DEF Frames, InOrder
    <3>2. \A i \in DOMAIN Line(c) : Line(c)[i] \in 1 .. Len(calls)
      BY <3>1, InSeq
    <3> QED
      BY <1>1, <3>1, <3>2
  <2>2. CASE Line(c)' = Line(c)
    BY <2>1, <2>2
  <2>3. CASE Line(c)' = Append(Line(c), NextCall)
    <3> DEFINE s == Line(c)
    <3>1. /\ DOMAIN Append(s, NextCall) = 1 .. (Len(s) + 1) /\ DOMAIN s = 1 .. Len(s)
          /\ \A i \in 1 .. Len(s) : Append(s, NextCall)[i] = s[i]
          /\ Append(s, NextCall)[Len(s) + 1] = NextCall
      BY <2>1
    <3> HIDE DEF s
    <3>2. Rising(Append(s, NextCall))
      BY <2>1, <3>1 DEF Rising, s
    <3> QED
      BY <2>1, <2>3, <3>1, <3>2 DEF s
  <2> QED
    BY <2>2, <2>3, StartLine
<1>5. InOrder'
  BY <1>4 DEF InOrder, Rising
<1>6. Present'
  <2> SUFFICES ASSUME NEW k \in 1 .. NextCall, NEW c \in calls'[k].targets, ~failed[c]
               PROVE  \E i \in DOMAIN Line(c)' : Line(c)'[i] = k
    BY <1>1, <1>2 DEF Present
  <2>1. c \in Conn
    <3>1. calls'[k] \in CallRecord
      BY <1>1, InSeq
    <3> QED
      BY <3>1 DEF CallRecord
  <2>2. CASE k = NextCall
    <3>1. Line(c)' = Append(Line(c), NextCall) /\ Line(c) \in Seq(Call)
      BY <1>1, <2>1, <2>2, StartLine, LineParts DEF Frames
    <3> QED
      BY <2>2, <3>1
  <2>3. CASE k # NextCall
    <3>1. k \in DOMAIN calls /\ c \in calls[k].targets
      BY <1>1, <2>3
    <3>2. PICK i \in DOMAIN Line(c) : Line(c)[i] = k
      BY <3>1 DEF Frames, Present
    <3> QED
      BY <1>4, <2>1, <3>2
  <2> QED
    BY <2>2, <2>3
<1> QED
  BY <1>2, <1>3, <1>5, <1>6 DEF Frames

(***************************************************************************)
(* A write that ends changes no line; one that fails takes its call out.   *)
(***************************************************************************)
LEMMA WriteDoneLine ==
    ASSUME Typed, NEW c \in Conn, WriteDone(c), NEW d \in Conn
    PROVE  Line(d)' = Line(d)
<1>1. /\ wire[c] \in Seq(Call) /\ queue[c] \in Seq(Call) /\ writing[c] \in Call /\ writing[c] # 0
      /\ wire \in [Conn -> Seq(Call)] /\ writing \in [Conn -> Call \union {0}]
      /\ queue \in [Conn -> Seq(Call)]
  BY DEF Typed, TypeOK, WriteDone
<1>2. wire' = [wire EXCEPT ![c] = Append(wire[c], writing[c])]
  BY DEF WriteDone
<1>3. CASE d # c
  BY <1>1, <1>3 DEF WriteDone, Line
<1>4. CASE d = c
  <2>1. wire'[c] = Append(wire[c], writing[c])
    BY <1>1, <1>2
  <2>2. Line(c) = wire[c] \o <<writing[c]>> \o queue[c]
    BY <1>1 DEF Line
  <2>3. CASE /\ queue[c] # <<>>
             /\ writing' = [writing EXCEPT ![c] = Head(queue[c])]
             /\ queue' = [queue EXCEPT ![c] = Tail(@)]
    <3>1. writing'[c] = Head(queue[c]) /\ queue'[c] = Tail(queue[c]) /\ writing'[c] # 0
      BY <1>1, <2>3, CallsAreNat
    <3>2. Line(c)' = Append(wire[c], writing[c]) \o <<Head(queue[c])>> \o Tail(queue[c])
      BY <2>1, <3>1 DEF Line
    <3>3. Append(wire[c], writing[c]) \o <<Head(queue[c])>> \o Tail(queue[c])
             = wire[c] \o <<writing[c]>> \o queue[c]
      <4> DEFINE a == wire[c]
                 q == queue[c]
                 x == writing[c]
      <4>1. a \in Seq(Call) /\ q \in Seq(Call) /\ q # <<>> /\ x \in Call
        BY <1>1, <2>3
      <4> HIDE DEF a, q, x
      <4>2. Append(a, x) \o <<Head(q)>> \o Tail(q) = a \o <<x>> \o q
        BY <4>1, NextInLine
      <4> QED
        BY <4>2 DEF a, q, x
    <3> QED
      BY <1>4, <2>2, <3>2, <3>3
  <2>4. CASE queue[c] = <<>> /\ UNCHANGED queue /\ writing' = [writing EXCEPT ![c] = 0]
    <3>1. Line(c)' = Append(wire[c], writing[c]) \o <<>> \o <<>>
      BY <1>1, <2>1, <2>4 DEF Line
    <3> QED
      BY <1>1, <1>4, <2>2, <2>4, <3>1
  <2> QED
    BY <2>3, <2>4 DEF WriteDone
<1> QED
  BY <1>3, <1>4

LEMMA LeavesLine ==
    ASSUME NEW a \in Seq(Nat), NEW x \in Nat, NEW q \in Seq(Nat), Rising(a \o <<x>> \o q)
    PROVE  Rising(a \o <<>> \o q)
<1> DEFINE s == a \o <<x>> \o q
           t == a \o <<>> \o q
           skip(i) == IF i <= Len(a) THEN i ELSE i + 1
<1>1. /\ Len(a) \in Nat /\ Len(q) \in Nat /\ s \in Seq(Nat) /\ t \in Seq(Nat)
      /\ DOMAIN t = 1 .. (Len(a) + Len(q)) /\ DOMAIN s = 1 .. (Len(a) + 1 + Len(q))
  OBVIOUS
<1>2. \A i \in DOMAIN t : skip(i) \in DOMAIN s /\ t[i] = s[skip(i)]
  BY <1>1
<1>3. \A i, j \in DOMAIN t : i < j => skip(i) < skip(j)
  BY <1>1
<1> HIDE DEF s, t, skip
<1>4. Rising(s) => Rising(t)
  BY <1>2, <1>3 DEF Rising
<1> QED
  BY <1>4 DEF s, t

LEMMA FramesByWriteDone == ASSUME Frames, NEW c \in Conn, WriteDone(c) PROVE Frames'
<1>0. Typed /\ TypeOK
  BY DEF Frames, Typed
<1>1. Typed' /\ UNCHANGED failed
  BY <1>0, WriteDoneTyped DEF WriteDone
<1>2. Flowing'
  <2>1. ~failed[c] /\ flusher[c] # 0 /\ \A d \in Conn : d # c =>
           writing'[d] = writing[d] /\ flusher'[d] = flusher[d] /\ queue'[d] = queue[d]
    BY <1>0 DEF Frames, Flowing, WriteDone, TypeOK
  <2>2. flusher'[c] # 0 \/ queue'[c] = <<>>
    BY <1>0, <2>1 DEF WriteDone, TypeOK
  <2> QED
    BY <1>1, <2>1, <2>2 DEF Frames, Flowing
<1>3. \A d \in Conn : Line(d)' = Line(d)
  BY <1>0, WriteDoneLine
<1>4. InOrder'
  BY <1>3 DEF Frames, InOrder, Rising
<1>5. Present'
  <2>1. /\ \A j \in DOMAIN calls : calls'[j].targets = calls[j].targets
        /\ DOMAIN calls' = DOMAIN calls
        /\ \A j \in DOMAIN calls : calls[j].targets \subseteq Conn
    <3>1. flusher[c] \in 1 .. Len(calls)
      BY <1>0 DEF WriteDone, Typed, TypeOK, Made, Call
    <3>2. \A j \in DOMAIN calls : calls[j] \in CallRecord
      BY <1>0 DEF TypeOK
    <3>3. \A j \in DOMAIN calls : calls[j].targets \subseteq Conn
      BY <3>2 DEF CallRecord
    <3>4. CASE UNCHANGED calls
      BY <3>3, <3>4
    <3>5. CASE Settle(flusher[c], c, FALSE)
      <4>1. /\ calls' \in Seq(CallRecord) /\ Len(calls') = Len(calls)
            /\ \A j \in DOMAIN calls : calls'[j].targets = calls[j].targets
        BY <1>0, <3>1, <3>5, SettleCalls
      <4> QED
        BY <1>0, <3>3, <4>1 DEF TypeOK
    <3> QED
      BY <3>4, <3>5 DEF WriteDone
  <2> QED
    BY <1>1, <1>3, <2>1 DEF Frames, Present
<1> QED
  BY <1>1, <1>2, <1>4, <1>5 DEF Frames

LEMMA FramesByWriteFails == ASSUME Frames, NEW c \in Conn, WriteFails(c) PROVE Frames'
<1>0. Typed /\ TypeOK
  BY DEF Frames, Typed
<1>1. /\ Typed' /\ UNCHANGED <<queue, wire>>
      /\ failed' = [failed EXCEPT ![c] = TRUE]
      /\ writing' = [writing EXCEPT ![c] = 0] /\ flusher' = [flusher EXCEPT ![c] = 0]
  BY <1>0, WriteFailsTyped DEF WriteFails
<1>2. Flowing'
  BY <1>0, <1>1 DEF Frames, Flowing, TypeOK
<1>3. \A d \in Conn : d # c => Line(d)' = Line(d)
  BY <1>0, <1>1 DEF Line, TypeOK
<1>4. Rising(Line(c)')
  <2>1. /\ wire[c] \in Seq(Call) /\ queue[c] \in Seq(Call)
        /\ writing[c] \in Call /\ writing[c] # 0
    BY <1>0 DEF TypeOK, WriteFails
  <2>2. wire[c] \in Seq(Nat) /\ queue[c] \in Seq(Nat) /\ writing[c] \in Nat
    BY <2>1, CallsAreNat, InSeq, NarrowSeq
  <2>3. Line(c) = wire[c] \o <<writing[c]>> \o queue[c] /\ Line(c)' = wire[c] \o <<>> \o queue[c]
    BY <1>0, <1>1, <2>1 DEF Line, TypeOK
  <2>4. Rising(wire[c] \o <<writing[c]>> \o queue[c])
    BY <2>3 DEF Frames, InOrder
  <2>5. Rising(wire[c] \o <<>> \o queue[c])
    BY <2>2, <2>4, LeavesLine
  <2> QED
    BY <2>3, <2>5
<1>5. InOrder'
  BY <1>3, <1>4 DEF Frames, InOrder, Rising
<1>6. Present'
  <2>1. flusher[c] \in 1 .. Len(calls)
    BY <1>0 DEF WriteFails, Typed, TypeOK, Made, Call
  <2>2. /\ calls' \in Seq(CallRecord) /\ Len(calls') = Len(calls)
        /\ \A j \in DOMAIN calls : calls'[j].targets = calls[j].targets
    BY <1>0, <2>1, SettleCalls DEF WriteFails
  <2>3. \A j \in DOMAIN calls : calls[j] \in CallRecord
    BY <1>0 DEF TypeOK
  <2>4. DOMAIN calls' = DOMAIN calls /\ \A j \in DOMAIN calls : calls[j].targets \subseteq Conn
    BY <1>0, <2>2, <2>3 DEF TypeOK, CallRecord
  <2>5. failed'[c] /\ \A d \in Conn : d # c => failed'[d] = failed[d]
    BY <1>0, <1>1 DEF TypeOK
  <2> QED
    BY <1>3, <2>2, <2>4, <2>5 DEF Frames, Present
<1> QED
  BY <1>1, <1>2, <1>5, <1>6 DEF Frames

LEMMA FramesStay ==
    ASSUME Frames, Typed', UNCHANGED writes, DOMAIN calls' = DOMAIN calls,
           \A j \in DOMAIN calls : calls'[j].targets = calls[j].targets
    PROVE  Frames'
<1>1. \A c : Line(c)' = Line(c)
  BY DEF Line, writes
<1> QED
  BY <1>1 DEF Frames, Flowing, InOrder, Rising, Present, writes

LEMMA FramesInvariant == Spec => []Frames
<1>1. Typed /\ Init => Frames
  <2> SUFFICES ASSUME Typed, Init PROVE Frames
    OBVIOUS
  <2>1. \A c \in Conn : Line(c) = <<>>
    BY DEF Init, Line
  <2>2. DOMAIN <<>> = {} /\ DOMAIN calls = {}
    BY DEF Init
  <2> QED
    BY <2>1, <2>2 DEF Init, Frames, Flowing, InOrder, Rising, Present
<1>2. Frames /\ Typed' /\ Next => Frames'
  <2> SUFFICES ASSUME Frames, Typed', Next PROVE Frames'
    OBVIOUS
  <2>1. ASSUME UNCHANGED <<writes, calls>> PROVE Frames'
    BY <2>1, FramesStay
  <2>2. ASSUME NEW k \in Call, BroadcastEnds(k) PROVE Frames'
    <3>1. /\ calls' \in Seq(CallRecord) /\ Len(calls') = Len(calls) /\ calls \in Seq(CallRecord)
          /\ \A j \in DOMAIN calls : calls'[j].targets = calls[j].targets
      BY <2>2, BroadcastCalls DEF Frames, Typed, TypeOK
    <3>2. UNCHANGED writes
      BY <2>2 DEF BroadcastEnds
    <3> QED
      BY <3>1, <3>2, FramesStay
  <2> QED
    BY <2>1, <2>2, StepCases, OthersLeaveWrites, FramesByStart, FramesByWriteDone,
       FramesByWriteFails DEF Frames, Typed
<1>3. Frames /\ Typed' /\ UNCHANGED vars => Frames'
  BY FramesStay DEF vars
<1> QED
  BY <1>1, <1>2, <1>3, TypedInvariant, PTL DEF Spec

(***************************************************************************)
(* tls-tcp.ts: "each peer's writes are queued to prevent frame             *)
(* interleaving".  For any number of callers and connections, the frames   *)
(* of a connection are written in the order of the calls, each once, and   *)
(* none is dropped unless a write on that connection has failed.           *)
(***************************************************************************)
THEOREM WritesKeepOrder == Spec => []WrittenInOrder
<1>1. Frames => WrittenInOrder
  BY DEF Frames, InOrder, Rising, Present, WrittenInOrder
<1> QED
  BY <1>1, FramesInvariant, PTL

-------------------------------------------------------------------------------
(***************************************************************************)
(* A step of a banner exchange registers its connection, which it may only *)
(* after the checks, or leaves the registry alone.                         *)
(***************************************************************************)
LEMMA HandshakeCases ==
    ASSUME TypeOK, NEW c \in Conn, Handshake(c)
    PROVE  /\ step[c] # "registered" /\ UNCHANGED <<mode, maxPeers, closed, announced, writes, calls>>
           /\ \A d \in Conn \ {c} : step'[d] = step[d] /\ link'[d] = link[d]
           /\ \/ /\ UNCHANGED <<peers, ousted>> /\ step'[c] # "registered"
                 /\ step'[c] = "announcing" => announced[c] = Expected
              \/ /\ register(c)
                 /\ \/ mode = "listen" /\ announced[c] \in Known /\ Cardinality(Registered) < maxPeers
                    \/ mode = "dial" /\ step[c] = "announcing"
<1> USE DEF TypeOK, Goto
<1>1. CASE Accept(c)
  BY <1>1 DEF Accept
<1>2. CASE SendServerBanner(c)
  BY <1>2 DEF SendServerBanner, Refuse
<1>3. CASE RecvClientBanner(c)
  BY <1>3 DEF RecvClientBanner, Refuse, register
<1>4. CASE Dial(c)
  BY <1>4 DEF Dial, Refuse
<1>5. CASE RecvServerBanner(c)
  BY <1>5 DEF RecvServerBanner, Refuse
<1>6. CASE SendClientBanner(c)
  BY <1>6 DEF SendClientBanner, register
<1> QED
  BY <1>1, <1>2, <1>3, <1>4, <1>5, <1>6 DEF Handshake

(***************************************************************************)
(* The registry and the checks: the number of peers is looked at in the    *)
(* step that registers one, and a dialled server is checked a step before. *)
(***************************************************************************)
Vetted ==
    /\ IsFiniteSet(Registered) /\ PeersVetted
    /\ \A c \in Conn : step[c] = "announcing" => announced[c] = Expected

LEMMA VettedByRegister ==
    ASSUME TypeOK, Vetted, NEW c \in Conn, register(c), step[c] # "registered",
           UNCHANGED <<mode, maxPeers, announced>>,
           \/ mode = "listen" /\ announced[c] \in Known /\ Cardinality(Registered) < maxPeers
           \/ mode = "dial" /\ step[c] = "announcing"
    PROVE  Vetted'
<1> DEFINE f == announced[c]
<1>1. /\ f \in Fingerprint /\ peers' = [peers EXCEPT ![f] = c]
      /\ step' = [step EXCEPT ![c] = "registered"] /\ c # NoConn
  BY TransportAssumption DEF TypeOK, register, Goto
<1>2. Registered' = Registered \union {f}
  BY <1>1 DEF Registered, TypeOK
<1>3. /\ IsFiniteSet(Registered') /\ Cardinality(Registered') <= Cardinality(Registered) + 1
      /\ Cardinality(Registered) \in Nat /\ Cardinality(Registered') \in Nat
  <2>1. IsFiniteSet(Registered) /\ Cardinality(Registered) \in Nat
    BY FS_CardinalityType DEF Vetted
  <2>2. /\ IsFiniteSet(Registered \union {f})
        /\ Cardinality(Registered \union {f}) \in {Cardinality(Registered), Cardinality(Registered) + 1}
    BY <2>1, FS_AddElement
  <2> QED
    BY <1>2, <2>1, <2>2
<1>4. maxPeers \in Nat
  BY TransportAssumption DEF TypeOK
<1>5. mode' = "listen" => Cardinality(Registered') <= maxPeers'
  BY <1>3, <1>4
<1>6. \A g \in Registered' :
         /\ announced'[peers'[g]] = g /\ step'[peers'[g]] = "registered"
         /\ g \in IF mode' = "listen" THEN Known ELSE {Expected}
  <2> SUFFICES ASSUME NEW g \in Registered'
               PROVE  /\ announced[peers'[g]] = g /\ step'[peers'[g]] = "registered"
                      /\ g \in IF mode = "listen" THEN Known ELSE {Expected}
    OBVIOUS
  <2>1. CASE g = f
    BY <1>1, <2>1 DEF Vetted, TypeOK
  <2>2. CASE g # f
    <3>1. g \in Registered /\ g \in Fingerprint /\ peers'[g] = peers[g] /\ peers[g] \in Conn
      BY <1>1, <1>2, <2>2 DEF Registered, TypeOK
    <3> QED
      BY <1>1, <3>1 DEF Vetted, PeersVetted, TypeOK
  <2> QED
    BY <2>1, <2>2
<1>7. \A d \in Conn : step'[d] = "announcing" => announced'[d] = Expected
  BY <1>1 DEF Vetted, TypeOK
<1> QED
  BY <1>3, <1>5, <1>6, <1>7 DEF Vetted, PeersVetted

LEMMA VettedByFewer ==
    ASSUME TypeOK, Vetted, UNCHANGED <<mode, maxPeers, announced>>,
           peers' \in [Fingerprint -> Conn \union {NoConn}],
           \A f \in Fingerprint : peers'[f] \in {peers[f], NoConn},
           \A c \in Conn : step[c] = "registered" => step'[c] = "registered",
           \A c \in Conn : step'[c] = "announcing" => announced[c] = Expected
    PROVE  Vetted'
<1>1. Registered' \subseteq Registered
  BY DEF Registered
<1>2. /\ IsFiniteSet(Registered') /\ Cardinality(Registered') <= Cardinality(Registered)
      /\ Cardinality(Registered') \in Nat /\ Cardinality(Registered) \in Nat
  BY <1>1, FS_Subset, FS_CardinalityType DEF Vetted
<1>3. maxPeers \in Nat
  BY TransportAssumption DEF TypeOK
<1>4. mode' = "listen" => Cardinality(Registered') <= maxPeers'
  BY <1>2, <1>3 DEF Vetted, PeersVetted
<1>5. \A g \in Registered' : g \in Registered /\ peers'[g] = peers[g] /\ peers[g] \in Conn
  BY <1>1 DEF Registered, TypeOK
<1>6. \A g \in Registered' :
         /\ announced'[peers'[g]] = g /\ step'[peers'[g]] = "registered"
         /\ g \in IF mode' = "listen" THEN Known ELSE {Expected}
  BY <1>5 DEF Vetted, PeersVetted
<1> QED
  BY <1>2, <1>4, <1>6 DEF Vetted, PeersVetted

LEMMA RemovedPeers ==
    ASSUME TypeOK, NEW F, removePeers(F)
    PROVE  \A f \in Fingerprint : peers'[f] = IF f \in F THEN NoConn ELSE peers[f]
  BY DEF removePeers

LEMMA NextVetted == ASSUME TypeOK, Vetted, Next, TypeOK' PROVE Vetted'
<1>0. /\ peers' \in [Fingerprint -> Conn \union {NoConn}]
      /\ \A c \in Conn : step[c] = "announcing" => announced[c] = Expected
  BY DEF TypeOK, Vetted
<1>1. ASSUME NEW c \in Conn, Handshake(c) PROVE Vetted'
  <2>1. CASE register(c)
    BY <1>1, <2>1, HandshakeCases, VettedByRegister DEF register, Goto, TypeOK
  <2>2. CASE UNCHANGED peers /\ (step'[c] = "announcing" => announced[c] = Expected)
    <3>1. /\ step[c] # "registered" /\ UNCHANGED <<mode, maxPeers, announced>>
          /\ \A d \in Conn \ {c} : step'[d] = step[d]
      BY <1>1, HandshakeCases
    <3> QED
      BY <1>0, <2>2, <3>1, VettedByFewer
  <2> QED
    BY <1>1, <2>1, <2>2, HandshakeCases
<1>2. ASSUME NEW F, removePeers(F), UNCHANGED <<mode, maxPeers, announced, step>> PROVE Vetted'
  BY <1>0, <1>2, RemovedPeers, VettedByFewer
<1>3. ASSUME UNCHANGED <<mode, maxPeers, announced, step, peers>> PROVE Vetted'
  BY <1>0, <1>3, VettedByFewer
<1>4. ASSUME NEW c \in Conn, Break(c) \/ WriteDone(c) PROVE Vetted'
  BY <1>3, <1>4 DEF Break, WriteDone, conns
<1>5. ASSUME NEW kind, NEW C, Start(kind, C) PROVE Vetted'
  BY <1>3, <1>5 DEF Start, conns
<1>6. ASSUME NEW c \in Conn, WriteFails(c) PROVE Vetted'
  BY <1>2, <1>6 DEF WriteFails
<1>7. ASSUME NEW k, BroadcastEnds(k) PROVE Vetted'
  BY <1>2, <1>7 DEF BroadcastEnds
<1>8. ASSUME close PROVE Vetted'
  BY <1>2, <1>8 DEF close
<1> QED
  BY <1>1, <1>4, <1>5, <1>6, <1>7, <1>8, StepCases

LEMMA VettedInvariant == Spec => [](TypeOK /\ Vetted)
<1>1. ASSUME Init, TypeOK PROVE Vetted
  <2>1. Registered = {}
    BY <1>1 DEF Init, Registered
  <2>2. IsFiniteSet(Registered) /\ Cardinality(Registered) = 0 /\ maxPeers \in Nat
    BY <1>1, <2>1, FS_EmptySet, TransportAssumption DEF TypeOK
  <2> QED
    BY <1>1, <2>1, <2>2 DEF Init, Vetted, PeersVetted
<1>2. TypeOK /\ Vetted /\ Next /\ TypeOK' => Vetted'
  BY NextVetted
<1>3. TypeOK /\ Vetted /\ UNCHANGED vars => Vetted'
  BY VettedByFewer DEF vars, conns, TypeOK, Vetted
<1> QED
  BY <1>1, <1>2, <1>3, TypeCorrect, PTL DEF Spec

(***************************************************************************)
(* tls-tcp.ts: "manages up to maxPeers concurrent connections".  However   *)
(* many banner exchanges are under way at once, the registry never has     *)
(* more than maxPeers entries, and each is a connection whose peer         *)
(* announced that fingerprint and was accepted.                            *)
(***************************************************************************)
THEOREM RegistryIsVetted == Spec => []PeersVetted
<1>1. Vetted => PeersVetted
  BY DEF Vetted
<1> QED
  BY <1>1, VettedInvariant, PTL

-------------------------------------------------------------------------------
(***************************************************************************)
(* Who loses the entry of a fingerprint.  Only registered connections are  *)
(* written to; one that failed has no entry; and one that lost its entry   *)
(* without failing is of an ousted fingerprint or of a closed transport,   *)
(* so that its own late failure is excused when it removes another's.      *)
(***************************************************************************)
OnlyRegistered == \A c \in Conn : writing[c] # 0 \/ failed[c] => step[c] = "registered"

FailedHasNone == \A c \in Conn : failed[c] => \A f \in Fingerprint : peers[f] # c

OwnsEntry ==
    \A c \in Conn : step[c] = "registered" =>
        peers[announced[c]] = c \/ failed[c] \/ announced[c] \in ousted \/ closed

ClosedWithEntry ==
    \A c \in Conn : step[c] = "registered" =>
        peers[announced[c]] = c \/ link[c] = "closed" \/ announced[c] \in ousted

ErrorsFailed == \A k \in DOMAIN calls : \A c \in calls[k].errors : failed[c]

Owned == OnlyRegistered /\ FailedHasNone /\ OwnsEntry /\ ClosedWithEntry /\ ErrorsFailed

Base == Frames /\ Vetted

LEMMA BaseFacts ==
    ASSUME Base
    PROVE  /\ Typed /\ TypeOK
           /\ \A c \in Conn : writing[c] # 0 => ~failed[c]
           /\ \A f \in Fingerprint : peers[f] # NoConn =>
                 peers[f] \in Conn /\ announced[peers[f]] = f /\ step[peers[f]] = "registered"
           /\ \A k \in DOMAIN calls : calls[k].errors \subseteq Conn
           /\ \A c \in Conn : c # NoConn /\ announced[c] \in Fingerprint
<1>1. Typed /\ TypeOK /\ Flowing /\ PeersVetted
  BY DEF Base, Frames, Typed, Vetted
<1>2. \A k \in DOMAIN calls : calls[k] \in CallRecord
  BY <1>1 DEF TypeOK
<1>3. \A k \in DOMAIN calls : calls[k].errors \subseteq Conn
  BY <1>2 DEF CallRecord
<1>4. \A f \in Fingerprint : peers[f] # NoConn =>
         peers[f] \in Conn /\ announced[peers[f]] = f /\ step[peers[f]] = "registered"
  BY <1>1 DEF PeersVetted, Registered, TypeOK
<1> QED
  BY <1>1, <1>3, <1>4, TransportAssumption DEF Flowing, TypeOK

(***************************************************************************)
(* Removing entries closes the connections they were of.                   *)
(***************************************************************************)
LEMMA RemovedLinks ==
    ASSUME TypeOK, NEW F \in SUBSET Fingerprint, removePeers(F)
    PROVE  /\ \A f \in Fingerprint : peers'[f] = IF f \in F THEN NoConn ELSE peers[f]
           /\ \A c \in Conn : link[c] = "closed" => link'[c] = "closed"
           /\ \A f \in F : peers[f] \in Conn => link'[peers[f]] = "closed"
  BY DEF TypeOK, removePeers

LEMMA OwnedByHandshake ==
    ASSUME Base, Owned, NEW c \in Conn, Handshake(c)
    PROVE  Owned' /\ \A f \in Registered : peers'[f] # NoConn
<1>0. /\ TypeOK /\ step[c] # "registered"
      /\ UNCHANGED <<closed, announced, writing, failed, calls>>
      /\ \A d \in Conn \ {c} : step'[d] = step[d] /\ link'[d] = link[d]
  BY BaseFacts, HandshakeCases DEF writes
<1>1. ~failed[c] /\ writing[c] = 0
  BY <1>0 DEF Owned, OnlyRegistered
<1>2. CASE UNCHANGED <<peers, ousted>> /\ step'[c] # "registered"
  <2>1. OnlyRegistered' /\ FailedHasNone' /\ ErrorsFailed'
    BY <1>0, <1>1, <1>2 DEF Owned, OnlyRegistered, FailedHasNone, ErrorsFailed
  <2>2. OwnsEntry' /\ ClosedWithEntry'
    BY <1>0, <1>2 DEF Owned, OwnsEntry, ClosedWithEntry
  <2> QED
    BY <1>2, <2>1, <2>2 DEF Owned, Registered
<1>3. CASE register(c)
  <2>1. /\ step'[c] = "registered" /\ announced[c] \in Fingerprint /\ c # NoConn
        /\ \A f \in Fingerprint : peers'[f] = IF f = announced[c] THEN c ELSE peers[f]
        /\ ousted \subseteq ousted'
        /\ peers[announced[c]] # NoConn => announced[c] \in ousted'
    BY <1>0, <1>3, TransportAssumption DEF register, Goto, TypeOK
  <2>2. OnlyRegistered' /\ FailedHasNone' /\ ErrorsFailed'
    BY <1>0, <1>1, <2>1 DEF Owned, OnlyRegistered, FailedHasNone, ErrorsFailed
  <2>3. \A d \in Conn : d # c /\ peers[announced[d]] = d =>
           peers'[announced[d]] = d \/ announced[d] \in ousted'
    BY <2>1, BaseFacts
  <2>4. OwnsEntry' /\ ClosedWithEntry'
    BY <1>0, <2>1, <2>3 DEF Owned, OwnsEntry, ClosedWithEntry
  <2>5. \A f \in Registered : peers'[f] # NoConn
    BY <2>1 DEF Registered
  <2> QED
    BY <2>2, <2>4, <2>5 DEF Owned
<1> QED
  BY <1>0, <1>2, <1>3, HandshakeCases

LEMMA OwnedByWriteFails ==
    ASSUME Base, Owned, NEW c \in Conn, WriteFails(c)
    PROVE  /\ Owned'
           /\ \A f \in Registered : peers'[f] = NoConn =>
                 failed'[peers[f]] \/ f \in ousted \/ closed
<1> DEFINE g == announced[c]
<1>0. /\ TypeOK /\ Typed /\ ~failed[c] /\ step[c] = "registered"
      /\ UNCHANGED <<closed, announced, step, ousted>>
      /\ failed'[c] /\ \A d \in Conn : d # c => failed'[d] = failed[d]
      /\ writing'[c] = 0 /\ \A d \in Conn : d # c => writing'[d] = writing[d]
  BY BaseFacts DEF WriteFails, TypeOK, Owned, OnlyRegistered
<1>1. /\ g \in Fingerprint
      /\ \A f \in Fingerprint : peers'[f] = IF f = g THEN NoConn ELSE peers[f]
      /\ \A d \in Conn : link[d] = "closed" => link'[d] = "closed"
      /\ peers[g] \in Conn => link'[peers[g]] = "closed"
  <2>1. {g} \subseteq Fingerprint /\ removePeers({g})
    BY <1>0 DEF WriteFails, TypeOK
  <2> HIDE DEF g
  <2> QED
    BY <1>0, <2>1, RemovedLinks
<1>2. peers[g] = c \/ g \in ousted \/ closed
  BY <1>0 DEF Owned, OwnsEntry
<1>3. OnlyRegistered'
  BY <1>0 DEF Owned, OnlyRegistered
<1>4. announced[c] = g /\ announced \in [Conn -> Fingerprint] /\ NoConn \notin Conn
  BY <1>0, TransportAssumption DEF TypeOK
<1>5. \A f \in Fingerprint : peers[f] = c => f = g
  BY <1>4, BaseFacts DEF Registered
<1> HIDE DEF g
<1>6. FailedHasNone'
  BY <1>0, <1>1, <1>4, <1>5 DEF Owned, FailedHasNone
<1>7. OwnsEntry'
  <2> SUFFICES ASSUME NEW d \in Conn, step'[d] = "registered", ~failed'[d]
               PROVE  peers'[announced'[d]] = d \/ announced'[d] \in ousted' \/ closed'
    BY DEF OwnsEntry
  <2>1. d # c /\ step[d] = "registered" /\ ~failed[d] /\ announced[d] \in Fingerprint
    BY <1>0, <1>4
  <2>2. peers[announced[d]] = d \/ announced[d] \in ousted \/ closed
    BY <2>1 DEF Owned, OwnsEntry
  <2> QED
    BY <1>0, <1>1, <1>2, <2>1, <2>2
<1>8. ClosedWithEntry'
  <2> SUFFICES ASSUME NEW d \in Conn, step'[d] = "registered"
               PROVE  \/ link'[d] = "closed" \/ announced'[d] \in ousted'
                      \/ peers'[announced'[d]] = d
    BY DEF ClosedWithEntry
  <2> QED
    BY <1>0, <1>1, <1>4 DEF Owned, ClosedWithEntry
<1>9. ErrorsFailed'
  <2> DEFINE k == flusher[c]
  <2>1. k \in 1 .. Len(calls) /\ calls \in Seq(CallRecord)
    BY <1>0 DEF WriteFails, Typed, TypeOK, Made, Call
  <2>2. Settle(k, c, TRUE) /\ TRUE \in BOOLEAN
    BY DEF WriteFails
  <2> HIDE DEF k
  <2>3. /\ calls' \in Seq(CallRecord) /\ Len(calls') = Len(calls)
        /\ \A j \in DOMAIN calls : calls'[j].errors \subseteq calls[j].errors \union {c}
    BY <1>0, <2>1, <2>2, SettleCalls
  <2>4. /\ DOMAIN calls' = DOMAIN calls
        /\ \A j \in DOMAIN calls : calls'[j].errors \subseteq calls[j].errors \union {c}
    BY <2>1, <2>3
  <2>5. \A j \in DOMAIN calls : \A d \in calls[j].errors : d \in Conn
    <3> SUFFICES ASSUME NEW j \in DOMAIN calls PROVE \A d \in calls[j].errors : d \in Conn
      OBVIOUS
    <3>1. calls[j] \in CallRecord
      BY <2>1, InSeq
    <3> QED
      BY <3>1 DEF CallRecord
  <2> QED
    BY <1>0, <2>4, <2>5 DEF Owned, ErrorsFailed
<1>10. \A f \in Registered : peers'[f] = NoConn => f = g
  BY <1>1 DEF Registered
<1> QED
  BY <1>0, <1>2, <1>3, <1>6, <1>7, <1>8, <1>9, <1>10 DEF Owned

LEMMA OwnedByBroadcast ==
    ASSUME Base, Owned, NEW k \in Call, BroadcastEnds(k)
    PROVE  /\ Owned'
           /\ \A f \in Registered : peers'[f] = NoConn =>
                 \E c \in calls[k].errors : announced[c] = f
<1> DEFINE F == {announced[c] : c \in calls[k].errors}
<1>0. /\ TypeOK /\ Typed /\ k \in DOMAIN calls /\ F \subseteq Fingerprint
      /\ UNCHANGED <<closed, announced, step, writing, failed>>
      /\ ousted' = ousted \union (F \cap Registered)
      /\ DOMAIN calls' = DOMAIN calls
      /\ \A j \in DOMAIN calls : calls'[j].errors = calls[j].errors
  <2>1. TypeOK /\ Typed /\ k \in DOMAIN calls
    BY BaseFacts DEF BroadcastEnds
  <2>2. F \subseteq Fingerprint
    BY <2>1, BaseFacts
  <2>3. DOMAIN calls' = DOMAIN calls /\ \A j \in DOMAIN calls : calls'[j].errors = calls[j].errors
    BY <2>1, BroadcastCalls DEF TypeOK
  <2> QED
    BY <2>1, <2>2, <2>3 DEF BroadcastEnds, writes
<1> HIDE DEF F
<1>1. /\ \A f \in Fingerprint : peers'[f] = IF f \in F THEN NoConn ELSE peers[f]
      /\ \A d \in Conn : link[d] = "closed" => link'[d] = "closed"
      /\ \A f \in F : peers[f] \in Conn => link'[peers[f]] = "closed"
  BY <1>0, RemovedLinks DEF BroadcastEnds, F
<1>2. OnlyRegistered' /\ ErrorsFailed'
  BY <1>0 DEF Owned, OnlyRegistered, ErrorsFailed
<1>3. FailedHasNone'
  BY <1>0, <1>1, BaseFacts DEF Owned, FailedHasNone
<1>4. \A d \in Conn : peers[announced[d]] = d =>
         peers'[announced[d]] = d \/ announced[d] \in ousted'
  BY <1>0, <1>1, BaseFacts DEF Registered
<1>5. OwnsEntry'
  BY <1>0, <1>4 DEF Owned, OwnsEntry
<1>6. ClosedWithEntry'
  BY <1>0, <1>1, <1>4 DEF Owned, ClosedWithEntry
<1>7. \A f \in Registered : peers'[f] = NoConn => f \in F
  BY <1>1 DEF Registered
<1> QED
  BY <1>2, <1>3, <1>5, <1>6, <1>7 DEF Owned, F

LEMMA OwnedByClose ==
    ASSUME Base, Owned, close
    PROVE  Owned'
<1>1. /\ TypeOK /\ closed' = TRUE
      /\ UNCHANGED <<announced, step, writing, failed, calls, ousted>>
  BY BaseFacts DEF close, writes
<1>2. /\ \A f \in Fingerprint : peers'[f] = NoConn
      /\ \A d \in Conn : link[d] = "closed" => link'[d] = "closed"
      /\ \A f \in Fingerprint : peers[f] \in Conn => link'[peers[f]] = "closed"
  BY <1>1, RemovedLinks DEF close
<1>3. OnlyRegistered' /\ ErrorsFailed' /\ FailedHasNone' /\ OwnsEntry'
  BY <1>1, <1>2, BaseFacts
  DEF Owned, OnlyRegistered, ErrorsFailed, FailedHasNone, OwnsEntry
<1>4. ClosedWithEntry'
  BY <1>1, <1>2, BaseFacts DEF Owned, ClosedWithEntry
<1> QED
  BY <1>3, <1>4 DEF Owned

(***************************************************************************)
(* The other steps leave the registry alone.                               *)
(***************************************************************************)
LEMMA OwnedByOthers ==
    ASSUME Base, Owned, UNCHANGED <<closed, announced, step, peers, failed, ousted>>,
           \A c \in Conn : writing'[c] # 0 => step[c] = "registered",
           \A c \in Conn : link[c] = "closed" => link'[c] = "closed",
           \A k \in DOMAIN calls' : \A c \in calls'[k].errors : failed[c]
    PROVE  Owned' /\ \A f \in Registered : peers'[f] # NoConn
<1>1. OnlyRegistered' /\ FailedHasNone' /\ ErrorsFailed'
  BY DEF Owned, OnlyRegistered, FailedHasNone, ErrorsFailed
<1>2. OwnsEntry' /\ ClosedWithEntry'
  BY DEF Owned, OwnsEntry, ClosedWithEntry
<1> QED
  BY <1>1, <1>2 DEF Owned, Registered

LEMMA OwnedByBreak ==
    ASSUME Base, Owned, NEW c \in Conn, Break(c)
    PROVE  Owned' /\ \A f \in Registered : peers'[f] # NoConn
<1>1. /\ UNCHANGED <<closed, announced, step, peers, failed, ousted, writing, calls>>
      /\ \A d \in Conn : link[d] = "closed" => link'[d] = "closed"
  BY BaseFacts DEF Break, writes, TypeOK
<1> QED
  BY <1>1, OwnedByOthers DEF Owned, OnlyRegistered, ErrorsFailed

LEMMA OwnedByStart ==
    ASSUME Base, Owned, NEW kind \in {"send", "broadcast"}, NEW C \in SUBSET Conn,
           Start(kind, C), \A c \in C : \E f \in Registered : peers[f] = c
    PROVE  Owned' /\ \A f \in Registered : peers'[f] # NoConn
<1>1. UNCHANGED <<closed, announced, step, peers, failed, link, ousted>> /\ sendToPeers(C)
  BY DEF Start, sendToPeers, conns
<1>2. \A c \in Conn : writing'[c] # 0 => writing[c] # 0 \/ c \in C
  BY <1>1 DEF sendToPeers, Idle, Healthy
<1>3. \A c \in C : step[c] = "registered"
  BY BaseFacts DEF Registered
<1>4. \A c \in Conn : writing'[c] # 0 => step[c] = "registered"
  BY <1>2, <1>3 DEF Owned, OnlyRegistered
<1>5. \A k \in DOMAIN calls' : \A c \in calls'[k].errors : failed[c]
  <2>1. calls' = Append(calls, [kind |-> kind, targets |-> Healthy(C), waiting |-> Idle(C),
            errors |-> {}, result |-> IF Idle(C) = {} THEN "resolved" ELSE "pending"])
        /\ calls \in Seq(CallRecord)
    BY BaseFacts DEF Start, TypeOK
  <2>2. \A k \in DOMAIN calls' : \/ k \in DOMAIN calls /\ calls'[k] = calls[k]
                                \/ calls'[k].errors = {}
    BY <2>1
  <2> QED
    BY <2>2 DEF Owned, ErrorsFailed
<1> QED
  BY <1>1, <1>4, <1>5, OwnedByOthers

LEMMA OwnedByWriteDone ==
    ASSUME Base, Owned, NEW c \in Conn, WriteDone(c)
    PROVE  Owned' /\ \A f \in Registered : peers'[f] # NoConn
<1>0. TypeOK /\ Typed
  BY BaseFacts
<1>1. /\ UNCHANGED <<closed, announced, step, peers, failed, link, ousted>>
      /\ \A d \in Conn : writing'[d] # 0 => writing[d] # 0
  BY <1>0 DEF WriteDone, conns, TypeOK
<1>2. \A k \in DOMAIN calls' : \A d \in calls'[k].errors : failed[d]
  <2>1. CASE UNCHANGED calls
    BY <2>1 DEF Owned, ErrorsFailed
  <2>2. CASE Settle(flusher[c], c, FALSE)
    <3>1. flusher[c] \in 1 .. Len(calls)
      BY <1>0 DEF WriteDone, Typed, TypeOK, Made, Call
    <3>2. /\ calls' \in Seq(CallRecord) /\ Len(calls') = Len(calls)
          /\ \A j \in DOMAIN calls : calls'[j].errors = calls[j].errors
      BY <1>0, <2>2, <3>1, SettleCalls
    <3>3. DOMAIN calls' = DOMAIN calls /\ \A j \in DOMAIN calls : calls'[j].errors = calls[j].errors
      BY <1>0, <3>2 DEF TypeOK
    <3> QED
      BY <3>3 DEF Owned, ErrorsFailed
  <2> QED
    BY <2>1, <2>2 DEF WriteDone
<1> QED
  BY <1>1, <1>2, OwnedByOthers DEF Owned, OnlyRegistered

(***************************************************************************)
(* tls-tcp.ts: "don't keep broken connections", and no others are lost.    *)
(* For any number of connections, a connection with a failed write is not  *)
(* a peer and is closed, unless it had lost its entry before; and a peer   *)
(* is removed only for its own failure or by close(), with the exceptions  *)
(* that removing by fingerprint brings, and no more.                       *)
(***************************************************************************)
Removal ==
    /\ \A c \in Conn : failed'[c] => FailedOut(c)'
    /\ \A f \in Registered : peers'[f] = NoConn => MayRemove(f)

LEMMA NextOwned == ASSUME Base, Owned, Next PROVE Owned' /\ Removal
<1>1. Owned' /\ \A f \in Registered : peers'[f] = NoConn => MayRemove(f)
  <2>1. ASSUME NEW k \in Call, BroadcastEnds(k) PROVE \A f \in Registered : peers'[f] = NoConn => MayRemove(f)
    BY <2>1, OwnedByBroadcast DEF BroadcastEnds, MayRemove
  <2>2. ASSUME NEW c \in Conn, WriteFails(c) PROVE \A f \in Registered : peers'[f] = NoConn => MayRemove(f)
    BY <2>2, OwnedByWriteFails DEF WriteFails, MayRemove
  <2>3. ASSUME close PROVE \A f \in Registered : peers'[f] = NoConn => MayRemove(f)
    BY <2>3 DEF close, MayRemove
  <2> QED
    BY <2>1, <2>2, <2>3, BaseFacts, StepCases, OwnedByHandshake, OwnedByBreak, OwnedByWriteDone,
       OwnedByWriteFails, OwnedByStart, OwnedByBroadcast, OwnedByClose
<1>2. step' \in [Conn -> Step] /\ announced' \in [Conn -> Fingerprint]
  BY BaseFacts, NextTyped DEF Typed, TypeOK
<1>3. \A c \in Conn : failed'[c] => FailedOut(c)'
  BY <1>1, <1>2 DEF Owned, OnlyRegistered, FailedHasNone, ClosedWithEntry, FailedOut
<1> QED
  BY <1>1, <1>3 DEF Removal

THEOREM RemovedOnlyForFailure == Spec => RemovedIffFailed
<1>1. Init => Owned
  BY DEF Init, Owned, OnlyRegistered, FailedHasNone, OwnsEntry, ClosedWithEntry, ErrorsFailed
<1>2. Base /\ Owned /\ Next => Owned' /\ Removal
  BY NextOwned
<1>3. Base /\ Owned /\ UNCHANGED vars => Owned'
  BY DEF Owned, OnlyRegistered, FailedHasNone, OwnsEntry, ClosedWithEntry, ErrorsFailed,
         vars, conns, writes
<1>4. Spec => []Base
  BY FramesInvariant, VettedInvariant, PTL DEF Base
<1>5. Spec => [][Removal]_vars
  BY <1>1, <1>2, <1>3, <1>4, PTL DEF Spec
<1> QED
  BY <1>5 DEF RemovedIffFailed, Removal
================================================================================
