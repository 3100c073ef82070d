----------------------------- MODULE DesktopProofs -----------------------------
(***************************************************************************)
(* Proofs about Desktop for any number of daemons, windows, calls and      *)
(* inputs: its type invariant, that a peer is asked only after the code    *)
(* was given, and that the facade holds the window that is open and posts  *)
(* to its page, with the exceptions that WindowHeld names.                 *)
(***************************************************************************)
EXTENDS Desktop, SequenceTheorems, TLAPS

-------------------------------------------------------------------------------
(***************************************************************************)
(* The tray.                                                               *)
(***************************************************************************)
LEMMA RebuildEffect ==
    ASSUME NEW st \in Status, NEW err \in BOOLEAN, rebuildMenu(st, err)
    PROVE  menu' \in Menu
  BY DEF rebuildMenu, Menu

LEMMA TrayKeeps == ASSUME TrayTypeOK, TrayInput \/ TrayStep PROVE TrayTypeOK'
<1> USE DEF TrayTypeOK
<1>1. CASE \E st \in Status : setStatus(st)
  <2>1. PICK st \in Status : setStatus(st)
    BY <1>1
  <2>2. menu' \in Menu /\ pairingError' = FALSE
    BY <2>1, RebuildEffect DEF setStatus
  <2> QED
    BY <2>1, <2>2 DEF setStatus
<1>2. CASE handlePair
  BY <1>2 DEF handlePair
<1>3. CASE handleQuit
  BY <1>3 DEF handleQuit, Menu
<1>4. CASE PairAnswered
  <2>1. requests' \in Nat /\ UNCHANGED <<status, timers>>
    BY <1>4 DEF PairAnswered
  <2>2. CASE UNCHANGED <<pairingError, menu>>
    BY <2>1, <2>2
  <2>3. CASE pairingError' = TRUE /\ rebuildMenu(status, TRUE)
    <3>1. menu' \in Menu
      BY <2>3, RebuildEffect
    <3> QED
      BY <2>1, <2>3, <3>1
  <2> QED
    BY <1>4, <2>2, <2>3 DEF PairAnswered
<1>5. CASE QuitTimer
  BY <1>5 DEF QuitTimer, Menu
<1> QED
  BY <1>1, <1>2, <1>3, <1>4, <1>5 DEF TrayInput, TrayStep

-------------------------------------------------------------------------------
(***************************************************************************)
(* Pairing.  A daemon asks the one peer that it was told to pair with; and *)
(* on the command line its code has been logged before it comes to that.   *)
(***************************************************************************)
Paired ==
    \A n \in Fingerprint :
        /\ pair[n].at # "idle" => pair[n].peer \in Fingerprint
        /\ n # Windowed /\ pair[n].at \in {"sending", "ok"} => Code(n) \in shown[n]
        /\ sent[n] # {} => pair[n].at = "ok" /\ sent[n] = {pair[n].peer}

PairSound == PairTypeOK /\ Paired

LEMMA TurnEffect ==
    ASSUME PairTypeOK, NEW n \in Fingerprint, NEW s \in PairStages, Turn(n, s)
    PROVE  /\ pair' \in [Fingerprint -> [at : PairStages, peer : Fingerprint \cup {0}]]
           /\ pair'[n].at = s
           /\ \A k \in Fingerprint : pair'[k].peer = pair[k].peer /\ Code(k)' = Code(k)
           /\ \A k \in Fingerprint : k # n => pair'[k] = pair[k]
<1>1. pair' = [pair EXCEPT ![n].at = s]
  BY DEF Turn
<1>2. [pair[n] EXCEPT !.at = s] \in [at : PairStages, peer : Fingerprint \cup {0}]
  BY DEF PairTypeOK
<1>3. /\ pair' \in [Fingerprint -> [at : PairStages, peer : Fingerprint \cup {0}]]
      /\ pair'[n].at = s /\ pair'[n].peer = pair[n].peer
      /\ \A k \in Fingerprint : k # n => pair'[k] = pair[k]
  BY <1>1, <1>2 DEF PairTypeOK
<1> QED
  BY <1>3 DEF Code

LEMMA CodeType ==
    ASSUME NEW a \in Fingerprint, NEW b \in Fingerprint
    PROVE  /\ derivePairingCode(a, b) \in Fingerprint \X Fingerprint
           /\ derivePairingCode(a, b) = derivePairingCode(b, a)
  BY PairingAssumption DEF derivePairingCode

\* A daemon is asked to pair.
LEMMA PairStarts ==
    ASSUME PairSound, PairInput
    PROVE  /\ PairSound' /\ sent' = sent
           /\ \A k \in Fingerprint : pair[k].at # "idle" => pair'[k] = pair[k]
           /\ \A k \in Fingerprint : pair'[k].at \in {"looking", "not-found"} \/ pair'[k] = pair[k]
<1>1. PICK n \in Fingerprint, m \in Fingerprint, s \in {"looking", "not-found"} :
         /\ pair[n].at = "idle" /\ UNCHANGED <<shown, sent>>
         /\ pair' = [pair EXCEPT ![n] = [at |-> s, peer |-> m]]
  BY DEF PairInput, pairWith, NotFound
<1>2. [at |-> s, peer |-> m] \in [at : PairStages, peer : Fingerprint \cup {0}]
  BY DEF PairStages, Outcomes
<1>3. PairTypeOK' /\ pair'[n] = [at |-> s, peer |-> m]
      /\ \A k \in Fingerprint : k # n => pair'[k] = pair[k]
  BY <1>1, <1>2 DEF PairSound, PairTypeOK
<1>4. Paired'
  BY <1>1, <1>3 DEF PairSound, Paired, Code
<1> QED
  BY <1>1, <1>3, <1>4 DEF PairSound

\* A pairing under way takes a step.
LEMMA PairGoes ==
    ASSUME PairSound, NEW n \in Fingerprint,
           \/ LookUp(n) \/ Derive(n) \/ Presented(n) \/ NotPresented(n) \/ StubPresents(n)
           \/ Send(n)
    PROVE  /\ PairSound' /\ pair[n].at # "idle" /\ pair'[n].at # "idle"
           /\ \A k \in Fingerprint : Code(k)' = Code(k) /\ pair'[k].peer = pair[k].peer
           /\ \A k \in Fingerprint : k # n => pair'[k] = pair[k]
           /\ pair'[n].at = "sending" => Presented(n) \/ StubPresents(n)
           /\ pair'[n].at = "ok" => pair[n].at = "sending"
           /\ pair'[n].at = "presenting" => pair[n].at = "deriving"
<1> USE DEF PairStages, Outcomes
<1>1. pair[n].at # "idle"
  BY DEF LookUp, Derive, Presented, NotPresented, StubPresents, Send
<1>2. PICK s \in PairStages :
         /\ Turn(n, s) /\ s # "idle"
         /\ shown' = shown \/ (shown' = [shown EXCEPT ![n] = @ \cup {Code(n)}] /\ sent' = sent)
         /\ sent' = sent \/ (s = "ok" /\ sent' = [sent EXCEPT ![n] = @ \cup {pair[n].peer}])
         /\ pair[n].at # "ok"
         /\ s = "sending" => Presented(n) \/ StubPresents(n)
         /\ s = "ok" => pair[n].at = "sending"
         /\ s = "presenting" => pair[n].at = "deriving"
  BY DEF LookUp, Derive, Presented, NotPresented, StubPresents, Send
<1>3. /\ pair' \in [Fingerprint -> [at : PairStages, peer : Fingerprint \cup {0}]]
      /\ pair'[n].at = s
      /\ \A k \in Fingerprint : pair'[k].peer = pair[k].peer /\ Code(k)' = Code(k)
      /\ \A k \in Fingerprint : k # n => pair'[k] = pair[k]
  BY <1>2, TurnEffect DEF PairSound
<1>4. pair[n].peer \in Fingerprint /\ Code(n) \in Fingerprint \X Fingerprint
  BY <1>1, CodeType DEF PairSound, Paired, Code
<1> HIDE DEF PairStages, Outcomes
<1>5. /\ shown' \in [Fingerprint -> SUBSET (Fingerprint \X Fingerprint)]
      /\ \A k \in Fingerprint : k # n => shown'[k] = shown[k]
      /\ shown'[n] = shown[n] \/ shown'[n] = shown[n] \cup {Code(n)}
  <2> DEFINE c == Code(n)
  <2>1. c \in Fingerprint \X Fingerprint
    BY <1>4
  <2>2. shown' = shown \/ shown' = [shown EXCEPT ![n] = @ \cup {c}]
    BY <1>2
  <2> HIDE DEF c
  <2>3. /\ shown' \in [Fingerprint -> SUBSET (Fingerprint \X Fingerprint)]
        /\ \A k \in Fingerprint : k # n => shown'[k] = shown[k]
        /\ shown'[n] = shown[n] \/ shown'[n] = shown[n] \cup {c}
    BY <2>1, <2>2 DEF PairSound, PairTypeOK
  <2> QED
    BY <2>3 DEF c
<1>6. sent' \in [Fingerprint -> SUBSET Fingerprint]
  BY <1>2, <1>4 DEF PairSound, PairTypeOK
<1>7. PairTypeOK'
  BY <1>3, <1>5, <1>6 DEF PairTypeOK
<1>8. Paired'
  <2> SUFFICES ASSUME NEW k \in Fingerprint
               PROVE  /\ pair'[k].at # "idle" => pair'[k].peer \in Fingerprint
                      /\ k # Windowed /\ pair'[k].at \in {"sending", "ok"} => Code(k) \in shown'[k]
                      /\ sent'[k] # {} => pair'[k].at = "ok" /\ sent'[k] = {pair'[k].peer}
    BY <1>3 DEF Paired
  <2>1. CASE k # n
    BY <1>2, <1>3, <1>5, <2>1 DEF PairSound, Paired, PairTypeOK
  <2>2. CASE k = n
    <3>1. sent[n] = {}
      BY <1>2 DEF PairSound, Paired
    <3>2. n # Windowed /\ s = "sending" => Code(n) \in shown'[n]
      BY <1>2 DEF Presented, StubPresents, PairSound, PairTypeOK
    <3>3. n # Windowed /\ s = "ok" => Code(n) \in shown'[n]
      BY <1>2, <1>5 DEF PairSound, Paired
    <3>4. sent'[n] # {} => s = "ok" /\ sent'[n] = {pair[n].peer}
      BY <1>2, <3>1 DEF PairSound, PairTypeOK
    <3> QED
      BY <1>3, <1>4, <2>2, <3>2, <3>3, <3>4
  <2> QED
    BY <2>1, <2>2
<1> QED
  BY <1>1, <1>2, <1>3, <1>7, <1>8 DEF PairSound

-------------------------------------------------------------------------------
(***************************************************************************)
(* The queue of calls: what is to be published.                            *)
(***************************************************************************)
Published(q) == {q[i].msg : i \in {j \in 1 .. Len(q) : q[j].do = "publish"}}

LEMMA TailPublished ==
    ASSUME NEW q \in Seq(Call), q # <<>>
    PROVE  /\ Tail(q) \in Seq(Call) /\ Head(q) \in Call
           /\ Published(Tail(q)) \subseteq Published(q)
           /\ Head(q).do = "publish" => Head(q).msg \in Published(q)
<1>1. /\ Head(q) \in Call /\ Tail(q) \in Seq(Call) /\ Len(Tail(q)) = Len(q) - 1
      /\ \A i \in 1 .. Len(Tail(q)) : Tail(q)[i] = q[i + 1]
  BY HeadTailProperties
<1>2. Len(q) \in Nat /\ Len(q) > 0 /\ Head(q) = q[1]
  OBVIOUS
<1>3. \A i \in 1 .. Len(Tail(q)) : i + 1 \in 1 .. Len(q)
  BY <1>1, <1>2
<1>4. Published(Tail(q)) \subseteq Published(q)
  BY <1>1, <1>3 DEF Published
<1> QED
  BY <1>1, <1>2, <1>4 DEF Published

LEMMA AppendPublished ==
    ASSUME NEW q \in Seq(Call), NEW c \in Call
    PROVE  /\ Append(q, c) \in Seq(Call)
           /\ Published(Append(q, c)) \subseteq
                 Published(q) \cup (IF c.do = "publish" THEN {c.msg} ELSE {})
<1>1. /\ Append(q, c) \in Seq(Call) /\ Len(Append(q, c)) = Len(q) + 1
      /\ \A i \in 1 .. Len(q) : Append(q, c)[i] = q[i]
      /\ Append(q, c)[Len(q) + 1] = c
  BY AppendProperties
<1>2. \A i \in 1 .. Len(Append(q, c)) : i \in 1 .. Len(q) \/ i = Len(q) + 1
  BY <1>1
<1> QED
  BY <1>1, <1>2 DEF Published

LEMMA RepeatPublished ==
    ASSUME NEW n \in Nat, NEW c \in Call, c.do # "publish"
    PROVE  /\ [i \in 1 .. n |-> c] \in Seq(Call)
           /\ Published([i \in 1 .. n |-> c]) = {}
  BY DEF Published

-------------------------------------------------------------------------------
(***************************************************************************)
(* The window.  The one that is open is the one the facade holds; one that *)
(* the facade holds in vain was closed by its user; and where windows have *)
(* the event, a page without its binding is heard of.                      *)
(***************************************************************************)
Told ==
    \A p \in posted :
        /\ p.to = "unbound" => ~reloads
        /\ p.to = "gone" => p.win \in userClosed

Held ==
    /\ open \subseteq {win}
    /\ win # 0 /\ win \notin open => win \in userClosed
    /\ win \in open /\ reloads => listeners[win] > 0
    /\ registered /\ reloads /\ win \in open /\ win \notin bound => reloading[win] > 0
    /\ Told

WebviewSound == WebviewTypeOK /\ Held

LEMMA DueFacts ==
    ASSUME WebviewTypeOK, NEW c, Due(c)
    PROVE  /\ queue \in Seq(Call) /\ queue # <<>> /\ Tail(queue) \in Seq(Call)
           /\ Published(Tail(queue)) \subseteq Published(queue)
           /\ c = "publish" => Head(queue).msg \in Published(queue)
  BY TailPublished DEF WebviewTypeOK, Due

LEMMA DoType ==
    ASSUME NEW c \in {"open", "expose", "publish", "close", "unregister"},
           NEW m \in Message \cup {NoMessage}
    PROVE  Do(c, m) \in Call /\ Do(c, m).do = c /\ Do(c, m).msg = m
  BY DEF Do, Call

LEMMA RegisterKeeps ==
    ASSUME WebviewSound, Register
    PROVE  WebviewSound' /\ Published(queue') \subseteq Published(queue) /\ posted' = posted
<1>1. /\ queue \in Seq(Call) /\ Tail(queue) \in Seq(Call)
      /\ Published(Tail(queue)) \subseteq Published(queue)
  BY DueFacts DEF Register, WebviewSound
<1>2. CASE queue' = Tail(queue) /\ UNCHANGED <<facade, bridge, windows, posted>>
  BY <1>1, <1>2 DEF WebviewSound, WebviewTypeOK, Held, Told, facade, bridge, windows
<1>3. CASE /\ OpenWindow
           /\ bound' = bound \cup ({win'} \cap open')
           /\ Listens(win')
           /\ registered' = TRUE
           /\ queue' = Append(Tail(queue), Do("expose", NoMessage))
           /\ UNCHANGED <<handlers, bridge, reloads, reloading, userClosed, posted>>
  <2>1. /\ opened' \in 0 .. MaxWindows /\ win' \in Windows /\ (win # 0 => win' = win)
        /\ open' = IF win = 0 THEN open \cup {win'} ELSE open
    <3>1. /\ win \in 0 .. MaxWindows /\ opened \in 0 .. MaxWindows /\ MaxWindows \in Nat
          /\ IF win = 0 THEN opened < MaxWindows /\ opened' = opened + 1 /\ win' = opened + 1
                        ELSE opened' = opened /\ win' = win
      BY <1>3, WebviewAssumption DEF OpenWindow, WebviewSound, WebviewTypeOK
    <3> QED
      BY <1>3, <3>1 DEF Windows, OpenWindow
  <2>2. queue' \in Seq(Call) /\ Published(queue') \subseteq Published(queue)
    <3>1. Do("expose", NoMessage) \in Call /\ Do("expose", NoMessage).do # "publish"
      BY DoType
    <3> QED
      BY <1>1, <1>3, <3>1, AppendPublished
  <2>3. listeners' \in [Windows -> Nat] /\ (reloads => listeners'[win'] > 0)
    BY <1>3, <2>1 DEF Listens, WebviewSound, WebviewTypeOK
  <2>4. /\ open' \subseteq {win'} /\ open' \subseteq Windows /\ bound' \subseteq open'
        /\ win' \in open' => win' \in bound'
        /\ win' \notin open' => win' = win /\ win # 0 /\ win \notin open
    <3>1. open \subseteq {win} /\ 0 \notin open /\ bound \subseteq open /\ open \subseteq Windows
      BY WebviewAssumption DEF WebviewSound, WebviewTypeOK, Held, Windows
    <3>2. win = 0 => open = {} /\ bound = {}
      BY <3>1
    <3> QED
      BY <1>3, <2>1, <3>1, <3>2
  <2>5. win' \in 0 .. MaxWindows
    BY <2>1, WebviewAssumption DEF Windows
  <2>6. reloads' \in BOOLEAN /\ reloading' \in [Windows -> Nat]
        /\ userClosed' \subseteq Windows /\ posted' \subseteq Post
    BY <1>3 DEF WebviewSound, WebviewTypeOK
  <2>7. handlers' \in Nat /\ bridged' \in BOOLEAN /\ exposed' \in {"absent", "invoke", "null"}
        /\ registered' \in BOOLEAN
    BY <1>3 DEF WebviewSound, WebviewTypeOK, bridge
  <2>8. WebviewTypeOK'
    BY <2>1, <2>2, <2>3, <2>4, <2>5, <2>6, <2>7 DEF WebviewTypeOK, Windows, Post
  <2>9. Held'
    <3>1. Told'
      BY <1>3 DEF WebviewSound, Held, Told
    <3>2. win' # 0 /\ win' \notin open' => win' \in userClosed'
      BY <1>3, <2>4 DEF WebviewSound, Held
    <3>3. win' \in open' /\ reloads' => listeners'[win'] > 0
      BY <1>3, <2>3
    <3> QED
      BY <2>4, <3>1, <3>2, <3>3 DEF Held
  <2> QED
    BY <1>3, <2>2, <2>8, <2>9 DEF WebviewSound
<1> QED
  BY <1>2, <1>3 DEF Register

LEMMA ReloadEventKeeps ==
    ASSUME WebviewSound, NEW w \in Windows, ReloadEvent(w)
    PROVE  WebviewSound' /\ Published(queue') \subseteq Published(queue) /\ posted' = posted
<1>1. listeners[w] \in Nat /\ handlers \in Nat
  BY DEF WebviewSound, WebviewTypeOK
<1> DEFINE n == listeners[w] * handlers
<1>2. n \in Nat
  BY <1>1
<1>3. queue' = [i \in 1 .. n |-> Do("open", NoMessage)]
  BY DEF ReloadEvent
<1> HIDE DEF n
<1>4. queue' \in Seq(Call) /\ Published(queue') = {}
  <2>1. Do("open", NoMessage) \in Call /\ Do("open", NoMessage).do # "publish"
    BY DoType
  <2> QED
    BY <1>2, <1>3, <2>1, RepeatPublished
<1>5. UNCHANGED <<win, handlers, bridge, opened, open, bound, listeners, reloads, userClosed, posted>>
  BY DEF ReloadEvent
<1>6. registered' \in BOOLEAN /\ (registered' => registered /\ listeners[w] = 0)
  BY DEF ReloadEvent
<1>7. /\ reloading' \in [Windows -> Nat]
      /\ \A v \in Windows : v # w => reloading'[v] = reloading[v]
  BY DEF ReloadEvent, WebviewSound, WebviewTypeOK
<1>8. WebviewTypeOK'
  BY <1>4, <1>5, <1>6, <1>7 DEF WebviewSound, WebviewTypeOK, bridge
<1>9. ASSUME registered', reloads, win \in open, win \notin bound
      PROVE  reloading'[win] > 0
  <2>1. listeners[win] > 0 /\ reloading[win] > 0 /\ win \in Windows
    BY <1>6, <1>9 DEF WebviewSound, WebviewTypeOK, Held
  <2> QED
    BY <1>6, <1>7, <1>9, <2>1
<1>10. Held'
  BY <1>5, <1>9 DEF WebviewSound, Held, Told
<1> QED
  BY <1>4, <1>5, <1>8, <1>10 DEF WebviewSound

LEMMA ReloadKeeps ==
    ASSUME WebviewSound, Reload
    PROVE  WebviewSound' /\ queue' = queue /\ posted' = posted
<1>1. /\ win \in open /\ win \in Windows /\ bound' = bound \ {win}
      /\ UNCHANGED <<facade, bridge, queue, opened, open, listeners, reloads, userClosed, posted>>
  BY DEF Reload, WebviewSound, WebviewTypeOK
<1>2. reloading' \in [Windows -> Nat] /\ (reloads => reloading'[win] > 0)
  BY <1>1 DEF Reload, WebviewSound, WebviewTypeOK
<1>3. WebviewTypeOK'
  BY <1>1, <1>2 DEF WebviewSound, WebviewTypeOK, facade, bridge
<1>4. Held'
  BY <1>1, <1>2 DEF WebviewSound, Held, Told, facade
<1> QED
  BY <1>1, <1>3, <1>4 DEF WebviewSound

LEMMA UserClosesKeeps ==
    ASSUME WebviewSound, UserCloses
    PROVE  WebviewSound' /\ queue' = queue /\ posted' = posted
<1>1. /\ open' = {} /\ bound' = {} /\ win \in Windows /\ userClosed' = userClosed \cup {win}
      /\ UNCHANGED <<facade, bridge, queue, opened, listeners, reloads, reloading, posted>>
  BY DEF UserCloses, WebviewSound, WebviewTypeOK, Held
<1>2. WebviewTypeOK'
  BY <1>1 DEF WebviewSound, WebviewTypeOK, facade, bridge
<1>3. Held'
  BY <1>1 DEF WebviewSound, Held, Told, facade
<1> QED
  BY <1>1, <1>2, <1>3 DEF WebviewSound

LEMMA CloseKeeps ==
    ASSUME WebviewSound, Close
    PROVE  WebviewSound' /\ Published(queue') \subseteq Published(queue) /\ posted' = posted
<1>1. queue' \in Seq(Call) /\ Published(queue') \subseteq Published(queue)
  BY DueFacts DEF Close, WebviewSound
<1>2. UNCHANGED <<handlers, bridge, opened, listeners, reloads, reloading, userClosed, posted>>
  BY DEF Close
<1>3. CASE /\ win' = 0 /\ registered' = (registered /\ win = 0)
           /\ open' = open \ {win} /\ bound' = bound \ {win}
  <2>1. open' = {} /\ bound' = {}
    BY <1>3 DEF WebviewSound, WebviewTypeOK, Held
  <2>2. WebviewTypeOK'
    BY <1>1, <1>2, <1>3, <2>1, WebviewAssumption DEF WebviewSound, WebviewTypeOK, bridge
  <2>3. Held'
    BY <1>2, <1>3, <2>1 DEF WebviewSound, Held, Told
  <2> QED
    BY <1>1, <1>2, <2>2, <2>3 DEF WebviewSound
<1>4. CASE UNCHANGED <<win, registered, open, bound>>
  BY <1>1, <1>2, <1>4 DEF WebviewSound, WebviewTypeOK, Held, Told, bridge
<1> QED
  BY <1>3, <1>4 DEF Close

LEMMA RequestKeeps ==
    ASSUME WebviewSound, NEW c \in {"open", "publish", "close", "unregister"},
           NEW m \in Message \cup {NoMessage}, Request(c, m)
    PROVE  /\ WebviewSound' /\ posted' = posted
           /\ Published(queue') \subseteq Published(queue) \cup (IF c = "publish" THEN {m} ELSE {})
<1>1. Do(c, m) \in Call /\ Do(c, m).do = c /\ Do(c, m).msg = m
  BY DoType
<1> DEFINE d == Do(c, m)
<1>2. d \in Call /\ d.do = c /\ d.msg = m /\ queue' = Append(queue, d) /\ queue \in Seq(Call)
  BY <1>1 DEF Request, WebviewSound, WebviewTypeOK
<1> HIDE DEF d
<1>3. queue' \in Seq(Call)
      /\ Published(queue') \subseteq Published(queue) \cup (IF c = "publish" THEN {m} ELSE {})
  BY <1>2, AppendPublished
<1> QED
  BY <1>3 DEF Request, WebviewSound, WebviewTypeOK, Held, Told, facade, bridge, windows

\* What is posted is posted to the window the facade holds, and the exceptions
\* of Told are what Held says of that window.
LEMMA PublishKeeps ==
    ASSUME WebviewSound, Published(queue) \subseteq Message, Publish
    PROVE  /\ WebviewSound' /\ Published(queue') \subseteq Published(queue)
           /\ \E p \in posted' : p.msg = Head(queue).msg
           /\ Head(queue).msg \in Published(queue)
<1>1. /\ queue' = Tail(queue) /\ queue' \in Seq(Call) /\ Published(queue') \subseteq Published(queue)
      /\ Head(queue).msg \in Published(queue)
  BY DueFacts DEF Publish, WebviewSound
<1> DEFINE q == [msg |-> Head(queue).msg, win |-> win, to |-> Target]
<1>2. registered /\ win # 0 /\ posted' = posted \cup {q} /\ UNCHANGED <<facade, bridge, windows>>
  BY DEF Publish, Posts
<1>3. win \in Windows
  BY <1>2 DEF WebviewSound, WebviewTypeOK, Windows
<1>4. q \in Post /\ q.win = win /\ q.to = Target /\ q.msg = Head(queue).msg
  BY <1>1, <1>3 DEF Post, Target
<1>5. q.to = "unbound" => ~reloads
  BY <1>2, <1>4 DEF Target, WebviewSound, Held
<1>6. q.to = "gone" => q.win \in userClosed
  BY <1>2, <1>4 DEF Target, WebviewSound, Held
<1> HIDE DEF q
<1>7. WebviewTypeOK'
  BY <1>1, <1>2, <1>4 DEF WebviewSound, WebviewTypeOK, facade, bridge, windows
<1>8. Told'
  BY <1>2, <1>5, <1>6 DEF WebviewSound, Held, Told, windows
<1>9. Held'
  BY <1>2, <1>8 DEF WebviewSound, Held, facade, windows
<1> QED
  BY <1>1, <1>2, <1>4, <1>7, <1>9 DEF WebviewSound

LEMMA PublishThrowsKeeps ==
    ASSUME WebviewSound, PublishThrows
    PROVE  WebviewSound' /\ Published(queue') \subseteq Published(queue) /\ posted' = posted
<1>1. queue' \in Seq(Call) /\ Published(queue') \subseteq Published(queue)
  BY DueFacts DEF PublishThrows, WebviewSound
<1> QED
  BY <1>1 DEF PublishThrows, WebviewSound, WebviewTypeOK, Held, Told, facade, bridge, windows

LEMMA WebviewKeeps ==
    ASSUME WebviewSound, WebviewInput \/ WebviewStep
    PROVE  WebviewSound' /\ Published(queue') \subseteq Published(queue) /\ posted' = posted
<1>1. CASE Register
  BY <1>1, RegisterKeeps
<1>2. CASE registerBindings
  BY <1>2, DueFacts DEF registerBindings, WebviewSound, WebviewTypeOK, Held, Told, facade, windows
<1>3. CASE Close
  BY <1>3, CloseKeeps
<1>4. CASE unregisterBindings
  BY <1>4, DueFacts DEF unregisterBindings, WebviewSound, WebviewTypeOK, Held, Told, facade, windows
<1>5. CASE \E c \in {"open", "close", "unregister"} : Request(c, NoMessage)
  BY <1>5, RequestKeeps
<1>6. CASE onReload
  <2>1. handlers' \in Nat
        /\ UNCHANGED <<win, registered, bridge, queue, opened, open, bound, reloads, reloading,
                       userClosed, posted>>
    BY <1>6 DEF onReload, WebviewSound, WebviewTypeOK
  <2>2. listeners' \in [Windows -> Nat] /\ \A w \in Windows : listeners'[w] >= listeners[w]
    <3>1. listeners \in [Windows -> Nat] /\ (win # 0 => win \in Windows)
      BY DEF WebviewSound, WebviewTypeOK, Windows
    <3>2. CASE win = 0
      BY <1>6, <3>1, <3>2 DEF onReload
    <3>3. CASE win # 0
      BY <1>6, <3>1, <3>3 DEF onReload, Listens
    <3> QED
      BY <3>2, <3>3
  <2>3. WebviewTypeOK'
    BY <2>1, <2>2 DEF WebviewSound, WebviewTypeOK, bridge
  <2>4. win \in open /\ reloads => listeners'[win] > 0
    <3>1. win \in open => win \in Windows /\ listeners[win] \in Nat /\ listeners'[win] \in Nat
      BY <2>2 DEF WebviewSound, WebviewTypeOK
    <3> QED
      BY <2>2, <3>1 DEF WebviewSound, Held
  <2>5. Held'
    BY <2>1, <2>4 DEF WebviewSound, Held, Told
  <2> QED
    BY <2>1, <2>3, <2>5 DEF WebviewSound
<1>7. CASE Reload
  BY <1>7, ReloadKeeps
<1>8. CASE UserCloses
  BY <1>8, UserClosesKeeps
<1>9. CASE \E w \in Windows : ReloadEvent(w)
  BY <1>9, ReloadEventKeeps
<1> QED
  BY <1>1, <1>2, <1>3, <1>4, <1>5, <1>6, <1>7, <1>8, <1>9 DEF WebviewInput, WebviewStep

-------------------------------------------------------------------------------
(***************************************************************************)
(* The shell.  What the UI port asks to publish is the code of the daemon  *)
(* of the window, from when that daemon has a peer; and unless its port is *)
(* the stub, that daemon does not come to send before the code was posted. *)
(***************************************************************************)
HasPosted(c) == \E p \in posted : p.msg = c

Asked ==
    /\ Published(queue) \subseteq IF pair[Windowed].at = "idle" THEN {} ELSE {Code(Windowed)}
    /\ pair[Windowed].at \in {"sending", "ok"} => port = "stub" \/ HasPosted(Code(Windowed))

ShellOK ==
    /\ port \in {"window", "stub"}
    /\ shell \in {"off", "starting", "stopping", "exited"} /\ code \in 0 .. 2
    /\ inputs \in 0 .. MaxInputs

Sound == TrayTypeOK /\ PairSound /\ WebviewSound /\ Asked /\ ShellOK

LEMMA PublishedType == ASSUME PairSound, Asked PROVE Published(queue) \subseteq Message
<1>1. Windowed \in Fingerprint /\ Message = Fingerprint \X Fingerprint
  BY DesktopAssumption
<1>2. pair[Windowed].at # "idle" => Code(Windowed) \in Message
  BY <1>1, CodeType DEF PairSound, Paired, Code
<1> QED
  BY <1>2 DEF Asked

LEMMA SameTray == ASSUME UNCHANGED trayVars, TrayTypeOK PROVE TrayTypeOK'
  BY DEF trayVars, TrayTypeOK

LEMMA SamePair ==
    ASSUME UNCHANGED pairVars, PairSound
    PROVE  PairSound' /\ pair' = pair /\ \A k : Code(k)' = Code(k)
  BY DEF pairVars, PairSound, PairTypeOK, Paired, Code

LEMMA SameWebview ==
    ASSUME UNCHANGED webviewVars, WebviewSound
    PROVE  WebviewSound' /\ queue' = queue /\ posted' = posted
  BY DEF webviewVars, facade, bridge, windows, WebviewSound, WebviewTypeOK, Held, Told

\* The window may take a step of its own, if the daemon of the window does not
\* come to a new stage.
LEMMA SameAsked ==
    ASSUME Asked, Published(queue') \subseteq Published(queue), posted' = posted, port' = port,
           pair'[Windowed] = pair[Windowed]
    PROVE  Asked'
<1>1. Code(Windowed)' = Code(Windowed)
  BY DEF Code
<1> QED
  BY <1>1 DEF Asked, HasPosted

LEMMA DeriveAsks ==
    ASSUME Sound, NEW n \in Fingerprint, DeriveAndPresent(n), port' = port
    PROVE  PairSound' /\ WebviewSound' /\ Asked'
<1>1. Derive(n) /\ Windowed \in Fingerprint
  BY DesktopAssumption DEF DeriveAndPresent
<1>2. /\ PairSound' /\ pair[n].at # "idle" /\ pair'[n].at # "idle"
      /\ \A k \in Fingerprint : Code(k)' = Code(k)
      /\ \A k \in Fingerprint : k # n => pair'[k] = pair[k]
  BY <1>1, PairGoes DEF Sound
<1>3. pair'[n].at \in {"presenting", "thrown"}
  BY <1>1, TurnEffect DEF Derive, Sound, PairSound, PairStages, Outcomes
<1>4. CASE n = Windowed /\ port = "window" /\ pair'[n].at = "presenting"
  <2>1. Code(n) \in Message
    BY <1>1, <1>2, CodeType, DesktopAssumption DEF Sound, PairSound, Paired, Code
  <2>2. Request("publish", Code(n))
    BY <1>4 DEF DeriveAndPresent
  <2>3. /\ WebviewSound' /\ posted' = posted
        /\ Published(queue') \subseteq Published(queue) \cup {Code(n)}
    BY <2>1, <2>2, RequestKeeps DEF Sound
  <2>4. Published(queue) \subseteq {Code(Windowed)}
    BY <1>2, <1>4 DEF Sound, Asked
  <2> QED
    BY <1>2, <1>4, <2>3, <2>4 DEF Asked
<1>5. CASE ~(n = Windowed /\ port = "window" /\ pair'[n].at = "presenting")
  <2>1. WebviewSound' /\ queue' = queue /\ posted' = posted
    BY <1>5, SameWebview DEF DeriveAndPresent, Sound
  <2>2. CASE n = Windowed
    BY <1>1, <1>2, <1>3, <2>1, <2>2 DEF Sound, Asked
  <2>3. CASE n # Windowed
    BY <1>1, <1>2, <2>1, <2>3, SameAsked DEF Sound
  <2> QED
    BY <1>2, <2>1, <2>2, <2>3
<1> QED
  BY <1>4, <1>5

LEMMA PublishGives ==
    ASSUME Sound, PublishDue(Windowed), port' = port
    PROVE  PairSound' /\ WebviewSound' /\ Asked'
<1>1. Windowed \in Fingerprint
  BY DesktopAssumption
<1>2. CASE Publish /\ Presented(Windowed)
  <2>1. /\ PairSound' /\ pair[Windowed].at # "idle" /\ pair'[Windowed].at # "idle"
        /\ Code(Windowed)' = Code(Windowed)
    BY <1>1, <1>2, PairGoes DEF Sound
  <2>2. /\ WebviewSound' /\ Published(queue') \subseteq Published(queue)
        /\ \E p \in posted' : p.msg = Head(queue).msg
        /\ Head(queue).msg \in Published(queue)
    BY <1>2, PublishedType, PublishKeeps DEF Sound
  <2>3. Published(queue) \subseteq {Code(Windowed)} /\ Head(queue).msg = Code(Windowed)
    BY <2>1, <2>2 DEF Sound, Asked
  <2>4. Asked'
    BY <2>1, <2>2, <2>3 DEF Asked, HasPosted
  <2> QED
    BY <2>1, <2>2, <2>4
<1>3. CASE PublishThrows /\ NotPresented(Windowed)
  <2>1. /\ PairSound' /\ pair[Windowed].at # "idle" /\ pair'[Windowed].at # "idle"
        /\ Code(Windowed)' = Code(Windowed)
    BY <1>1, <1>3, PairGoes DEF Sound
  <2>2. WebviewSound' /\ Published(queue') \subseteq Published(queue)
    BY <1>3, PublishThrowsKeeps DEF Sound
  <2>3. pair'[Windowed].at = "thrown"
    BY <1>1, <1>3, TurnEffect DEF NotPresented, Sound, PairSound, PairStages, Outcomes
  <2>4. Asked'
    BY <2>1, <2>2, <2>3 DEF Sound, Asked
  <2> QED
    BY <2>1, <2>2, <2>4
<1> QED
  BY <1>2, <1>3 DEF PublishDue, presentPairingCode

\* A daemon goes on without the window.
LEMMA PairAlone ==
    ASSUME Sound, NEW n \in Fingerprint, UNCHANGED webviewVars, port' = port,
           \/ LookUp(n) \/ Send(n) \/ StubPresents(n)
           \/ n # Windowed /\ Presented(n)
    PROVE  PairSound' /\ WebviewSound' /\ Asked'
<1>1. WebviewSound' /\ queue' = queue /\ posted' = posted
  BY SameWebview DEF Sound
<1>2. /\ PairSound' /\ pair[n].at # "idle" /\ pair'[n].at # "idle"
      /\ \A k \in Fingerprint : Code(k)' = Code(k)
      /\ \A k \in Fingerprint : k # n => pair'[k] = pair[k]
      /\ pair'[n].at = "sending" => Presented(n) \/ StubPresents(n)
      /\ pair'[n].at = "ok" => pair[n].at = "sending"
  BY PairGoes DEF Sound
<1>3. CASE n = Windowed
  <2>1. pair'[n].at = "sending" => port = "stub"
    BY <1>2, <1>3 DEF LookUp, Send, Presented, StubPresents
  <2> QED
    BY <1>1, <1>2, <1>3, <2>1 DEF Sound, Asked, HasPosted
<1>4. CASE n # Windowed
  BY <1>1, <1>2, <1>4, SameAsked, DesktopAssumption DEF Sound
<1> QED
  BY <1>2, <1>1, <1>3, <1>4

LEMMA InputSound == ASSUME Sound, Input PROVE Sound'
<1>1. ShellOK' /\ port' = port
  BY DesktopAssumption DEF Input, Sound, ShellOK
<1>2. CASE TrayInput /\ UNCHANGED <<webviewVars, pairVars>>
  BY <1>1, <1>2, TrayKeeps, SamePair, SameWebview, SameAsked DEF Sound
<1>3. CASE WebviewInput /\ UNCHANGED <<trayVars, pairVars>>
  BY <1>1, <1>3, WebviewKeeps, SameTray, SamePair, SameAsked DEF Sound
<1>4. CASE PairInput /\ UNCHANGED <<trayVars, webviewVars>>
  <2>1. TrayTypeOK' /\ WebviewSound' /\ queue' = queue /\ posted' = posted
    BY <1>4, SameTray, SameWebview DEF Sound
  <2>2. /\ PairSound' /\ Windowed \in Fingerprint
        /\ \A k \in Fingerprint : pair[k].at # "idle" => pair'[k] = pair[k]
        /\ \A k \in Fingerprint : pair'[k].at \in {"looking", "not-found"} \/ pair'[k] = pair[k]
    BY <1>4, PairStarts, DesktopAssumption DEF Sound
  <2>3. CASE pair'[Windowed] = pair[Windowed]
    BY <1>1, <2>1, <2>2, <2>3, SameAsked DEF Sound
  <2>4. CASE pair[Windowed].at = "idle" /\ pair'[Windowed].at \in {"looking", "not-found"}
    BY <1>1, <2>1, <2>2, <2>4 DEF Sound, Asked
  <2> QED
    BY <2>2, <2>3, <2>4
<1> QED
  BY <1>2, <1>3, <1>4 DEF Input

LEMMA FollowSound == ASSUME Sound, Follow PROVE Sound'
<1>1. ShellOK' /\ port' = port
  BY DEF Follow, Sound, ShellOK
<1>2. CASE TrayStep /\ UNCHANGED <<webviewVars, pairVars>>
  BY <1>1, <1>2, TrayKeeps, SamePair, SameWebview, SameAsked DEF Sound
<1>3. CASE WebviewStep /\ UNCHANGED <<trayVars, pairVars>>
  BY <1>1, <1>3, WebviewKeeps, SameTray, SamePair, SameAsked DEF Sound
<1>4. ASSUME NEW n \in Fingerprint,
             \/ (LookUp(n) \/ Send(n)) /\ UNCHANGED <<trayVars, webviewVars>>
             \/ /\ \/ DeriveAndPresent(n) \/ PublishDue(n)
                   \/ StubPresents(n) \/ ConsolePresents(n)
                /\ UNCHANGED trayVars
      PROVE  Sound'
  <2>1. TrayTypeOK'
    BY <1>4, SameTray DEF Sound
  <2>2. CASE /\ UNCHANGED webviewVars
             /\ \/ LookUp(n) \/ Send(n) \/ StubPresents(n)
                \/ n # Windowed /\ Presented(n)
    BY <1>1, <2>1, <2>2, PairAlone DEF Sound
  <2>3. CASE DeriveAndPresent(n)
    BY <1>1, <2>1, <2>3, DeriveAsks DEF Sound
  <2>4. CASE PublishDue(n)
    <3>1. n = Windowed
      BY <2>4 DEF PublishDue
    <3> QED
      BY <1>1, <2>1, <2>4, <3>1, PublishGives DEF Sound
  <2>5. StubPresents(n) => UNCHANGED webviewVars
    BY DEF StubPresents
  <2> QED
    BY <1>4, <2>2, <2>3, <2>4, <2>5 DEF ConsolePresents
<1> QED
  BY <1>2, <1>3, <1>4 DEF Follow

LEMMA NextSound == ASSUME Sound, [Next]_vars PROVE Sound'
<1>1. CASE UNCHANGED vars
  <2>1. UNCHANGED trayVars /\ UNCHANGED webviewVars /\ UNCHANGED pairVars
        /\ UNCHANGED <<port, shell, code, inputs>>
    BY <1>1 DEF vars
  <2> QED
    BY <2>1, SameTray, SamePair, SameWebview, SameAsked DEF Sound, ShellOK
<1>2. CASE Launch \/ Stop \/ Exit
  <2>1. UNCHANGED trayVars /\ UNCHANGED webviewVars /\ UNCHANGED pairVars /\ port' = port
    BY <1>2 DEF Launch, Stop, Exit, Machines
  <2>2. ShellOK'
    BY <1>2, <2>1 DEF Launch, Stop, Exit, Sound, ShellOK
  <2> QED
    BY <2>1, <2>2, SameTray, SamePair, SameWebview, SameAsked DEF Sound
<1> QED
  BY <1>1, <1>2, InputSound, FollowSound DEF Next

LEMMA InitSound == Init => Sound
<1> SUFFICES ASSUME Init PROVE Sound
  OBVIOUS
<1>1. TrayTypeOK
  <2>1. status \in Status /\ pairingError = FALSE
        /\ menu = [shows |-> "items", error |-> FALSE, at |-> status] /\ requests = 0 /\ timers = 0
    BY TrayAssumption DEF Init, TrayInit, Status
  <2>2. menu \in Menu
    BY <2>1 DEF Menu
  <2> QED
    BY <2>1, <2>2 DEF TrayTypeOK
<1>2. PairSound
  BY DEF Init, PairInit, PairSound, PairTypeOK, Paired, NoPair, PairStages
<1>3. WebviewSound
  <2>1. queue \in Seq(Call)
    BY DEF Init, WebviewInit
  <2>2. MaxWindows \in Nat /\ win = 0 /\ handlers = 0 /\ opened = 0 /\ registered = FALSE
        /\ open = {} /\ bound = {} /\ posted = {} /\ bridged = FALSE /\ exposed = "absent"
        /\ userClosed = {} /\ reloads \in BOOLEAN
    BY WebviewAssumption DEF Init, WebviewInit
  <2>3. {listeners, reloading} \subseteq [Windows -> Nat]
    BY DEF Init, WebviewInit
  <2>4. win \in 0 .. MaxWindows /\ handlers \in Nat /\ opened \in 0 .. MaxWindows
    BY <2>2
  <2>5. /\ registered \in BOOLEAN /\ bridged \in BOOLEAN
        /\ exposed \in {"absent", "invoke", "null"} /\ open \subseteq Windows
        /\ bound \subseteq open /\ userClosed \subseteq Windows /\ posted \subseteq Post
    BY <2>2, Zenon
  <2>6. Held
    BY <2>2 DEF Held, Told
  <2> QED
    BY <2>1, <2>2, <2>3, <2>4, <2>5, <2>6 DEF WebviewSound, WebviewTypeOK
<1>4. Asked
  BY DesktopAssumption DEF Init, PairInit, WebviewInit, Asked, NoPair, Published
<1>5. ShellOK
  BY DesktopAssumption DEF Init, ShellOK
<1> QED
  BY <1>1, <1>2, <1>3, <1>4, <1>5 DEF Sound

LEMMA SoundInvariant == Spec => []Sound
  BY InitSound, NextSound, PTL DEF Spec

(***************************************************************************)
(* Every variable keeps its type.                                          *)
(***************************************************************************)
THEOREM TypeCorrect == Spec => []TypeOK
<1>1. Sound => TypeOK
  BY DEF Sound, PairSound, WebviewSound, ShellOK, TypeOK
<1> QED
  BY SoundInvariant, <1>1, PTL

(***************************************************************************)
(* pairWith and presentPairingCode: a peer is asked only after the code    *)
(* that it derives was logged or posted on this side, whatever becomes of  *)
(* the window meanwhile, unless the UI port is the stub.                   *)
(***************************************************************************)
THEOREM PeersAreAskedAfterTheCode == Spec => []AskedAfterCode
<1>1. Sound => AskedAfterCode
  <2> SUFFICES ASSUME Sound, NEW n \in Fingerprint, NEW m \in sent[n]
               PROVE  Given(n, derivePairingCode(m, n))
    BY DEF AskedAfterCode
  <2>1. pair[n].at = "ok" /\ m = pair[n].peer /\ m \in Fingerprint
    BY DEF Sound, PairSound, PairTypeOK, Paired
  <2>2. derivePairingCode(m, n) = Code(n)
    BY <2>1, CodeType DEF Code
  <2>3. CASE n = Windowed
    BY <2>1, <2>2, <2>3 DEF Sound, Asked, HasPosted, Given
  <2>4. CASE n # Windowed
    BY <2>1, <2>2, <2>4 DEF Sound, PairSound, Paired, Given
  <2> QED
    BY <2>3, <2>4
<1> QED
  BY SoundInvariant, <1>1, PTL

(***************************************************************************)
(* register, publish, close and the reload listeners: the only window that *)
(* is open is the one the facade holds, and what is posted goes to its     *)
(* page with its binding, but for a reload whose event is still to come or *)
(* does not exist, and a window that its user has closed.                  *)
(***************************************************************************)
THEOREM WindowIsHeld == Spec => []WindowHeld
<1>1. Sound => WindowHeld
  BY DEF Sound, WebviewSound, Held, Told, WindowHeld
<1> QED
  BY SoundInvariant, <1>1, PTL
===============================================================================
