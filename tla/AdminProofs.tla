------------------------------ MODULE AdminProofs ------------------------------
(***************************************************************************)
(* Proofs about Admin for any number of daemons, invocations and devices:  *)
(* its type invariant, that `forget' says so only of a device that was     *)
(* forgotten, that a list is coherent, and that a daemon that is up serves *)
(* every command that needs nothing but it.                                *)
(***************************************************************************)
EXTENDS Admin, TLAPS

ClientState == [at : {"idle", "reading", "connecting", "waiting", "done"},
                kind : Commands, dev : Device \cup {None},
                tries : 0 .. Retries - 1, to : Addresses \cup {NoFile}, exit : 0 .. 2]

CallState == [with : Daemon \cup {None},
              at : {"none", "queued", "handling", "listing", "saving", "replying", "answered",
                    "closed"},
              set : SUBSET Device, ok : BOOLEAN, view : View]

HistState == [kept : SUBSET Device, failed : BOOLEAN, up : SUBSET Daemon]

\* TypeOK but for the history that Watch adds to a step.
StepOK ==
    /\ os \in {"posix", "windows"}
    /\ pidFile \in Daemon \cup {None} /\ seen \in [Daemon -> Daemon \cup {None}]
    /\ endpoint \in Addresses \cup {NoFile, EmptyFile}
    /\ socket \in Daemon \cup {None}
    /\ trusted \subseteq Device
    /\ stage \in [Daemon -> Stages]
    /\ client \in [Client -> ClientState]
    /\ call \in [Client -> CallState]
    /\ stray \in BOOLEAN /\ raced \in BOOLEAN

LEMMA TypeParts == TypeOK <=> StepOK /\ hist \in [Client -> HistState]
  BY DEF TypeOK, StepOK, ClientState, CallState, HistState

(***************************************************************************)
(* What the parts of an action do.                                         *)
(***************************************************************************)
LEMMA CutEffect ==
    ASSUME StepOK, NEW d \in Daemon, NEW lost, Cut(d, lost)
    PROVE  /\ call' \in [Client -> CallState]
           /\ \A c \in Client :
                 \/ call'[c] = call[c]
                 \/ call[c].with = d /\ call[c].at \in lost /\ call'[c].at = "closed"
<1> DEFINE cut == [NoCall EXCEPT !.with = d, !.at = "closed"]
<1>1. cut \in CallState /\ cut.at = "closed"
  BY DEF NoCall, CallState, View, Blank
<1>2. call' = [c \in Client |-> IF call[c].with = d /\ call[c].at \in lost THEN cut ELSE call[c]]
  BY DEF Cut
<1> HIDE DEF cut
<1> QED
  BY <1>1, <1>2 DEF StepOK

LEMMA AnswerEffect ==
    ASSUME StepOK, NEW c \in Client, NEW ok \in BOOLEAN, NEW v \in View, Answer(c, ok, v)
    PROVE  /\ call' \in [Client -> CallState]
           /\ \A b \in Client : b # c => call'[b] = call[b]
           /\ call'[c] = [call[c] EXCEPT !.at = "replying", !.set = {}, !.ok = ok, !.view = v]
           /\ call'[c].with = call[c].with /\ call'[c].at = "replying"
           /\ call'[c].ok = ok /\ call'[c].view = v
<1> DEFINE a == [call[c] EXCEPT !.at = "replying", !.set = {}, !.ok = ok, !.view = v]
<1>1. /\ a \in CallState /\ a.with = call[c].with /\ a.at = "replying"
      /\ a.ok = ok /\ a.view = v
  BY DEF StepOK, CallState
<1>2. call' = [call EXCEPT ![c] = a]
  BY DEF Answer
<1> HIDE DEF a
<1>3. /\ call' \in [Client -> CallState] /\ call'[c] = a
      /\ \A b \in Client : b # c => call'[b] = call[b]
  BY <1>1, <1>2 DEF StepOK
<1> QED
  BY <1>1, <1>3 DEF a

LEMMA IdleType ==
    /\ Idle \in ClientState /\ Idle.at = "idle" /\ NoCall \in CallState /\ NoCall.at = "none"
    /\ NoHist \in HistState /\ Blank \in View
<1>1. 0 \in 0 .. Retries - 1
  BY DEF Retries
<1> QED
  BY <1>1 DEF Idle, ClientState, Commands, NoCall, CallState, NoHist, HistState, Blank, View

LEMMA DoneEffect ==
    ASSUME StepOK, NEW c \in Client, NEW code \in 0 .. 2, Done(c, code)
    PROVE  /\ client' \in [Client -> ClientState]
           /\ client'[c].at = "done" /\ client'[c].exit = code
           /\ \A b \in Client : b # c => client'[b] = client[b]
<1> DEFINE done == [Idle EXCEPT !.at = "done", !.exit = code]
<1>1. done \in ClientState /\ done.at = "done" /\ done.exit = code
  <2>1. code \in 0 .. 2
    OBVIOUS
  <2> HIDE DEF done
  <2>2. done = [Idle EXCEPT !.at = "done", !.exit = code]
    BY DEF done
  <2> QED
    BY <2>1, <2>2, IdleType DEF ClientState
<1>2. client' = [client EXCEPT ![c] = done]
  BY DEF Done
<1> HIDE DEF done
<1> QED
  BY <1>1, <1>2 DEF StepOK

LEMMA AddressType == \A d \in Daemon : Address(d) \in Addresses
  BY DEF Addresses

LEMMA SameAddresses == os' = os => Addresses' = Addresses /\ \A d : Address(d)' = Address(d)
  BY DEF Addresses, Address

(***************************************************************************)
(* Types.                                                                  *)
(***************************************************************************)
LEMMA DaemonType ==
    ASSUME StepOK, NEW d \in Daemon,
           \/ Acquire(d) \/ Start(d) \/ Stop(d) \/ Shutdown(d) \/ TimeOut(d) \/ Crash(d)
    PROVE  StepOK' /\ os' = os
<1> USE SameAddresses
<1>1. CASE Acquire(d)
  BY <1>1 DEF Acquire, ReadPid, Probe, WritePid, Goto, StepOK, Stages, ClientState,
       files, lock, oddities
<1>2. CASE Start(d)
  BY <1>2, AddressType, CutEffect DEF Start, Dies, StartNetwork, RemoveStaleSocket, Listen, OpenEndpoint,
       WriteEndpoint, Goto, StepOK, Stages, ClientState, files, lock, oddities
<1>3. CASE Stop(d) \/ TimeOut(d) \/ Crash(d)
  BY <1>3, CutEffect DEF Stop, TimeOut, Crash, Dies, Goto, StepOK, Stages, ClientState, files, lock, oddities
<1>4. CASE CloseNetwork(d) \/ ReleaseLock(d)
  BY <1>4 DEF CloseNetwork, ReleaseLock, Goto, StepOK, Stages, ClientState, files, lock, oddities
<1>5. CASE RemoveEndpoint(d)
  BY <1>5, CutEffect DEF RemoveEndpoint, Dies, Goto, StepOK, Stages, ClientState, lock
<1> QED
  BY <1>1, <1>2, <1>3, <1>4, <1>5 DEF Shutdown

LEMMA ClientType ==
    ASSUME StepOK, NEW c \in Client, Invoke(c) \/ Proceed(c)
    PROVE  StepOK' /\ os' = os
<1>1. os' = os /\ Addresses' = Addresses
  BY SameAddresses DEF Invoke, Proceed, ReadEndpoint, Connect, Receive
<1> SUFFICES client' \in [Client -> ClientState] /\ call' \in [Client -> CallState]
  BY <1>1 DEF Invoke, Proceed, ReadEndpoint, Connect, Receive, StepOK, files, lock, oddities, ClientState
<1>2. ASSUME NEW k \in Typed[c], NEW x \in Device \cup {None},
             client' = [client EXCEPT ![c] = [Idle EXCEPT !.at = "reading", !.kind = k, !.dev = x]]
      PROVE  client' \in [Client -> ClientState]
  <2>1. [Idle EXCEPT !.at = "reading", !.kind = k, !.dev = x] \in ClientState
    <3>1. k \in Commands
      BY AdminAssumption
    <3> QED
      BY <3>1, IdleType DEF ClientState
  <2> QED
    BY <1>2, <2>1 DEF StepOK
<1>3. CASE Invoke(c)
  <2>1. call' \in [Client -> CallState]
    BY <1>3 DEF Invoke, StepOK
  <2>2. Done(c, 0) \/ Done(c, 2) => client' \in [Client -> ClientState]
    BY DoneEffect
  <2>3. PICK k \in Typed[c] :
           \/ Done(c, 0) \/ Done(c, 2)
           \/ \E x \in IF NeedsDevice(k) THEN Device \cup {None} ELSE {None} :
                 client' = [client EXCEPT ![c] = [Idle EXCEPT !.at = "reading", !.kind = k, !.dev = x]]
    BY <1>3 DEF Invoke
  <2>4. \A x \in IF NeedsDevice(k) THEN Device \cup {None} ELSE {None} : x \in Device \cup {None}
    OBVIOUS
  <2> QED
    BY <1>2, <2>1, <2>2, <2>3, <2>4
<1>4. CASE ReadEndpoint(c)
  <2>1. CASE Done(c, 0) \/ Done(c, 2)
    BY <1>4, <2>1, DoneEffect DEF ReadEndpoint, StepOK
  <2>2. CASE client' = [client EXCEPT ![c].tries = @ + 1] /\ client[c].tries + 1 # Retries
    <3>1. client[c].tries + 1 \in 0 .. Retries - 1
      BY <2>2 DEF StepOK, ClientState, Retries
    <3>2. [client[c] EXCEPT !.tries = @ + 1] \in ClientState
      BY <3>1 DEF StepOK, ClientState
    <3> QED
      BY <1>4, <2>2, <3>2 DEF ReadEndpoint, StepOK
  <2>3. CASE /\ client' = [client EXCEPT ![c].to = endpoint, ![c].at = "connecting"]
             /\ endpoint \notin {NoFile, EmptyFile}
    <3>1. [client[c] EXCEPT !.to = endpoint, !.at = "connecting"] \in ClientState
      BY <2>3 DEF StepOK, ClientState
    <3> QED
      BY <1>4, <2>3, <3>1 DEF ReadEndpoint, StepOK
  <2> QED
    BY <1>4, <2>1, <2>2, <2>3 DEF ReadEndpoint
<1>5. CASE Connect(c)
  <2>1. CASE Listener(client[c].to) = {}
    BY <1>5, <2>1, DoneEffect DEF Connect, StepOK
  <2>2. CASE Listener(client[c].to) # {}
    <3>1. PICK d \in Daemon :
             call' = [call EXCEPT ![c] = [NoCall EXCEPT !.with = d, !.at = "queued"]]
      BY <1>5, <2>2 DEF Connect, Listener
    <3>2. [NoCall EXCEPT !.with = d, !.at = "queued"] \in CallState
      BY IdleType DEF NoCall, CallState
    <3>3. client' = [client EXCEPT ![c].at = "waiting"]
      BY <1>5, <2>2 DEF Connect
    <3>4. [client[c] EXCEPT !.at = "waiting"] \in ClientState
      BY DEF StepOK, ClientState
    <3> QED
      BY <3>1, <3>2, <3>3, <3>4 DEF StepOK
  <2> QED
    BY <2>1, <2>2
<1>6. CASE Receive(c)
  <2>1. client' \in [Client -> ClientState]
    BY <1>6, DoneEffect DEF Receive
  <2> QED
    BY <1>6, <2>1, IdleType DEF Receive, StepOK
<1> QED
  BY <1>3, <1>4, <1>5, <1>6 DEF Proceed

LEMMA ViewType ==
    ASSUME NEW stored \in SUBSET Device, NEW visible \in SUBSET Device
    PROVE  /\ DeviceListView(stored, visible) \in View
           /\ DeviceListView(stored, visible).paired = stored
           /\ DeviceListView(stored, visible).available = visible \ stored
  BY DEF DeviceListView, View

LEMMA ServeType ==
    ASSUME StepOK, NEW c \in Client, Serve(c)
    PROVE  StepOK' /\ os' = os
<1>1. os' = os /\ Addresses' = Addresses
  BY SameAddresses DEF Serve, Accept, Dispatch, ListDevices, ListEnd, ForgetLoad, ForgetSave, Respond
<1>2. call[c] \in CallState /\ call[c].set \subseteq Device /\ trusted \subseteq Device
  BY DEF StepOK, CallState
<1>3. call' \in [Client -> CallState] /\ trusted' \subseteq Device
  <2>1. CASE Accept(c)
    <3>1. [call[c] EXCEPT !.at = "handling"] \in CallState
      BY <1>2 DEF CallState
    <3> QED
      BY <2>1, <3>1 DEF Accept, StepOK
  <2>2. CASE Dispatch(c)
    BY <2>2, IdleType, AnswerEffect DEF Dispatch, StepOK
  <2>3. CASE ListDevices(c)
    <3>1. PICK visible \in SUBSET Device :
             call' = [call EXCEPT ![c].at = "listing", ![c].set = visible]
      BY <2>3 DEF ListDevices
    <3>2. [call[c] EXCEPT !.at = "listing", !.set = visible] \in CallState
      BY <1>2 DEF CallState
    <3> QED
      BY <2>3, <3>1, <3>2 DEF ListDevices, StepOK
  <2>4. CASE ListEnd(c)
    <3>1. PICK stored \in {trusted, {}} : Answer(c, TRUE, DeviceListView(stored, call[c].set))
      BY <2>4 DEF ListEnd
    <3>2. DeviceListView(stored, call[c].set) \in View
      BY <1>2, <3>1, ViewType
    <3> QED
      BY <2>4, <3>1, <3>2, AnswerEffect DEF ListEnd, StepOK
  <2>5. CASE ForgetLoad(c)
    <3>1. [call[c] EXCEPT !.at = "saving", !.set = trusted \ {client[c].dev}] \in CallState
      BY <1>2 DEF CallState
    <3>2. \A ok \in BOOLEAN : Answer(c, ok, Blank) => call' \in [Client -> CallState]
      BY IdleType, AnswerEffect
    <3> QED
      BY <2>5, <3>1, <3>2 DEF ForgetLoad, StepOK
  <2>6. CASE ForgetSave(c)
    <3>1. \A ok \in BOOLEAN : Answer(c, ok, Blank) => call' \in [Client -> CallState]
      BY IdleType, AnswerEffect
    <3> QED
      BY <1>2, <2>6, <3>1 DEF ForgetSave, StepOK
  <2>7. CASE Respond(c)
    <3>1. [call[c] EXCEPT !.at = "answered"] \in CallState
      BY <1>2 DEF CallState
    <3> QED
      BY <2>7, <3>1 DEF Respond, StepOK
  <2> QED
    BY <2>1, <2>2, <2>3, <2>4, <2>5, <2>6, <2>7 DEF Serve
<1>4. UNCHANGED <<files, stage, client, oddities>>
  BY DEF Serve, Accept, Dispatch, ListDevices, ListEnd, ForgetLoad, ForgetSave, Respond
<1> QED
  BY <1>1, <1>3, <1>4 DEF StepOK, files, lock, oddities, ClientState

LEMMA StepType == ASSUME StepOK, Step PROVE StepOK' /\ os' = os
  BY DaemonType, ClientType, ServeType DEF Step

LEMMA WatchType ==
    ASSUME TypeOK, StepOK', Watch PROVE hist' \in [Client -> HistState]
<1>1. ASSUME NEW c \in Client PROVE hist[c] \in HistState /\ trusted \subseteq Device
  BY TypeParts DEF StepOK
<1>2. NoHist \in HistState
  BY DEF NoHist, HistState
<1>3. trusted \subseteq Device /\ trusted' \subseteq Device
  BY TypeParts DEF StepOK
<1> QED
  BY <1>1, <1>2, <1>3 DEF Watch, HistState

(***************************************************************************)
(* Every variable keeps its type.                                          *)
(***************************************************************************)
THEOREM TypeCorrect == Spec => []TypeOK
<1>1. Init => TypeOK
  <2>1. Init => StepOK /\ hist \in [Client -> HistState]
    BY IdleType DEF Init, StepOK, Stages
  <2> QED
    BY <2>1, TypeParts
<1>2. TypeOK /\ [Next]_vars => TypeOK'
  <2>1. TypeOK /\ UNCHANGED vars => TypeOK'
    BY DEF TypeOK, vars, files, lock, oddities, Addresses, Address
  <2>2. TypeOK /\ Next => TypeOK'
    <3> SUFFICES ASSUME TypeOK, Next PROVE TypeOK'
      OBVIOUS
    <3>1. StepOK' /\ hist' \in [Client -> HistState]
      BY TypeParts, StepType, WatchType DEF Next
    <3> QED
      BY <3>1 DEF TypeOK, StepOK, ClientState, CallState, HistState
  <2> QED
    BY <2>1, <2>2
<1> QED
  BY <1>1, <1>2, PTL DEF Spec

-------------------------------------------------------------------------------
(***************************************************************************)
(* Connections.  Only an invocation that waits has one; a device that a    *)
(* handler is about to write the registry without is not in what it        *)
(* writes.                                                                 *)
(***************************************************************************)
Calls ==
    \A c \in Client :
        /\ call[c].at # "none" => client[c].at = "waiting"
        /\ call[c].at = "listing" => client[c].kind = "list"
        /\ call[c].at = "saving" => client[c].kind = "forget" /\ client[c].dev \notin call[c].set

\* What a step of a daemon does to the invocations.
LEMMA DaemonSteps ==
    ASSUME StepOK, NEW d \in Daemon,
           \/ Acquire(d) \/ Start(d) \/ Stop(d) \/ Shutdown(d) \/ TimeOut(d) \/ Crash(d)
    PROVE  /\ client' = client /\ trusted' = trusted
           /\ \A c \in Client :
                 \/ call'[c] = call[c]
                 \/ call[c].with = d /\ call[c].at # "none" /\ call'[c].at = "closed"
                    /\ (stage[d] = "up" => stage'[d] # "up")
<1>1. CASE Acquire(d)
  BY <1>1 DEF Acquire, ReadPid, Probe, WritePid
<1>2. CASE Start(d) /\ call' = call
  BY <1>2 DEF Start, StartNetwork, RemoveStaleSocket, Listen, OpenEndpoint, WriteEndpoint
<1>5. CASE Start(d) /\ Dies(d)
  <2>1. stage'[d] # "up" /\ client' = client /\ trusted' = trusted
    BY <1>5 DEF Start, StartNetwork, RemoveStaleSocket, Listen, OpenEndpoint, WriteEndpoint,
         Dies, Goto, StepOK
  <2> QED
    BY <1>5, <2>1, CutEffect DEF Dies
<1>6. Start(d) => call' = call \/ Dies(d)
  BY DEF Start, StartNetwork, RemoveStaleSocket, Listen, OpenEndpoint, WriteEndpoint
<1>3. CASE Stop(d) \/ TimeOut(d) \/ Crash(d) \/ RemoveEndpoint(d)
  <2>1. stage'[d] # "up" /\ client' = client /\ trusted' = trusted
    BY <1>3 DEF Stop, TimeOut, Crash, RemoveEndpoint, Dies, Goto, StepOK
  <2>2. Cut(d, {"queued"}) \/ Cut(d, {"queued", "handling", "listing", "saving", "replying"})
    BY <1>3 DEF Stop, TimeOut, Crash, RemoveEndpoint, Dies
  <2> QED
    BY <2>1, <2>2, CutEffect
<1>4. CASE CloseNetwork(d) \/ ReleaseLock(d)
  BY <1>4 DEF CloseNetwork, ReleaseLock
<1> QED
  BY <1>1, <1>2, <1>3, <1>4, <1>5, <1>6 DEF Shutdown

\* What a step of an invocation does.
LEMMA ClientSteps ==
    ASSUME StepOK, NEW c \in Client, Invoke(c) \/ Proceed(c)
    PROVE  /\ UNCHANGED <<os, files, trusted, stage, oddities>>
           /\ \A b \in Client : b # c => client'[b] = client[b] /\ call'[b] = call[b]
           /\ \/ /\ client[c].at = "idle" /\ call'[c] = call[c]
                 /\ client'[c].at \in {"reading", "done"}
              \/ /\ client[c].at = "reading" /\ call'[c] = call[c]
                 /\ client'[c].at \in {"reading", "connecting", "done"}
              \/ /\ client[c].at = "connecting" /\ client'[c].at = "done" /\ call'[c] = call[c]
              \/ /\ client[c].at = "connecting" /\ client'[c].at = "waiting"
                 /\ call'[c].at = "queued"
              \/ /\ client[c].at = "waiting" /\ client'[c].at = "done"
                 /\ call'[c].at = "none"
<1>1. UNCHANGED <<os, files, trusted, stage, oddities>>
  BY DEF Invoke, Proceed, ReadEndpoint, Connect, Receive
<1>2. CASE Invoke(c)
  <2>1. call' = call /\ client[c].at = "idle"
    BY <1>2 DEF Invoke
  <2>2. Done(c, 0) \/ Done(c, 2) => /\ client'[c].at = "done"
                                   /\ \A b \in Client : b # c => client'[b] = client[b]
    BY DoneEffect
  <2>3. \/ Done(c, 0) \/ Done(c, 2)
        \/ \E k, x : client' = [client EXCEPT ![c] =
                                  [Idle EXCEPT !.at = "reading", !.kind = k, !.dev = x]]
    BY <1>2 DEF Invoke
  <2>4. ASSUME NEW k, NEW x,
               client' = [client EXCEPT ![c] = [Idle EXCEPT !.at = "reading", !.kind = k, !.dev = x]]
        PROVE  client'[c].at = "reading" /\ \A b \in Client : b # c => client'[b] = client[b]
    BY <2>4 DEF Idle, StepOK
  <2> QED
    BY <1>1, <2>1, <2>2, <2>3, <2>4
<1>3. CASE ReadEndpoint(c)
  <2>1. call' = call /\ client[c].at = "reading"
    BY <1>3 DEF ReadEndpoint
  <2>2. Done(c, 0) \/ Done(c, 2) => /\ client'[c].at = "done"
                                   /\ \A b \in Client : b # c => client'[b] = client[b]
    BY DoneEffect
  <2>3. ~(Done(c, 0) \/ Done(c, 2)) =>
                       /\ client'[c].at \in {"reading", "connecting"}
                       /\ \A b \in Client : b # c => client'[b] = client[b]
    BY <1>3, <2>1 DEF ReadEndpoint, StepOK, ClientState
  <2> QED
    BY <1>1, <2>1, <2>2, <2>3
<1>4. CASE Connect(c)
  <2>1. client[c].at = "connecting"
    BY <1>4 DEF Connect
  <2>2. CASE Done(c, 1) /\ UNCHANGED call
    <3>1. client'[c].at = "done" /\ \A b \in Client : b # c => client'[b] = client[b]
      BY <2>2, DoneEffect
    <3> QED
      BY <1>1, <2>1, <2>2, <3>1
  <2>3. ASSUME NEW d \in Daemon,
               call' = [call EXCEPT ![c] = [NoCall EXCEPT !.with = d, !.at = "queued"]],
               client' = [client EXCEPT ![c].at = "waiting"]
        PROVE  /\ client'[c].at = "waiting" /\ call'[c].at = "queued"
               /\ \A b \in Client : b # c => client'[b] = client[b] /\ call'[b] = call[b]
    BY <2>3 DEF StepOK, ClientState, NoCall
  <2> QED
    BY <1>1, <1>4, <2>1, <2>2, <2>3 DEF Connect, Listener
<1>5. CASE Receive(c)
  <2>1. /\ client[c].at = "waiting" /\ client'[c].at = "done"
        /\ \A b \in Client : b # c => client'[b] = client[b]
    BY <1>5, DoneEffect DEF Receive
  <2>2. call'[c].at = "none" /\ \A b \in Client : b # c => call'[b] = call[b]
    BY <1>5, IdleType DEF Receive, StepOK
  <2> QED
    BY <1>1, <2>1, <2>2
<1> QED
  BY <1>2, <1>3, <1>4, <1>5 DEF Proceed

\* What a step of a handler does.
LEMMA ServeSteps ==
    ASSUME StepOK, NEW c \in Client, Serve(c)
    PROVE  /\ client' = client /\ UNCHANGED <<os, files, stage, oddities>>
           /\ \A b \in Client : b # c => call'[b] = call[b]
           /\ call[c].at \in {"queued", "handling", "listing", "saving", "replying"}
           /\ call'[c].with = call[c].with
           /\ \/ call'[c].at = "handling"
              \/ call'[c].at = "listing" /\ client[c].kind = "list"
              \/ /\ call'[c].at = "saving" /\ client[c].kind = "forget"
                 /\ client[c].dev \notin call'[c].set
              \/ call'[c].at = "replying"
              \/ call[c].at = "replying" /\ call' = [call EXCEPT ![c].at = "answered"]
                 /\ call'[c].at = "answered"
<1>1. client' = client /\ UNCHANGED <<os, files, stage, oddities>>
  BY DEF Serve, Accept, Dispatch, ListDevices, ListEnd, ForgetLoad, ForgetSave, Respond
<1>2. call[c].at \in {"queued", "handling", "listing", "saving", "replying"}
  BY DEF Serve, Accept, Dispatch, ListDevices, ListEnd, ForgetLoad, ForgetSave, Respond, At
<1>3. \A ok \in BOOLEAN, v \in View : Answer(c, ok, v) =>
         /\ \A b \in Client : b # c => call'[b] = call[b]
         /\ call'[c].with = call[c].with /\ call'[c].at = "replying"
  BY AnswerEffect
<1>4. call[c] \in CallState /\ call[c].set \subseteq Device /\ trusted \subseteq Device
  BY DEF StepOK, CallState
<1>5. CASE Accept(c)
  BY <1>1, <1>2, <1>5 DEF Accept, StepOK, CallState
<1>6. CASE Dispatch(c)
  BY <1>1, <1>2, <1>3, <1>6, IdleType DEF Dispatch
<1>7. CASE ListDevices(c)
  BY <1>1, <1>2, <1>7 DEF ListDevices, StepOK, CallState
<1>8. CASE ListEnd(c)
  <2>1. \A stored \in {trusted, {}} : DeviceListView(stored, call[c].set) \in View
    BY <1>4, ViewType
  <2> QED
    BY <1>1, <1>2, <1>3, <1>8, <2>1 DEF ListEnd
<1>9. CASE ForgetLoad(c)
  <2>1. CASE call' = [call EXCEPT ![c].at = "saving", ![c].set = trusted \ {client[c].dev}]
    BY <1>1, <1>2, <1>9, <2>1 DEF ForgetLoad, StepOK, CallState
  <2> QED
    BY <1>1, <1>2, <1>3, <1>9, <2>1, IdleType DEF ForgetLoad
<1>10. CASE ForgetSave(c)
  BY <1>1, <1>2, <1>3, <1>10, IdleType DEF ForgetSave
<1>11. CASE Respond(c)
  BY <1>1, <1>2, <1>11 DEF Respond, At, StepOK, CallState
<1> QED
  BY <1>5, <1>6, <1>7, <1>8, <1>9, <1>10, <1>11 DEF Serve

LEMMA StepCalls == ASSUME StepOK, Calls, Step PROVE Calls'
<1>1. ASSUME NEW d \in Daemon,
             \/ Acquire(d) \/ Start(d) \/ Stop(d) \/ Shutdown(d) \/ TimeOut(d) \/ Crash(d)
      PROVE  Calls'
  BY <1>1, DaemonSteps DEF Calls
<1>2. ASSUME NEW c \in Client, Invoke(c) \/ Proceed(c) PROVE Calls'
  BY <1>2, ClientSteps DEF Calls
<1>3. ASSUME NEW c \in Client, Serve(c) PROVE Calls'
  BY <1>3, ServeSteps DEF Calls
<1> QED
  BY <1>1, <1>2, <1>3 DEF Step

Sound == TypeOK /\ Calls

LEMMA SoundInvariant == Spec => []Sound
<1>1. Init => Calls
  BY IdleType DEF Init, Calls
<1>2. Calls /\ UNCHANGED vars => Calls'
  BY DEF Calls, vars
<1>3. TypeOK /\ Calls /\ [Next]_vars => Calls'
  BY <1>2, StepCalls, TypeParts DEF Next
<1> QED
  BY TypeCorrect, <1>1, <1>3, PTL DEF Spec, Sound

-------------------------------------------------------------------------------
(***************************************************************************)
(* Steps as an invocation sees them, with their history.                   *)
(***************************************************************************)
LEMMA WatchEffect ==
    ASSUME TypeOK, Watch, NEW c \in Client, Running(c), Running(c)'
    PROVE  /\ hist'[c].kept = hist[c].kept \cap trusted'
           /\ hist'[c].failed = (\/ hist[c].failed
                                 \/ At(c, "listing") /\ call'[c].at = "replying"
                                    /\ call'[c].view.paired # trusted)
           /\ hist'[c].up = {d \in hist[c].up : stage'[d] = "up"}
  BY DEF Watch, Running

\* How an answer comes about, and stays while it is written.
Answered(c) == call[c].at \in {"replying", "answered"}

LEMMA AnsweredSteps ==
    ASSUME Sound, Next, NEW c \in Client, Answered(c)'
    PROVE  /\ client[c].at = "waiting" /\ client'[c] = client[c]
           /\ hist'[c].kept = hist[c].kept \cap trusted'
           /\ \/ /\ Answered(c) /\ hist'[c].failed = hist[c].failed
                 /\ call'[c].ok = call[c].ok /\ call'[c].view = call[c].view
              \/ Dispatch(c) \/ ListEnd(c) \/ ForgetLoad(c) \/ ForgetSave(c)
<1> DEFINE Kept == /\ Answered(c)
                   /\ call'[c].ok = call[c].ok /\ call'[c].view = call[c].view
<1>1. StepOK /\ Step /\ Watch
  BY TypeParts DEF Next, Sound
<1>2. /\ client[c].at = "waiting" /\ client'[c] = client[c]
      /\ Kept \/ Dispatch(c) \/ ListEnd(c) \/ ForgetLoad(c) \/ ForgetSave(c)
  <2>1. ASSUME NEW d \in Daemon,
               \/ Acquire(d) \/ Start(d) \/ Stop(d) \/ Shutdown(d) \/ TimeOut(d) \/ Crash(d)
        PROVE  client' = client /\ call'[c] = call[c]
    BY <1>1, <2>1, DaemonSteps DEF Answered
  <2>2. ASSUME NEW b \in Client, Invoke(b) \/ Proceed(b)
        PROVE  client'[c] = client[c] /\ call'[c] = call[c]
    BY <1>1, <2>2, ClientSteps DEF Sound, Calls, Answered
  <2>3. ASSUME NEW b \in Client, Serve(b), b # c
        PROVE  client'[c] = client[c] /\ call'[c] = call[c]
    BY <1>1, <2>3, ServeSteps
  <2>4. ASSUME Serve(c)
        PROVE  /\ client[c].at = "waiting" /\ client' = client
               /\ Kept \/ Dispatch(c) \/ ListEnd(c) \/ ForgetLoad(c) \/ ForgetSave(c)
    <3>1. client[c].at = "waiting" /\ client' = client
      BY <1>1, <2>4, ServeSteps DEF Sound, Calls
    <3>2. ~Accept(c) /\ ~ListDevices(c)
      BY <1>1 DEF Accept, ListDevices, StepOK, CallState, Answered
    <3>3. Respond(c) => Kept
      BY <1>1 DEF Respond, At, StepOK, CallState, Answered
    <3> QED
      BY <2>4, <3>1, <3>2, <3>3 DEF Serve
  <2>5. call'[c] = call[c] => client[c].at = "waiting" /\ Kept
    BY DEF Sound, Calls, Answered
  <2> HIDE DEF Kept
  <2> QED
    BY <1>1, <2>1, <2>2, <2>3, <2>4, <2>5 DEF Step
<1>3. Running(c) /\ Running(c)'
  BY <1>2 DEF Running
<1>4. /\ hist'[c].kept = hist[c].kept \cap trusted'
      /\ hist'[c].failed = (\/ hist[c].failed
                            \/ At(c, "listing") /\ call'[c].at = "replying"
                               /\ call'[c].view.paired # trusted)
  BY <1>1, <1>3, WatchEffect DEF Sound
<1>5. hist[c].failed \in BOOLEAN
  BY TypeParts DEF Sound, HistState
<1>6. Kept => hist'[c].failed = hist[c].failed
  <2>1. Kept => ~At(c, "listing")
    BY DEF At, Answered
  <2>2. ~At(c, "listing") => hist'[c].failed = (hist[c].failed \/ FALSE)
    BY <1>4
  <2> QED
    BY <1>5, <2>1, <2>2
<1> QED
  BY <1>2, <1>4, <1>6

\* How an invocation ends.
LEMMA ExitSteps ==
    ASSUME StepOK, Step, NEW c \in Client, Running(c), client'[c].at = "done"
    PROVE  \/ /\ client[c].at = "reading" /\ client[c].kind = "help"
              /\ client'[c].exit = 0
           \/ /\ client[c].at = "reading" /\ client'[c].exit = 2
              /\ \/ endpoint \in {NoFile, EmptyFile}
                 \/ NeedsDevice(client[c].kind) /\ client[c].dev = None
           \/ /\ client[c].at = "connecting" /\ client'[c].exit = 1
              /\ Listener(client[c].to) = {}
           \/ /\ client[c].at = "waiting" /\ call[c].at \in {"answered", "closed"}
              /\ client'[c].exit = IF call[c].at = "answered" /\ call[c].ok THEN 0 ELSE 1
<1>1. ASSUME NEW d \in Daemon,
             \/ Acquire(d) \/ Start(d) \/ Stop(d) \/ Shutdown(d) \/ TimeOut(d) \/ Crash(d)
      PROVE  FALSE
  BY <1>1, DaemonSteps DEF Running
<1>2. ASSUME NEW b \in Client, Serve(b) PROVE FALSE
  BY <1>2, ServeSteps DEF Running
<1>3. PICK b \in Client : Invoke(b) \/ Proceed(b)
  BY <1>1, <1>2 DEF Step
<1>4. b = c
  BY <1>3, ClientSteps DEF Running
<1>5. ~Invoke(c)
  BY DEF Invoke, Running
<1>6. CASE ReadEndpoint(c)
  <2>1. /\ Done(c, 2) => client'[c].exit = 2
        /\ Done(c, 0) => client'[c].exit = 0
    BY DoneEffect
  <2>2. CASE endpoint \in {NoFile, EmptyFile}
    <3>1. ~Done(c, 2) => client'[c].at # "done"
      BY <1>6, <2>2 DEF ReadEndpoint, StepOK, ClientState
    <3> QED
      BY <1>6, <2>1, <2>2, <3>1 DEF ReadEndpoint
  <2>3. CASE /\ endpoint \notin {NoFile, EmptyFile}
             /\ NeedsDevice(client[c].kind) /\ client[c].dev = None
    BY <1>6, <2>1, <2>3 DEF ReadEndpoint
  <2>4. CASE /\ endpoint \notin {NoFile, EmptyFile}
             /\ ~(NeedsDevice(client[c].kind) /\ client[c].dev = None)
    <3>1. client[c].kind # "help" => client'[c].at # "done"
      BY <1>6, <2>4 DEF ReadEndpoint, StepOK, ClientState
    <3> QED
      BY <1>6, <2>1, <2>4, <3>1 DEF ReadEndpoint
  <2> QED
    BY <2>2, <2>3, <2>4
<1>7. CASE Connect(c)
  <2>1. client[c].at = "connecting"
    BY <1>7 DEF Connect
  <2>2. CASE Listener(client[c].to) = {}
    BY <1>7, <2>1, <2>2, DoneEffect DEF Connect
  <2>3. CASE Listener(client[c].to) # {}
    BY <1>7, <2>3 DEF Connect, StepOK, ClientState
  <2> QED
    BY <2>1, <2>2, <2>3
<1>8. CASE Receive(c)
  <2> DEFINE code == IF call[c].at = "answered" /\ call[c].ok THEN 0 ELSE 1
  <2>1. client[c].at = "waiting" /\ call[c].at \in {"answered", "closed"} /\ Done(c, code)
    BY <1>8 DEF Receive
  <2>2. code \in 0 .. 2
    OBVIOUS
  <2> HIDE DEF code
  <2>3. client'[c].exit = code
    BY <2>1, <2>2, DoneEffect
  <2> QED
    BY <2>1, <2>3 DEF code
<1> QED
  BY <1>3, <1>4, <1>5, <1>6, <1>7, <1>8 DEF Proceed

-------------------------------------------------------------------------------
(***************************************************************************)
(* ForgetDevice: the answer waits for the save, and the save writes what   *)
(* was loaded without the device.                                          *)
(***************************************************************************)
Forgotten ==
    \A c \in Client :
        Answered(c) /\ call[c].ok /\ client[c].kind = "forget"
            => client[c].dev \notin hist[c].kept

LEMMA NextForgotten == ASSUME Sound, Forgotten, Next PROVE Forgotten'
<1> SUFFICES ASSUME NEW c \in Client, Answered(c)', call'[c].ok,
                    client'[c].kind = "forget"
             PROVE  client'[c].dev \notin hist'[c].kept
  BY DEF Forgotten
<1>1. /\ client'[c] = client[c] /\ hist'[c].kept = hist[c].kept \cap trusted'
      /\ \/ Answered(c) /\ call'[c].ok = call[c].ok
         \/ Dispatch(c) \/ ListEnd(c) \/ ForgetLoad(c) \/ ForgetSave(c)
  BY AnsweredSteps
<1>2. StepOK /\ StepOK'
  BY TypeParts, StepType DEF Sound, Next
<1>3. CASE Answered(c) /\ call'[c].ok = call[c].ok
  BY <1>1, <1>3 DEF Forgotten
<1>4. CASE Dispatch(c)
  BY <1>1, <1>4 DEF Dispatch
<1>5. CASE ListEnd(c)
  BY <1>1, <1>5 DEF ListEnd, At, Sound, Calls
<1>6. CASE ForgetLoad(c)
  <2>1. trusted' = trusted
    BY <1>6 DEF ForgetLoad
  <2>2. client[c].dev \notin trusted
    <3>1. CASE call' = [call EXCEPT ![c].at = "saving", ![c].set = trusted \ {client[c].dev}]
      BY <1>2, <3>1 DEF StepOK, CallState, Answered
    <3>2. CASE Answer(c, FALSE, Blank)
      BY <1>2, <3>2, AnswerEffect, IdleType
    <3> QED
      BY <1>6, <3>1, <3>2 DEF ForgetLoad
  <2> QED
    BY <1>1, <2>1, <2>2
<1>7. CASE ForgetSave(c)
  <2>1. client[c].dev \notin call[c].set
    BY <1>7 DEF ForgetSave, At, Sound, Calls
  <2>2. ~Answer(c, FALSE, Blank)
    BY <1>2, AnswerEffect, IdleType
  <2> QED
    BY <1>1, <1>7, <2>1, <2>2 DEF ForgetSave
<1> QED
  BY <1>1, <1>3, <1>4, <1>5, <1>6, <1>7

(***************************************************************************)
(* `forget' prints "Device removed." only for a device that was not        *)
(* trusted at some moment since the command was typed.                     *)
(***************************************************************************)
THEOREM RemovedWasForgotten == Spec => OkMeansForgotten
<1>1. Init => Forgotten
  BY IdleType DEF Init, Forgotten, Answered
<1>2. Sound /\ Forgotten /\ [Next]_vars => Forgotten'
  <2>1. Forgotten /\ UNCHANGED vars => Forgotten'
    BY DEF Forgotten, Answered, vars
  <2> QED
    BY <2>1, NextForgotten
<1>3. Sound /\ Forgotten /\ [Next]_vars => \A c \in Client : ForgottenOnce(c)
  <2> SUFFICES ASSUME Sound, Forgotten, [Next]_vars, NEW c \in Client,
                      Exits(c, 0), client[c].kind = "forget"
               PROVE  client[c].dev \notin hist[c].kept
    BY DEF ForgottenOnce
  <2>1. StepOK /\ Step
    BY TypeParts DEF Sound, Next, Exits, Running, vars
  <2>2. call[c].at = "answered" /\ call[c].ok
    BY <2>1, ExitSteps DEF Exits
  <2> QED
    BY <2>2 DEF Forgotten, Answered
<1> QED
  BY SoundInvariant, <1>1, <1>2, <1>3, PTL DEF Spec, OkMeansForgotten

(***************************************************************************)
(* listDevices: the registry that is read last decides what is paired, and *)
(* what is paired is taken out of what is visible.                         *)
(***************************************************************************)
Coherent ==
    \A c \in Client :
        Answered(c) /\ client[c].kind = "list" /\ ~hist[c].failed =>
            hist[c].kept \subseteq call[c].view.paired \ call[c].view.available

LEMMA NextCoherent == ASSUME Sound, Coherent, Next PROVE Coherent'
<1> SUFFICES ASSUME NEW c \in Client, Answered(c)', client'[c].kind = "list",
                    ~hist'[c].failed
             PROVE  hist'[c].kept \subseteq call'[c].view.paired \ call'[c].view.available
  BY DEF Coherent
<1>1. /\ client'[c] = client[c] /\ hist'[c].kept = hist[c].kept \cap trusted'
      /\ client[c].at = "waiting"
      /\ \/ /\ Answered(c) /\ hist'[c].failed = hist[c].failed
            /\ call'[c].view = call[c].view
         \/ Dispatch(c) \/ ListEnd(c) \/ ForgetLoad(c) \/ ForgetSave(c)
  BY AnsweredSteps
<1>2. CASE /\ Answered(c) /\ hist'[c].failed = hist[c].failed
           /\ call'[c].view = call[c].view
  BY <1>1, <1>2 DEF Coherent
<1>3. CASE ListEnd(c)
  <2>1. call[c].set \subseteq Device /\ trusted \subseteq Device /\ StepOK
    BY TypeParts DEF Sound, StepOK, CallState
  <2>2. PICK stored \in {trusted, {}} : Answer(c, TRUE, DeviceListView(stored, call[c].set))
    BY <1>3 DEF ListEnd
  <2> DEFINE v == DeviceListView(stored, call[c].set)
  <2>3. v \in View /\ v.paired = stored /\ v.available = call[c].set \ stored
    <3>1. stored \in SUBSET Device /\ call[c].set \in SUBSET Device
      BY <2>1, <2>2
    <3> QED
      BY <3>1, ViewType
  <2> HIDE DEF v
  <2>4. Answer(c, TRUE, v)
    BY <2>2 DEF v
  <2>5. call'[c].view = v /\ call'[c].at = "replying"
    BY <2>1, <2>3, <2>4, AnswerEffect
  <2>6. Running(c) /\ Running(c)' /\ Watch /\ At(c, "listing") /\ trusted' = trusted
    BY <1>1, <1>3 DEF Running, Next, ListEnd
  <2>7. stored = trusted
    BY <2>3, <2>5, <2>6, WatchEffect DEF Sound
  <2> QED
    BY <1>1, <2>3, <2>5, <2>6, <2>7
<1>4. CASE Dispatch(c)
  BY <1>1, <1>4 DEF Dispatch
<1>5. CASE ForgetLoad(c)
  BY <1>1, <1>5 DEF ForgetLoad
<1>6. CASE ForgetSave(c)
  BY <1>1, <1>6 DEF ForgetSave, At, Sound, Calls
<1> QED
  BY <1>1, <1>2, <1>3, <1>4, <1>5, <1>6

(***************************************************************************)
(* A list that is printed shows every device that was trusted all along as *)
(* paired, and not as available.                                           *)
(***************************************************************************)
THEOREM ListsAgree == Spec => ListCoherent
<1>1. Init => Coherent
  BY IdleType DEF Init, Coherent, Answered
<1>2. Sound /\ Coherent /\ [Next]_vars => Coherent'
  <2>1. Coherent /\ UNCHANGED vars => Coherent'
    BY DEF Coherent, Answered, vars
  <2> QED
    BY <2>1, NextCoherent
<1>3. Sound /\ Coherent /\ [Next]_vars => \A c \in Client : CoherentView(c)
  <2> SUFFICES ASSUME Sound, Coherent, [Next]_vars, NEW c \in Client,
                      Exits(c, 0), client[c].kind = "list", ~hist[c].failed
               PROVE  hist[c].kept \subseteq call[c].view.paired \ call[c].view.available
    BY DEF CoherentView
  <2>1. StepOK /\ Step
    BY TypeParts DEF Sound, Next, Exits, Running, vars
  <2>2. call[c].at = "answered"
    BY <2>1, ExitSteps DEF Exits
  <2> QED
    BY <2>2 DEF Coherent, Answered
<1> QED
  BY SoundInvariant, <1>1, <1>2, <1>3, PTL DEF Spec, ListCoherent

-------------------------------------------------------------------------------
(***************************************************************************)
(* Who is up can be reached.  A pid that is in the pid file, or was read   *)
(* there, is that of a daemon past acquire(), and acquire() writes only    *)
(* when the one it has read is no more.  So as long as no start writes     *)
(* over a pid that it has not read, a daemon is in the pid file from its   *)
(* lock to its release, and there is one such daemon; hence nobody else    *)
(* removes or binds the socket or writes the endpoint file, and only one   *)
(* that has released the lock removes that file.                           *)
(***************************************************************************)
Early == {"off", "probing", "locking"}

Holding == {"locked", "networked", "unbound", "bound", "writing", "up", "closing", "closed"}

Written ==
    /\ pidFile # None => stage[pidFile] \notin Early
    /\ \A d \in Daemon : seen[d] # None => stage[seen[d]] \notin Early

Probed == \A d \in Daemon : stage[d] = "locking" => seen[d] = None \/ ~Alive(seen[d])

Pids == Written /\ Probed

Locked == \A d \in Daemon : stage[d] \in Holding => pidFile = d

Reachable ==
    \A d \in Daemon :
        /\ os = "posix" /\ stage[d] \in {"bound", "writing", "up"} => socket = d
        /\ stage[d] = "up" => stray \/ endpoint = Address(d)

LEMMA OneHolder ==
    ASSUME Locked, NEW d \in Daemon, NEW e \in Daemon, stage[d] \in Holding, stage[e] \in Holding
    PROVE  d = e
  BY DEF Locked

\* Past acquire() a daemon goes on or ends, and its pid stays in the file or goes.
LEMMA LaterStages ==
    ASSUME StepOK, NEW d \in Daemon, Start(d) \/ Stop(d) \/ Shutdown(d) \/ TimeOut(d) \/ Crash(d)
    PROVE  /\ \E s \in Stages \ Early : Goto(d, s)
           /\ stage[d] # "off" /\ stage[d] # "gone"
           /\ seen' = seen /\ pidFile' \in {pidFile, None} /\ raced' = raced
<1> USE DEF Stages, Early, Alive, files, lock, oddities
<1>1. CASE Start(d)
  BY <1>1 DEF Start, StartNetwork, RemoveStaleSocket, Listen, OpenEndpoint, WriteEndpoint, Dies
<1>2. CASE Stop(d) \/ TimeOut(d) \/ Crash(d)
  BY <1>2 DEF Stop, TimeOut, Crash, Dies
<1>3. CASE Shutdown(d)
  BY <1>3 DEF Shutdown, CloseNetwork, ReleaseLock, RemoveEndpoint, Dies
<1> QED
  BY <1>1, <1>2, <1>3

LEMMA DaemonPids ==
    ASSUME StepOK, Pids, NEW d \in Daemon,
           \/ Acquire(d) \/ Start(d) \/ Stop(d) \/ Shutdown(d) \/ TimeOut(d) \/ Crash(d)
    PROVE  Pids' /\ (raced => raced')
<1> USE DEF Pids
<1>1. CASE ReadPid(d)
  <2>1. /\ stage[d] = "off" /\ pidFile' = pidFile /\ raced' = raced
        /\ \A e \in Daemon : stage'[e] = IF e = d THEN "probing" ELSE stage[e]
        /\ \A e \in Daemon : seen'[e] = IF e = d THEN pidFile ELSE seen[e]
    BY <1>1 DEF ReadPid, Unstarted, Goto, StepOK, oddities
  <2>2. pidFile # d /\ \A e \in Daemon : seen[e] # d
    BY <2>1, AdminAssumption DEF Written, Early
  <2>3. Written'
    BY <2>1, <2>2 DEF Written, StepOK
  <2>4. \A e \in Daemon : Alive(e)' => Alive(e) \/ e = d
    BY <2>1 DEF Alive
  <2>5. Probed'
    BY <2>1, <2>2, <2>4 DEF Probed, StepOK
  <2> QED
    BY <2>1, <2>3, <2>5
<1>2. CASE Probe(d)
  <2>1. /\ stage[d] = "probing" /\ UNCHANGED <<pidFile, seen, raced>>
        /\ \A e \in Daemon \ {d} : stage'[e] = stage[e]
        /\ \/ stage'[d] = "gone"
           \/ stage'[d] = "locking" /\ (seen[d] = None \/ ~Alive(seen[d]))
    BY <1>2 DEF Probe, Goto, StepOK, files, lock, oddities
  <2>2. pidFile # d /\ \A e \in Daemon : seen[e] # d
    BY <2>1, AdminAssumption DEF Written, Early
  <2>3. Written'
    BY <2>1, <2>2 DEF Written, StepOK
  <2>4. \A e \in Daemon : Alive(e)' => Alive(e)
    BY <2>1 DEF Alive
  <2>5. Probed'
    BY <2>1, <2>4 DEF Probed, StepOK
  <2> QED
    BY <2>1, <2>3, <2>5
<1>3. CASE WritePid(d)
  <2>1. /\ stage[d] = "locking" /\ pidFile' = d /\ (raced => raced')
        /\ \A e \in Daemon : stage'[e] = IF e = d THEN "locked" ELSE stage[e]
        /\ \A e \in Daemon : seen'[e] = IF e = d THEN None ELSE seen[e]
    BY <1>3 DEF WritePid, Goto, StepOK
  <2>2. Written'
    BY <2>1 DEF Written, Early, StepOK
  <2>3. \A e \in Daemon : Alive(e)' => Alive(e)
    BY <2>1 DEF Alive
  <2>4. Probed'
    BY <2>1, <2>3 DEF Probed, StepOK
  <2> QED
    BY <2>1, <2>2, <2>4
<1>4. CASE Start(d) \/ Stop(d) \/ Shutdown(d) \/ TimeOut(d) \/ Crash(d)
  <2>1. PICK s \in Stages \ Early : Goto(d, s)
    BY <1>4, LaterStages
  <2>2. /\ stage[d] # "off" /\ stage[d] # "gone"
        /\ seen' = seen /\ pidFile' \in {pidFile, None} /\ raced' = raced
    BY <1>4, LaterStages
  <2>3. \A e \in Daemon : stage'[e] = IF e = d THEN s ELSE stage[e]
    BY <2>1 DEF Goto, StepOK
  <2>4. Written'
    BY <2>1, <2>2, <2>3 DEF Written, StepOK
  <2>5. \A e \in Daemon : Alive(e)' => Alive(e)
    BY <2>2, <2>3 DEF Alive
  <2>6. \A e \in Daemon : stage'[e] = "locking" => stage[e] = "locking"
    BY <2>1, <2>3 DEF Early
  <2>7. Probed'
    BY <2>2, <2>5, <2>6 DEF Probed, StepOK
  <2> QED
    BY <2>2, <2>4, <2>7
<1> QED
  BY <1>1, <1>2, <1>3, <1>4 DEF Acquire

LEMMA DaemonLocked ==
    ASSUME StepOK, Pids, Locked, NEW d \in Daemon, ~raced',
           \/ Acquire(d) \/ Start(d) \/ Stop(d) \/ Shutdown(d) \/ TimeOut(d) \/ Crash(d)
    PROVE  Locked'
<1> USE DEF Goto, StepOK, Holding, Locked, files, lock
<1>1. CASE ReadPid(d) \/ Probe(d)
  BY <1>1 DEF ReadPid, Probe
<1>2. CASE WritePid(d)
  <2>1. pidFile \in {seen[d], None} /\ (seen[d] = None \/ ~Alive(seen[d]))
    BY <1>2 DEF WritePid, Pids, Probed
  <2>2. \A e \in Daemon : stage[e] \notin Holding
    BY <2>1, AdminAssumption DEF Alive
  <2> QED
    BY <1>2, <2>2 DEF WritePid
<1>3. CASE Start(d)
  BY <1>3 DEF Start, StartNetwork, RemoveStaleSocket, Listen, OpenEndpoint, WriteEndpoint, Dies
<1>4. CASE Stop(d) \/ TimeOut(d) \/ Crash(d)
  BY <1>4 DEF Stop, TimeOut, Crash, Dies
<1>5. CASE CloseNetwork(d)
  BY <1>5 DEF CloseNetwork
<1>6. CASE ReleaseLock(d)
  BY <1>6 DEF ReleaseLock
<1>7. CASE RemoveEndpoint(d)
  BY <1>7 DEF RemoveEndpoint, Dies
<1> QED
  BY <1>1, <1>2, <1>3, <1>4, <1>5, <1>6, <1>7 DEF Acquire, Shutdown

LEMMA DaemonReachable ==
    ASSUME StepOK, Locked, Reachable, NEW d \in Daemon,
           \/ Acquire(d) \/ Start(d) \/ Stop(d) \/ Shutdown(d) \/ TimeOut(d) \/ Crash(d)
    PROVE  Reachable'
<1>1. os' = os /\ \A e : Address(e)' = Address(e)
  BY DaemonType, SameAddresses
<1> SUFFICES ASSUME NEW e \in Daemon
             PROVE  /\ os = "posix" /\ stage'[e] \in {"bound", "writing", "up"} => socket' = e
                    /\ stage'[e] = "up" => stray' \/ endpoint' = Address(e)
  BY <1>1, SameAddresses DEF Reachable
<1> USE <1>1 DEF Goto, StepOK, Reachable, files, oddities
<1>2. stage[e] \in {"bound", "writing", "up"} /\ stage[d] \in Holding => d = e
  BY OneHolder DEF Holding
<1>3. CASE Acquire(d)
  BY <1>3 DEF Acquire, ReadPid, Probe, WritePid
<1>4. CASE StartNetwork(d)
  BY <1>4 DEF StartNetwork
<1>5. CASE RemoveStaleSocket(d)
  BY <1>2, <1>5 DEF RemoveStaleSocket, Holding
<1>6. CASE Listen(d)
  BY <1>2, <1>6 DEF Listen, Dies, Holding
<1>7. CASE OpenEndpoint(d)
  BY <1>2, <1>7 DEF OpenEndpoint, Holding
<1>8. CASE WriteEndpoint(d)
  BY <1>2, <1>8 DEF WriteEndpoint, Holding
<1>9. CASE Stop(d) \/ TimeOut(d) \/ Crash(d)
  BY <1>9 DEF Stop, TimeOut, Crash, Dies
<1>10. CASE CloseNetwork(d) \/ ReleaseLock(d)
  BY <1>10 DEF CloseNetwork, ReleaseLock
<1>11. CASE RemoveEndpoint(d)
  <2>1. /\ stray' = (stray \/ \E b \in Daemon \ {d} : stage[b] \in {"writing", "up"})
        /\ stage' = [stage EXCEPT ![d] = "gone"] /\ socket' = socket
    BY <1>11 DEF RemoveEndpoint, Dies
  <2>2. e # d /\ stage[e] = "up" => stray'
    BY <2>1
  <2> QED
    BY <2>1, <2>2
<1> QED
  BY <1>3, <1>4, <1>5, <1>6, <1>7, <1>8, <1>9, <1>10, <1>11 DEF Start, Shutdown

\* What hides a daemon that is up stays on record.
LEMMA OdditiesStay == ASSUME StepOK, Step PROVE (stray => stray') /\ (raced => raced')
<1>1. ASSUME NEW c \in Client, Invoke(c) \/ Proceed(c) \/ Serve(c) PROVE UNCHANGED oddities
  BY <1>1, ClientSteps, ServeSteps
<1>2. ASSUME NEW d \in Daemon, WritePid(d) PROVE (stray => stray') /\ (raced => raced')
  BY <1>2 DEF WritePid
<1>3. ASSUME NEW d \in Daemon, RemoveEndpoint(d) PROVE (stray => stray') /\ (raced => raced')
  BY <1>3 DEF RemoveEndpoint
<1>4. ASSUME NEW d \in Daemon,
             \/ ReadPid(d) \/ Probe(d) \/ Start(d) \/ Stop(d) \/ CloseNetwork(d) \/ ReleaseLock(d)
             \/ TimeOut(d) \/ Crash(d)
      PROVE  UNCHANGED oddities
  BY <1>4 DEF ReadPid, Probe, Start, StartNetwork, RemoveStaleSocket, Listen, OpenEndpoint,
       WriteEndpoint, Stop, CloseNetwork, ReleaseLock, TimeOut, Crash
<1> QED
  BY <1>1, <1>2, <1>3, <1>4 DEF Step, Acquire, Shutdown, oddities

Found == Pids /\ (raced \/ (Locked /\ Reachable))

LEMMA StepFound == ASSUME StepOK, Found, Step PROVE Found'
<1>1. ASSUME NEW c \in Client, Invoke(c) \/ Proceed(c) \/ Serve(c) PROVE Found'
  <2>1. UNCHANGED <<os, files, stage, oddities>>
    BY <1>1, ClientSteps, ServeSteps
  <2> QED
    BY <2>1, SameAddresses DEF Found, Pids, Written, Probed, Alive, Locked, Reachable,
         files, lock, oddities
<1>2. ASSUME NEW d \in Daemon,
             \/ Acquire(d) \/ Start(d) \/ Stop(d) \/ Shutdown(d) \/ TimeOut(d) \/ Crash(d)
      PROVE  Found'
  BY <1>2, DaemonPids, DaemonLocked, DaemonReachable DEF Found
<1> QED
  BY <1>1, <1>2 DEF Step

(***************************************************************************)
(* The way of an invocation to a daemon that is up all along.              *)
(***************************************************************************)
Odd == stray \/ raced

LedTo(c, d) ==
    /\ client[c].at = "connecting" => client[c].to = Address(d)
    /\ client[c].at = "waiting" =>
          /\ call[c].with = d
          /\ call[c].at \in {"queued", "handling", "listing"} \/ Answered(c)
          /\ Answered(c) => call[c].ok

Led ==
    \A c \in Client : Running(c) =>
        \A d \in hist[c].up : /\ stage[d] = "up" /\ Plain(client[c])
                              /\ Odd \/ LedTo(c, d)

\* A connection to the address of a daemon that is up reaches that daemon.
LEMMA UpListens ==
    ASSUME Reachable, NEW d \in Daemon, stage[d] = "up"
    PROVE  Listener(Address(d)) = {d}
<1>1. d \in Listener(Address(d))
  BY DEF Listener, Listening, Reachable
<1>2. \A e \in Listener(Address(d)) : e = d
  BY DEF Listener, Address, Reachable
<1> QED
  BY <1>1, <1>2

LEMMA EndpointIsAddress == \A d \in Daemon : Address(d) \notin {NoFile, EmptyFile}
  BY AdminAssumption DEF Address

LEMMA NextLed ==
    ASSUME Sound, Found, Led, Next PROVE Led'
<1>1. StepOK /\ StepOK' /\ Step /\ Watch /\ os' = os /\ (Odd => Odd')
  BY TypeParts, StepType, OdditiesStay DEF Sound, Next, Odd
<1>2. \A d : Address(d)' = Address(d)
  BY <1>1, SameAddresses
<1> SUFFICES ASSUME NEW c \in Client, Running(c)', NEW d \in hist'[c].up
             PROVE  /\ stage'[d] = "up" /\ Plain(client'[c])
                    /\ Odd' \/ LedTo(c, d)'
  BY DEF Led, Plain
\* The command is typed.
<1>3. CASE ~Running(c)
  <2>1. Invoke(c)
    <3>1. \A e \in Daemon : ~(\/ Acquire(e) \/ Start(e) \/ Stop(e) \/ Shutdown(e)
                              \/ TimeOut(e) \/ Crash(e))
      BY <1>1, <1>3, DaemonSteps DEF Running
    <3>2. \A b \in Client : ~Serve(b)
      BY <1>1, <1>3, ServeSteps DEF Running
    <3>3. \A b \in Client : Invoke(b) \/ Proceed(b) => b = c
      BY <1>1, <1>3, ClientSteps DEF Running
    <3>4. ~Proceed(c)
      BY <1>3 DEF Proceed, ReadEndpoint, Connect, Receive, Running
    <3> QED
      BY <1>1, <3>1, <3>2, <3>3, <3>4 DEF Step
  <2>2. client[c].at = "idle" /\ client'[c].at = "reading" /\ stage' = stage
    <3>1. client[c].at = "idle" /\ stage' = stage
      BY <2>1 DEF Invoke
    <3>2. client'[c].at \in {"reading", "connecting", "waiting"}
      BY DEF Running
    <3>3. client'[c].at \notin {"connecting", "waiting"}
      BY <1>1, <2>1, <3>1, ClientSteps
    <3> QED
      BY <3>1, <3>2, <3>3
  <2>3. hist'[c].up = {e \in Daemon : stage[e] = "up" /\ Plain(client'[c])}
    BY <1>1, <2>2 DEF Watch
  <2> QED
    BY <2>2, <2>3 DEF LedTo
\* It runs.
<1>4. CASE Running(c)
  <2>1. d \in hist[c].up /\ stage'[d] = "up"
    BY <1>1, <1>4, WatchEffect DEF Sound
  <2>2. stage[d] = "up" /\ Plain(client[c]) /\ (Odd \/ LedTo(c, d)) /\ d \in Daemon
    <3>1. hist[c].up \subseteq Daemon
      BY TypeParts DEF Sound, HistState
    <3> QED
      BY <1>4, <2>1, <3>1 DEF Led
  <2>3. CASE client'[c] = client[c] /\ (call'[c] = call[c] \/ client[c].at # "waiting" \/ Odd)
    BY <1>1, <1>2, <2>1, <2>2, <2>3 DEF LedTo, Answered
  <2>4. ASSUME NEW e \in Daemon,
               \/ Acquire(e) \/ Start(e) \/ Stop(e) \/ Shutdown(e) \/ TimeOut(e) \/ Crash(e)
        PROVE  client'[c] = client[c] /\ (call'[c] = call[c] \/ client[c].at # "waiting" \/ Odd)
    <3>1. /\ client'[c] = client[c]
          /\ \/ call'[c] = call[c]
             \/ call[c].with = e /\ (stage[e] = "up" => stage'[e] # "up")
      BY <1>1, <2>4, DaemonSteps
    <3> QED
      BY <2>1, <2>2, <3>1 DEF LedTo
  <2>5. ASSUME NEW b \in Client, Invoke(b) \/ Proceed(b) \/ Serve(b), b # c
        PROVE  client'[c] = client[c] /\ call'[c] = call[c]
    BY <1>1, <2>5, ClientSteps, ServeSteps
  <2>6. ~Invoke(c) /\ ~Receive(c)
    <3>1. ~Invoke(c)
      BY <1>4 DEF Invoke, Running
    <3>2. Receive(c) => client'[c].at = "done"
      BY <1>1, DoneEffect DEF Receive
    <3> QED
      BY <3>1, <3>2 DEF Running
  <2>7. CASE ReadEndpoint(c)
    <3>1. Done(c, 0) \/ Done(c, 2) => client'[c].at = "done"
      BY <1>1, DoneEffect
    <3>2. ~Done(c, 0) /\ ~Done(c, 2)
      BY <3>1 DEF Running
    <3>3. /\ client'[c].kind = client[c].kind /\ client'[c].dev = client[c].dev
          /\ \/ client'[c].at = "reading" /\ endpoint \in {NoFile, EmptyFile}
             \/ client'[c].at = "connecting" /\ client'[c].to = endpoint
      BY <1>1, <2>7, <3>2 DEF ReadEndpoint, StepOK, ClientState
    <3>4. Odd \/ endpoint = Address(d)
      BY <2>2 DEF Odd, Found, Reachable
    <3> QED
      BY <1>1, <1>2, <2>1, <2>2, <3>3, <3>4 DEF Plain, LedTo
  <2>8. CASE Connect(c)
    <3>1. Done(c, 1) => client'[c].at = "done"
      BY <1>1, DoneEffect
    <3>2. ~Done(c, 1) /\ client[c].at = "connecting"
      BY <2>8, <3>1 DEF Connect, Running
    <3>3. /\ \E e \in Listener(client[c].to) :
               call' = [call EXCEPT ![c] = [NoCall EXCEPT !.with = e, !.at = "queued"]]
          /\ client' = [client EXCEPT ![c].at = "waiting"]
      BY <2>8, <3>2 DEF Connect
    <3>4. /\ client'[c].at = "waiting"
          /\ client'[c].kind = client[c].kind /\ client'[c].dev = client[c].dev
      BY <1>1, <3>3 DEF StepOK, ClientState
    <3>5. Odd \/ Listener(client[c].to) = {d}
      BY <2>2, <3>2, UpListens DEF LedTo, Odd, Found
    <3>6. Odd \/ (call'[c].with = d /\ call'[c].at = "queued")
      BY <1>1, <3>3, <3>5 DEF StepOK, NoCall
    <3> QED
      BY <1>1, <1>2, <2>1, <2>2, <3>4, <3>6 DEF Plain, LedTo, Answered
  <2>9. CASE Serve(c)
    <3>1. client' = client /\ client[c].at = "waiting" /\ call'[c].with = call[c].with
      BY <1>1, <2>9, ServeSteps DEF Sound, Calls
    <3>2. client[c].kind \notin {"pair", "forget"}
      BY <2>2 DEF Plain
    <3>3. call'[c].at \in {"handling", "listing", "replying", "answered"}
      BY <1>1, <2>9, <3>2, ServeSteps
    <3>4. CASE Odd
      BY <1>1, <2>1, <2>2, <3>1, <3>4 DEF Plain
    <3>5. CASE ~Odd
      <4> SUFFICES ASSUME Answered(c)' PROVE call'[c].ok
        BY <1>1, <1>2, <2>1, <2>2, <3>1, <3>3, <3>5 DEF LedTo, Plain, Answered
      <4>1. ~ForgetLoad(c) /\ ~ForgetSave(c)
        BY <3>2 DEF ForgetLoad, ForgetSave, At, Sound, Calls
      <4>2. ~Accept(c) /\ ~ListDevices(c)
        BY <1>1 DEF Accept, ListDevices, StepOK, CallState, Answered
      <4>3. CASE Dispatch(c)
        <5>1. Answer(c, TRUE, Blank)
          BY <3>2, <4>3 DEF Dispatch
        <5> QED
          BY <1>1, <5>1, AnswerEffect, IdleType
      <4>4. CASE ListEnd(c)
        <5>1. call[c].set \subseteq Device /\ trusted \subseteq Device
          BY <1>1 DEF StepOK, CallState
        <5>2. PICK stored \in {trusted, {}} :
                 Answer(c, TRUE, DeviceListView(stored, call[c].set))
          BY <4>4 DEF ListEnd
        <5>3. DeviceListView(stored, call[c].set) \in View
          BY <5>1, <5>2, ViewType
        <5> QED
          BY <1>1, <5>2, <5>3, AnswerEffect
      <4>5. CASE Respond(c)
        BY <1>1, <2>2, <3>1, <3>5, <4>5 DEF Respond, At, LedTo, Answered, StepOK, CallState
      <4> QED
        BY <2>9, <4>1, <4>2, <4>3, <4>4, <4>5 DEF Serve
    <3> QED
      BY <3>4, <3>5
  <2> QED
    BY <1>1, <2>3, <2>4, <2>5, <2>6, <2>7, <2>8, <2>9 DEF Step, Proceed
<1> QED
  BY <1>3, <1>4

(***************************************************************************)
(* A command that needs nothing but a daemon succeeds when one is up all   *)
(* the time it runs, unless a daemon that has released the lock removed    *)
(* the endpoint file of the next, or a start wrote over a pid that it had  *)
(* not read.                                                               *)
(***************************************************************************)
THEOREM UpServes == Spec => UpMeansServed
<1>1. Init => Found /\ Led
  BY IdleType DEF Init, Found, Pids, Written, Probed, Alive, Locked, Holding, Reachable, Led, Running
<1>2. Sound /\ Found /\ Led /\ [Next]_vars => (Found /\ Led)'
  <2>1. Found /\ Led /\ UNCHANGED vars => (Found /\ Led)'
    BY SameAddresses DEF Found, Pids, Written, Probed, Alive, Locked, Reachable, Odd, Led, LedTo,
         Answered, Running, Plain, vars, files, lock, oddities
  <2>2. ASSUME Sound, Found, Led, Next PROVE (Found /\ Led)'
    BY <2>2, NextLed, StepFound, TypeParts DEF Sound, Next
  <2> QED
    BY <2>1, <2>2
<1>3. Sound /\ Found /\ Led /\ [Next]_vars => \A c \in Client : ServedByUp(c)
  <2> SUFFICES ASSUME Sound, Found, Led, [Next]_vars, NEW c \in Client,
                      Plain(client[c]), Exits(c, 1) \/ Exits(c, 2), ~Odd,
                      NEW d \in hist[c].up
               PROVE  FALSE
    BY DEF ServedByUp, Odd
  <2>1. StepOK /\ Step /\ Running(c) /\ client'[c].at = "done" /\ client'[c].exit # 0
    BY TypeParts DEF Sound, Next, Exits, Running, vars
  <2>2. d \in Daemon /\ stage[d] = "up" /\ LedTo(c, d) /\ endpoint = Address(d) /\ Reachable
    <3>1. hist[c].up \subseteq Daemon
      BY TypeParts DEF Sound, HistState
    <3> QED
      BY <2>1, <3>1 DEF Led, Odd, Found, Reachable
  <2>3. CASE client[c].at = "reading"
    BY <2>1, <2>2, <2>3, ExitSteps, EndpointIsAddress DEF Plain, NeedsDevice
  <2>4. CASE client[c].at = "connecting"
    <3>1. Listener(client[c].to) = {d}
      BY <2>2, <2>4, UpListens DEF LedTo
    <3> QED
      BY <2>1, <2>4, <3>1, ExitSteps
  <2>5. CASE client[c].at = "waiting"
    BY <2>1, <2>2, <2>5, ExitSteps DEF LedTo, Answered
  <2> QED
    BY <2>1, <2>3, <2>4, <2>5 DEF Running
<1> QED
  BY SoundInvariant, <1>1, <1>2, <1>3, PTL DEF Spec, UpMeansServed
===============================================================================
