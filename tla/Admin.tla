-------------------------------- MODULE Admin --------------------------------
(***************************************************************************)
(* The admin channel from end to end: the command line                     *)
(* (src/shells/cli/mod.ts, admin-client.ts), the file that tells it where  *)
(* the daemon listens, the admin server (src/shells/admin/admin-server.ts) *)
(* with the callbacks of the composition root behind it, and the life of   *)
(* the daemon around them: start, graceful stop, timeout, crash, and the   *)
(* start of the next one.                                                  *)
(*                                                                         *)
(* Daemons and invocations of the command line are processes; each runs    *)
(* once.  A step is the code between two awaits, but for the release of    *)
(* the pid lock and the save of the state file, which are a single step    *)
(* here: how they are made is in DaemonState, and how frames are cut in    *)
(* Framing.                                                                *)
(***************************************************************************)
EXTENDS Naturals, FiniteSets

CONSTANTS
    Daemon,        \* processes that run `clipruler daemon`, in the order they start
    Faulty,        \* bound: those that may crash or run into the timeout of a stop
    Client,        \* processes that run another subcommand
    Device,        \* peers that may be trusted or visible
    None,          \* no process, no device
    AdminSock,     \* the path of the Unix socket
    NoFile,        \* no endpoint file
    EmptyFile,     \* an endpoint file nothing has been written to
    Typed,         \* the subcommands that an invocation may be
    MaxProcesses   \* bound: daemons and invocations that are started

Commands == {"list", "status", "pair", "enable", "disable", "forget", "help",
             "usage", "bogus"}

ASSUME AdminAssumption ==
    /\ Daemon \subseteq Nat /\ Faulty \subseteq Daemon
    /\ None \notin Daemon \cup Device
    /\ {NoFile, EmptyFile} \cap (Daemon \cup {AdminSock}) = {} /\ AdminSock \notin Daemon
    /\ Typed \in [Client -> SUBSET Commands] /\ MaxProcesses \in Nat

VARIABLES
    os,         \* the platform
    pidFile,    \* the process in the pid file
    seen,       \* what a starting daemon has read there
    endpoint,   \* what the endpoint file holds
    socket,     \* the process whose listener is bound to admin.sock (POSIX)
    trusted,    \* trusted devices of the state file
    stage,      \* of each daemon
    client,     \* of each invocation: its progress and exit code
    call,       \* its connection to a daemon, and the handler at the other end
    stray,      \* history: was the endpoint file of a newer daemon removed?
    raced,      \* history: did a start write over a pid it had not read?
    hist        \* history: what held all along an invocation

lock     == <<pidFile, seen>>
files    == <<lock, endpoint, socket>>
oddities == <<stray, raced>>
vars     == <<os, files, trusted, stage, client, call, oddities, hist>>

\* Where a daemon can be reached: one path on POSIX, a port each on Windows.
Address(d) == IF os = "posix" THEN AdminSock ELSE d
Addresses  == {Address(d) : d \in Daemon}

Stages == {"off", "probing", "locking", "locked", "networked", "unbound", "bound", "writing", "up",
           "closing", "closed", "released", "gone"}

Alive(d)     == stage[d] \notin {"off", "gone"}
Listening(d) == stage[d] \in {"bound", "writing", "up"}

\* The accept loop runs once startAdminServer is past its last await.
Accepting(d) == stage[d] \in IF os = "posix" THEN {"writing", "up"} ELSE {"up"}

\* The process that a connection to an address reaches, if any.
Listener(a) == {d \in Daemon : /\ Listening(d) /\ a = Address(d)
                               /\ os = "posix" => socket = d}

View  == [paired : SUBSET Device, reachable : SUBSET Device, available : SUBSET Device]
Blank == [paired |-> {}, reachable |-> {}, available |-> {}]

Idle   == [at |-> "idle", kind |-> "usage", dev |-> None, tries |-> 0, to |-> NoFile,
           exit |-> 0]
NoCall == [with |-> None, at |-> "none", set |-> {}, ok |-> FALSE, view |-> Blank]

NoHist == [kept |-> {}, failed |-> FALSE, up |-> {}]

Running(c) == client[c].at \in {"reading", "connecting", "waiting"}

Init ==
    /\ os \in {"posix", "windows"}
    /\ pidFile = None /\ seen = [d \in Daemon |-> None] /\ endpoint = NoFile /\ socket = None
    /\ trusted = Device
    /\ stage = [d \in Daemon |-> "off"]
    /\ client = [c \in Client |-> Idle]
    /\ call = [c \in Client |-> NoCall]
    /\ stray = FALSE /\ raced = FALSE
    /\ hist = [c \in Client |-> NoHist]

\* One more process may be started.
MayStart == Cardinality({d \in Daemon : stage[d] # "off"})
              + Cardinality({c \in Client : client[c].at # "idle"}) < MaxProcesses

\* A process that has not started, though all before it have.
Unstarted(d) == stage[d] = "off" /\ \A e \in Daemon : e < d => stage[e] # "off"

Goto(d, s) == stage' = [stage EXCEPT ![d] = s]

\* The calls that a daemon can no longer answer once those in states `lost' are cut.
Cut(d, lost) ==
    call' = [c \in Client |-> IF call[c].with = d /\ call[c].at \in lost
                              THEN [NoCall EXCEPT !.with = d, !.at = "closed"] ELSE call[c]]

\* The end of a process: its handlers and the backlog are gone.
Dies(d) ==
    /\ Cut(d, {"queued", "handling", "listing", "saving", "replying"})
    /\ Goto(d, "gone")

-------------------------------------------------------------------------------
(***************************************************************************)
(* Start of a daemon, in the order of buildAndRunDaemon.                   *)
(***************************************************************************)
\* acquire(): read the pid file, see whether that process exists, write.
ReadPid(d) ==
    /\ Unstarted(d) /\ MayStart
    /\ seen' = [seen EXCEPT ![d] = pidFile]
    /\ Goto(d, "probing")
    /\ UNCHANGED <<os, pidFile, endpoint, socket, trusted, client, call, oddities>>

\* Mutant: whoever holds the lock is taken for dead.
Probe_AllDead(d) ==
    /\ stage[d] = "probing"
    /\ Goto(d, "locking")
    /\ UNCHANGED <<os, files, trusted, client, call, oddities>>

Probe(d) ==
    /\ stage[d] = "probing"
    /\ Goto(d, IF seen[d] # None /\ Alive(seen[d]) THEN "gone"    \* LockHeldError
                                                   ELSE "locking")
    /\ UNCHANGED <<os, files, trusted, client, call, oddities>>

\* Whatever is in the file by now is lost.
WritePid(d) ==
    /\ stage[d] = "locking"
    /\ pidFile' = d /\ seen' = [seen EXCEPT ![d] = None]
    /\ raced' = (raced \/ pidFile \notin {seen[d], None})
    /\ Goto(d, "locked")
    /\ UNCHANGED <<os, endpoint, socket, trusted, client, call, stray>>

\* State, keys, certificate, transport, beacon and the sync use cases.
StartNetwork(d) ==
    /\ stage[d] = "locked"
    /\ Goto(d, "networked")
    /\ UNCHANGED <<os, files, trusted, client, call, oddities>>

RemoveStaleSocket(d) ==
    /\ os = "posix" /\ stage[d] = "networked"
    /\ socket' = None
    /\ Goto(d, "unbound")
    /\ UNCHANGED <<os, lock, endpoint, trusted, client, call, oddities>>

\* A path that exists is an address in use: somebody else has bound it since it
\* was removed, and the start throws.
Listen(d) ==
    /\ stage[d] = IF os = "posix" THEN "unbound" ELSE "networked"
    /\ IF os = "posix" /\ socket # None
       THEN Dies(d) /\ UNCHANGED socket
       ELSE /\ socket' = IF os = "posix" THEN d ELSE socket
            /\ Goto(d, "bound")
            /\ UNCHANGED call
    /\ UNCHANGED <<os, lock, endpoint, trusted, client, oddities>>

\* The chmod is over, so the accept loop starts (POSIX), and the endpoint file
\* is created or truncated: writeTextFile opens it first and writes it later.
OpenEndpoint(d) ==
    /\ stage[d] = "bound"
    /\ endpoint' = EmptyFile
    /\ Goto(d, "writing")
    /\ UNCHANGED <<os, lock, socket, trusted, client, call, oddities>>

WriteEndpoint(d) ==
    /\ stage[d] = "writing"
    /\ endpoint' = Address(d)
    /\ Goto(d, "up")
    /\ UNCHANGED <<os, lock, socket, trusted, client, call, oddities>>

-------------------------------------------------------------------------------
(***************************************************************************)
(* Stop.  Closing the server resets the connections nobody accepted, and   *)
(* does not wait for the handlers under way: they run on while stop()      *)
(* goes through its steps, until the process exits.                        *)
(***************************************************************************)
Stop(d) ==
    /\ stage[d] = "up"
    /\ Cut(d, {"queued"})
    /\ Goto(d, "closing")
    /\ UNCHANGED <<os, files, trusted, client, oddities>>

\* Transport, beacon, use cases, flush of the counter.
CloseNetwork(d) ==
    /\ stage[d] = "closing"
    /\ Goto(d, "closed")
    /\ UNCHANGED <<os, files, trusted, client, call, oddities>>

\* release() removes the file only if the pid in it is its own.
ReleaseLock(d) ==
    /\ stage[d] = "closed"
    /\ pidFile' = IF pidFile = d THEN None ELSE pidFile
    /\ Goto(d, "released")
    /\ UNCHANGED <<os, seen, endpoint, socket, trusted, client, call, oddities>>

\* The lock is no longer held: the file may be that of the next daemon.  With
\* that stop() has resolved, and main.ts exits.
RemoveEndpoint(d) ==
    /\ stage[d] = "released"
    /\ endpoint' = NoFile
    /\ stray' = (stray \/ \E e \in Daemon \ {d} : stage[e] \in {"writing", "up"})
    /\ Dies(d)
    /\ UNCHANGED <<os, lock, socket, trusted, client, raced>>

\* The timeout wins the race: stop() resolves although shutdown() has not.
TimeOut(d) ==
    /\ d \in Faulty /\ stage[d] \in {"closing", "closed", "released"}
    /\ Dies(d)
    /\ UNCHANGED <<os, files, trusted, client, oddities>>

\* A start that throws exits with code 1; a signal before the handlers are
\* installed, or a fault at any time, ends the process just as well.
Crash(d) ==
    /\ d \in Faulty /\ Alive(d) /\ stage[d] \notin {"closing", "closed", "released"}
    /\ Dies(d)
    /\ UNCHANGED <<os, files, trusted, client, oddities>>

-------------------------------------------------------------------------------
(***************************************************************************)
(* The command line.                                                       *)
(***************************************************************************)
\* The process ends: of what it knew only the exit code is left.
Done(c, code) == client' = [client EXCEPT ![c] = [Idle EXCEPT !.at = "done", !.exit = code]]

\* A subcommand that needs a device, with or without it on the command line.
NeedsDevice(k) == k \in {"enable", "disable", "forget"}

\* Without a subcommand, or with --help, the usage is printed at once; `help' is
\* a subcommand like the others.
Invoke(c) ==
    /\ client[c].at = "idle" /\ MayStart
    /\ \E k \in Typed[c] :
        \/ k = "usage" /\ Done(c, 0)
        \/ k = "bogus" /\ Done(c, 2)
        \/ /\ k \notin {"usage", "bogus"}
           /\ \E x \in IF NeedsDevice(k) THEN Device \cup {None} ELSE {None} :
                 client' = [client EXCEPT ![c] =
                              [Idle EXCEPT !.at = "reading", !.kind = k, !.dev = x]]
    /\ UNCHANGED <<os, files, trusted, stage, call, oddities>>

Retries == 3

\* Mutant: one attempt too many.
ReadEndpoint_OneMore(c) ==
    /\ client[c].at = "reading"
    /\ IF endpoint \in {NoFile, EmptyFile}
       THEN IF client[c].tries = Retries
            THEN Done(c, 2)
            ELSE client' = [client EXCEPT ![c].tries = @ + 1]
       ELSE IF NeedsDevice(client[c].kind) /\ client[c].dev = None
       THEN Done(c, 2)
       ELSE IF client[c].kind = "help"
       THEN Done(c, 0)
       ELSE client' = [client EXCEPT ![c].to = endpoint, ![c].at = "connecting"]
    /\ UNCHANGED <<os, files, trusted, stage, call, oddities>>

ReadEndpoint(c) ==
    /\ client[c].at = "reading"
    /\ IF endpoint \in {NoFile, EmptyFile}
       THEN IF client[c].tries + 1 = Retries
            THEN Done(c, 2)
            ELSE client' = [client EXCEPT ![c].tries = @ + 1]
       ELSE IF NeedsDevice(client[c].kind) /\ client[c].dev = None
       THEN Done(c, 2)                                        \* usage error
       ELSE IF client[c].kind = "help"
       THEN Done(c, 0)
       ELSE client' = [client EXCEPT ![c].to = endpoint, ![c].at = "connecting"]
    /\ UNCHANGED <<os, files, trusted, stage, call, oddities>>

\* Connect and write the request, or fail: whatever is thrown exits with 1.
Connect(c) ==
    /\ client[c].at = "connecting"
    /\ IF Listener(client[c].to) = {}
       THEN /\ Done(c, 1)
            /\ UNCHANGED call
       ELSE /\ \E d \in Listener(client[c].to) :
                   call' = [call EXCEPT ![c] = [NoCall EXCEPT !.with = d, !.at = "queued"]]
            /\ client' = [client EXCEPT ![c].at = "waiting"]
    /\ UNCHANGED <<os, files, trusted, stage, oddities>>

\* One response, or the end of the stream.
Receive(c) ==
    /\ client[c].at = "waiting"
    /\ call[c].at \in {"answered", "closed"}
    /\ Done(c, IF call[c].at = "answered" /\ call[c].ok THEN 0 ELSE 1)
    /\ call' = [call EXCEPT ![c] = NoCall]                    \* conn.close()
    /\ UNCHANGED <<os, files, trusted, stage, oddities>>

-------------------------------------------------------------------------------
(***************************************************************************)
(* The admin server: one handler per connection, all in one event loop.    *)
(***************************************************************************)
At(c, s) == call[c].at = s

\* Accept the connection, read and decode its request, which arrives whole:
\* what a cut request does to the reader is in Framing.
Accept(c) ==
    /\ At(c, "queued") /\ Accepting(call[c].with)
    /\ call' = [call EXCEPT ![c].at = "handling"]
    /\ UNCHANGED <<os, files, trusted, stage, client, oddities>>

\* dispatchAdmin resolves with a response, and the handler writes it then.
Answer(c, ok, v) ==
    call' = [call EXCEPT ![c] = [@ EXCEPT !.at = "replying", !.set = {}, !.ok = ok, !.view = v]]

Respond(c) ==
    /\ At(c, "replying")
    /\ call' = [call EXCEPT ![c].at = "answered"]
    /\ UNCHANGED <<os, files, trusted, stage, client, oddities>>

\* status answers at once, pair is refused, and enable and disable look the
\* device up and change nothing (the repository's setSharingEnabled is empty).
Dispatch(c) ==
    /\ At(c, "handling")
    /\ client[c].kind \in {"status", "pair", "enable", "disable"}
    /\ Answer(c, client[c].kind # "pair", Blank)
    /\ UNCHANGED <<os, files, trusted, stage, client, oddities>>

\* listDevices: the peer map, whatever the beacon sees (Discovery), is copied
\* now; the registry arrives later.
ListDevices(c) ==
    /\ At(c, "handling") /\ client[c].kind = "list"
    /\ \E visible \in SUBSET Device :
           call' = [call EXCEPT ![c].at = "listing", ![c].set = visible]
    /\ UNCHANGED <<os, files, trusted, stage, client, oddities>>

\* Mutant: the pairing of a visible peer is not looked up.
DeviceListView_All(stored, visible) ==
    [paired |-> stored, reachable |-> stored \cap visible, available |-> visible]

DeviceListView(stored, visible) ==
    [paired |-> stored, reachable |-> stored \cap visible, available |-> visible \ stored]

\* A state file that cannot be read is an empty registry: list() catches.
ListEnd(c) ==
    /\ At(c, "listing")
    /\ \E stored \in {trusted, {}} : Answer(c, TRUE, DeviceListView(stored, call[c].set))
    /\ UNCHANGED <<os, files, trusted, stage, client, oddities>>

\* ForgetDevice loads the state; only a device that is in it is worth a save.
ForgetLoad(c) ==
    /\ At(c, "handling") /\ client[c].kind = "forget"
    /\ \/ /\ client[c].dev \in trusted
          /\ call' = [call EXCEPT ![c].at = "saving", ![c].set = trusted \ {client[c].dev}]
       \/ client[c].dev \notin trusted /\ Answer(c, TRUE, Blank)
       \/ Answer(c, FALSE, Blank)                              \* the load throws
    /\ UNCHANGED <<os, files, trusted, stage, client, oddities>>

\* Mutant: the answer does not wait for the save.
ForgetSave_Answered(c) ==
    /\ At(c, "saving")
    /\ Answer(c, TRUE, Blank)
    /\ trusted' \in {call[c].set, trusted}
    /\ UNCHANGED <<os, files, stage, client, oddities>>

\* Mutant: a save that throws is not answered, nor is the connection closed.
ForgetSave_Silent(c) ==
    /\ At(c, "saving")
    /\ \/ trusted' = call[c].set /\ Answer(c, TRUE, Blank)
       \/ UNCHANGED trusted /\ call' = [call EXCEPT ![c].at = "none"]
    /\ UNCHANGED <<os, files, stage, client, oddities>>

ForgetSave(c) ==
    /\ At(c, "saving")
    /\ \/ trusted' = call[c].set /\ Answer(c, TRUE, Blank)
       \/ UNCHANGED trusted /\ Answer(c, FALSE, Blank)         \* the save throws
    /\ UNCHANGED <<os, files, stage, client, oddities>>

-------------------------------------------------------------------------------
(***************************************************************************)
(* History: since an invocation started, the devices that stayed trusted,  *)
(* whether its list failed to read the registry, and the daemons that were *)
(* up all along.                                                           *)
(***************************************************************************)
\* A command that writes nothing and does not lack its argument.
Plain(cl) == \/ cl.kind \in {"list", "status", "help"}
             \/ cl.kind \in {"enable", "disable"} /\ cl.dev # None

Watch ==
    hist' = [c \in Client |->
        IF client[c].at = "idle" /\ client'[c].at = "reading"
        THEN [kept |-> IF client'[c].kind \in {"list", "forget"} THEN trusted ELSE {},
              failed |-> FALSE,
              up |-> {d \in Daemon : stage[d] = "up" /\ Plain(client'[c])}]
        ELSE IF ~Running(c)' THEN NoHist
        ELSE [kept |-> hist[c].kept \cap trusted',
              failed |-> \/ hist[c].failed
                         \/ At(c, "listing") /\ call'[c].at = "replying"
                            /\ call'[c].view.paired # trusted,
              up |-> {d \in hist[c].up : stage'[d] = "up"}]]

Acquire(d)  == ReadPid(d) \/ Probe(d) \/ WritePid(d)
Start(d)    == \/ StartNetwork(d) \/ RemoveStaleSocket(d) \/ Listen(d)
               \/ OpenEndpoint(d) \/ WriteEndpoint(d)
Shutdown(d) == CloseNetwork(d) \/ ReleaseLock(d) \/ RemoveEndpoint(d)
Serve(c)    == \/ Accept(c) \/ Dispatch(c) \/ ListDevices(c) \/ ListEnd(c)
               \/ ForgetLoad(c) \/ ForgetSave(c) \/ Respond(c)
Proceed(c)  == ReadEndpoint(c) \/ Connect(c) \/ Receive(c)

Step ==
    \/ \E d \in Daemon : \/ Acquire(d) \/ Start(d) \/ Stop(d) \/ Shutdown(d) \/ TimeOut(d) \/ Crash(d)
    \/ \E c \in Client : Invoke(c) \/ Proceed(c) \/ Serve(c)

Next == Step /\ Watch

Spec == Init /\ [][Next]_vars

\* The event loops run, file operations and timers end; a start that does not
\* throw goes on.  Nobody owes a command, a stop or a crash.
Fairness ==
    /\ \A d \in Daemon : WF_vars(Start(d) /\ Watch) /\ WF_vars(Shutdown(d) /\ Watch)
    /\ \A c \in Client : WF_vars(Serve(c) /\ Watch) /\ WF_vars(Proceed(c) /\ Watch)

FairSpec == Spec /\ Fairness

-------------------------------------------------------------------------------
\* Types.
TypeOK ==
    /\ os \in {"posix", "windows"}
    /\ pidFile \in Daemon \cup {None} /\ seen \in [Daemon -> Daemon \cup {None}]
    /\ endpoint \in Addresses \cup {NoFile, EmptyFile}
    /\ socket \in Daemon \cup {None}
    /\ trusted \subseteq Device
    /\ stage \in [Daemon -> Stages]
    /\ client \in [Client -> [at : {"idle", "reading", "connecting", "waiting", "done"},
                              kind : Commands, dev : Device \cup {None},
                              tries : 0 .. Retries - 1, to : Addresses \cup {NoFile},
                              exit : 0 .. 2]]
    /\ call \in [Client -> [with : Daemon \cup {None},
                            at : {"none", "queued", "handling", "listing", "saving",
                                  "replying", "answered", "closed"},
                            set : SUBSET Device, ok : BOOLEAN, view : View]]
    /\ stray \in BOOLEAN /\ raced \in BOOLEAN
    /\ hist \in [Client -> [kept : SUBSET Device, failed : BOOLEAN,
                            up : SUBSET Daemon]]

\* The step in which an invocation exits with a code.
Exits(c, code) == Running(c) /\ client'[c].at = "done" /\ client'[c].exit = code

(***************************************************************************)
(* A command that neither writes nor lacks its argument succeeds when one  *)
(* daemon is up all the time it runs: the endpoint file, the socket and    *)
(* the accept loop lead to it, whatever earlier daemons left behind or     *)
(* clean up.  There are two exceptions: a predecessor that removes the     *)
(* endpoint file after it has released the lock (stray), and a start that  *)
(* has written over the pid of another that came between its read and its  *)
(* write (raced): it takes the socket of the first, and when it ends the   *)
(* first is up and cannot be reached.                                      *)
(***************************************************************************)
ServedByUp(c) ==
    Plain(client[c]) /\ (Exits(c, 1) \/ Exits(c, 2)) => stray \/ raced \/ hist[c].up = {}

UpMeansServed == [][\A c \in Client : ServedByUp(c)]_vars

(***************************************************************************)
(* `forget' prints "Device removed." only for a device that was not        *)
(* trusted at some moment since the command was typed, whatever other      *)
(* commands, crashes and failed saves did meanwhile.                       *)
(***************************************************************************)
ForgottenOnce(c) ==
    Exits(c, 0) /\ client[c].kind = "forget" => client[c].dev \notin hist[c].kept

OkMeansForgotten == [][\A c \in Client : ForgottenOnce(c)]_vars

(***************************************************************************)
(* A list is coherent although its two halves are read at different times, *)
(* one of them after an await: a device that was trusted all along is      *)
(* listed as paired and not as available, whatever forgets run meanwhile,  *)
(* unless the registry could not be read.                                  *)
(***************************************************************************)
CoherentView(c) ==
    Exits(c, 0) /\ client[c].kind = "list" /\ ~hist[c].failed =>
        hist[c].kept \subseteq call[c].view.paired \ call[c].view.available

ListCoherent == [][\A c \in Client : CoherentView(c)]_vars

(***************************************************************************)
(* A command line always ends, with an answer, an end of stream or no      *)
(* daemon to talk to: the client waits without a timeout, so the daemon    *)
(* must answer, or close, every connection, also during a stop.            *)
(***************************************************************************)
CommandsEnd == \A c \in Client : Running(c) ~> ~Running(c)
===============================================================================
