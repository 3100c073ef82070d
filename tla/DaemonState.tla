----------------------------- MODULE DaemonState -----------------------------
(***************************************************************************)
(* What a daemon keeps on disk, and how: the PID lock that makes it the    *)
(* only instance (src/infrastructure/pid-lock/pid-lock.ts), the state file *)
(* (persistence/state-store.ts), the identity key (identity/               *)
(* file-key-store.ts), the debounced flush of the logical clock and the    *)
(* graceful shutdown (shells/composition-root.ts), and the operations that *)
(* load, change and save the state file.                                   *)
(*                                                                         *)
(* A process is started once: a restart is the start of another one in the *)
(* same application directory.  An action is the code between two awaits,  *)
(* so the file operations of several handlers, and of several processes,   *)
(* interleave.                                                             *)
(***************************************************************************)
EXTENDS Integers, FiniteSets

CONSTANTS
    Pid,           \* the processes
    NoPid,         \* no pid file
    Device,        \* peers that can be trusted
    NoFile,        \* no state file
    NoKey,         \* no identity file
    Torn,          \* a file that does not parse
    NoCounter,     \* pendingCounter is undefined
    Kinds,         \* the operations on the trusted devices that are called
    MaxCounter,    \* bound: the clock
    MaxInputs,     \* bound: advances and operations on the trusted devices
    MaxFaults      \* bound: crashes, power losses, failed saves, timeouts

ASSUME DaemonStateAssumption ==
    /\ NoPid \notin Pid /\ NoKey \notin Pid /\ Torn \notin Pid /\ NoKey # Torn
    /\ NoCounter \notin Nat
    /\ Kinds \subseteq {"forget", "add", "delete"}
    /\ {MaxCounter, MaxInputs, MaxFaults} \subseteq Nat

State == [counter : Nat, trusted : SUBSET Device]

ASSUME FileAssumption == NoFile # Torn /\ {NoFile, Torn} \cap State = {}

VARIABLES
    pidFile,    \* the pid in the pid file
    file,       \* what a load of the state file finds
    durable,    \* what it may find after a power loss
    identity,   \* the key in identity.key, named by the process that made it
    durableKey, \* what it may be after a power loss
    phase,      \* of each process
    seen,       \* the pid that acquire() read, until it writes its own
    key,        \* the identity a process runs with, or ran with
    counter,    \* its clock
    pending,    \* its pendingCounter
    timer,      \* is its flushTimer armed?
    ops,        \* its load-change-save operations under way
    forgotten,  \* history: devices whose forget was saved and answered
    overlapped, \* history: has an operation overtaken another?
    contended,  \* history: devices with an add and a forget under way at once
    raced,      \* history: what a start has raced with, another "start" or an "exit"
    keyLost,    \* history: has a power loss taken the key of a daemon?
    inputs, faults     \* what the bounds count

disk    == <<pidFile, file, durable, identity, durableKey>>
clock   == <<counter, pending, timer>>
saves   == <<forgotten, overlapped, contended>>
history == <<saves, raced, keyLost>>
bounds  == <<inputs, faults>>
vars    == <<disk, phase, seen, key, clock, ops, history, bounds>>

Phase == {"off", "probing", "locking", "loading", "keying", "generating", "savingKey",
          "running", "stopping", "releasing", "removing", "exiting", "exited", "dead"}

\* The processes that exist, and those that own the lock.
Alive  == {p \in Pid : phase[p] \notin {"off", "exited", "dead"}}
Holder == {p \in Alive : phase[p] \notin {"probing", "locking", "exiting"}}

\* Operations: kind, its device or counter, progress, what it will save.
Progress == {"loading", "writing", "renaming", "syncing"}
Op == [kind : {"flush"}, arg : Nat,
         at : Progress, new : State \union {NoFile}, synced : BOOLEAN]
      \union
      [kind : {"forget", "add", "delete"}, arg : Device,
         at : Progress, new : State \union {NoFile}, synced : BOOLEAN]

counterOf(f) == IF f = NoFile THEN 0 ELSE f.counter
trustedOf(f) == IF f = NoFile THEN {} ELSE f.trusted

Init ==
    /\ pidFile = NoPid
    /\ file \in {NoFile, [counter |-> 0, trusted |-> Device]}
    /\ durable = {file}
    /\ identity = NoKey /\ durableKey = {NoKey}
    /\ phase   = [p \in Pid |-> "off"]
    /\ seen    = [p \in Pid |-> NoPid]
    /\ key     = [p \in Pid |-> NoKey]
    /\ counter = [p \in Pid |-> 0]
    /\ pending = [p \in Pid |-> NoCounter]
    /\ timer   = [p \in Pid |-> FALSE]
    /\ ops     = [p \in Pid |-> {}]
    /\ forgotten = {}
    /\ overlapped = FALSE
    /\ contended = {}
    /\ raced = {} /\ keyLost = FALSE
    /\ inputs = 0 /\ faults = 0

\* Two daemons that run at once use up one of each bound.
MayInput == inputs + Cardinality(raced) < MaxInputs
MayFail  == faults + Cardinality(raced) < MaxFaults

Goto(p, ph) == phase' = [phase EXCEPT ![p] = ph]

-------------------------------------------------------------------------------
(***************************************************************************)
(* Start: acquire() reads the pid file, probes that process, and only then *)
(* writes its own pid.  Three steps, and nothing holds them together.      *)
(***************************************************************************)
ReadPid(p) ==
    /\ phase[p] = "off"
    /\ seen' = [seen EXCEPT ![p] = pidFile]
    /\ Goto(p, "probing")
    /\ UNCHANGED <<disk, key, clock, ops, history, bounds>>

\* Mutant: a recorded pid is always taken for a dead process.
Probe_AllDead(p) ==
    /\ phase[p] = "probing"
    /\ Goto(p, "locking")
    /\ UNCHANGED <<disk, seen, key, clock, ops, history, bounds>>

\* LockHeldError ends the process.
Probe(p) ==
    /\ phase[p] = "probing"
    /\ \/ seen[p] \in Alive /\ Goto(p, "exited") /\ seen' = [seen EXCEPT ![p] = NoPid]
       \/ seen[p] \notin Alive /\ Goto(p, "locking") /\ UNCHANGED seen
    /\ UNCHANGED <<disk, key, clock, ops, history, bounds>>

\* The file is written whatever it holds by now: the pid of another start that
\* came in between is lost.
WritePid(p) ==
    /\ phase[p] = "locking"
    /\ pidFile' = p
    /\ raced' = IF pidFile \in {seen[p], NoPid} THEN raced ELSE raced \union {"start"}
    /\ seen' = [seen EXCEPT ![p] = NoPid]
    /\ Goto(p, "loading")
    /\ UNCHANGED <<file, durable, identity, durableKey, key, clock, ops, saves, keyLost, bounds>>

\* Mutant: the clock starts at zero whatever the file says.
LoadState_FromZero(p) ==
    /\ phase[p] = "loading"
    /\ file # Torn /\ Goto(p, "keying")
    /\ UNCHANGED <<disk, seen, key, clock, ops, history, bounds>>

\* A state file that does not parse ends the start, and the pid file stays.
\* A daemon on its way out has given up the lock, but may still be saving.
LoadState(p) ==
    /\ phase[p] = "loading"
    /\ \/ /\ file = Torn
          /\ Goto(p, "exited")
          /\ UNCHANGED counter
       \/ /\ file # Torn
          /\ counter' = [counter EXCEPT ![p] = counterOf(file)]
          /\ Goto(p, "keying")
    /\ raced' = IF \E q \in Pid : phase[q] = "exiting" THEN raced \union {"exit"} ELSE raced
    /\ UNCHANGED <<disk, seen, key, pending, timer, ops, saves, keyLost, bounds>>

\* getOrCreateLocal: only a missing file makes it generate a key.
ReadKey(p) ==
    /\ phase[p] = "keying"
    /\ \/ /\ identity = NoKey
          /\ Goto(p, "generating")
          /\ UNCHANGED key
       \/ /\ identity = Torn
          /\ Goto(p, "exited")
          /\ UNCHANGED key
       \/ /\ identity \in Pid
          /\ key' = [key EXCEPT ![p] = identity]
          /\ Goto(p, "running")
    /\ UNCHANGED <<disk, seen, clock, ops, history, bounds>>

\* The key is written in place, and not synced: the file is truncated, then
\* filled, and a power loss may leave any of what it held.
TruncateKey(p) ==
    /\ phase[p] = "generating"
    /\ identity' = Torn
    /\ durableKey' = durableKey \union {Torn}
    /\ Goto(p, "savingKey")
    /\ UNCHANGED <<pidFile, file, durable, seen, key, clock, ops, history, bounds>>

FillKey(p) ==
    /\ phase[p] = "savingKey"
    /\ identity' = p
    /\ durableKey' = durableKey \union {p}
    /\ key' = [key EXCEPT ![p] = p]
    /\ Goto(p, "running")
    /\ UNCHANGED <<pidFile, file, durable, seen, clock, ops, history, bounds>>

-------------------------------------------------------------------------------
(***************************************************************************)
(* The clock and its debounced sink: an advance leaves the newest value in *)
(* pendingCounter and arms the timer unless it is armed already.           *)
(***************************************************************************)
\* Mutant: no timer is armed while an earlier value is being saved.
flushCounter_OnceAtATime(p, c) ==
    /\ pending' = [pending EXCEPT ![p] = c]
    /\ timer' = [timer EXCEPT ![p] = @ \/ \A o \in ops[p] : o.kind # "flush"]

flushCounter(p, c) ==
    /\ pending' = [pending EXCEPT ![p] = c]
    /\ timer' = [timer EXCEPT ![p] = TRUE]

\* A local tick, or a remote counter that is ahead.  A handler under way
\* observes even after the use cases are unsubscribed.
Advance(p, c) ==
    /\ phase[p] \in {"running", "stopping", "releasing", "removing", "exiting"}
    /\ c > counter[p] /\ c <= MaxCounter
    /\ MayInput /\ inputs' = inputs + 1
    /\ counter' = [counter EXCEPT ![p] = c]
    /\ flushCounter(p, c)
    /\ UNCHANGED <<disk, phase, seen, key, ops, history, faults>>

\* Mutant: the timer does not check that there is something to write.
FlushFires_Unchecked(p) ==
    /\ timer[p] /\ p \in Alive
    /\ timer' = [timer EXCEPT ![p] = FALSE]
    /\ pending' = [pending EXCEPT ![p] = NoCounter]
    /\ ops' = [ops EXCEPT ![p] = @ \union
                  {[kind |-> "flush", arg |-> pending[p], at |-> "loading",
                    new |-> NoFile, synced |-> FALSE]}]
    /\ UNCHANGED <<disk, phase, seen, key, counter, history, bounds>>

FlushFires(p) ==
    /\ timer[p] /\ p \in Alive
    /\ timer' = [timer EXCEPT ![p] = FALSE]
    /\ pending' = [pending EXCEPT ![p] = NoCounter]
    /\ ops' = IF pending[p] = NoCounter THEN ops
              ELSE [ops EXCEPT ![p] = @ \union
                      {[kind |-> "flush", arg |-> pending[p], at |-> "loading",
                        new |-> NoFile, synced |-> FALSE]}]
    /\ UNCHANGED <<disk, phase, seen, key, counter, history, bounds>>

-------------------------------------------------------------------------------
(***************************************************************************)
(* Operations on the trusted devices: an admin request to forget one, and  *)
(* the key store's add and delete.                                         *)
(***************************************************************************)
\* Is d being added while it is to be forgotten, or the other way round?
Opposite(k, d) ==
    \E p \in Pid : \E o \in ops[p] : o.arg = d /\ {k, o.kind} = {"add", "forget"}

StartOp(p, k, d) ==
    /\ phase[p] = "running" /\ k \in Kinds /\ MayInput
    /\ inputs' = inputs + 1
    /\ ops' = [ops EXCEPT ![p] = @ \union
                 {[kind |-> k, arg |-> d, at |-> "loading", new |-> NoFile, synced |-> FALSE]}]
    /\ forgotten' = IF k = "add" THEN forgotten \ {d} ELSE forgotten
    /\ contended' = IF Opposite(k, d) THEN contended \union {d} ELSE contended
    /\ UNCHANGED <<disk, phase, seen, key, clock, overlapped, raced, keyLost, faults>>

\* The state that operation o makes of the state f it has loaded.
changed(f, o) ==
    CASE o.kind = "flush" -> [counter |-> o.arg, trusted |-> trustedOf(f)]
      [] o.kind = "add"   -> [counter |-> counterOf(f), trusted |-> trustedOf(f) \union {o.arg}]
      [] OTHER            -> [counter |-> counterOf(f), trusted |-> trustedOf(f) \ {o.arg}]

\* Is there anything to save?
mustSave(f, o) ==
    \/ o.kind \in {"flush", "add"}
    \/ o.kind = "forget" /\ o.arg \in trustedOf(f)
    \/ o.kind = "delete" /\ f # NoFile

\* Is another operation about to replace what o loads, or is an older flush
\* still to be saved?
Overtaking(o) ==
    \E p \in Pid : \E x \in ops[p] :
        \/ x.at \in {"writing", "renaming"}
        \/ x.at = "loading" /\ x.kind = "flush" /\ o.kind = "flush" /\ x.arg < o.arg

Load(p, o) ==
    /\ o.at = "loading"
    /\ overlapped' = (overlapped \/ Overtaking(o))
    /\ \/ /\ file # Torn /\ mustSave(file, o)
          /\ ops' = [ops EXCEPT ![p] = (@ \ {o}) \union
                       {[o EXCEPT !.at = "writing", !.new = changed(file, o)]}]
       \/ /\ file = Torn \/ ~mustSave(file, o)
          /\ ops' = [ops EXCEPT ![p] = @ \ {o}]
    /\ UNCHANGED <<disk, phase, seen, key, clock, forgotten, contended, raced, keyLost, bounds>>

-------------------------------------------------------------------------------
(***************************************************************************)
(* StateStore.save: write a temporary file of a fresh name and sync it,    *)
(* rename it over the state file, sync the directory.                      *)
(***************************************************************************)
\* Mutant: the temporary file is not synced.
WriteTmp_NotSynced(p, o) ==
    /\ o.at = "writing"
    /\ ops' = [ops EXCEPT ![p] = (@ \ {o}) \union {[o EXCEPT !.at = "renaming"]}]
    /\ UNCHANGED <<disk, phase, seen, key, clock, history, bounds>>

WriteTmp(p, o) ==
    /\ o.at = "writing"
    /\ ops' = [ops EXCEPT ![p] = (@ \ {o}) \union
                 {[o EXCEPT !.at = "renaming", !.synced = TRUE]}]
    /\ UNCHANGED <<disk, phase, seen, key, clock, history, bounds>>

Rename(p, o) ==
    /\ o.at = "renaming"
    /\ file' = o.new
    /\ durable' = durable \union {IF o.synced THEN o.new ELSE Torn}
    /\ ops' = [ops EXCEPT ![p] = (@ \ {o}) \union {[o EXCEPT !.at = "syncing"]}]
    /\ UNCHANGED <<pidFile, identity, durableKey, phase, seen, key, clock, history, bounds>>

\* A forget is answered once it is saved.
Finish(p, o) ==
    /\ ops' = [ops EXCEPT ![p] = @ \ {o}]
    /\ forgotten' = IF o.kind = "forget" THEN forgotten \union {o.arg} ELSE forgotten

\* Mutant: the rename is not committed to the directory.
SyncDir_Skipped(p, o) ==
    /\ o.at = "syncing"
    /\ Finish(p, o)
    /\ UNCHANGED <<disk, phase, seen, key, clock, overlapped, contended, raced, keyLost, bounds>>

SyncDir(p, o) ==
    /\ o.at = "syncing"
    /\ durable' = {file}
    /\ Finish(p, o)
    /\ UNCHANGED <<pidFile, file, identity, durableKey, phase, seen, key, clock,
                   overlapped, contended, raced, keyLost, bounds>>

\* Any of these file operations throws; the flush logs it, a request reports
\* it.  What was pending is not pending again.
SaveFails(p, o) ==
    /\ o.at # "loading" /\ MayFail
    /\ faults' = faults + 1
    /\ ops' = [ops EXCEPT ![p] = @ \ {o}]
    /\ UNCHANGED <<disk, phase, seen, key, clock, history, inputs>>

-------------------------------------------------------------------------------
(***************************************************************************)
(* stop(): the admin server, the transport and the beacon stop first; then *)
(* in one step the use cases are unsubscribed, the timer is cleared and    *)
(* the pending counter is handed to flushCounter, which only arms a timer  *)
(* again, and is then discarded.                                           *)
(***************************************************************************)
StopServers(p) ==
    /\ phase[p] = "running"
    /\ Goto(p, "stopping")
    /\ UNCHANGED <<disk, seen, key, clock, ops, history, bounds>>

ForceFlush(p) ==
    /\ phase[p] = "stopping"
    /\ timer' = [timer EXCEPT ![p] = pending[p] # NoCounter]
    /\ pending' = [pending EXCEPT ![p] = NoCounter]
    /\ Goto(p, "releasing")
    /\ UNCHANGED <<disk, seen, key, counter, ops, history, bounds>>

\* release() reads the pid file and removes it if the pid is its own.
ReadOwnPid(p) ==
    /\ phase[p] = "releasing"
    /\ Goto(p, IF pidFile = p THEN "removing" ELSE "exiting")
    /\ UNCHANGED <<disk, seen, key, clock, ops, history, bounds>>

RemovePid(p) ==
    /\ phase[p] = "removing"
    /\ pidFile' = NoPid
    /\ Goto(p, "exiting")
    /\ UNCHANGED <<file, durable, identity, durableKey, seen, key, clock, ops, history, bounds>>

\* The processes P are gone, whatever they were doing, and their memory
\* with them.
End(P, ph) ==
    /\ phase'   = [p \in Pid |-> IF p \in P THEN ph ELSE phase[p]]
    /\ seen'    = [p \in Pid |-> IF p \in P THEN NoPid ELSE seen[p]]
    /\ ops'     = [p \in Pid |-> IF p \in P THEN {} ELSE ops[p]]
    /\ counter' = [p \in Pid |-> IF p \in P THEN 0 ELSE counter[p]]
    /\ pending' = [p \in Pid |-> IF p \in P THEN NoCounter ELSE pending[p]]
    /\ timer'   = [p \in Pid |-> IF p \in P THEN FALSE ELSE timer[p]]

Exit(p) ==
    /\ phase[p] = "exiting"
    /\ End({p}, "exited")
    /\ UNCHANGED <<disk, key, history, bounds>>

\* The shutdown takes more than SHUTDOWN_TIMEOUT_MS: daemonMain exits.
StopTimesOut(p) ==
    /\ phase[p] \in {"stopping", "releasing", "removing"}
    /\ MayFail /\ faults' = faults + 1
    /\ End({p}, "exited")
    /\ UNCHANGED <<disk, key, history, inputs>>

Crash(p) ==
    /\ p \in Alive
    /\ MayFail /\ faults' = faults + 1
    /\ End({p}, "dead")
    /\ UNCHANGED <<disk, key, history, inputs>>

\* The machine stops: a rename that was not committed may be undone, and a key
\* that was not synced may be lost or torn.  The pid file may be anything it ever
\* was; whatever process it names is dead, which the next start takes for none.
PowerLoss ==
    /\ MayFail /\ faults' = faults + 1
    /\ End(Alive, "dead")
    /\ file' \in durable
    /\ durable' = {file'}
    /\ pidFile' = NoPid
    /\ identity' \in durableKey
    /\ durableKey' = {identity'}
    /\ keyLost' = (keyLost \/ (identity \in Pid /\ identity' # identity))
    /\ UNCHANGED <<key, saves, raced, inputs>>

-------------------------------------------------------------------------------
Start(p) == ReadPid(p) \/ Probe(p) \/ WritePid(p) \/ LoadState(p)
              \/ ReadKey(p) \/ TruncateKey(p) \/ FillKey(p)

Save(p) == \E o \in ops[p] : Load(p, o) \/ WriteTmp(p, o) \/ Rename(p, o) \/ SyncDir(p, o)

Stop(p) == ForceFlush(p) \/ ReadOwnPid(p) \/ RemovePid(p) \/ Exit(p)

Next ==
    \/ \E p \in Pid :
         \/ Start(p)
         \/ \E c \in 1 .. MaxCounter : Advance(p, c)
         \/ FlushFires(p)
         \/ \E k \in Kinds, d \in Device : StartOp(p, k, d)
         \/ Save(p)
         \/ \E o \in ops[p] : SaveFails(p, o)
         \/ StopServers(p)
         \/ Stop(p)
         \/ StopTimesOut(p)
         \/ Crash(p)
    \/ PowerLoss

Spec == Init /\ [][Next]_vars

\* Timers fire and file operations end; nobody has to start, stop or call.
FairSpec == /\ Spec
            /\ \A p \in Pid : WF_vars(FlushFires(p)) /\ WF_vars(Save(p))
-------------------------------------------------------------------------------
(***************************************************************************)
(* PROPERTIES                                                              *)
(***************************************************************************)
TypeOK ==
    /\ pidFile \in Pid \union {NoPid}
    /\ file \in State \union {NoFile, Torn}
    /\ durable \subseteq State \union {NoFile, Torn}
    /\ identity \in Pid \union {NoKey, Torn}
    /\ durableKey \subseteq Pid \union {NoKey, Torn}
    /\ phase \in [Pid -> Phase]
    /\ seen \in [Pid -> Pid \union {NoPid}]
    /\ key \in [Pid -> Pid \union {NoKey}]
    /\ counter \in [Pid -> Nat]
    /\ pending \in [Pid -> Nat \union {NoCounter}]
    /\ timer \in [Pid -> BOOLEAN]
    /\ ops \in [Pid -> SUBSET Op]
    /\ forgotten \subseteq Device
    /\ overlapped \in BOOLEAN /\ contended \subseteq Device
    /\ raced \subseteq {"start", "exit"} /\ keyLost \in BOOLEAN
    /\ {inputs, faults} \subseteq Nat

(***************************************************************************)
(* state-store.ts saves atomically: whatever stops the process or the      *)
(* machine, and however saves interleave, a load finds the whole of one    *)
(* state that was saved, and a daemon can start again.                     *)
(***************************************************************************)
NeverTorn == file # Torn /\ Torn \notin durable

(***************************************************************************)
(* pid-lock.ts: "single-instance enforcement".  One process at a time      *)
(* holds the lock, and all the daemons that have run in a directory, across *)
(* crashes and restarts, had the same identity.  Two things break this,    *)
(* and nothing else does: acquire() reads, probes and writes in three      *)
(* steps, so a start may write over the pid of another that came between   *)
(* its read and its write (raced); and identity.key is not synced, so a    *)
(* power loss may take a key that a daemon has run with (keyLost).         *)
(***************************************************************************)
SingleInstance ==
    "start" \in raced \/
        /\ \A p, q \in Holder : p = q
        /\ keyLost \/ \A p, q \in Pid :
                         key[p] # NoKey /\ key[q] # NoKey => key[p] = key[q]

(***************************************************************************)
(* forget-device.ts: "removes it, persists state".  A device whose forget  *)
(* was saved and answered is no longer trusted, also after a power loss,   *)
(* unless it was added at the same time.                                   *)
(***************************************************************************)
ForgottenStays == file # Torn => (forgotten \ contended) \cap trustedOf(file) = {}

(***************************************************************************)
(* Only read-modify-writes that overlap can undo a forget.                 *)
(***************************************************************************)
ForgottenUnlessOverlapped == overlapped \/ ForgottenStays

(***************************************************************************)
(* state-file-v1.ts: clockCounter is "monotonically increasing".  Only     *)
(* three things take the counter on the disk back: a power loss, read-     *)
(* modify-writes that overlap, and a second daemon that has loaded the     *)
(* file beside one that can still save it, because their starts raced or   *)
(* because the first gave up the lock and has not ended.  Otherwise a      *)
(* restarted daemon goes on above it.                                      *)
(***************************************************************************)
PersistedCounterGrows ==
    [][overlapped \/ raced # {} \/ PowerLoss \/ counterOf(file') >= counterOf(file)]_vars

(***************************************************************************)
(* The debounced sink loses no advance: a running daemon's counter gets to *)
(* the disk, if no save fails or overlaps another.                         *)
(***************************************************************************)
EventuallyPersisted ==
    \A p \in Pid : \A c \in 1 .. MaxCounter :
        (phase[p] = "running" /\ counter[p] = c)
            ~> \/ file # Torn /\ counterOf(file) >= c
               \/ phase[p] # "running" \/ faults > 0 \/ overlapped

(***************************************************************************)
(* composition-root.ts: "Force-flush the logical counter and state store". *)
(* When a daemon that is alone and met no fault releases its lock, the     *)
(* disk has its counter.                                                   *)
(***************************************************************************)
StopFlushes ==
    \A p \in Pid : phase[p] = "releasing" /\ Alive = {p} /\ faults = 0
                       => counterOf(file) >= counter[p]
===============================================================================
