--------------------------- MODULE DaemonStateProofs ---------------------------
(***************************************************************************)
(* Proofs about DaemonState for every number of processes and every bound: *)
(* its type invariant, that the state file never tears, that a forget is   *)
(* undone only by an overlap, that one process with one identity owns the  *)
(* lock, but for the races named, and that the counter on the disk grows.  *)
(***************************************************************************)
EXTENDS DaemonState, TLAPS

-------------------------------------------------------------------------------
(***************************************************************************)
(* The operations under way: what one is made of, and what each step of a  *)
(* save makes of it.                                                       *)
(***************************************************************************)
LEMMA OpFields ==
    ASSUME NEW o \in Op
    PROVE  /\ o.kind \in {"flush", "forget", "add", "delete"}
           /\ o.kind = "flush" => o.arg \in Nat
           /\ o.kind # "flush" => o.arg \in Device
           /\ o.at \in Progress /\ o.new \in State \union {NoFile}
           /\ o.synced \in BOOLEAN
  BY DEF Op

LEMMA ChangedIsState ==
    ASSUME NEW f \in State \union {NoFile}, NEW o \in Op
    PROVE  changed(f, o) \in State
<1>1. counterOf(f) \in Nat /\ trustedOf(f) \subseteq Device
  BY FileAssumption DEF counterOf, trustedOf, State
<1> QED
  BY <1>1, OpFields DEF changed, State

LEMMA OpLoads ==
    ASSUME NEW o \in Op, NEW f \in State \union {NoFile}
    PROVE  LET w == [o EXCEPT !.at = "writing", !.new = changed(f, o)]
           IN  /\ w \in Op /\ w.at = "writing" /\ w.new = changed(f, o)
               /\ w.kind = o.kind /\ w.arg = o.arg /\ w.synced = o.synced
  BY ChangedIsState DEF Op, Progress

LEMMA OpWrites ==
    ASSUME NEW o \in Op
    PROVE  LET w == [o EXCEPT !.at = "renaming", !.synced = TRUE]
           IN  /\ w \in Op /\ w.at = "renaming" /\ w.synced
               /\ w.kind = o.kind /\ w.arg = o.arg /\ w.new = o.new
  BY DEF Op, Progress

LEMMA OpRenames ==
    ASSUME NEW o \in Op
    PROVE  LET w == [o EXCEPT !.at = "syncing"]
           IN  /\ w \in Op /\ w.at = "syncing"
               /\ w.kind = o.kind /\ w.arg = o.arg /\ w.new = o.new /\ w.synced = o.synced
  BY DEF Op, Progress

-------------------------------------------------------------------------------
(***************************************************************************)
(* The type invariant, of a set of processes that end and of every step.   *)
(***************************************************************************)
LEMMA EndType ==
    ASSUME TypeOK, NEW P, NEW ph \in Phase, End(P, ph)
    PROVE  /\ phase' \in [Pid -> Phase] /\ seen' \in [Pid -> Pid \union {NoPid}]
           /\ ops' \in [Pid -> SUBSET Op] /\ counter' \in [Pid -> Nat]
           /\ pending' \in [Pid -> Nat \union {NoCounter}] /\ timer' \in [Pid -> BOOLEAN]
  BY DEF TypeOK, End

LEMMA NextType == ASSUME TypeOK, Next PROVE TypeOK'
<1> USE DEF TypeOK, disk, clock, history, saves, bounds
<1>1. ASSUME NEW p \in Pid, ReadPid(p) PROVE TypeOK'
  BY <1>1 DEF ReadPid, Goto, Phase
<1>2. ASSUME NEW p \in Pid, Probe(p) PROVE TypeOK'
  BY <1>2 DEF Probe, Goto, Phase
<1>3. ASSUME NEW p \in Pid, WritePid(p) PROVE TypeOK'
  BY <1>3 DEF WritePid, Goto, Phase
<1>4. ASSUME NEW p \in Pid, LoadState(p) PROVE TypeOK'
  <2>1. file # Torn => counterOf(file) \in Nat
    BY FileAssumption DEF counterOf, State
  <2> QED
    BY <1>4, <2>1 DEF LoadState, Goto, Phase
<1>5. ASSUME NEW p \in Pid, ReadKey(p) PROVE TypeOK'
  BY <1>5 DEF ReadKey, Goto, Phase
<1>6. ASSUME NEW p \in Pid, TruncateKey(p) PROVE TypeOK'
  BY <1>6 DEF TruncateKey, Goto, Phase
<1>7. ASSUME NEW p \in Pid, FillKey(p) PROVE TypeOK'
  BY <1>7 DEF FillKey, Goto, Phase
<1>8. ASSUME NEW p \in Pid, NEW c \in 1 .. MaxCounter, Advance(p, c) PROVE TypeOK'
  BY <1>8, DaemonStateAssumption DEF Advance, flushCounter
<1>9. ASSUME NEW p \in Pid, FlushFires(p) PROVE TypeOK'
  <2> DEFINE o == [kind |-> "flush", arg |-> pending[p], at |-> "loading",
                   new |-> NoFile, synced |-> FALSE]
  <2>1. pending[p] # NoCounter => o \in Op
    BY DEF Op, Progress
  <2> QED
    BY <1>9, <2>1 DEF FlushFires
<1>10. ASSUME NEW p \in Pid, NEW k \in Kinds, NEW d \in Device, StartOp(p, k, d) PROVE TypeOK'
  <2> DEFINE o == [kind |-> k, arg |-> d, at |-> "loading", new |-> NoFile, synced |-> FALSE]
  <2>1. o \in Op
    BY DaemonStateAssumption DEF Op, Progress
  <2>2. ops' = [ops EXCEPT ![p] = @ \union {o}] /\ inputs' = inputs + 1
    BY <1>10 DEF StartOp
  <2>3. ops' \in [Pid -> SUBSET Op] /\ inputs' \in Nat
    <3> HIDE DEF o
    <3> QED
      BY <2>1, <2>2
  <2>4. forgotten' \subseteq Device /\ contended' \subseteq Device
    BY <1>10 DEF StartOp
  <2> QED
    BY <1>10, <2>3, <2>4 DEF StartOp
<1>11. ASSUME NEW p \in Pid, NEW o \in ops[p], Load(p, o) PROVE TypeOK'
  <2>1. o \in Op
    OBVIOUS
  <2>2. file # Torn => [o EXCEPT !.at = "writing", !.new = changed(file, o)] \in Op
    BY <2>1, OpLoads
  <2>3. overlapped' \in BOOLEAN
    BY <1>11 DEF Load
  <2> QED
    BY <1>11, <2>2, <2>3 DEF Load
<1>12. ASSUME NEW p \in Pid, NEW o \in ops[p], WriteTmp(p, o) PROVE TypeOK'
  BY <1>12, OpWrites DEF WriteTmp
<1>13. ASSUME NEW p \in Pid, NEW o \in ops[p], Rename(p, o) PROVE TypeOK'
  BY <1>13, OpRenames, OpFields DEF Rename
<1>14. ASSUME NEW p \in Pid, NEW o \in ops[p], SyncDir(p, o) PROVE TypeOK'
  BY <1>14, OpFields DEF SyncDir, Finish
<1>15. ASSUME NEW p \in Pid, NEW o \in ops[p], SaveFails(p, o) PROVE TypeOK'
  BY <1>15 DEF SaveFails
<1>16. ASSUME NEW p \in Pid, StopServers(p) PROVE TypeOK'
  BY <1>16 DEF StopServers, Goto, Phase
<1>17. ASSUME NEW p \in Pid, ForceFlush(p) PROVE TypeOK'
  BY <1>17 DEF ForceFlush, Goto, Phase
<1>18. ASSUME NEW p \in Pid, ReadOwnPid(p) PROVE TypeOK'
  BY <1>18 DEF ReadOwnPid, Goto, Phase
<1>19. ASSUME NEW p \in Pid, RemovePid(p) PROVE TypeOK'
  BY <1>19 DEF RemovePid, Goto, Phase
<1>20. ASSUME NEW p \in Pid, Exit(p) PROVE TypeOK'
  BY <1>20, EndType DEF Exit, Phase
<1>21. ASSUME NEW p \in Pid, StopTimesOut(p) PROVE TypeOK'
  BY <1>21, EndType DEF StopTimesOut, Phase
<1>22. ASSUME NEW p \in Pid, Crash(p) PROVE TypeOK'
  BY <1>22, EndType DEF Crash, Phase
<1>23. ASSUME PowerLoss PROVE TypeOK'
  BY <1>23, EndType DEF PowerLoss, Phase
<1> HIDE DEF TypeOK, disk, clock, history, saves, bounds
<1> QED
  BY <1>1, <1>2, <1>3, <1>4, <1>5, <1>6, <1>7, <1>8, <1>9, <1>10, <1>11, <1>12, <1>13, <1>14,
     <1>15, <1>16, <1>17, <1>18, <1>19, <1>20, <1>21, <1>22, <1>23
  DEF Next, Start, Save, Stop

LEMMA InitType == ASSUME Init PROVE TypeOK
<1>1. file \in State \union {NoFile} /\ durable = {file}
  BY DEF Init, State
<1>2. ops \in [Pid -> SUBSET Op] /\ phase \in [Pid -> Phase]
  BY DEF Init, Phase
<1>3. 0 \in Nat /\ FALSE \in BOOLEAN
  OBVIOUS
<1> QED
  BY <1>1, <1>2, <1>3 DEF Init, TypeOK

(***************************************************************************)
(* The state of every daemon, of every file and of every operation is well *)
(* typed: what is saved is a whole state, and a pending counter is written *)
(* only when there is one.                                                 *)
(***************************************************************************)
THEOREM TypeCorrect == Spec => []TypeOK
<1>1. TypeOK /\ UNCHANGED vars => TypeOK'
  BY DEF TypeOK, vars, disk, clock, history, saves, bounds
<1> QED
  BY InitType, NextType, <1>1, PTL DEF Spec

-------------------------------------------------------------------------------
(***************************************************************************)
(* What a step does to the state file and to the operations: most leave    *)
(* both alone, one of a save does the rest, and the end of a process takes *)
(* its operations with it.                                                 *)
(***************************************************************************)
saved == <<file, durable, saves>>

LEMMA StepCases ==
    ASSUME Next
    PROVE  \/ UNCHANGED <<saved, ops>>
           \/ \E p \in Pid : FlushFires(p)
           \/ \E p \in Pid, k \in Kinds, d \in Device : StartOp(p, k, d)
           \/ \E p \in Pid : \E o \in ops[p] :
                 Load(p, o) \/ WriteTmp(p, o) \/ Rename(p, o) \/ SyncDir(p, o) \/ SaveFails(p, o)
           \/ \E P, ph : End(P, ph) /\ UNCHANGED saved
           \/ PowerLoss
<1> USE DEF disk, clock, history, saves, saved
<1>1. ASSUME NEW p \in Pid, Start(p) PROVE UNCHANGED <<saved, ops>>
  BY <1>1 DEF Start, ReadPid, Probe, WritePid, LoadState, ReadKey, TruncateKey, FillKey
<1>2. ASSUME NEW p \in Pid, NEW c, Advance(p, c) PROVE UNCHANGED <<saved, ops>>
  BY <1>2 DEF Advance
<1>3. ASSUME NEW p \in Pid, StopServers(p) \/ ForceFlush(p) \/ ReadOwnPid(p) \/ RemovePid(p)
      PROVE  UNCHANGED <<saved, ops>>
  BY <1>3 DEF StopServers, ForceFlush, ReadOwnPid, RemovePid
<1>4. ASSUME NEW p \in Pid, Exit(p) \/ StopTimesOut(p) \/ Crash(p)
      PROVE  \E P, ph : End(P, ph) /\ UNCHANGED saved
  BY <1>4 DEF Exit, StopTimesOut, Crash
<1> HIDE DEF disk, clock, history, saves, saved
<1> QED
  BY <1>1, <1>2, <1>3, <1>4 DEF Next, Save, Stop

(***************************************************************************)
(* The operations after a step of one of them: o has become w, or is gone, *)
(* and the others are what they were.                                      *)
(***************************************************************************)
LEMMA Replaced ==
    ASSUME TypeOK, NEW p \in Pid, NEW o \in ops[p], NEW w,
           ops' = [ops EXCEPT ![p] = (@ \ {o}) \union {w}]
    PROVE  \A q \in Pid : \A x \in ops'[q] :
              \/ q = p /\ x = w
              \/ x \in ops[q] /\ (q # p \/ x # o)
  BY DEF TypeOK

LEMMA Removed ==
    ASSUME TypeOK, NEW p \in Pid, NEW o \in ops[p],
           ops' = [ops EXCEPT ![p] = @ \ {o}]
    PROVE  \A q \in Pid : \A x \in ops'[q] : x \in ops[q] /\ (q # p \/ x # o)
  BY DEF TypeOK

LEMMA Added ==
    ASSUME TypeOK, NEW p \in Pid, NEW w,
           ops' = [ops EXCEPT ![p] = @ \union {w}]
    PROVE  \A q \in Pid : \A x \in ops'[q] : x \in ops[q] \/ (q = p /\ x = w)
  BY DEF TypeOK

LEMMA EndOps ==
    ASSUME TypeOK, NEW P, NEW ph, End(P, ph)
    PROVE  \A q \in Pid : ops'[q] \subseteq ops[q]
  BY DEF TypeOK, End

-------------------------------------------------------------------------------
(***************************************************************************)
(* The state file is whole because a temporary file is synced before it is *)
(* renamed: that is the strengthening NeverTorn needs.                     *)
(***************************************************************************)
Synced == \A p \in Pid : \A o \in ops[p] : o.at \in {"renaming", "syncing"} => o.synced

Whole == TypeOK /\ Synced /\ NeverTorn

LEMMA NextSynced == ASSUME Whole, Next PROVE Synced'
<1> USE DEF Whole, Synced
<1> TypeOK
  OBVIOUS
<1>1. CASE UNCHANGED <<saved, ops>>
  BY <1>1
<1>2. ASSUME NEW p \in Pid, FlushFires(p) PROVE Synced'
  <2>1. CASE UNCHANGED ops
    BY <2>1
  <2> DEFINE w == [kind |-> "flush", arg |-> pending[p], at |-> "loading",
                   new |-> NoFile, synced |-> FALSE]
  <2>2. CASE ops' = [ops EXCEPT ![p] = @ \union {w}]
    BY <2>2, Added
  <2> QED
    BY <1>2, <2>1, <2>2 DEF FlushFires
<1>3. ASSUME NEW p \in Pid, NEW k \in Kinds, NEW d \in Device, StartOp(p, k, d) PROVE Synced'
  <2> DEFINE w == [kind |-> k, arg |-> d, at |-> "loading", new |-> NoFile, synced |-> FALSE]
  <2>1. ops' = [ops EXCEPT ![p] = @ \union {w}]
    BY <1>3 DEF StartOp
  <2> QED
    BY <2>1, Added
<1>4. ASSUME NEW p \in Pid, NEW o \in ops[p], Load(p, o) PROVE Synced'
  <2>1. o \in Op /\ file \in State \union {NoFile}
    BY DEF TypeOK, NeverTorn
  <2> DEFINE w == [o EXCEPT !.at = "writing", !.new = changed(file, o)]
  <2>2. w.at = "writing"
    BY <2>1, OpLoads
  <2>3. CASE ops' = [ops EXCEPT ![p] = (@ \ {o}) \union {w}]
    <3> HIDE DEF w
    <3> QED
      BY <2>2, <2>3, Replaced
  <2>4. CASE ops' = [ops EXCEPT ![p] = @ \ {o}]
    BY <2>4, Removed
  <2> QED
    BY <1>4, <2>3, <2>4 DEF Load
<1>5. ASSUME NEW p \in Pid, NEW o \in ops[p], WriteTmp(p, o) PROVE Synced'
  <2> DEFINE w == [o EXCEPT !.at = "renaming", !.synced = TRUE]
  <2>1. w.synced
    BY OpWrites DEF TypeOK
  <2>2. ops' = [ops EXCEPT ![p] = (@ \ {o}) \union {w}]
    BY <1>5 DEF WriteTmp
  <2> HIDE DEF w
  <2> QED
    BY <2>1, <2>2, Replaced
<1>6. ASSUME NEW p \in Pid, NEW o \in ops[p], Rename(p, o) PROVE Synced'
  <2> DEFINE w == [o EXCEPT !.at = "syncing"]
  <2>1. w.synced = o.synced /\ o.synced
    BY <1>6, OpRenames DEF TypeOK, Rename
  <2>2. ops' = [ops EXCEPT ![p] = (@ \ {o}) \union {w}]
    BY <1>6 DEF Rename
  <2> HIDE DEF w
  <2> QED
    BY <2>1, <2>2, Replaced
<1>7. ASSUME NEW p \in Pid, NEW o \in ops[p], SyncDir(p, o) \/ SaveFails(p, o) PROVE Synced'
  <2>1. ops' = [ops EXCEPT ![p] = @ \ {o}]
    BY <1>7 DEF SyncDir, SaveFails, Finish
  <2> QED
    BY <2>1, Removed
<1>8. ASSUME NEW P, NEW ph, End(P, ph) PROVE Synced'
  BY <1>8, EndOps
<1>9. CASE PowerLoss
  BY <1>9, <1>8 DEF PowerLoss
<1> HIDE DEF Synced, Whole
<1> QED
  BY <1>1, <1>2, <1>3, <1>4, <1>5, <1>6, <1>7, <1>8, <1>9, StepCases

LEMMA NextNeverTorn == ASSUME Whole, Next PROVE NeverTorn'
<1> USE DEF NeverTorn
<1>1. CASE UNCHANGED <<file, durable>>
  BY <1>1 DEF Whole
<1>2. ASSUME NEW p \in Pid, NEW o \in ops[p], Rename(p, o) PROVE NeverTorn'
  <2>1. o.new # Torn /\ o.synced
    BY <1>2, OpFields, FileAssumption DEF Whole, TypeOK, Synced, Rename
  <2> QED
    BY <1>2, <2>1 DEF Whole, Rename
<1>3. ASSUME NEW p \in Pid, NEW o \in ops[p], SyncDir(p, o) PROVE NeverTorn'
  BY <1>3 DEF Whole, SyncDir
<1>4. CASE PowerLoss
  BY <1>4 DEF Whole, PowerLoss
<1>5. UNCHANGED saved => UNCHANGED <<file, durable>>
  BY DEF saved
<1>6. ASSUME NEW p \in Pid, NEW o \in ops[p], Load(p, o) \/ WriteTmp(p, o) \/ SaveFails(p, o)
      PROVE  UNCHANGED <<file, durable>>
  BY <1>6 DEF Load, WriteTmp, SaveFails, disk
<1>7. ASSUME NEW p \in Pid, FlushFires(p) \/ (\E k, d : StartOp(p, k, d))
      PROVE  UNCHANGED <<file, durable>>
  BY <1>7 DEF FlushFires, StartOp, disk
<1> HIDE DEF NeverTorn
<1> QED
  BY <1>1, <1>2, <1>3, <1>4, <1>5, <1>6, <1>7, StepCases

LEMMA InitWhole == ASSUME Init PROVE Whole
<1>1. file \in State \union {NoFile} /\ durable = {file} /\ \A p \in Pid : ops[p] = {}
  BY DEF Init, State
<1> QED
  BY <1>1, InitType, FileAssumption DEF Whole, Synced, NeverTorn

LEMMA WholeInvariant == Spec => []Whole
<1>1. Init => Whole
  BY InitWhole
<1>2. Whole /\ Next => Whole'
  BY NextType, NextSynced, NextNeverTorn DEF Whole
<1>3. Whole /\ UNCHANGED vars => Whole'
  BY DEF Whole, TypeOK, Synced, NeverTorn, vars, disk, clock, history, saves, bounds
<1> QED
  BY <1>1, <1>2, <1>3, PTL DEF Spec

(***************************************************************************)
(* state-store.ts saves atomically, for any number of processes and of     *)
(* saves under way, crashes and power losses: a load never finds a part of *)
(* a state.                                                                *)
(***************************************************************************)
THEOREM FileNeverTorn == Spec => []NeverTorn
<1>1. Whole => NeverTorn
  BY DEF Whole
<1> QED
  BY WholeInvariant, <1>1, PTL

-------------------------------------------------------------------------------
(***************************************************************************)
(* Only a daemon that has started has operations under way, a counter to   *)
(* write or a timer; the end of a process takes them away.                 *)
(***************************************************************************)
Busy == {"running", "stopping", "releasing", "removing", "exiting"}

Quiet ==
    \A p \in Pid : phase[p] \notin Busy
        => ops[p] = {} /\ pending[p] = NoCounter /\ timer[p] = FALSE

LEMMA BusyIsAlive == \A p \in Pid : phase[p] \in Busy => p \in Alive
  BY DEF Busy, Alive

LEMMA QuietElsewhere ==
    ASSUME TypeOK, Quiet, NEW p \in Pid, phase'[p] \in Busy,
           \A q \in Pid \ {p} : /\ phase'[q] = phase[q] /\ ops'[q] = ops[q]
                                /\ pending'[q] = pending[q] /\ timer'[q] = timer[q]
    PROVE  Quiet'
  BY DEF Quiet

LEMMA QuietAtEnd ==
    ASSUME Quiet, NEW P, NEW ph, End(P, ph)
    PROVE  Quiet'
  BY DEF Quiet, End

LEMMA NextQuiet == ASSUME TypeOK, Quiet, Next PROVE Quiet'
<1> USE DEF disk, clock, history, saves, bounds
<1>1. ASSUME NEW p \in Pid, Start(p) PROVE Quiet'
  <2>1. phase[p] \notin Busy /\ UNCHANGED <<ops, pending, timer>>
    BY <1>1 DEF Start, ReadPid, Probe, WritePid, LoadState, ReadKey, TruncateKey, FillKey, Busy
  <2>2. \A q \in Pid \ {p} : phase'[q] = phase[q]
    BY <1>1 DEF Start, ReadPid, Probe, WritePid, LoadState, ReadKey, TruncateKey, FillKey, Goto,
                TypeOK
  <2> QED
    BY <2>1, <2>2 DEF Quiet
<1>2. ASSUME NEW p \in Pid, NEW c, Advance(p, c) PROVE Quiet'
  <2>1. phase'[p] \in Busy
    BY <1>2 DEF Advance, Busy
  <2> QED
    BY <1>2, <2>1, QuietElsewhere DEF Advance, flushCounter, TypeOK
<1>3. ASSUME NEW p \in Pid, FlushFires(p) PROVE Quiet'
  <2>1. phase'[p] \in Busy
    BY <1>3 DEF FlushFires, Quiet
  <2> QED
    BY <1>3, <2>1, QuietElsewhere DEF FlushFires, TypeOK
<1>4. ASSUME NEW p \in Pid, NEW k, NEW d, StartOp(p, k, d) PROVE Quiet'
  <2>1. phase'[p] \in Busy
    BY <1>4 DEF StartOp, Busy
  <2> QED
    BY <1>4, <2>1, QuietElsewhere DEF StartOp, TypeOK
<1>5. ASSUME NEW p \in Pid, NEW o \in ops[p],
             Load(p, o) \/ WriteTmp(p, o) \/ Rename(p, o) \/ SyncDir(p, o) \/ SaveFails(p, o)
      PROVE  Quiet'
  <2>1. UNCHANGED <<phase, pending, timer>>
    BY <1>5 DEF Load, WriteTmp, Rename, SyncDir, SaveFails
  <2>2. phase'[p] \in Busy
    BY <2>1 DEF Quiet
  <2>3. \A q \in Pid \ {p} : ops'[q] = ops[q]
    BY <1>5 DEF Load, WriteTmp, Rename, SyncDir, Finish, SaveFails, TypeOK
  <2> QED
    BY <2>1, <2>2, <2>3, QuietElsewhere
<1>6. ASSUME NEW p \in Pid,
             StopServers(p) \/ ForceFlush(p) \/ ReadOwnPid(p) \/ RemovePid(p)
      PROVE  Quiet'
  <2>1. phase'[p] \in Busy
    BY <1>6 DEF StopServers, ForceFlush, ReadOwnPid, RemovePid, Goto, Busy, TypeOK
  <2>2. \A q \in Pid \ {p} : /\ phase'[q] = phase[q] /\ ops'[q] = ops[q]
                             /\ pending'[q] = pending[q] /\ timer'[q] = timer[q]
    BY <1>6 DEF StopServers, ForceFlush, ReadOwnPid, RemovePid, Goto, TypeOK
  <2> QED
    BY <2>1, <2>2, QuietElsewhere
<1>7. ASSUME NEW p \in Pid, Exit(p) \/ StopTimesOut(p) \/ Crash(p) PROVE Quiet'
  BY <1>7, QuietAtEnd DEF Exit, StopTimesOut, Crash
<1>8. CASE PowerLoss
  BY <1>8, QuietAtEnd DEF PowerLoss
<1> HIDE DEF disk, clock, history, saves, bounds
<1> QED
  BY <1>1, <1>2, <1>3, <1>4, <1>5, <1>6, <1>7, <1>8 DEF Next, Save, Stop

LEMMA QuietInvariant == Spec => [](TypeOK /\ Quiet)
<1>1. Init => TypeOK /\ Quiet
  BY InitType DEF Init, Quiet
<1>2. TypeOK /\ Quiet /\ Next => TypeOK' /\ Quiet'
  BY NextType, NextQuiet
<1>3. TypeOK /\ Quiet /\ UNCHANGED vars => TypeOK' /\ Quiet'
  BY DEF TypeOK, Quiet, vars, disk, clock, history, saves, bounds
<1> QED
  BY <1>1, <1>2, <1>3, PTL DEF Spec

-------------------------------------------------------------------------------
(***************************************************************************)
(* A forget stays unless operations overlap.  While none has overtaken     *)
(* another: what is on the disk may survive a power loss; at most one      *)
(* operation is between its load and its rename, and what it saves is its  *)
(* change to the file as it still is; and no device that was forgotten is  *)
(* trusted in anything a power loss may leave, is about to be added again, *)
(* or has been renamed back since the forget, except one that was added    *)
(* while it was forgotten.                                                 *)
(***************************************************************************)
Saving == {"writing", "renaming"}

OneSaves ==
    \A p, q \in Pid : \A x \in ops[p], y \in ops[q] :
        x.at \in Saving /\ y.at \in Saving => p = q /\ x = y

SavesItsLoad ==
    \A p \in Pid : \A o \in ops[p] : o.at \in Saving => o.new = changed(file, o)

Contends ==
    \A p, q \in Pid : \A x \in ops[p], y \in ops[q] :
        x.kind = "add" /\ y.kind = "forget" /\ x.arg = y.arg => x.arg \in contended

AddsKnown ==
    \A p \in Pid : \A o \in ops[p] : o.kind = "add" => o.arg \notin forgotten \ contended

ForgetsKept ==
    \A p \in Pid : \A o \in ops[p] :
        o.kind = "forget" /\ o.at = "syncing" => o.arg \notin trustedOf(file) \ contended

DurableForgets ==
    file \in durable /\ \A f \in durable : (forgotten \ contended) \cap trustedOf(f) = {}

Kept == OneSaves /\ SavesItsLoad /\ Contends /\ AddsKnown /\ ForgetsKept /\ DurableForgets

ForgetInv == Whole /\ (overlapped \/ Kept)

(***************************************************************************)
(* Saving its change trusts a device more only if it adds it, and a forget *)
(* saves a state without its device.                                       *)
(***************************************************************************)
LEMMA ChangedTrusts ==
    ASSUME NEW f \in State \union {NoFile}, NEW o \in Op
    PROVE  /\ o.kind = "add" => trustedOf(changed(f, o)) = trustedOf(f) \union {o.arg}
           /\ o.kind # "add" => trustedOf(changed(f, o)) \subseteq trustedOf(f)
           /\ o.kind = "forget" => o.arg \notin trustedOf(changed(f, o))
<1>1. changed(f, o) # NoFile
  BY ChangedIsState, FileAssumption
<1> QED
  BY <1>1, OpFields DEF changed, trustedOf

(***************************************************************************)
(* Operations that are among the old ones, or repeat the kind, the         *)
(* argument and, once saving, the progress of an old one, keep the facts   *)
(* about operations as long as the file and the history, saves stay.              *)
(***************************************************************************)
LEMMA KeptByFewer ==
    ASSUME Kept, UNCHANGED saved, \A q \in Pid : ops'[q] \subseteq ops[q]
    PROVE  Kept'
<1> USE DEF Kept, saved, history, saves
<1>1. OneSaves'
  BY DEF OneSaves
<1>2. SavesItsLoad'
  BY DEF SavesItsLoad, changed
<1>3. Contends' /\ AddsKnown' /\ ForgetsKept'
  BY DEF Contends, AddsKnown, ForgetsKept, trustedOf
<1>4. DurableForgets'
  BY DEF DurableForgets, trustedOf
<1> QED
  BY <1>1, <1>2, <1>3, <1>4

LEMMA KeptByFlush ==
    ASSUME ForgetInv, Kept, NEW p \in Pid, FlushFires(p)
    PROVE  Kept'
<1> DEFINE w == [kind |-> "flush", arg |-> pending[p], at |-> "loading",
                 new |-> NoFile, synced |-> FALSE]
<1>1. UNCHANGED saved
  BY DEF FlushFires, saved, disk, history
<1>2. CASE UNCHANGED ops
  BY <1>1, <1>2, KeptByFewer
<1>3. CASE ops' = [ops EXCEPT ![p] = @ \union {w}]
  <2>1. \A q \in Pid : \A x \in ops'[q] :
           x \in ops[q] \/ (x.kind = "flush" /\ x.at = "loading")
    BY <1>3, Added DEF ForgetInv, Whole
  <2>2. OneSaves' /\ SavesItsLoad'
    BY <1>1, <2>1 DEF Kept, OneSaves, SavesItsLoad, Saving, changed, saved
  <2>3. Contends' /\ AddsKnown' /\ ForgetsKept'
    BY <1>1, <2>1 DEF Kept, Contends, AddsKnown, ForgetsKept, trustedOf, saved, history, saves
  <2>4. DurableForgets'
    BY <1>1 DEF Kept, DurableForgets, trustedOf, saved, history, saves
  <2> QED
    BY <2>2, <2>3, <2>4 DEF Kept
<1> QED
  BY <1>2, <1>3 DEF FlushFires

LEMMA KeptByStart ==
    ASSUME ForgetInv, Kept, NEW p \in Pid, NEW k \in Kinds, NEW d \in Device, StartOp(p, k, d)
    PROVE  Kept'
<1> DEFINE w == [kind |-> k, arg |-> d, at |-> "loading", new |-> NoFile, synced |-> FALSE]
<1>1. /\ UNCHANGED <<file, durable>>
      /\ ops' = [ops EXCEPT ![p] = @ \union {w}]
      /\ forgotten' = IF k = "add" THEN forgotten \ {d} ELSE forgotten
      /\ contended' = IF Opposite(k, d) THEN contended \union {d} ELSE contended
  BY DEF StartOp, disk
<1>2. \A q \in Pid : \A x \in ops'[q] : x \in ops[q] \/ (q = p /\ x = w)
  BY <1>1, Added DEF ForgetInv, Whole
<1>3. OneSaves' /\ SavesItsLoad'
  BY <1>1, <1>2 DEF Kept, OneSaves, SavesItsLoad, Saving, changed
<1>4. Contends'
  <2> SUFFICES ASSUME NEW q \in Pid, NEW r \in Pid, NEW x \in ops'[q], NEW y \in ops'[r],
                      x.kind = "add", y.kind = "forget", x.arg = y.arg
               PROVE  x.arg \in contended'
    BY DEF Contends
  <2>1. CASE x \in ops[q] /\ y \in ops[r]
    BY <2>1, <1>1 DEF Kept, Contends
  <2>2. CASE x = w /\ y \in ops[r]
    BY <2>2, <1>1 DEF Opposite
  <2>3. CASE x \in ops[q] /\ y = w
    BY <2>3, <1>1 DEF Opposite
  <2>4. ~(x = w /\ y = w)
    OBVIOUS
  <2> QED
    BY <2>1, <2>2, <2>3, <2>4, <1>2
<1>5. AddsKnown' /\ ForgetsKept'
  BY <1>1, <1>2 DEF Kept, AddsKnown, ForgetsKept, trustedOf
<1>6. DurableForgets'
  <2>1. forgotten' \ contended' \subseteq forgotten \ contended
    BY <1>1
  <2> QED
    BY <1>1, <2>1 DEF Kept, DurableForgets, trustedOf
<1> QED
  BY <1>3, <1>4, <1>5, <1>6 DEF Kept

LEMMA KeptByLoad ==
    ASSUME ForgetInv, Kept, NEW p \in Pid, NEW o \in ops[p], Load(p, o), ~Overtaking(o)
    PROVE  Kept'
<1> DEFINE w == [o EXCEPT !.at = "writing", !.new = changed(file, o)]
<1>1. /\ UNCHANGED <<file, durable, forgotten, contended>>
      /\ \/ ops' = [ops EXCEPT ![p] = (@ \ {o}) \union {w}]
         \/ ops' = [ops EXCEPT ![p] = @ \ {o}]
  BY DEF Load, disk
<1>2. \A q \in Pid : \A x \in ops[q] : x.at \notin Saving
  BY DEF Overtaking, Saving
<1>3. o \in Op /\ file \in State \union {NoFile}
  BY DEF ForgetInv, Whole, TypeOK, NeverTorn
<1>4. w.new = changed(file, o) /\ w.at = "writing" /\ w.kind = o.kind /\ w.arg = o.arg
  BY <1>3, OpLoads
<1>5. changed(file, w) = changed(file, o)
  BY <1>4 DEF changed
<1> HIDE DEF w
<1>6. \A q \in Pid : \A x \in ops'[q] : x \in ops[q] \/ (q = p /\ x = w)
  BY <1>1, Replaced, Removed DEF ForgetInv, Whole
<1>7. OneSaves'
  BY <1>2, <1>6 DEF OneSaves
<1>8. SavesItsLoad'
  BY <1>1, <1>2, <1>4, <1>5, <1>6 DEF SavesItsLoad, changed
<1>9. Contends'
  <2>1. \A q \in Pid : \A x \in ops'[q] : \E z \in ops[q] : z.kind = x.kind /\ z.arg = x.arg
    BY <1>4, <1>6
  <2> QED
    BY <1>1, <2>1 DEF Kept, Contends
<1>10. AddsKnown' /\ ForgetsKept'
  BY <1>1, <1>4, <1>6 DEF Kept, AddsKnown, ForgetsKept, trustedOf
<1>11. DurableForgets'
  BY <1>1 DEF Kept, DurableForgets, trustedOf
<1> QED
  BY <1>7, <1>8, <1>9, <1>10, <1>11 DEF Kept

LEMMA KeptByWrite ==
    ASSUME ForgetInv, Kept, NEW p \in Pid, NEW o \in ops[p], WriteTmp(p, o)
    PROVE  Kept'
<1> DEFINE w == [o EXCEPT !.at = "renaming", !.synced = TRUE]
<1>1. /\ UNCHANGED <<file, durable, forgotten, contended>>
      /\ ops' = [ops EXCEPT ![p] = (@ \ {o}) \union {w}]
      /\ o.at \in Saving
  BY DEF WriteTmp, disk, history, saves, Saving
<1>2. w.new = o.new /\ w.at = "renaming" /\ w.kind = o.kind /\ w.arg = o.arg
  BY OpWrites DEF ForgetInv, Whole, TypeOK
<1> HIDE DEF w
<1>3. \A q \in Pid : \A x \in ops'[q] :
         (q = p /\ x = w) \/ (x \in ops[q] /\ (q # p \/ x # o))
  BY <1>1, Replaced DEF ForgetInv, Whole
<1>4. OneSaves'
  BY <1>1, <1>3 DEF Kept, OneSaves
<1>5. SavesItsLoad'
  <2>1. o.new = changed(file, o)
    BY <1>1 DEF Kept, SavesItsLoad
  <2>2. changed(file, w) = changed(file, o)
    BY <1>2 DEF changed
  <2> QED
    BY <1>1, <1>2, <1>3, <2>1, <2>2 DEF Kept, SavesItsLoad, changed
<1>6. Contends'
  <2>1. \A q \in Pid : \A x \in ops'[q] : \E z \in ops[q] : z.kind = x.kind /\ z.arg = x.arg
    BY <1>2, <1>3
  <2> QED
    BY <1>1, <2>1 DEF Kept, Contends
<1>7. AddsKnown' /\ ForgetsKept'
  BY <1>1, <1>2, <1>3 DEF Kept, AddsKnown, ForgetsKept, trustedOf
<1>8. DurableForgets'
  BY <1>1 DEF Kept, DurableForgets, trustedOf
<1> QED
  BY <1>4, <1>5, <1>6, <1>7, <1>8 DEF Kept

LEMMA KeptByRename ==
    ASSUME ForgetInv, Kept, NEW p \in Pid, NEW o \in ops[p], Rename(p, o)
    PROVE  Kept'
<1> DEFINE w == [o EXCEPT !.at = "syncing"]
<1>1. /\ file' = o.new /\ durable' = durable \union {o.new}
      /\ UNCHANGED <<forgotten, contended>>
      /\ ops' = [ops EXCEPT ![p] = (@ \ {o}) \union {w}]
      /\ o.at \in Saving
  BY DEF Rename, history, saves, Saving, ForgetInv, Whole, Synced
<1>2. o \in Op /\ file \in State \union {NoFile}
  BY DEF ForgetInv, Whole, TypeOK, NeverTorn
<1>3. w.at = "syncing" /\ w.kind = o.kind /\ w.arg = o.arg
  BY <1>2, OpRenames
<1> HIDE DEF w
<1>4. \A q \in Pid : \A x \in ops'[q] :
         (q = p /\ x = w) \/ (x \in ops[q] /\ (q # p \/ x # o))
  BY <1>1, Replaced DEF ForgetInv, Whole
<1>5. o.new = changed(file, o)
  BY <1>1 DEF Kept, SavesItsLoad
<1>6. \A q \in Pid : \A x \in ops'[q] : x.at \notin Saving
  BY <1>1, <1>3, <1>4 DEF Kept, OneSaves, Saving
<1>7. OneSaves' /\ SavesItsLoad'
  BY <1>6 DEF OneSaves, SavesItsLoad
<1>8. Contends' /\ AddsKnown'
  <2>1. \A q \in Pid : \A x \in ops'[q] : \E z \in ops[q] : z.kind = x.kind /\ z.arg = x.arg
    BY <1>3, <1>4
  <2> QED
    BY <1>1, <2>1 DEF Kept, Contends, AddsKnown
<1>9. /\ o.kind = "add" => trustedOf(file') = trustedOf(file) \union {o.arg}
      /\ o.kind # "add" => trustedOf(file') \subseteq trustedOf(file)
      /\ o.kind = "forget" => o.arg \notin trustedOf(file')
  BY <1>1, <1>2, <1>5, ChangedTrusts
<1>10. ForgetsKept'
  <2> SUFFICES ASSUME NEW q \in Pid, NEW x \in ops'[q], x.kind = "forget", x.at = "syncing",
                      x.arg \in trustedOf(file')
               PROVE  x.arg \in contended
    BY <1>1 DEF ForgetsKept, trustedOf
  <2>1. CASE x = w
    BY <2>1, <1>3, <1>9
  <2>2. CASE x \in ops[q] /\ x.arg \in trustedOf(file)
    BY <2>2 DEF Kept, ForgetsKept
  <2>3. CASE x \in ops[q] /\ o.kind = "add" /\ x.arg = o.arg
    BY <2>3 DEF Kept, Contends
  <2> QED
    BY <2>1, <2>2, <2>3, <1>4, <1>9
<1>11. DurableForgets'
  <2>1. (forgotten \ contended) \cap trustedOf(file) = {}
    BY DEF Kept, DurableForgets
  <2>2. o.kind = "add" => o.arg \notin forgotten \ contended
    BY DEF Kept, AddsKnown
  <2>3. (forgotten \ contended) \cap trustedOf(file') = {}
    BY <1>9, <2>1, <2>2
  <2> QED
    BY <1>1, <2>3 DEF Kept, DurableForgets, trustedOf
<1> QED
  BY <1>7, <1>8, <1>10, <1>11 DEF Kept

LEMMA KeptBySync ==
    ASSUME ForgetInv, Kept, NEW p \in Pid, NEW o \in ops[p], SyncDir(p, o)
    PROVE  Kept'
<1>1. /\ UNCHANGED <<file, contended>> /\ durable' = {file}
      /\ ops' = [ops EXCEPT ![p] = @ \ {o}] /\ o.at = "syncing"
      /\ forgotten' = IF o.kind = "forget" THEN forgotten \union {o.arg} ELSE forgotten
  BY DEF SyncDir, Finish
<1>2. \A q \in Pid : \A x \in ops'[q] : x \in ops[q]
  BY <1>1, Removed DEF ForgetInv, Whole
<1>3. OneSaves' /\ SavesItsLoad'
  BY <1>1, <1>2 DEF Kept, OneSaves, SavesItsLoad, changed
<1>4. Contends' /\ ForgetsKept'
  BY <1>1, <1>2 DEF Kept, Contends, ForgetsKept, trustedOf
<1>5. AddsKnown'
  BY <1>1, <1>2 DEF Kept, AddsKnown, Contends
<1>6. DurableForgets'
  <2>1. o.kind = "forget" => o.arg \notin trustedOf(file) \ contended
    BY <1>1 DEF Kept, ForgetsKept
  <2>2. (forgotten' \ contended) \cap trustedOf(file) = {}
    BY <1>1, <2>1 DEF Kept, DurableForgets
  <2> QED
    BY <1>1, <2>2 DEF DurableForgets, trustedOf
<1> QED
  BY <1>3, <1>4, <1>5, <1>6 DEF Kept

LEMMA KeptByPowerLoss ==
    ASSUME ForgetInv, Kept, Quiet, PowerLoss
    PROVE  Kept'
<1>1. \A q \in Pid : ops'[q] = {}
  BY BusyIsAlive DEF PowerLoss, End, Quiet
<1>2. file' \in durable /\ durable' = {file'} /\ UNCHANGED <<forgotten, contended>>
  BY DEF PowerLoss, history, saves
<1>3. OneSaves' /\ SavesItsLoad' /\ Contends' /\ AddsKnown' /\ ForgetsKept'
  BY <1>1 DEF OneSaves, SavesItsLoad, Contends, AddsKnown, ForgetsKept
<1>4. DurableForgets'
  BY <1>2 DEF Kept, DurableForgets, trustedOf
<1> QED
  BY <1>3, <1>4 DEF Kept

LEMMA NextForget == ASSUME ForgetInv, Quiet, Next PROVE ForgetInv'
<1>1. Whole'
  BY NextType, NextSynced, NextNeverTorn DEF ForgetInv, Whole
<1>2. SUFFICES ASSUME ~overlapped' PROVE Kept'
  BY <1>1 DEF ForgetInv
<1>3. UNCHANGED overlapped \/ \E p \in Pid : \E o \in ops[p] : Load(p, o)
  BY StepCases DEF saved, history, saves, FlushFires, StartOp, WriteTmp, Rename, SyncDir,
                   SaveFails, PowerLoss
<1>4. Kept
  BY <1>2, <1>3 DEF ForgetInv, Load
<1>5. CASE UNCHANGED <<saved, ops>>
  BY <1>4, <1>5, KeptByFewer
<1>6. ASSUME NEW p \in Pid, NEW o \in ops[p], Load(p, o) PROVE Kept'
  BY <1>2, <1>4, <1>6, KeptByLoad DEF Load
<1>7. ASSUME NEW p \in Pid, NEW o \in ops[p], SaveFails(p, o) PROVE Kept'
  <2>1. UNCHANGED saved /\ ops' = [ops EXCEPT ![p] = @ \ {o}]
    BY <1>7 DEF SaveFails, saved, disk, history
  <2> QED
    BY <1>4, <2>1, Removed, KeptByFewer DEF ForgetInv, Whole
<1>8. ASSUME NEW P, NEW ph, End(P, ph), UNCHANGED saved PROVE Kept'
  BY <1>4, <1>8, EndOps, KeptByFewer DEF ForgetInv, Whole
<1> QED
  BY <1>4, <1>5, <1>6, <1>7, <1>8, StepCases, KeptByFlush, KeptByStart, KeptByWrite,
     KeptByRename, KeptBySync, KeptByPowerLoss

LEMMA ForgetInvariant == Spec => []ForgetInv
<1>1. ASSUME Init PROVE ForgetInv
  <2>1. (\A p \in Pid : ops[p] = {}) /\ durable = {file} /\ forgotten = {}
    BY <1>1 DEF Init
  <2>2. Kept
    BY <2>1 DEF Kept, OneSaves, SavesItsLoad, Contends, AddsKnown, ForgetsKept, DurableForgets
  <2> QED
    BY <1>1, <2>2, InitWhole DEF ForgetInv
<1>2. ForgetInv /\ UNCHANGED vars => ForgetInv'
  <2>1. Whole /\ UNCHANGED vars => Whole'
    BY DEF Whole, TypeOK, Synced, NeverTorn, vars, disk, clock, history, saves, bounds
  <2>2. Kept /\ UNCHANGED vars => Kept'
    BY KeptByFewer DEF vars, disk, saved, history
  <2> QED
    BY <2>1, <2>2 DEF ForgetInv, vars, history, saves
<1> QED
  BY <1>1, <1>2, NextForget, QuietInvariant, PTL DEF Spec

(***************************************************************************)
(* forget-device.ts: a device whose forget was saved and answered is not   *)
(* trusted in any later state of the file, whatever crashes, power losses, *)
(* failed saves and restarts come between, unless one load-change-save has *)
(* overtaken another or the device was added while it was forgotten.       *)
(***************************************************************************)
THEOREM ForgetHolds == Spec => []ForgottenUnlessOverlapped
<1>1. ForgetInv => ForgottenUnlessOverlapped
  BY DEF ForgetInv, Kept, DurableForgets, ForgottenUnlessOverlapped, ForgottenStays
<1> QED
  BY <1>1, ForgetInvariant, PTL

-------------------------------------------------------------------------------
(***************************************************************************)
(* The lock.  A pid that is in the pid file, or was read there, is that of *)
(* a process that has got past acquire(), and acquire() writes only when   *)
(* the one it has read is no more.  So if it writes over nothing else,     *)
(* there is no owner when it writes: the owner's pid is in the file, and   *)
(* the key on the disk is the one every daemon has run with.  The write    *)
(* over a pid that acquire() has not read is what raced records.           *)
(***************************************************************************)
Early == {"off", "probing", "locking"}

Written ==
    /\ pidFile # NoPid => phase[pidFile] \notin Early
    /\ \A p \in Pid : seen[p] # NoPid => phase[seen[p]] \notin Early

Probed == \A p \in Pid : phase[p] = "locking" => seen[p] \notin Alive

OwnersPid == \A p \in Holder : pidFile = p

OneKey ==
    \A p \in Pid : /\ key[p] # NoKey => identity = key[p]
                   /\ phase[p] = "generating" => identity = NoKey
                   /\ phase[p] = "savingKey" => identity = Torn

Owned == OwnersPid /\ (keyLost \/ OneKey)

Lock == TypeOK /\ Written /\ Probed /\ ("start" \in raced \/ Owned)

(***************************************************************************)
(* A step that takes processes from where they are to somewhere past       *)
(* acquire() or to their end, and leaves the pid file and what was read of *)
(* it alone, keeps what is known of the pids.                              *)
(***************************************************************************)
LEMMA PidsByMove ==
    ASSUME Lock, UNCHANGED pidFile,
           \A q \in Pid : phase'[q] = phase[q] \/ (phase'[q] \notin Early /\ phase[q] # "off"),
           \A q \in Pid : seen'[q] \in {seen[q], NoPid},
           \A q \in Alive' : q \in Alive
    PROVE  Written' /\ Probed'
<1>1. \A q \in Pid : phase[q] \notin Early => phase'[q] \notin Early
  OBVIOUS
<1>2. Written'
  BY <1>1 DEF Lock, Written, TypeOK
<1>3. \A q \in Pid : phase'[q] = "locking" => phase[q] = "locking"
  BY DEF Early
<1>4. NoPid \notin Alive'
  BY DaemonStateAssumption DEF Alive
<1>5. Probed'
  BY <1>3, <1>4 DEF Lock, Probed
<1> QED
  BY <1>2, <1>5

\* The owner goes on, or gives up the lock.
LEMMA OwnerMoves ==
    ASSUME Lock, NEW p \in Holder, NEW ph \in Phase, ph \notin Early,
           Goto(p, ph), UNCHANGED <<pidFile, seen>>
    PROVE  Written' /\ Probed' /\ Holder' \subseteq Holder
<1>1. \A q \in Pid : phase'[q] = IF q = p THEN ph ELSE phase[q]
  BY DEF Goto, Lock, TypeOK
<1>2. p \in Pid /\ phase[p] \notin Early /\ p \in Alive
  BY DEF Holder, Alive, Early
<1>3. Alive' \subseteq Alive /\ Holder' \subseteq Holder
  BY <1>1, <1>2 DEF Holder, Alive, Early
<1>4. Written' /\ Probed'
  BY <1>1, <1>2, <1>3, PidsByMove DEF Early
<1> QED
  BY <1>3, <1>4

LEMMA LockAtEnd ==
    ASSUME Lock, NEW P, NEW ph \in {"exited", "dead"}, End(P, ph), P \subseteq Alive
    PROVE  /\ \A q \in Pid : phase'[q] = phase[q] \/ (phase'[q] \notin Early /\ phase[q] # "off")
           /\ \A q \in Pid : seen'[q] \in {seen[q], NoPid}
           /\ Alive' \subseteq Alive /\ Holder' \subseteq Holder
           /\ \A q \in Pid : phase'[q] \in {"generating", "savingKey"} => phase'[q] = phase[q]
  BY DEF End, Alive, Holder, Early

LEMMA NextLock == ASSUME Lock, Next PROVE Lock'
<1> USE DEF disk, clock, history, saves, bounds
<1>0. TypeOK /\ Written /\ Probed
  BY DEF Lock
<1> DEFINE Goal == Written' /\ Probed' /\ ("start" \in raced' \/ Owned')
<1>1. ASSUME NEW p \in Pid, ReadPid(p) PROVE Goal
  <2>1. /\ phase[p] = "off" /\ UNCHANGED <<pidFile, identity, key, raced, keyLost>>
        /\ \A q \in Pid : phase'[q] = IF q = p THEN "probing" ELSE phase[q]
        /\ \A q \in Pid : seen'[q] = IF q = p THEN pidFile ELSE seen[q]
    BY <1>0, <1>1 DEF ReadPid, Goto, TypeOK
  <2>2. pidFile # p /\ \A q \in Pid : seen[q] # p
    BY <1>0, <2>1, DaemonStateAssumption DEF Written, Early
  <2>3. Written'
    BY <1>0, <2>1, <2>2 DEF Written, TypeOK
  <2>4. Probed'
    BY <1>0, <2>1, <2>2 DEF Probed, Alive
  <2>5. Holder' = Holder
    BY <2>1 DEF Holder, Alive
  <2> QED
    BY <2>1, <2>3, <2>4, <2>5 DEF Lock, Owned, OwnersPid, OneKey
<1>2. ASSUME NEW p \in Pid, Probe(p) PROVE Goal
  <2>1. /\ phase[p] = "probing" /\ UNCHANGED <<pidFile, identity, key, raced, keyLost>>
        /\ \A q \in Pid \ {p} : phase'[q] = phase[q] /\ seen'[q] = seen[q]
        /\ \/ phase'[p] = "exited" /\ seen'[p] = NoPid
           \/ phase'[p] = "locking" /\ seen'[p] = seen[p] /\ seen[p] \notin Alive
    BY <1>0, <1>2 DEF Probe, Goto, TypeOK
  <2>2. pidFile # p /\ \A q \in Pid : seen[q] # p
    BY <1>0, <2>1, DaemonStateAssumption DEF Written, Early
  <2>3. Written'
    BY <1>0, <2>1, <2>2 DEF Written, TypeOK
  <2>4. Alive' \subseteq Alive /\ Holder' = Holder
    BY <2>1 DEF Holder, Alive
  <2>5. Probed'
    BY <1>0, <2>1, <2>4 DEF Probed
  <2> QED
    BY <2>1, <2>3, <2>4, <2>5 DEF Lock, Owned, OwnersPid, OneKey
<1>3. ASSUME NEW p \in Pid, WritePid(p) PROVE Goal
  <2>1. /\ phase[p] = "locking" /\ pidFile' = p /\ UNCHANGED <<identity, key, keyLost>>
        /\ raced' = IF pidFile \in {seen[p], NoPid} THEN raced ELSE raced \union {"start"}
        /\ \A q \in Pid : phase'[q] = IF q = p THEN "loading" ELSE phase[q]
        /\ \A q \in Pid : seen'[q] = IF q = p THEN NoPid ELSE seen[q]
    BY <1>0, <1>3 DEF WritePid, Goto, TypeOK
  <2>2. Written'
    BY <1>0, <2>1 DEF Written, Early, TypeOK
  <2>3. Alive' = Alive /\ Holder' = Holder \union {p}
    BY <2>1 DEF Holder, Alive
  <2>4. Probed'
    BY <1>0, <2>1, <2>3 DEF Probed
  <2>5. CASE pidFile \in {seen[p], NoPid} /\ "start" \notin raced
    <3>1. OwnersPid /\ (keyLost \/ OneKey) /\ raced' = raced
      BY <2>1, <2>5 DEF Lock, Owned
    <3>2. seen[p] \notin Alive /\ NoPid \notin Alive
      BY <1>0, <2>1, DaemonStateAssumption DEF Probed, Alive
    <3>3. Holder = {}
      BY <2>5, <3>1, <3>2 DEF OwnersPid, Holder
    <3>4. OwnersPid'
      BY <2>1, <2>3, <3>3 DEF OwnersPid
    <3>5. OneKey => OneKey'
      BY <2>1 DEF OneKey
    <3> QED
      BY <2>1, <2>2, <2>4, <3>1, <3>4, <3>5 DEF Owned
  <2> QED
    BY <2>1, <2>2, <2>4, <2>5
<1>4. ASSUME NEW p \in Holder, NEW ph \in Phase, ph \notin Early, Goto(p, ph),
             UNCHANGED <<pidFile, seen, keyLost>>, raced \subseteq raced',
             Owned /\ OneKey => OneKey'
      PROVE  Goal
  <2>1. Written' /\ Probed' /\ Holder' \subseteq Holder
    BY <1>4, OwnerMoves
  <2> QED
    BY <1>4, <2>1 DEF Lock, Owned, OwnersPid
<1>5. ASSUME NEW p \in Pid, LoadState(p) PROVE Goal
  <2>1. p \in Holder /\ UNCHANGED <<pidFile, seen, keyLost>> /\ raced \subseteq raced'
    BY <1>5 DEF LoadState, Holder, Alive
  <2>2. OneKey => OneKey'
    BY <1>0, <1>5 DEF LoadState, Goto, OneKey, TypeOK
  <2> QED
    BY <1>4, <1>5, <2>1, <2>2 DEF LoadState, Phase, Early
<1>6. ASSUME NEW p \in Pid, ReadKey(p) PROVE Goal
  <2>1. p \in Holder /\ UNCHANGED <<pidFile, seen, identity, raced, keyLost>>
    BY <1>6 DEF ReadKey, Holder, Alive
  <2>2. OneKey => OneKey'
    BY <1>0, <1>6, DaemonStateAssumption DEF ReadKey, Goto, OneKey, TypeOK
  <2> QED
    BY <1>4, <1>6, <2>1, <2>2 DEF ReadKey, Phase, Early
<1>7. ASSUME NEW p \in Pid, TruncateKey(p) PROVE Goal
  <2>1. p \in Holder /\ Goto(p, "savingKey") /\ UNCHANGED <<pidFile, seen, raced, keyLost>>
    BY <1>7 DEF TruncateKey, Holder, Alive
  <2>2. ASSUME Owned, OneKey PROVE OneKey'
    <3>1. \A q \in Pid : key[q] = NoKey
      BY <1>0, <1>7, <2>2, DaemonStateAssumption DEF TruncateKey, OneKey
    <3>2. \A q \in Pid : phase[q] = "generating" => q = p
      BY <2>1, <2>2 DEF Owned, OwnersPid, Holder, Alive
    <3> QED
      BY <1>0, <1>7, <2>2, <3>1, <3>2 DEF TruncateKey, Goto, OneKey, TypeOK
  <2> QED
    BY <1>4, <2>1, <2>2 DEF Phase, Early
<1>8. ASSUME NEW p \in Pid, FillKey(p) PROVE Goal
  <2>1. p \in Holder /\ Goto(p, "running") /\ UNCHANGED <<pidFile, seen, raced, keyLost>>
    BY <1>8 DEF FillKey, Holder, Alive
  <2>2. ASSUME Owned, OneKey PROVE OneKey'
    <3>1. \A q \in Pid : key[q] = NoKey
      BY <1>0, <1>8, <2>2, DaemonStateAssumption DEF FillKey, OneKey, TypeOK
    <3>2. \A q \in Pid : phase[q] \in {"generating", "savingKey"} => q = p
      BY <2>1, <2>2 DEF Owned, OwnersPid, Holder, Alive
    <3> QED
      BY <1>0, <1>8, <2>2, <3>1, <3>2 DEF FillKey, Goto, OneKey, TypeOK
  <2> QED
    BY <1>4, <2>1, <2>2 DEF Phase, Early
<1>9. ASSUME UNCHANGED <<pidFile, identity, phase, seen, key, raced, keyLost>> PROVE Goal
  BY <1>0, <1>9 DEF Lock, Written, Probed, Owned, OwnersPid, OneKey, Holder, Alive
<1>10. ASSUME NEW p \in Pid, StopServers(p) \/ ForceFlush(p) \/ ReadOwnPid(p) PROVE Goal
  <2>1. p \in Holder /\ UNCHANGED <<pidFile, seen, raced, keyLost>>
    BY <1>10 DEF StopServers, ForceFlush, ReadOwnPid, Holder, Alive
  <2>2. OneKey => OneKey'
    BY <1>0, <1>10 DEF StopServers, ForceFlush, ReadOwnPid, Goto, OneKey, TypeOK
  <2> QED
    BY <1>4, <1>10, <2>1, <2>2 DEF StopServers, ForceFlush, ReadOwnPid, Phase, Early
<1>11. ASSUME NEW p \in Pid, RemovePid(p) PROVE Goal
  <2>1. /\ p \in Holder /\ phase[p] = "removing" /\ pidFile' = NoPid
        /\ UNCHANGED <<seen, identity, key, raced, keyLost>>
        /\ \A q \in Pid : phase'[q] = IF q = p THEN "exiting" ELSE phase[q]
    BY <1>0, <1>11 DEF RemovePid, Holder, Alive, Goto, TypeOK
  <2>2. Alive' = Alive /\ Holder' = Holder \ {p}
    BY <2>1 DEF Holder, Alive
  <2>3. Written' /\ Probed'
    BY <1>0, <2>1, <2>2 DEF Written, Probed, Early, TypeOK
  <2>4. Owned => Owned'
    BY <2>1, <2>2 DEF Owned, OwnersPid, OneKey
  <2> QED
    BY <2>1, <2>3, <2>4 DEF Lock
<1>12. ASSUME NEW p \in Pid, Exit(p) \/ StopTimesOut(p) \/ Crash(p) PROVE Goal
  <2>1. /\ UNCHANGED <<pidFile, identity, key, raced, keyLost>> /\ p \in Alive
        /\ End({p}, "exited") \/ End({p}, "dead")
    BY <1>12 DEF Exit, StopTimesOut, Crash, Alive
  <2>2. /\ \A q \in Pid : phase'[q] = phase[q] \/ (phase'[q] \notin Early /\ phase[q] # "off")
        /\ \A q \in Pid : seen'[q] \in {seen[q], NoPid}
        /\ Alive' \subseteq Alive /\ Holder' \subseteq Holder
        /\ \A q \in Pid : phase'[q] \in {"generating", "savingKey"} => phase'[q] = phase[q]
    BY <2>1, LockAtEnd
  <2>3. Written' /\ Probed'
    BY <2>1, <2>2, PidsByMove
  <2>4. Owned => Owned'
    BY <2>1, <2>2 DEF Owned, OwnersPid, OneKey
  <2> QED
    BY <2>1, <2>3, <2>4 DEF Lock
<1>13. ASSUME PowerLoss PROVE Goal
  <2>1. /\ \A q \in Pid : phase'[q] = IF q \in Alive THEN "dead" ELSE phase[q]
        /\ \A q \in Pid : seen'[q] = IF q \in Alive THEN NoPid ELSE seen[q]
        /\ pidFile' = NoPid
        /\ UNCHANGED <<key, raced>>
        /\ keyLost' = (keyLost \/ (identity \in Pid /\ identity' # identity))
    BY <1>13 DEF PowerLoss, End
  <2>2. \A q \in Pid : phase'[q] \in {"off", "exited", "dead"}
    BY <2>1 DEF Alive
  <2>3. Alive' = {} /\ Holder' = {}
    BY <2>2 DEF Alive, Holder
  <2>4. \A q \in Pid : phase[q] # "off" => phase'[q] \notin Early
    BY <2>1, <2>2, <1>0 DEF Alive, Early, TypeOK
  <2>5. Written'
    BY <1>0, <2>1, <2>4 DEF Written, TypeOK, Early
  <2>6. Probed'
    BY <2>3 DEF Probed
  <2>7. ASSUME OneKey, ~keyLost' PROVE OneKey'
    <3>1. \A q \in Pid : phase'[q] \notin {"generating", "savingKey"}
      BY <2>2
    <3>2. CASE identity' = identity
      BY <2>1, <2>7, <3>1, <3>2 DEF OneKey
    <3>3. CASE identity \notin Pid
      BY <1>0, <2>1, <2>7, <3>1, <3>3, DaemonStateAssumption DEF OneKey, TypeOK
    <3> QED
      BY <2>1, <2>7, <3>2, <3>3
  <2>8. Owned => Owned'
    BY <2>1, <2>3, <2>7 DEF Owned, OwnersPid
  <2> QED
    BY <2>1, <2>5, <2>6, <2>8 DEF Lock
<1>14. ASSUME NEW p \in Pid,
              \/ \E c : Advance(p, c)
              \/ FlushFires(p)
              \/ \E k, d : StartOp(p, k, d)
              \/ \E o \in ops[p] : \/ Load(p, o) \/ WriteTmp(p, o) \/ Rename(p, o)
                                   \/ SyncDir(p, o) \/ SaveFails(p, o)
       PROVE  UNCHANGED <<pidFile, identity, phase, seen, key, raced, keyLost>>
  BY <1>14 DEF Advance, FlushFires, StartOp, Load, WriteTmp, Rename, SyncDir, SaveFails
<1> HIDE DEF Goal, disk, clock, history, saves, bounds
<1>15. Goal
  BY <1>1, <1>2, <1>3, <1>5, <1>6, <1>7, <1>8, <1>9, <1>10, <1>11, <1>12, <1>13, <1>14
  DEF Next, Start, Save, Stop
<1> QED
  BY <1>0, <1>15, NextType DEF Lock, Goal

LEMMA LockInvariant == Spec => []Lock
<1>1. Init => Lock
  BY InitType DEF Init, Lock, Written, Probed, Owned, OwnersPid, OneKey, Holder, Alive
<1>2. Lock /\ Next => Lock'
  BY NextLock
<1>3. Lock /\ UNCHANGED vars => Lock'
  BY DEF Lock, TypeOK, Written, Probed, Owned, OwnersPid, OneKey, Holder, Alive,
         vars, disk, clock, history, saves, bounds
<1> QED
  BY <1>1, <1>2, <1>3, PTL DEF Spec

(***************************************************************************)
(* pid-lock.ts: of any number of processes that start, crash, exit and     *)
(* start again in any order, at most one owns the lock and all have the    *)
(* same identity, also when one crashed while it was writing its key: but  *)
(* for a start that writes over the pid of another that came between its   *)
(* read and its write, and a power loss that takes the key.                *)
(***************************************************************************)
THEOREM OneInstance == Spec => []SingleInstance
<1>1. ASSUME Lock PROVE SingleInstance
  <2>1. Owned => \A p, q \in Holder : p = q
    BY DEF Owned, OwnersPid
  <2>2. OneKey => \A p, q \in Pid : key[p] # NoKey /\ key[q] # NoKey => key[p] = key[q]
    BY DEF OneKey
  <2> QED
    BY <1>1, <2>1, <2>2 DEF SingleInstance, Lock, Owned
<1> QED
  BY <1>1, LockInvariant, PTL

-------------------------------------------------------------------------------
(***************************************************************************)
(* The counter on the disk, while no operation has overtaken another:      *)
(* a daemon's clock is at least the counter in the file; its pending       *)
(* counter is between the two and not below any it is saving; and a flush  *)
(* that is still to be renamed raises the file's counter, also when the    *)
(* flush before it is renamed first.                                       *)
(***************************************************************************)
Loaded == Busy \union {"keying", "generating", "savingKey"}

Ahead == \A p \in Pid : phase[p] \in Loaded => counterOf(file) <= counter[p]

PendingNewest ==
    \A p \in Pid : pending[p] # NoCounter =>
        /\ counterOf(file) <= pending[p] /\ pending[p] <= counter[p]
        /\ \A o \in ops[p] : o.kind = "flush" => o.arg <= pending[p]

FlushBetween ==
    \A p \in Pid : \A o \in ops[p] : o.kind = "flush" =>
        /\ o.arg <= counter[p]
        /\ o.at # "syncing" => counterOf(file) <= o.arg

FlushOrder ==
    \A p \in Pid : \A x, y \in ops[p] :
        x.kind = "flush" /\ x.at = "loading" /\ y.kind = "flush" /\ y.at \in Saving
            => y.arg <= x.arg

Counters == Ahead /\ PendingNewest /\ FlushBetween /\ FlushOrder

\* Of the processes that have loaded the counter, there is one.
OneLoaded == \A p, q \in Pid : phase[p] \in Loaded /\ phase[q] \in Loaded => p = q

CounterInv ==
    /\ ForgetInv /\ Quiet /\ Lock
    /\ raced # {} \/ (OneLoaded /\ (overlapped \/ Counters))

LEMMA ChangedCounter ==
    ASSUME NEW f \in State \union {NoFile}, NEW o \in Op
    PROVE  counterOf(changed(f, o)) = IF o.kind = "flush" THEN o.arg ELSE counterOf(f)
<1>1. changed(f, o) # NoFile
  BY ChangedIsState, FileAssumption
<1> QED
  BY <1>1 DEF changed, counterOf

LEMMA FileCounter == ASSUME TypeOK, NeverTorn PROVE counterOf(file) \in Nat
  BY FileAssumption DEF TypeOK, NeverTorn, counterOf, State

(***************************************************************************)
(* A step that does not change the file keeps the facts if it issues and   *)
(* loads no flush and advances no clock: a process keeps its counter or    *)
(* ends, and each operation was there before, as far on.                   *)
(***************************************************************************)
LEMMA CountersStay ==
    ASSUME Counters, UNCHANGED file,
           \A q \in Pid : phase'[q] \in Loaded => phase[q] \in Loaded,
           \A q \in Pid : \/ counter'[q] = counter[q]
                          \/ ops'[q] = {} /\ pending'[q] = NoCounter /\ phase'[q] \notin Loaded,
           \A q \in Pid : pending'[q] \in {pending[q], NoCounter},
           \A q \in Pid : \A x \in ops'[q] : x.kind = "flush" =>
              \E z \in ops[q] : /\ z.kind = "flush" /\ z.arg = x.arg
                                /\ x.at = "loading" => z.at = "loading"
                                /\ x.at \in Saving => z.at \in Saving
                                /\ x.at # "syncing" => z.at # "syncing"
    PROVE  Counters'
<1>1. counterOf(file)' = counterOf(file)
  BY DEF counterOf
<1>2. Ahead'
  BY <1>1 DEF Counters, Ahead
<1>3. PendingNewest'
  BY <1>1 DEF Counters, PendingNewest
<1>4. FlushBetween'
  BY <1>1 DEF Counters, FlushBetween
<1>5. FlushOrder'
  BY DEF Counters, FlushOrder
<1> QED
  BY <1>2, <1>3, <1>4, <1>5 DEF Counters

LEMMA CountersByAdvance ==
    ASSUME CounterInv, Counters, NEW p \in Pid, NEW c \in 1 .. MaxCounter, Advance(p, c)
    PROVE  Counters'
<1>1. /\ phase[p] \in Loaded /\ c > counter[p] /\ c \in Nat /\ counter[p] \in Nat
      /\ UNCHANGED <<file, phase, ops>>
  BY DaemonStateAssumption DEF Advance, disk, Loaded, Busy, CounterInv, Lock, TypeOK
<1>2. \A q \in Pid : /\ counter'[q] = IF q = p THEN c ELSE counter[q]
                     /\ pending'[q] = IF q = p THEN c ELSE pending[q]
  BY DEF Advance, flushCounter, CounterInv, Lock, TypeOK
<1>3. counterOf(file)' = counterOf(file) /\ counterOf(file) \in Nat
  BY <1>1, FileCounter DEF CounterInv, ForgetInv, Whole, counterOf
<1>4. \A o \in ops[p] : o.kind = "flush" => o.arg \in Nat /\ o.arg <= counter[p]
  BY OpFields DEF CounterInv, Lock, TypeOK, Counters, FlushBetween
<1>5. counterOf(file) <= c /\ \A o \in ops[p] : o.kind = "flush" => o.arg <= c
  BY <1>1, <1>3, <1>4 DEF Counters, Ahead
<1>6. Ahead' /\ PendingNewest'
  BY <1>1, <1>2, <1>3, <1>5 DEF Counters, Ahead, PendingNewest
<1>7. FlushBetween' /\ FlushOrder'
  BY <1>1, <1>2, <1>3, <1>5 DEF Counters, FlushBetween, FlushOrder
<1> QED
  BY <1>6, <1>7 DEF Counters

LEMMA CountersByFlush ==
    ASSUME CounterInv, Counters, NEW p \in Pid, FlushFires(p)
    PROVE  Counters'
<1> DEFINE w == [kind |-> "flush", arg |-> pending[p], at |-> "loading",
                 new |-> NoFile, synced |-> FALSE]
<1>1. UNCHANGED <<file, phase, counter>> /\ counterOf(file)' = counterOf(file)
  BY DEF FlushFires, disk, counterOf
<1>2. \A q \in Pid : pending'[q] = IF q = p THEN NoCounter ELSE pending[q]
  BY DEF FlushFires, CounterInv, Lock, TypeOK
<1>3. CASE pending[p] = NoCounter
  <2>1. UNCHANGED ops
    BY <1>3 DEF FlushFires
  <2> QED
    BY <1>1, <1>2, <2>1, CountersStay
<1>4. CASE pending[p] # NoCounter
  <2>1. ops' = [ops EXCEPT ![p] = @ \union {w}]
    BY <1>4 DEF FlushFires
  <2>2. \A q \in Pid : \A x \in ops'[q] : x \in ops[q] \/ (q = p /\ x = w)
    BY <2>1, Added DEF CounterInv, Lock
  <2>3. /\ counterOf(file) <= pending[p] /\ pending[p] <= counter[p]
        /\ \A o \in ops[p] : o.kind = "flush" => o.arg <= pending[p]
    BY <1>4 DEF Counters, PendingNewest
  <2>4. \A q \in Pid \ {p} : ops'[q] = ops[q]
    BY <2>1 DEF CounterInv, Lock, TypeOK
  <2>5. Ahead' /\ PendingNewest'
    BY <1>1, <1>2, <2>4 DEF Counters, Ahead, PendingNewest
  <2>6. FlushBetween'
    BY <1>1, <2>2, <2>3 DEF Counters, FlushBetween
  <2>7. FlushOrder'
    BY <2>2, <2>3 DEF Counters, FlushOrder, Saving
  <2> QED
    BY <2>5, <2>6, <2>7 DEF Counters
<1> QED
  BY <1>3, <1>4

LEMMA CountersByLoad ==
    ASSUME CounterInv, Counters, NEW p \in Pid, NEW o \in ops[p], Load(p, o), ~Overtaking(o)
    PROVE  Counters'
<1> DEFINE w == [o EXCEPT !.at = "writing", !.new = changed(file, o)]
<1>1. /\ UNCHANGED <<file, phase, counter, pending>> /\ counterOf(file)' = counterOf(file)
      /\ o.at = "loading"
      /\ \/ ops' = [ops EXCEPT ![p] = (@ \ {o}) \union {w}]
         \/ ops' = [ops EXCEPT ![p] = @ \ {o}]
  BY DEF Load, disk, clock, counterOf
<1>2. o \in Op /\ file \in State \union {NoFile}
  BY DEF CounterInv, ForgetInv, Whole, TypeOK, NeverTorn
<1>3. w.at = "writing" /\ w.kind = o.kind /\ w.arg = o.arg
  BY <1>2, OpLoads
<1> HIDE DEF w
<1>4. \A q \in Pid : \A x \in ops'[q] : x \in ops[q] \/ (q = p /\ x = w)
  BY <1>1, Replaced, Removed DEF CounterInv, Lock
<1>5. \A x \in ops[p] : /\ x.at \notin Saving
                        /\ x.kind = "flush" /\ x.at = "loading" /\ o.kind = "flush" => o.arg <= x.arg
  BY <1>2, OpFields DEF Overtaking, Saving, CounterInv, Lock, TypeOK
<1>6. Ahead' /\ PendingNewest'
  <2>1. \A q \in Pid : \A x \in ops'[q] : \E z \in ops[q] : z.kind = x.kind /\ z.arg = x.arg
    BY <1>3, <1>4
  <2> QED
    BY <1>1, <2>1 DEF Counters, Ahead, PendingNewest
<1>7. FlushBetween'
  BY <1>1, <1>3, <1>4 DEF Counters, FlushBetween
<1>8. FlushOrder'
  BY <1>3, <1>4, <1>5 DEF Counters, FlushOrder
<1> QED
  BY <1>6, <1>7, <1>8 DEF Counters

(***************************************************************************)
(* A process that has loaded the counter owns the lock or is on its way    *)
(* out.  One more loads it only as the owner, and when none is on its way  *)
(* out: otherwise starts have raced.                                       *)
(***************************************************************************)
LEMMA NextLoaded ==
    ASSUME Lock, raced # {} \/ OneLoaded, Next
    PROVE  raced' # {} \/ OneLoaded'
<1> USE DEF disk, clock, history, saves, bounds
<1>0. TypeOK
  BY DEF Lock
<1>1. ASSUME NEW p \in Pid, LoadState(p), raced' = {} PROVE OneLoaded'
  <2>1. /\ raced = {} /\ p \in Holder /\ \A q \in Pid : phase[q] # "exiting"
        /\ \A q \in Pid \ {p} : phase'[q] = phase[q]
    BY <1>0, <1>1 DEF LoadState, Holder, Alive, Goto, TypeOK
  <2>2. \A q \in Pid : phase[q] \in Loaded => q \in Holder
    BY <2>1 DEF Loaded, Busy, Holder, Alive
  <2>3. \A q \in Holder : q = p
    BY <2>1 DEF Lock, Owned, OwnersPid
  <2> QED
    BY <2>1, <2>2, <2>3 DEF OneLoaded
<1>2. ASSUME UNCHANGED raced, \A q \in Pid : phase'[q] \in Loaded => phase[q] \in Loaded
      PROVE  raced' # {} \/ OneLoaded'
  BY <1>2 DEF OneLoaded
<1>3. ASSUME NEW p \in Pid, ReadPid(p) \/ Probe(p) \/ ReadKey(p) \/ TruncateKey(p) \/ FillKey(p)
                            \/ StopServers(p) \/ ForceFlush(p) \/ ReadOwnPid(p) \/ RemovePid(p)
      PROVE  raced' # {} \/ OneLoaded'
  <2>1. UNCHANGED raced /\ \A q \in Pid : phase'[q] \in Loaded => phase[q] \in Loaded
    BY <1>0, <1>3 DEF ReadPid, Probe, ReadKey, TruncateKey, FillKey, StopServers, ForceFlush,
                      ReadOwnPid, RemovePid, Goto, Loaded, Busy, TypeOK
  <2> QED
    BY <2>1, <1>2
<1>4. ASSUME NEW p \in Pid, WritePid(p) PROVE raced' # {} \/ OneLoaded'
  <2>1. raced \subseteq raced' /\ \A q \in Pid : phase'[q] \in Loaded => phase[q] \in Loaded
    BY <1>0, <1>4 DEF WritePid, Goto, Loaded, Busy, TypeOK
  <2> QED
    BY <2>1 DEF OneLoaded
<1>5. ASSUME NEW P, NEW ph \in {"exited", "dead"}, End(P, ph), UNCHANGED raced
      PROVE  raced' # {} \/ OneLoaded'
  <2>1. \A q \in Pid : phase'[q] \in Loaded => phase[q] \in Loaded
    BY <1>5 DEF End, Loaded, Busy
  <2> QED
    BY <1>2, <1>5, <2>1
<1>6. ASSUME NEW p \in Pid, Exit(p) \/ StopTimesOut(p) \/ Crash(p) PROVE raced' # {} \/ OneLoaded'
  BY <1>5, <1>6 DEF Exit, StopTimesOut, Crash
<1>7. ASSUME PowerLoss PROVE raced' # {} \/ OneLoaded'
  BY <1>5, <1>7 DEF PowerLoss
<1>8. ASSUME NEW p \in Pid,
             \/ \E c : Advance(p, c)
             \/ FlushFires(p)
             \/ \E k, d : StartOp(p, k, d)
             \/ \E o \in ops[p] : \/ Load(p, o) \/ WriteTmp(p, o) \/ Rename(p, o)
                                  \/ SyncDir(p, o) \/ SaveFails(p, o)
      PROVE  raced' # {} \/ OneLoaded'
  <2>1. UNCHANGED <<raced, phase>>
    BY <1>8 DEF Advance, FlushFires, StartOp, Load, WriteTmp, Rename, SyncDir, SaveFails
  <2> QED
    BY <2>1, <1>2
<1> HIDE DEF disk, clock, history, saves, bounds
<1> QED
  BY <1>1, <1>3, <1>4, <1>6, <1>7, <1>8 DEF Next, Start, Save, Stop

\* So has one that has operations under way or a pending counter.
LEMMA OneIsLoaded ==
    ASSUME CounterInv, raced = {}, NEW p \in Pid, ops[p] # {}, NEW q \in Pid,
           phase[q] \in Loaded \/ ops[q] # {} \/ pending[q] # NoCounter
    PROVE  q = p
<1>1. phase[p] \in Loaded /\ phase[q] \in Loaded
  BY DEF CounterInv, Quiet, Loaded
<1> QED
  BY <1>1 DEF CounterInv, OneLoaded

LEMMA CountersByRename ==
    ASSUME CounterInv, raced = {}, Counters, Kept,
           NEW p \in Pid, NEW o \in ops[p], Rename(p, o)
    PROVE  Counters' /\ counterOf(file') >= counterOf(file)
<1> DEFINE w == [o EXCEPT !.at = "syncing"]
<1>1. /\ file' = o.new /\ UNCHANGED <<phase, counter, pending>>
      /\ ops' = [ops EXCEPT ![p] = (@ \ {o}) \union {w}]
      /\ o.at \in Saving /\ o.at # "syncing"
  BY DEF Rename, clock, Saving
<1>2. o \in Op /\ file \in State \union {NoFile}
  BY DEF CounterInv, ForgetInv, Whole, TypeOK, NeverTorn
<1>3. w.at = "syncing" /\ w.kind = o.kind /\ w.arg = o.arg
  BY <1>2, OpRenames
<1> HIDE DEF w
<1>4. \A q \in Pid : \A x \in ops'[q] :
         (q = p /\ x = w) \/ (x \in ops[q] /\ (q # p \/ x # o))
  BY <1>1, Replaced DEF CounterInv, Lock
<1>5. o.new = changed(file, o)
  BY <1>1 DEF Kept, SavesItsLoad
<1>6. counterOf(file') = IF o.kind = "flush" THEN o.arg ELSE counterOf(file)
  BY <1>1, <1>2, <1>5, ChangedCounter
<1>7. counterOf(file)' = counterOf(file')
  BY DEF counterOf
<1>8. /\ counterOf(file) \in Nat
      /\ o.kind = "flush" => o.arg \in Nat /\ counterOf(file) <= o.arg
  BY <1>1, <1>2, FileCounter, OpFields
  DEF CounterInv, ForgetInv, Whole, Counters, FlushBetween
<1>9. counterOf(file') >= counterOf(file)
  BY <1>6, <1>8
<1>10. \A q \in Pid : phase[q] \in Loaded \/ ops[q] # {} \/ pending[q] # NoCounter => q = p
  BY OneIsLoaded
<1>11. Ahead'
  <2>1. phase[p] \in Loaded => counterOf(file') <= counter[p]
    BY <1>6 DEF Counters, Ahead, FlushBetween
  <2> QED
    BY <1>1, <1>7, <1>10, <2>1 DEF Ahead
<1>12. PendingNewest'
  <2>1. pending[p] # NoCounter =>
           /\ counterOf(file') <= pending[p] /\ pending[p] <= counter[p]
           /\ \A x \in ops'[p] : x.kind = "flush" => x.arg <= pending[p]
    BY <1>3, <1>4, <1>6 DEF Counters, PendingNewest
  <2> QED
    BY <1>1, <1>7, <1>10, <2>1 DEF PendingNewest
<1>13. \A q \in Pid : \A x \in ops'[q] : x.at \notin Saving
  BY <1>1, <1>3, <1>4 DEF Kept, OneSaves, Saving
<1>14. FlushBetween'
  <2> SUFFICES ASSUME NEW q \in Pid, NEW x \in ops'[q], x.kind = "flush"
               PROVE  /\ x.arg <= counter[q]
                      /\ x.at # "syncing" => counterOf(file') <= x.arg
    BY <1>1, <1>7 DEF FlushBetween
  <2>1. CASE x = w /\ q = p
    BY <2>1, <1>3 DEF Counters, FlushBetween
  <2>2. CASE x \in ops[q]
    <3>1. x \in Op /\ q = p
      BY <2>2, <1>10 DEF CounterInv, Lock, TypeOK
    <3>2. x.at = "loading" \/ x.at = "syncing"
      BY <3>1, <1>13, OpFields DEF Progress, Saving
    <3>3. x.arg <= counter[q] /\ (x.at = "loading" => counterOf(file) <= x.arg)
      BY <2>2 DEF Counters, FlushBetween
    <3>4. x.at = "loading" /\ o.kind = "flush" => o.arg <= x.arg
      BY <2>2, <3>1, <1>1 DEF Counters, FlushOrder
    <3> QED
      BY <3>2, <3>3, <3>4, <1>6
  <2> QED
    BY <2>1, <2>2, <1>4
<1>15. FlushOrder'
  BY <1>13 DEF FlushOrder
<1> QED
  BY <1>9, <1>11, <1>12, <1>14, <1>15 DEF Counters

LEMMA NextCounters ==
    ASSUME CounterInv, raced = {}, Counters, Next, ~overlapped'
    PROVE  /\ Counters'
           /\ PowerLoss \/ counterOf(file') >= counterOf(file)
<1> USE DEF disk, clock, history, saves, bounds
<1> DEFINE Goal == /\ Counters'
                   /\ PowerLoss \/ counterOf(file') >= counterOf(file)
<1>0. TypeOK /\ Quiet /\ counterOf(file) \in Nat
  BY FileCounter DEF CounterInv, Lock, ForgetInv, Whole
<1>1. UNCHANGED file => counterOf(file') >= counterOf(file)
  BY <1>0
<1>2. ASSUME NEW p \in Pid,
             \/ ReadPid(p) \/ Probe(p) \/ WritePid(p) \/ ReadKey(p) \/ TruncateKey(p) \/ FillKey(p)
             \/ StopServers(p) \/ ReadOwnPid(p) \/ RemovePid(p) \/ ForceFlush(p)
      PROVE  Goal
  <2>1. UNCHANGED <<file, counter, ops>>
    BY <1>2 DEF ReadPid, Probe, WritePid, ReadKey, TruncateKey, FillKey,
                StopServers, ReadOwnPid, RemovePid, ForceFlush
  <2>2. \A q \in Pid : phase'[q] \in Loaded => phase[q] \in Loaded
    BY <1>0, <1>2 DEF ReadPid, Probe, WritePid, ReadKey, TruncateKey, FillKey, StopServers,
                      ReadOwnPid, RemovePid, ForceFlush, Goto, Loaded, Busy, TypeOK
  <2>3. \A q \in Pid : pending'[q] \in {pending[q], NoCounter}
    BY <1>0, <1>2 DEF ReadPid, Probe, WritePid, ReadKey, TruncateKey, FillKey,
                      StopServers, ReadOwnPid, RemovePid, ForceFlush, TypeOK
  <2> QED
    BY <1>1, <2>1, <2>2, <2>3, CountersStay
<1>3. ASSUME NEW p \in Pid, LoadState(p) PROVE Goal
  <2>1. UNCHANGED <<file, pending, ops>> /\ ops[p] = {} /\ pending[p] = NoCounter
    BY <1>0, <1>3 DEF LoadState, Quiet, Busy
  <2>2. \A q \in Pid : phase'[q] \in Loaded =>
           (phase[q] \in Loaded /\ q # p) \/ counter'[q] = counterOf(file)
    BY <1>0, <1>3 DEF LoadState, Goto, Loaded, Busy, TypeOK
  <2>3. \A q \in Pid \ {p} : counter'[q] = counter[q]
    BY <1>0, <1>3 DEF LoadState, TypeOK
  <2>4. counterOf(file)' = counterOf(file)
    BY <2>1 DEF counterOf
  <2>5. Ahead'
    BY <1>0, <2>2, <2>3, <2>4 DEF Counters, Ahead
  <2>6. PendingNewest' /\ FlushBetween' /\ FlushOrder'
    BY <2>1, <2>3, <2>4 DEF Counters, PendingNewest, FlushBetween, FlushOrder
  <2> QED
    BY <1>1, <2>1, <2>5, <2>6 DEF Counters
<1>4. ASSUME NEW p \in Pid, NEW c \in 1 .. MaxCounter, Advance(p, c) PROVE Goal
  BY <1>1, <1>4, CountersByAdvance DEF Advance
<1>5. ASSUME NEW p \in Pid, FlushFires(p) PROVE Goal
  BY <1>1, <1>5, CountersByFlush DEF FlushFires
<1>6. ASSUME NEW p \in Pid, NEW k \in Kinds, NEW d, StartOp(p, k, d) PROVE Goal
  <2> DEFINE w == [kind |-> k, arg |-> d, at |-> "loading", new |-> NoFile, synced |-> FALSE]
  <2>1. /\ UNCHANGED <<file, phase, counter, pending>>
        /\ ops' = [ops EXCEPT ![p] = @ \union {w}]
    BY <1>6 DEF StartOp
  <2>2. w.kind # "flush"
    BY DaemonStateAssumption
  <2> HIDE DEF w
  <2>3. \A q \in Pid : \A x \in ops'[q] : x.kind = "flush" => x \in ops[q]
    BY <1>0, <2>1, <2>2, Added
  <2> QED
    BY <1>1, <2>1, <2>3, CountersStay
<1>7. ASSUME NEW p \in Pid, NEW o \in ops[p], Load(p, o) PROVE Goal
  BY <1>1, <1>7, CountersByLoad DEF Load
<1>8. ASSUME NEW p \in Pid, NEW o \in ops[p], WriteTmp(p, o) PROVE Goal
  <2> DEFINE w == [o EXCEPT !.at = "renaming", !.synced = TRUE]
  <2>1. /\ UNCHANGED <<file, phase, counter, pending>> /\ o.at = "writing"
        /\ ops' = [ops EXCEPT ![p] = (@ \ {o}) \union {w}]
    BY <1>8 DEF WriteTmp
  <2>2. w.at = "renaming" /\ w.kind = o.kind /\ w.arg = o.arg
    BY <1>0, OpWrites DEF TypeOK
  <2> HIDE DEF w
  <2>3. \A q \in Pid : \A x \in ops'[q] : x \in ops[q] \/ (q = p /\ x = w)
    BY <1>0, <2>1, Replaced
  <2> QED
    BY <1>1, <2>1, <2>2, <2>3, CountersStay DEF Saving
<1>9. ASSUME NEW p \in Pid, NEW o \in ops[p], Rename(p, o) PROVE Goal
  <2>1. UNCHANGED overlapped
    BY <1>9 DEF Rename
  <2> QED
    BY <1>9, <2>1, CountersByRename DEF CounterInv, ForgetInv
<1>10. ASSUME NEW p \in Pid, NEW o \in ops[p], SyncDir(p, o) \/ SaveFails(p, o) PROVE Goal
  <2>1. UNCHANGED <<file, phase, counter, pending>> /\ ops' = [ops EXCEPT ![p] = @ \ {o}]
    BY <1>10 DEF SyncDir, SaveFails, Finish
  <2>2. \A q \in Pid : \A x \in ops'[q] : x \in ops[q]
    BY <1>0, <2>1, Removed
  <2> QED
    BY <1>1, <2>1, <2>2, CountersStay
<1>11. ASSUME NEW p \in Pid, Exit(p) \/ StopTimesOut(p) \/ Crash(p) PROVE Goal
  <2>1. End({p}, "exited") \/ End({p}, "dead")
    BY <1>11 DEF Exit, StopTimesOut, Crash
  <2>2. UNCHANGED file
    BY <1>11 DEF Exit, StopTimesOut, Crash
  <2>3. \A q \in Pid : phase'[q] \in Loaded => phase[q] \in Loaded
    BY <2>1 DEF End, Loaded, Busy
  <2> QED
    BY <1>1, <2>1, <2>2, <2>3, CountersStay DEF End, Loaded, Busy
<1>12. ASSUME PowerLoss PROVE Goal
  <2>1. \A q \in Pid : ops'[q] = {} /\ pending'[q] = NoCounter
    BY <1>0, <1>12, BusyIsAlive DEF PowerLoss, End, Quiet
  <2>2. \A q \in Pid : phase'[q] \notin Loaded
    BY <1>12 DEF PowerLoss, End, Alive, Loaded, Busy
  <2> QED
    BY <1>12, <2>1, <2>2 DEF Counters, Ahead, PendingNewest, FlushBetween, FlushOrder
<1> HIDE DEF Goal, disk, clock, history, saves, bounds
<1>13. Goal
  BY <1>2, <1>3, <1>4, <1>5, <1>6, <1>7, <1>8, <1>9, <1>10, <1>11, <1>12
  DEF Next, Start, Save, Stop
<1> QED
  BY <1>13 DEF Goal

LEMMA RacedGrows == ASSUME TypeOK, Next PROVE raced \subseteq raced'
<1> USE DEF disk, clock, history, saves, bounds
<1>1. ASSUME NEW p \in Pid, Start(p) PROVE raced \subseteq raced'
  BY <1>1 DEF Start, ReadPid, Probe, WritePid, LoadState, ReadKey, TruncateKey, FillKey
<1>2. ASSUME NEW p \in Pid,
             \/ \E c : Advance(p, c)
             \/ FlushFires(p)
             \/ \E k, d : StartOp(p, k, d)
             \/ \E o \in ops[p] : \/ Load(p, o) \/ WriteTmp(p, o) \/ Rename(p, o)
                                  \/ SyncDir(p, o) \/ SaveFails(p, o)
      PROVE  raced \subseteq raced'
  BY <1>2 DEF Advance, FlushFires, StartOp, Load, WriteTmp, Rename, SyncDir, SaveFails
<1>3. ASSUME NEW p \in Pid, StopServers(p) \/ Stop(p) \/ StopTimesOut(p) \/ Crash(p)
      PROVE  raced \subseteq raced'
  BY <1>3 DEF StopServers, Stop, ForceFlush, ReadOwnPid, RemovePid, Exit, StopTimesOut, Crash
<1>4. PowerLoss => raced \subseteq raced'
  BY DEF PowerLoss
<1> HIDE DEF disk, clock, history, saves, bounds
<1> QED
  BY <1>1, <1>2, <1>3, <1>4 DEF Next, Save

LEMMA CounterInvariant == Spec => []CounterInv
<1> DEFINE CI == raced # {} \/ (OneLoaded /\ (overlapped \/ Counters))
<1>1. ASSUME Init PROVE CI
  BY <1>1 DEF Init, OneLoaded, Counters, Ahead, PendingNewest, FlushBetween, FlushOrder,
              Loaded, Busy
<1>2. ForgetInv /\ Quiet /\ Lock /\ CI /\ Next => CI'
  <2>1. Next /\ ~overlapped' => ~overlapped
    BY StepCases DEF saved, saves, FlushFires, StartOp, Load, WriteTmp, Rename, SyncDir,
                     SaveFails, PowerLoss, history
  <2>2. Lock /\ Next /\ raced' = {} => raced = {}
    BY RacedGrows DEF Lock
  <2> QED
    BY <2>1, <2>2, NextCounters, NextLoaded DEF CounterInv
<1>3. CI /\ UNCHANGED vars => CI'
  BY DEF OneLoaded, Counters, Ahead, PendingNewest, FlushBetween, FlushOrder, counterOf,
         vars, disk, clock, history, saves, bounds
<1>4. ForgetInv /\ Quiet /\ Lock /\ CI => CounterInv
  BY DEF CounterInv
<1> HIDE DEF CI
<1> QED
  BY <1>1, <1>2, <1>3, <1>4, ForgetInvariant, QuietInvariant, LockInvariant, PTL DEF Spec

(***************************************************************************)
(* state-file-v1.ts: clockCounter is "monotonically increasing".  However  *)
(* many flushes are under way, and across crashes and restarts, no step    *)
(* lowers the counter on the disk but a power loss, unless operations      *)
(* overlap, or a start has raced with another start or with a daemon on    *)
(* its way out.                                                            *)
(***************************************************************************)
THEOREM CounterNeverFalls == Spec => PersistedCounterGrows
<1> DEFINE Step == overlapped \/ raced # {} \/ PowerLoss \/ counterOf(file') >= counterOf(file)
<1>1. CounterInv /\ CounterInv' /\ Next => Step
  <2> SUFFICES ASSUME CounterInv, Next, ~overlapped, raced = {}, ~PowerLoss
               PROVE  counterOf(file') >= counterOf(file)
    OBVIOUS
  <2>1. Counters /\ Kept /\ counterOf(file) \in Nat
    BY FileCounter DEF CounterInv, ForgetInv, Whole
  <2>2. CASE ~overlapped'
    BY <2>1, <2>2, NextCounters
  <2>3. CASE overlapped'
    <3>1. PICK p \in Pid : \E o \in ops[p] : Load(p, o)
      BY <2>3, StepCases DEF saved, saves, history, FlushFires, StartOp, WriteTmp, Rename,
                             SyncDir, SaveFails
    <3> QED
      BY <2>1, <3>1 DEF Load, disk
  <2> QED
    BY <2>2, <2>3
<1>2. CounterInv /\ CounterInv' /\ [Next]_vars => [Step]_vars
  BY <1>1
<1> HIDE DEF Step
<1>3. Spec => [][Step]_vars
  BY <1>2, CounterInvariant, PTL DEF Spec
<1> QED
  BY <1>3 DEF PersistedCounterGrows, Step
================================================================================
