---------------------------- MODULE DiscoveryProofs ----------------------------
(***************************************************************************)
(* Proofs about Discovery for any number of daemons, any ports and any     *)
(* intervals: its type invariant, that sightings expire, what stop()       *)
(* leaves behind, and, from the bounds on loss and delay alone, that a     *)
(* peer that is up is seen in time and is not dropped.                     *)
(***************************************************************************)
EXTENDS Discovery, FiniteSetTheorems, TLAPS

Sighting == [port : Port \union {NoAdvert}, age : Nat]
Datagram == [from : Device, port : Port, delay : 0 .. MaxDelay]

(***************************************************************************)
(* The type invariant is inductive with the shape of the map: a sighting   *)
(* has a port, nobody sees itself, and a process that is not there has no  *)
(* map and hears nothing.  The timers never exceed their intervals.        *)
(***************************************************************************)
Sighted ==
    /\ \A d, e \in Device : peers[d][e] = NoSighting \/ peers[d][e].port \in Port
    /\ \A d \in Device : peers[d][d] = NoSighting
    /\ \A d \in Device : phase[d] = "off" => peers[d] = Nobody
    /\ \A d \in Device : phase[d] = "on" => port[d] \in Port

Timed == \A d \in Device : announceIn[d] <= BeaconInterval /\ pruneIn[d] <= PruneInterval

Sound == TypeOK /\ Sighted /\ Timed

(***************************************************************************)
(* What the parts of an action do.                                         *)
(***************************************************************************)
LEMMA AnnounceEffect ==
    ASSUME TypeOK, NEW d \in Device, NEW p \in Port, NEW receivers \in SUBSET Device,
           announce(d, p, receivers)
    PROVE  /\ net' \in [Device -> SUBSET Datagram]
           /\ lost' \in [Device -> [Device -> 0 .. MaxLost]]
           /\ \A r \in Device : net[r] \subseteq net'[r]
           /\ \A r, e \in Device : e # d => lost'[r][e] = lost[r][e]
           /\ \A r \in Device \ {d} : Listens(r) =>
                 \/ /\ [from |-> d, port |-> p, delay |-> 0] \in net'[r]
                    /\ lost'[r][d] = 0
                 \/ lost'[r][d] = lost[r][d] + 1 /\ lost[r][d] < MaxLost
<1> DEFINE m == [from |-> d, port |-> p, delay |-> 0]
           others == {r \in Device \ {d} : Listens(r)}
<1>1. m \in Datagram
  BY DiscoveryAssumption DEF Datagram
<1>2. /\ \A r \in others \ receivers : lost[r][d] < MaxLost
      /\ net' = [r \in Device |-> IF r \in receivers THEN net[r] \union {m} ELSE net[r]]
      /\ lost' = [r \in Device |-> [lost[r] EXCEPT ![d] =
                    IF r \in others \ receivers THEN @ + 1 ELSE 0]]
  BY DEF announce
<1> HIDE DEF m, others
<1>3. net' \in [Device -> SUBSET Datagram] /\ \A r \in Device : net[r] \subseteq net'[r]
  BY <1>1, <1>2 DEF TypeOK, Datagram
<1>4. \A r, e \in Device : lost'[r][e] = IF e # d THEN lost[r][e]
                                         ELSE IF r \in others \ receivers THEN lost[r][d] + 1 ELSE 0
  BY <1>2 DEF TypeOK
<1>5. lost' \in [Device -> [Device -> 0 .. MaxLost]]
  <2>1. \A r, e \in Device : lost[r][e] \in 0 .. MaxLost
    BY DEF TypeOK
  <2>2. \A r, e \in Device : lost'[r][e] \in 0 .. MaxLost
    BY <1>2, <1>4, <2>1, DiscoveryAssumption
  <2>3. \A r \in Device : lost'[r] = [e \in Device |-> lost'[r][e]]
    BY <1>2 DEF TypeOK
  <2> QED
    BY <1>2, <2>2, <2>3
<1>6. \A r \in others : r \in receivers => m \in net'[r] /\ lost'[r][d] = 0
  BY <1>2, <1>4 DEF others
<1>7. \A r \in others : r \notin receivers => lost'[r][d] = lost[r][d] + 1 /\ lost[r][d] < MaxLost
  BY <1>2, <1>4 DEF others
<1> QED
  BY <1>3, <1>4, <1>5, <1>6, <1>7 DEF others, m

LEMMA UpsertEffect ==
    ASSUME Sound, NEW d \in Device, NEW a, a.from \in Device, a.port \in Port, upsert(d, a)
    PROVE  /\ peers' \in [Device -> [Device -> Sighting]]
           /\ told' \in [Device -> [Device -> Port \union {NoAdvert}]]
           /\ \A r \in Device : r # d => peers'[r] = peers[r] /\ told'[r] = told[r]
           /\ \A e \in Device : e # a.from \/ e = d => peers'[d][e] = peers[d][e]
           /\ a.from # d => peers'[d][a.from].port \in Port /\ peers'[d][a.from].age = 0
           /\ told[d] = Shown(peers[d]) => told'[d] = Shown(peers'[d])
<1>1. CASE a.from = d
  BY <1>1 DEF upsert, map, Sound, TypeOK, Sighting
<1>2. CASE a.from # d
  <2> DEFINE old == peers[d][a.from]
             new == IF a.from \in Visible(d) THEN [old EXCEPT !.age = 0]
                    ELSE [port |-> a.port, age |-> 0]
             s == [peers[d] EXCEPT ![a.from] = new]
  <2>1. old \in Sighting /\ (old = NoSighting \/ old.port \in Port)
    BY DEF Sound, TypeOK, Sighted, Sighting
  <2>2. new \in Sighting /\ new.port \in Port /\ new.age = 0
    BY <2>1 DEF Sighting, Visible
  <2>3. emit(d, s)
    BY <1>2 DEF upsert
  <2> HIDE DEF new
  <2>4. /\ s \in [Device -> Sighting]
        /\ \A e \in Device : s[e] = IF e = a.from THEN new ELSE peers[d][e]
    BY <2>2 DEF Sound, TypeOK, Sighting
  <2> HIDE DEF s
  <2>5. Shown(s) \in [Device -> Port \union {NoAdvert}]
    BY <2>4 DEF Shown, Sighting
  <2> QED
    BY <1>2, <2>2, <2>3, <2>4, <2>5 DEF emit, Sound, TypeOK, Sighting
<1> QED
  BY <1>1, <1>2

LEMMA EmitEffect ==
    ASSUME TypeOK, NEW d \in Device, NEW s \in [Device -> Sighting], emit(d, s)
    PROVE  /\ peers' \in [Device -> [Device -> Sighting]]
           /\ told' \in [Device -> [Device -> Port \union {NoAdvert}]]
           /\ \A r \in Device : r # d => peers'[r] = peers[r] /\ told'[r] = told[r]
           /\ peers'[d] = s /\ told'[d] = Shown(s)
<1>1. Shown(s) \in [Device -> Port \union {NoAdvert}]
  BY DEF Shown, Sighting
<1> QED
  BY <1>1 DEF emit, TypeOK, Sighting

LEMMA NobodyType ==
    /\ NoSighting \in Sighting /\ Nobody \in [Device -> Sighting]
    /\ \A e \in Device : Nobody[e] = NoSighting
  BY DEF NoSighting, Nobody, Sighting

LEMMA IntervalTypes ==
    {BeaconInterval, PruneInterval, PeerTimeout, MaxDelay, MaxLost} \subseteq Nat
  BY DiscoveryAssumption

LEMMA SilenceEffect ==
    ASSUME Sound, NEW d \in Device, silence(d)
    PROVE  /\ joined' \in [Device -> BOOLEAN] /\ net' \in [Device -> SUBSET Datagram]
           /\ lost' \in [Device -> [Device -> 0 .. MaxLost]]
           /\ {announceIn', pruneIn'} \subseteq [Device -> Nat] /\ Timed'
           /\ up' \in [Device -> 0 .. PeerTimeout]
           /\ \A r \in Device : r # d =>
                 /\ joined'[r] = joined[r] /\ net'[r] = net[r] /\ up'[r] = up[r]
                 /\ announceIn'[r] = announceIn[r] /\ pruneIn'[r] = pruneIn[r]
           /\ \A r, e \in Device : r # d /\ e # d => lost'[r][e] = lost[r][e]
<1>1. /\ joined' \in [Device -> BOOLEAN] /\ net' \in [Device -> SUBSET Datagram]
      /\ {announceIn', pruneIn'} \subseteq [Device -> Nat]
      /\ up' \in [Device -> 0 .. PeerTimeout]
  BY DiscoveryAssumption DEF silence, Sound, TypeOK, Datagram
<1>2. lost' = [r \in Device |-> [e \in Device |-> IF d \in {r, e} THEN 0 ELSE lost[r][e]]]
  BY DEF silence
<1>3. lost' \in [Device -> [Device -> 0 .. MaxLost]]
  BY <1>2, DiscoveryAssumption DEF Sound, TypeOK
<1>4. Timed'
  BY <1>1, DiscoveryAssumption DEF silence, Sound, Timed, TypeOK
<1> QED
  BY <1>1, <1>2, <1>3, <1>4 DEF silence, Sound, TypeOK

-------------------------------------------------------------------------------
(***************************************************************************)
(* The steps that keep all that.                                           *)
(***************************************************************************)
LEMMA StartSound == ASSUME Sound, NEW d \in Device, Start(d) PROVE Sound'
<1>1. PICK p \in Port, receivers \in SUBSET Device :
         port' = [port EXCEPT ![d] = p] /\ announce(d, p, receivers)
  BY DEF Start
<1>2. net' \in [Device -> SUBSET Datagram] /\ lost' \in [Device -> [Device -> 0 .. MaxLost]]
  BY <1>1, AnnounceEffect DEF Sound
<1>3. {announceIn', pruneIn'} \subseteq [Device -> Nat] /\ up' \in [Device -> 0 .. PeerTimeout]
  BY IntervalTypes DEF Start, Sound, TypeOK
<1>4. /\ phase' \in [Device -> {"off", "on", "stopping", "stopped"}]
      /\ started' \in [Device -> Nat] /\ port' \in [Device -> Port \union {NoAdvert}]
  BY <1>1 DEF Start, Sound, TypeOK
<1>5. joined' \in [Device -> BOOLEAN]
  <2>1. PICK ok \in BOOLEAN : joined' = [joined EXCEPT ![d] = ok]
    BY DEF Start
  <2> QED
    BY <2>1 DEF Sound, TypeOK
<1>6. TypeOK'
  BY <1>2, <1>3, <1>4, <1>5 DEF Sound, TypeOK, Start, map, Datagram
<1>7. Sighted' /\ Timed'
  BY <1>1, DiscoveryAssumption DEF Sound, TypeOK, Sighted, Timed, Start, map
<1> QED
  BY <1>6, <1>7 DEF Sound

LEMMA AnnounceSound == ASSUME Sound, NEW d \in Device, Announce(d) PROVE Sound'
<1>1. PICK receivers \in SUBSET Device : announce(d, port[d], receivers)
  BY DEF Announce
<1>2. port[d] \in Port
  BY DEF Announce, Sound, Sighted
<1>3. net' \in [Device -> SUBSET Datagram] /\ lost' \in [Device -> [Device -> 0 .. MaxLost]]
  BY <1>1, <1>2, AnnounceEffect DEF Sound
<1>4. {announceIn', pruneIn'} \subseteq [Device -> Nat]
  BY IntervalTypes DEF Announce, Sound, TypeOK
<1>5. TypeOK'
  BY <1>3, <1>4 DEF Sound, TypeOK, Announce, self, map, Datagram
<1>6. Sighted' /\ Timed'
  BY DiscoveryAssumption DEF Sound, TypeOK, Sighted, Timed, Announce, self, map
<1> QED
  BY <1>5, <1>6 DEF Sound

LEMMA ReceiveSound == ASSUME Sound, NEW d \in Device, NEW m \in net[d], Receive(d, m) PROVE Sound'
<1>1. upsert(d, m) /\ m \in Datagram /\ phase[d] = "on"
  BY DEF Receive, Listens, Sound, TypeOK, Datagram
<1>2. /\ peers' \in [Device -> [Device -> Sighting]]
      /\ told' \in [Device -> [Device -> Port \union {NoAdvert}]]
      /\ \A r \in Device : r # d => peers'[r] = peers[r]
      /\ \A e \in Device : e # m.from \/ e = d => peers'[d][e] = peers[d][e]
      /\ m.from # d => peers'[d][m.from].port \in Port
  BY <1>1, UpsertEffect DEF Datagram
<1>3. TypeOK'
  BY <1>2 DEF Sound, TypeOK, Receive, self, timers, Sighting
<1>4. Sighted'
  BY <1>1, <1>2 DEF Sound, Sighted, Receive, self
<1>5. Timed'
  BY DEF Sound, Timed, Receive, timers
<1> QED
  BY <1>3, <1>4, <1>5 DEF Sound

LEMMA ReceiveLateSound == ASSUME Sound, NEW d \in Device, ReceiveLate(d) PROVE Sound'
<1>1. upsert(d, held[d]) /\ held[d] \in Advert /\ phase[d] # "off" /\ phase[d] # "on"
  BY DEF ReceiveLate, Sound, TypeOK
<1>2. /\ peers' \in [Device -> [Device -> Sighting]]
      /\ told' \in [Device -> [Device -> Port \union {NoAdvert}]]
      /\ \A r \in Device : r # d => peers'[r] = peers[r]
      /\ \A e \in Device : e # held[d].from \/ e = d => peers'[d][e] = peers[d][e]
      /\ held[d].from # d => peers'[d][held[d].from].port \in Port
  BY <1>1, UpsertEffect DEF Advert
<1>3. TypeOK'
  BY <1>2 DEF Sound, TypeOK, ReceiveLate, self, timers, Sighting
<1>4. Sighted'
  <2>1. \A e \in Device : peers'[d][e] = NoSighting \/ peers'[d][e].port \in Port
    BY <1>2 DEF Sound, Sighted
  <2> QED
    BY <1>1, <1>2, <2>1 DEF Sound, Sighted, ReceiveLate, self
<1>5. Timed'
  BY DEF Sound, Timed, ReceiveLate, timers
<1> QED
  BY <1>3, <1>4, <1>5 DEF Sound

LEMMA PruneSound == ASSUME Sound, NEW d \in Device, Prune(d) PROVE Sound'
<1>1. fresh(d, PeerTimeout) \in [Device -> Sighting]
  BY NobodyType DEF fresh, Sound, TypeOK, Sighting
<1>2. /\ peers' \in [Device -> [Device -> Sighting]]
      /\ told' \in [Device -> [Device -> Port \union {NoAdvert}]]
      /\ \A r \in Device : r # d => peers'[r] = peers[r]
      /\ peers'[d] = fresh(d, PeerTimeout)
  BY <1>1, EmitEffect DEF Prune, prune, Sound
<1>3. \A e \in Device : peers'[d][e] \in {NoSighting, peers[d][e]}
  BY <1>2 DEF fresh
<1>4. {announceIn', pruneIn'} \subseteq [Device -> Nat]
  BY IntervalTypes DEF Prune, Sound, TypeOK
<1>5. TypeOK'
  BY <1>2, <1>4 DEF Sound, TypeOK, Prune, self, Sighting
<1>6. Sighted'
  BY <1>2, <1>3 DEF Sound, Sighted, Prune, self
<1>7. Timed'
  BY DiscoveryAssumption DEF Sound, Timed, Prune, TypeOK
<1> QED
  BY <1>5, <1>6, <1>7 DEF Sound

LEMMA StopBeginSound == ASSUME Sound, NEW d \in Device, StopBegin(d) PROVE Sound'
<1>1. held' \in [Device -> Advert \union {NoAdvert}]
  <2>1. CASE UNCHANGED held
    BY <2>1 DEF Sound, TypeOK
  <2>2. ASSUME NEW m \in net[d], held' = [held EXCEPT ![d] = [from |-> m.from, port |-> m.port]]
        PROVE  held' \in [Device -> Advert \union {NoAdvert}]
    BY <2>2 DEF Sound, TypeOK, Advert
  <2> QED
    BY <2>1, <2>2 DEF StopBegin
<1>2. TypeOK' /\ Timed'
  BY <1>1, SilenceEffect DEF StopBegin, Sound, TypeOK, map, Datagram
<1>3. Sighted'
  BY DEF StopBegin, Sound, TypeOK, Sighted, map
<1> QED
  BY <1>2, <1>3 DEF Sound

LEMMA StopEndSound == ASSUME Sound, NEW d \in Device, StopEnd(d) PROVE Sound'
<1>1. /\ peers' \in [Device -> [Device -> Sighting]]
      /\ told' \in [Device -> [Device -> Port \union {NoAdvert}]]
      /\ \A r \in Device : r # d => peers'[r] = peers[r]
      /\ peers'[d] = Nobody
  BY NobodyType, EmitEffect DEF StopEnd, Sound
<1>2. TypeOK'
  BY <1>1 DEF StopEnd, Sound, TypeOK, timers, Sighting
<1>3. Sighted'
  BY <1>1, NobodyType DEF StopEnd, Sound, TypeOK, Sighted
<1>4. Timed'
  BY DEF StopEnd, Sound, Timed, timers
<1> QED
  BY <1>2, <1>3, <1>4 DEF Sound

LEMMA ExitSound == ASSUME Sound, NEW d \in Device, Exit(d) PROVE Sound'
<1>1. /\ peers' \in [Device -> [Device -> Sighting]]
      /\ told' \in [Device -> [Device -> Port \union {NoAdvert}]]
      /\ \A r \in Device : r # d => peers'[r] = peers[r]
      /\ peers'[d] = Nobody
  BY NobodyType, EmitEffect DEF Exit, Sound
<1>2. TypeOK' /\ Timed'
  BY <1>1, SilenceEffect DEF Exit, Sound, TypeOK, Sighting, Datagram
<1>3. Sighted'
  BY <1>1, NobodyType DEF Exit, Sound, TypeOK, Sighted
<1> QED
  BY <1>2, <1>3 DEF Sound

(***************************************************************************)
(* A tick, read at one daemon or one pair of daemons.                      *)
(***************************************************************************)
LEMMA TickEffect ==
    ASSUME Sound, Tick
    PROVE  /\ UNCHANGED <<phase, port, joined, started, told, held, lost>>
           /\ {announceIn', pruneIn'} \subseteq [Device -> Nat]
           /\ \A d \in Device :
                 /\ phase[d] = "on" => /\ announceIn'[d] = announceIn[d] - 1
                                       /\ pruneIn'[d] = pruneIn[d] - 1
                 /\ phase[d] # "on" => /\ announceIn'[d] = announceIn[d]
                                       /\ pruneIn'[d] = pruneIn[d]
           /\ up' \in [Device -> 0 .. PeerTimeout]
           /\ \A d \in Device : phase[d] = "on" =>
                 up'[d] = IF up[d] < PeerTimeout THEN up[d] + 1 ELSE up[d]
           /\ peers' \in [Device -> [Device -> Sighting]]
           /\ \A d, e \in Device :
                 /\ peers'[d][e].port = peers[d][e].port
                 /\ peers'[d][e] # peers[d][e] =>
                       /\ phase[d] = "on" /\ e \in Visible(d)
                       /\ peers'[d][e].age = peers[d][e].age + 1
                 /\ phase[d] = "on" /\ e \in Visible(d) =>
                       peers'[d][e].age = peers[d][e].age + 1
           /\ net' \in [Device -> SUBSET Datagram]
           /\ \A d \in Device : \A m \in net[d] : \E n \in net'[d] :
                 n.from = m.from /\ n.port = m.port /\ n.delay = m.delay + 1
<1>1. /\ UNCHANGED <<phase, port, joined, started, told, held, lost>>
      /\ \A d \in Device : phase[d] = "on" => announceIn[d] > 0 /\ pruneIn[d] > 0
      /\ \A d \in Device : \A m \in net[d] : m.delay < MaxDelay
      /\ announceIn' = [d \in Device |-> announceIn[d] - (IF phase[d] = "on" THEN 1 ELSE 0)]
      /\ pruneIn' = [d \in Device |-> pruneIn[d] - (IF phase[d] = "on" THEN 1 ELSE 0)]
      /\ up' = [d \in Device |-> IF phase[d] = "on" /\ up[d] < PeerTimeout
                                 THEN up[d] + 1 ELSE up[d]]
      /\ peers' = [d \in Device |-> [e \in Device |->
                     IF phase[d] = "on" /\ e \in Visible(d)
                     THEN [peers[d][e] EXCEPT !.age = @ + 1] ELSE peers[d][e]]]
      /\ net' = [d \in Device |-> {[m EXCEPT !.delay = @ + 1] : m \in net[d]}]
  BY DEF Tick
<1>2. {announceIn', pruneIn'} \subseteq [Device -> Nat] /\ up' \in [Device -> 0 .. PeerTimeout]
  BY <1>1, DiscoveryAssumption DEF Sound, TypeOK
<1>3. \A d \in Device :
         /\ phase[d] = "on" => announceIn'[d] = announceIn[d] - 1 /\ pruneIn'[d] = pruneIn[d] - 1
         /\ phase[d] # "on" => announceIn'[d] = announceIn[d] /\ pruneIn'[d] = pruneIn[d]
         /\ phase[d] = "on" => up'[d] = IF up[d] < PeerTimeout THEN up[d] + 1 ELSE up[d]
  BY <1>1 DEF Sound, TypeOK
<1>4. \A d, e \in Device :
         /\ peers'[d][e] \in Sighting /\ peers'[d][e].port = peers[d][e].port
         /\ peers'[d][e].age = IF phase[d] = "on" /\ e \in Visible(d)
                               THEN peers[d][e].age + 1 ELSE peers[d][e].age
         /\ ~(phase[d] = "on" /\ e \in Visible(d)) => peers'[d][e] = peers[d][e]
  <2> SUFFICES ASSUME NEW d \in Device, NEW e \in Device
               PROVE  /\ peers'[d][e] \in Sighting /\ peers'[d][e].port = peers[d][e].port
                      /\ peers'[d][e].age = IF phase[d] = "on" /\ e \in Visible(d)
                                            THEN peers[d][e].age + 1 ELSE peers[d][e].age
                      /\ ~(phase[d] = "on" /\ e \in Visible(d)) => peers'[d][e] = peers[d][e]
    OBVIOUS
  <2> DEFINE r == peers[d][e]
             q == [r EXCEPT !.age = @ + 1]
  <2>1. r \in Sighting
    BY DEF Sound, TypeOK, Sighting
  <2>2. q \in Sighting /\ q.port = r.port /\ q.age = r.age + 1
    BY <2>1 DEF Sighting
  <2>3. peers'[d][e] = IF phase[d] = "on" /\ e \in Visible(d) THEN q ELSE r
    BY <1>1
  <2> HIDE DEF q, r
  <2>4. CASE phase[d] = "on" /\ e \in Visible(d)
    BY <2>2, <2>3, <2>4 DEF r
  <2>5. CASE ~(phase[d] = "on" /\ e \in Visible(d))
    BY <2>1, <2>3, <2>5 DEF r
  <2> QED
    BY <2>4, <2>5
<1>5. peers' \in [Device -> [Device -> Sighting]]
  <2>1. \A d, e \in Device : peers'[d][e] \in Sighting
    BY <1>4
  <2>2. \A d \in Device : peers'[d] = [e \in Device |-> peers'[d][e]]
    BY <1>1
  <2> QED
    BY <1>1, <2>1, <2>2
<1>6. \A d \in Device : \A m \in net[d] :
         /\ [m EXCEPT !.delay = @ + 1] \in Datagram
         /\ [m EXCEPT !.delay = @ + 1].from = m.from
         /\ [m EXCEPT !.delay = @ + 1].port = m.port
         /\ [m EXCEPT !.delay = @ + 1].delay = m.delay + 1
  <2> SUFFICES ASSUME NEW d \in Device, NEW m \in net[d]
               PROVE  /\ [m EXCEPT !.delay = @ + 1] \in Datagram
                      /\ [m EXCEPT !.delay = @ + 1].from = m.from
                      /\ [m EXCEPT !.delay = @ + 1].port = m.port
                      /\ [m EXCEPT !.delay = @ + 1].delay = m.delay + 1
    OBVIOUS
  <2>1. m \in Datagram /\ m.delay \in 0 .. MaxDelay /\ m.delay < MaxDelay
    BY <1>1 DEF Sound, TypeOK, Datagram
  <2>2. m.delay + 1 \in 0 .. MaxDelay
    BY <2>1, IntervalTypes
  <2> QED
    BY <2>1, <2>2 DEF Datagram
<1>7. net' \in [Device -> SUBSET Datagram]
  BY <1>1, <1>6
<1>8. \A d \in Device : \A m \in net[d] : \E n \in net'[d] :
         n.from = m.from /\ n.port = m.port /\ n.delay = m.delay + 1
  BY <1>1, <1>6
<1> QED
  BY <1>1, <1>2, <1>3, <1>4, <1>5, <1>7, <1>8

LEMMA TickSound == ASSUME Sound, Tick PROVE Sound'
<1>1. TypeOK'
  BY TickEffect DEF Sound, TypeOK, Sighting, Datagram
<1>2. Sighted'
  BY TickEffect DEF Sound, TypeOK, Sighted, Visible, Nobody
<1>3. Timed'
  <2> SUFFICES ASSUME NEW d \in Device
               PROVE  announceIn'[d] <= BeaconInterval /\ pruneIn'[d] <= PruneInterval
    BY DEF Timed
  <2>1. announceIn[d] \in Nat /\ pruneIn[d] \in Nat
    BY DEF Sound, TypeOK
  <2>2. announceIn[d] <= BeaconInterval /\ pruneIn[d] <= PruneInterval
    BY DEF Sound, Timed
  <2>3. announceIn'[d] <= announceIn[d] /\ pruneIn'[d] <= pruneIn[d]
    BY TickEffect, <2>1
  <2>4. announceIn'[d] \in Nat /\ pruneIn'[d] \in Nat
    BY TickEffect
  <2> QED
    BY <2>1, <2>2, <2>3, <2>4, IntervalTypes
<1> QED
  BY <1>1, <1>2, <1>3 DEF Sound

LEMMA NextSound == ASSUME Sound, Next PROVE Sound'
  BY TickSound, StartSound, AnnounceSound, PruneSound, ReceiveSound, StopBeginSound,
     ReceiveLateSound, StopEndSound, ExitSound DEF Next

LEMMA SoundInvariant == Spec => []Sound
<1>1. Init => Sound
  <2>1. ASSUME Init PROVE TypeOK
    BY <2>1, IntervalTypes, NobodyType DEF Init, TypeOK, Shown, NoSighting, Nobody, Sighting
  <2>2. ASSUME Init PROVE Sighted /\ Timed
    BY <2>2, IntervalTypes, NobodyType DEF Init, Sighted, Timed
  <2> QED
    BY <2>1, <2>2 DEF Sound
<1>2. Sound /\ [Next]_vars => Sound'
  <2>1. Sound /\ UNCHANGED vars => Sound'
    BY DEF Sound, TypeOK, Sighted, Timed, vars, self, map, timers
  <2> QED
    BY <2>1, NextSound
<1> QED
  BY <1>1, <1>2, PTL DEF Spec

(***************************************************************************)
(* Every variable has its type, whatever the intervals, the losses and the *)
(* delays, over any number of starts, stops and crashes.                   *)
(***************************************************************************)
THEOREM TypeCorrect == Spec => []TypeOK
  BY SoundInvariant, PTL DEF Sound

-------------------------------------------------------------------------------
(***************************************************************************)
(* Sightings expire.  What a sighting has left of its time, and the prune  *)
(* timer with it, only shrinks: between two prunes an age grows by no more *)
(* than the timer falls.                                                   *)
(***************************************************************************)
Expiry ==
    \A d \in Device : phase[d] = "on" =>
        \A e \in Visible(d) : peers[d][e].age + pruneIn[d] <= MaxAge

LEMMA MapTypes ==
    ASSUME Sound
    PROVE  /\ \A d, e \in Device : peers[d][e] \in Sighting /\ peers[d][e].age \in Nat
           /\ \A d \in Device : announceIn[d] \in Nat /\ pruneIn[d] \in Nat /\ up[d] \in Nat
           /\ \A d, e \in Device : lost[d][e] \in Nat /\ lost[d][e] <= MaxLost
           /\ \A d \in Device : \A m \in net[d] :
                 m \in Datagram /\ m.from \in Device /\ m.delay \in Nat /\ m.delay <= MaxDelay
  BY IntervalTypes DEF Sound, TypeOK, Sighting, Datagram

LEMMA ReceiveExpiry ==
    ASSUME Sound, Sound', Expiry, NEW d \in Device, NEW a, a.from \in Device, a.port \in Port,
           upsert(d, a), UNCHANGED <<phase, pruneIn>>
    PROVE  Expiry'
<1> SUFFICES ASSUME NEW x \in Device, phase'[x] = "on", NEW e \in Device,
                    peers'[x][e] # NoSighting
             PROVE  peers'[x][e].age + pruneIn'[x] <= MaxAge
  BY DEF Expiry, Visible
<1>1. pruneIn[x] \in Nat /\ pruneIn[x] <= PruneInterval /\ pruneIn'[x] = pruneIn[x]
  BY DEF Sound, TypeOK, Timed
<1>2. CASE peers'[x][e] = peers[x][e]
  BY <1>1, <1>2 DEF Expiry, Visible
<1>3. CASE x = d /\ e = a.from /\ a.from # d
  BY <1>1, <1>3, UpsertEffect, IntervalTypes DEF MaxAge
<1> QED
  BY <1>2, <1>3, UpsertEffect

LEMMA NextExpiry == ASSUME Sound, Sound', Expiry, Next PROVE Expiry'
<1> SUFFICES ASSUME NEW x \in Device, phase'[x] = "on", NEW e \in Device,
                    peers'[x][e] # NoSighting
             PROVE  peers'[x][e].age + pruneIn'[x] <= MaxAge
  BY DEF Expiry, Visible
<1>0. pruneIn[x] \in Nat /\ peers[x][e].age \in Nat
  BY MapTypes
<1>1. CASE Tick
  <2>1. phase[x] = "on" /\ pruneIn'[x] = pruneIn[x] - 1
    BY <1>1, TickEffect
  <2>2. e \in Visible(x)
    BY <1>1, TickEffect DEF Visible
  <2>3. peers'[x][e].age = peers[x][e].age + 1
    BY <1>1, <2>1, <2>2, TickEffect
  <2>4. peers[x][e].age + pruneIn[x] <= MaxAge
    BY <2>1, <2>2 DEF Expiry
  <2> QED
    BY <1>0, <2>1, <2>3, <2>4, IntervalTypes DEF MaxAge
<1>2. ASSUME NEW d \in Device, Start(d) \/ StopBegin(d) \/ Exit(d) \/ StopEnd(d)
      PROVE  peers'[x][e].age + pruneIn'[x] <= MaxAge
  <2>1. CASE x = d
    BY <1>2, <2>1 DEF Start, map, Sound, TypeOK, Sighted, Nobody, StopBegin, StopEnd, Exit
  <2>2. CASE x # d
    <3>1. phase[x] = "on" /\ pruneIn'[x] = pruneIn[x] /\ peers'[x] = peers[x]
      BY <1>2, <2>2
      DEF Start, StopBegin, StopEnd, Exit, silence, emit, map, timers, Sound, TypeOK
    <3> QED
      BY <3>1 DEF Expiry, Visible
  <2> QED
    BY <2>1, <2>2
<1>3. ASSUME NEW d \in Device, Announce(d) PROVE peers'[x][e].age + pruneIn'[x] <= MaxAge
  BY <1>3 DEF Announce, self, map, Expiry, Visible
<1>4. ASSUME NEW d \in Device, Prune(d) PROVE peers'[x][e].age + pruneIn'[x] <= MaxAge
  <2>1. CASE x = d
    <3>1. peers'[x][e] = peers[x][e] /\ peers[x][e].age <= PeerTimeout
      BY <1>0, <1>4, <2>1, IntervalTypes DEF Prune, prune, fresh, emit, Sound, TypeOK
    <3>2. pruneIn'[x] <= PruneInterval /\ pruneIn'[x] \in Nat
      BY MapTypes DEF Sound, Timed, TypeOK
    <3> QED
      BY <1>0, <3>1, <3>2, IntervalTypes DEF MaxAge
  <2>2. CASE x # d
    <3>1. phase[x] = "on" /\ pruneIn'[x] = pruneIn[x] /\ peers'[x] = peers[x]
      BY <1>4, <2>2 DEF Prune, prune, emit, self, Sound, TypeOK
    <3> QED
      BY <3>1 DEF Expiry, Visible
  <2> QED
    BY <2>1, <2>2
<1>5. ASSUME NEW d \in Device, NEW m \in net[d], Receive(d, m) PROVE Expiry'
  <2>1. m.from \in Device /\ m.port \in Port
    BY MapTypes DEF Datagram
  <2> QED
    BY <1>5, <2>1, ReceiveExpiry DEF Receive, self, timers
<1>6. ASSUME NEW d \in Device, ReceiveLate(d) PROVE Expiry'
  <2>1. held[d].from \in Device /\ held[d].port \in Port
    BY <1>6 DEF ReceiveLate, Sound, TypeOK, Advert
  <2> QED
    BY <1>6, <2>1, ReceiveExpiry DEF ReceiveLate, self, timers
<1>7. Expiry' => peers'[x][e].age + pruneIn'[x] <= MaxAge
  BY DEF Expiry, Visible
<1> QED
  BY <1>1, <1>2, <1>3, <1>4, <1>5, <1>6, <1>7 DEF Next

(***************************************************************************)
(* udp-beacon.ts prune and PRUNE_INTERVAL_MS: a running daemon lists no    *)
(* peer that it has not heard for longer than the timeout and one prune    *)
(* interval.                                                               *)
(***************************************************************************)
THEOREM ListingsExpire == Spec => []SightingsExpire
<1>1. Init => Expiry
  BY DEF Init, Expiry
<1>2. Sound /\ Sound' /\ Expiry /\ [Next]_vars => Expiry'
  <2>1. Expiry /\ UNCHANGED vars => Expiry'
    BY DEF Expiry, Visible, vars, self, map, timers
  <2> QED
    BY <2>1, NextExpiry
<1>3. Sound /\ Expiry => SightingsExpire
  <2> SUFFICES ASSUME Sound, Expiry, NEW d \in Device, phase[d] = "on", NEW e \in Visible(d)
               PROVE  peers[d][e].age <= MaxAge
    BY DEF SightingsExpire
  <2>1. e \in Device /\ peers[d][e].age \in Nat /\ pruneIn[d] \in Nat
    BY MapTypes DEF Visible
  <2> QED
    BY <2>1, IntervalTypes DEF Expiry, MaxAge
<1> QED
  BY SoundInvariant, <1>1, <1>2, <1>3, PTL DEF Spec

-------------------------------------------------------------------------------
(***************************************************************************)
(* What stop() leaves behind: nothing while the receive loop still holds a *)
(* datagram, and one sighting at most after it.                            *)
(***************************************************************************)
Forgets ==
    \A d \in Device :
        /\ told[d] = Shown(peers[d])
        /\ phase[d] = "stopped" =>
              /\ \E e \in Device : \A x \in Device \ {e} : peers[d][x] = NoSighting
              /\ held[d] # NoAdvert => peers[d] = Nobody

LEMMA UpsertForgets ==
    ASSUME Sound, Forgets, NEW d \in Device, NEW a, a.from \in Device, a.port \in Port,
           upsert(d, a), UNCHANGED phase, phase[d] = "stopped" => peers[d] = Nobody,
           \A x \in Device : IF x = d THEN held'[x] = NoAdvert \/ phase[x] # "stopped"
                             ELSE held'[x] = held[x]
    PROVE  Forgets'
<1> SUFFICES ASSUME NEW x \in Device
             PROVE  /\ told'[x] = Shown(peers'[x])
                    /\ phase'[x] = "stopped" =>
                          /\ \E e \in Device : \A y \in Device \ {e} : peers'[x][y] = NoSighting
                          /\ held'[x] # NoAdvert => peers'[x] = Nobody
  BY DEF Forgets, Shown
<1>1. CASE x # d
  <2>1. peers'[x] = peers[x] /\ told'[x] = told[x] /\ phase'[x] = phase[x] /\ held'[x] = held[x]
    BY <1>1, UpsertEffect
  <2> QED
    BY <2>1 DEF Forgets
<1>2. CASE x = d
  <2>1. told'[x] = Shown(peers'[x])
    BY <1>2, UpsertEffect DEF Forgets
  <2>2. phase[x] = "stopped" => \A y \in Device \ {a.from} : peers'[x][y] = NoSighting
    BY <1>2, UpsertEffect, NobodyType
  <2> QED
    BY <1>2, <2>1, <2>2
<1> QED
  BY <1>1, <1>2

LEMMA EmitForgets ==
    ASSUME Sound, Forgets, NEW d \in Device, NEW s \in [Device -> Sighting], emit(d, s),
           phase'[d] = "stopped" => s = Nobody,
           \A x \in Device : x # d => phase'[x] = phase[x] /\ held'[x] = held[x]
    PROVE  Forgets'
<1> SUFFICES ASSUME NEW x \in Device
             PROVE  /\ told'[x] = Shown(peers'[x])
                    /\ phase'[x] = "stopped" =>
                          /\ \E e \in Device : \A y \in Device \ {e} : peers'[x][y] = NoSighting
                          /\ held'[x] # NoAdvert => peers'[x] = Nobody
  BY DEF Forgets, Shown
<1>1. CASE x # d
  BY <1>1, EmitEffect DEF Forgets, Sound
<1>2. CASE x = d
  BY <1>2, EmitEffect, NobodyType DEF Sound
<1> QED
  BY <1>1, <1>2

LEMMA NextForgets == ASSUME Sound, Forgets, Next PROVE Forgets'
<1>1. CASE Tick
  <2> SUFFICES ASSUME NEW x \in Device
               PROVE  /\ told'[x] = Shown(peers'[x])
                      /\ phase'[x] = "stopped" =>
                            /\ \E e \in Device : \A y \in Device \ {e} : peers'[x][y] = NoSighting
                            /\ held'[x] # NoAdvert => peers'[x] = Nobody
    BY DEF Forgets, Shown
  <2>1. Shown(peers'[x]) = Shown(peers[x]) /\ told'[x] = told[x]
    BY <1>1, TickEffect DEF Shown
  <2>2. phase[x] # "on" => \A e \in Device : peers'[x][e] = peers[x][e]
    BY <1>1, TickEffect
  <2>3. phase[x] # "on" => peers'[x] = peers[x]
    BY <1>1, <2>2, TickEffect DEF Sound, TypeOK
  <2> QED
    BY <1>1, <2>1, <2>3, TickEffect DEF Forgets
<1>2. ASSUME NEW d \in Device, Start(d) \/ Announce(d) \/ StopBegin(d) PROVE Forgets'
  <2>1. UNCHANGED map /\ \A x \in Device : phase'[x] = "stopped" =>
                            phase[x] = "stopped" /\ held'[x] = held[x]
    BY <1>2 DEF Start, Announce, StopBegin, self, Sound, TypeOK
  <2> QED
    BY <2>1 DEF Forgets, map, Shown
<1>3. ASSUME NEW d \in Device, Prune(d) PROVE Forgets'
  <2>1. fresh(d, PeerTimeout) \in [Device -> Sighting]
    BY NobodyType DEF fresh, Sound, TypeOK, Sighting
  <2> QED
    BY <1>3, <2>1, EmitForgets DEF Prune, prune, self
<1>4. ASSUME NEW d \in Device, NEW m \in net[d], Receive(d, m) PROVE Forgets'
  <2>1. m.from \in Device /\ m.port \in Port
    BY MapTypes DEF Datagram
  <2> QED
    BY <1>4, <2>1, UpsertForgets DEF Receive, Listens, self
<1>5. ASSUME NEW d \in Device, ReceiveLate(d) PROVE Forgets'
  <2>1. held[d].from \in Device /\ held[d].port \in Port
    BY <1>5 DEF ReceiveLate, Sound, TypeOK, Advert
  <2>2. /\ phase[d] = "stopped" => peers[d] = Nobody
        /\ \A x \in Device : IF x = d THEN held'[x] = NoAdvert ELSE held'[x] = held[x]
    BY <1>5 DEF ReceiveLate, Forgets, Sound, TypeOK
  <2> QED
    BY <1>5, <2>1, <2>2, UpsertForgets DEF ReceiveLate, self
<1>6. ASSUME NEW d \in Device, StopEnd(d) PROVE Forgets'
  BY <1>6, NobodyType, EmitForgets DEF StopEnd, Sound, TypeOK
<1>7. ASSUME NEW d \in Device, Exit(d) PROVE Forgets'
  BY <1>7, NobodyType, EmitForgets DEF Exit, Sound, TypeOK
<1> QED
  BY <1>1, <1>2, <1>3, <1>4, <1>5, <1>6, <1>7 DEF Next

(***************************************************************************)
(* stop and #runRecvLoop: subscribers have been shown the map as it is,    *)
(* and after stop() it is empty but for the one datagram that the receive  *)
(* loop had been given before.                                             *)
(***************************************************************************)
THEOREM StopForgets == Spec => []StoppedForgets
<1>1. Init => Forgets
  BY DEF Init, Forgets
<1>2. Sound /\ Forgets /\ [Next]_vars => Forgets'
  <2>1. Forgets /\ UNCHANGED vars => Forgets'
    BY DEF Forgets, vars, self, map, Shown
  <2> QED
    BY <2>1, NextForgets
<1>3. Forgets => StoppedForgets
  <2> SUFFICES ASSUME Forgets, NEW d \in Device, phase[d] = "stopped"
               PROVE  Cardinality(Visible(d)) + (IF held[d] = NoAdvert THEN 0 ELSE 1) <= 1
    BY DEF StoppedForgets, Forgets
  <2>1. PICK e \in Device : Visible(d) \subseteq {e}
    BY DEF Forgets, Visible
  <2>2. Visible(d) = {} \/ Visible(d) = {e}
    BY <2>1
  <2>3. Cardinality({}) = 0 /\ Cardinality({e}) = 1
    BY FS_EmptySet, FS_Singleton
  <2>4. held[d] # NoAdvert => Visible(d) = {}
    BY NobodyType DEF Forgets, Visible
  <2> QED
    BY <2>2, <2>3, <2>4
<1> QED
  BY SoundInvariant, <1>1, <1>2, <1>3, PTL DEF Spec

-------------------------------------------------------------------------------
(***************************************************************************)
(* Seen in time.  How long ago a daemon has last been sent a beacon that   *)
(* the network did not lose follows from how many it has lost since and    *)
(* from the announcer's timer.                                             *)
(***************************************************************************)
Since(d, e) == BeaconInterval * (lost[d][e] + 1) - announceIn[e]
Longest     == BeaconInterval * (MaxLost + 1)

LEMMA Products ==
    ASSUME NEW b \in Nat, NEW n \in Nat, NEW k \in Nat, n <= k
    PROVE  /\ b * n \in Nat /\ b * k \in Nat /\ b * n <= b * k
           /\ b * (n + 1) = b * n + b /\ b * ((n + 1) + 1) = b * n + b + b
<1>1. k - n \in Nat /\ k = n + (k - n)
  OBVIOUS
<1>2. b * (k - n) \in Nat /\ b * n \in Nat /\ b * k \in Nat
  BY <1>1
<1>3. b * k = b * n + b * (k - n)
  BY <1>1
<1>4. b * (n + 1) = b * n + b /\ b * ((n + 1) + 1) = b * n + b + b
  OBVIOUS
<1> QED
  BY <1>2, <1>3, <1>4

LEMMA SinceFacts ==
    ASSUME Sound, NEW d \in Device, NEW e \in Device
    PROVE  /\ Since(d, e) \in Nat /\ Longest \in Nat
           /\ Since(d, e) + announceIn[e] <= Longest
           /\ Longest = BeaconInterval * MaxLost + BeaconInterval
           /\ BeaconInterval * MaxLost \in Nat
<1>1. /\ lost[d][e] \in Nat /\ lost[d][e] <= MaxLost /\ MaxLost \in Nat
      /\ announceIn[e] \in Nat /\ announceIn[e] <= BeaconInterval /\ BeaconInterval \in Nat
  BY MapTypes, IntervalTypes DEF Sound, Timed
<1> DEFINE n == lost[d][e]
<1>2. /\ BeaconInterval * n \in Nat /\ BeaconInterval * n <= BeaconInterval * MaxLost
      /\ BeaconInterval * (n + 1) = BeaconInterval * n + BeaconInterval
      /\ BeaconInterval * MaxLost \in Nat
  BY <1>1, Products
<1>3. Longest = BeaconInterval * MaxLost + BeaconInterval
  BY <1>1, Products DEF Longest
<1>4. Since(d, e) = BeaconInterval * (n + 1) - announceIn[e]
  BY DEF Since
<1> HIDE DEF n
<1> QED
  BY <1>1, <1>2, <1>3, <1>4

(***************************************************************************)
(* A pair: d can hear e.  Either d has been sent no beacon of e since one  *)
(* of them started, or the last it was sent is under way, or it has been   *)
(* entered.  And a sighting is no older than the beacons before the one    *)
(* under way, unless e has just started again.                             *)
(***************************************************************************)
Pair(d, e) == d # e /\ Listens(d) /\ phase[e] = "on"

Heard(d, e) ==
    \/ up[d] <= Since(d, e) \/ up[e] <= Since(d, e)
    \/ \E m \in net[d] : m.from = e /\ m.delay <= Since(d, e)
    \/ peers[d][e] # NoSighting /\ peers[d][e].age <= Since(d, e)

Recent(d, e) ==
    peers[d][e] # NoSighting =>
        \/ peers[d][e].age <= Since(d, e)
        \/ up[e] + BeaconInterval <= Since(d, e)
        \/ \E m \in net[d] : /\ m.from = e
                             /\ \/ peers[d][e].age <= Longest + m.delay
                                \/ up[e] <= BeaconInterval * MaxLost + m.delay

Followed ==
    \A d, e \in Device : Pair(d, e) => (BeaconsOutlastLoss => Heard(d, e)) /\ Recent(d, e)

\* A step that leaves alone what the pair sees of each other.
LEMMA SameFollowed ==
    ASSUME NEW d \in Device, NEW e \in Device,
           (BeaconsOutlastLoss => Heard(d, e)) /\ Recent(d, e),
           Since(d, e)' = Since(d, e), up'[d] = up[d], up'[e] = up[e],
           \A m \in net[d] : m.from = e => m \in net'[d],
           peers'[d][e] = peers[d][e]
    PROVE  (BeaconsOutlastLoss => Heard(d, e)') /\ Recent(d, e)'
  BY DEF Heard, Recent

LEMMA SinceNat == Sound => \A d, e \in Device : Since(d, e) \in Nat
  BY SinceFacts

LEMMA SinceNatNext == Sound' => (\A d, e \in Device : Since(d, e) \in Nat)'
  BY SinceNat, PTL

LEMMA TickFollowed == ASSUME Sound, Followed, Tick PROVE Followed'
<1> SUFFICES ASSUME NEW d \in Device, NEW e \in Device, Pair(d, e)'
             PROVE  (BeaconsOutlastLoss => Heard(d, e)') /\ Recent(d, e)'
  BY DEF Followed, BeaconsOutlastLoss
<1>1. Pair(d, e) /\ phase[d] = "on" /\ phase[e] = "on"
  BY TickEffect DEF Pair, Listens
<1>2. /\ Since(d, e) \in Nat /\ Since(d, e)' = Since(d, e) + 1
      /\ up[d] \in Nat /\ up[e] \in Nat /\ peers[d][e].age \in Nat
  <2>1. /\ announceIn[e] \in Nat /\ announceIn'[e] = announceIn[e] - 1 /\ lost' = lost
        /\ BeaconInterval * (lost[d][e] + 1) \in Int
    BY <1>1, TickEffect, MapTypes, IntervalTypes
  <2>2. Since(d, e)' = BeaconInterval * (lost[d][e] + 1) - (announceIn[e] - 1)
    BY <2>1 DEF Since
  <2> HIDE DEF Since
  <2>3. Since(d, e) = BeaconInterval * (lost[d][e] + 1) - announceIn[e]
    BY DEF Since
  <2> QED
    BY <2>1, <2>2, <2>3, SinceFacts, MapTypes
<1>3. up'[d] <= up[d] + 1 /\ up'[e] <= up[e] + 1 /\ up'[d] \in Nat /\ up'[e] \in Nat
  <2>1. \A x \in {d, e} : up'[x] = IF up[x] < PeerTimeout THEN up[x] + 1 ELSE up[x]
    BY <1>1, TickEffect
  <2>2. \A x \in {d, e} : up[x] \in Nat
    BY <1>2
  <2>3. \A x \in {d, e} : up'[x] \in Nat /\ up'[x] <= up[x] + 1
    BY <2>1, <2>2
  <2> QED
    BY <2>3
<1>4. \A m \in net[d] : \E n \in net'[d] : n.from = m.from /\ n.delay = m.delay + 1 /\ m.delay \in Nat
  BY TickEffect, MapTypes
<1>5. /\ peers'[d][e] # NoSighting <=> peers[d][e] # NoSighting
      /\ peers[d][e] # NoSighting => peers'[d][e].age = peers[d][e].age + 1
  BY <1>1, <1>2, TickEffect DEF Visible, NoSighting
<1>6. (BeaconsOutlastLoss => Heard(d, e)) /\ Recent(d, e)
  BY <1>1 DEF Followed
<1>7. Heard(d, e) => Heard(d, e)'
  BY <1>2, <1>3, <1>4, <1>5 DEF Heard
<1>8. Recent(d, e)'
  <2>1. CASE peers[d][e].age <= Since(d, e) \/ up[e] + BeaconInterval <= Since(d, e)
    BY <1>2, <1>3, <1>5, <2>1, IntervalTypes DEF Recent
  <2>2. ASSUME NEW m \in net[d], m.from = e,
               \/ peers[d][e].age <= Longest + m.delay
               \/ up[e] <= BeaconInterval * MaxLost + m.delay
        PROVE  peers'[d][e] # NoSighting =>
                  \E n \in net'[d] : /\ n.from = e
                                     /\ \/ peers'[d][e].age <= Longest + n.delay
                                        \/ up'[e] <= BeaconInterval * MaxLost + n.delay
    <3>1. PICK n \in net'[d] : n.from = e /\ n.delay = m.delay + 1 /\ m.delay \in Nat
      BY <1>4, <2>2
    <3>2. Longest \in Nat /\ BeaconInterval * MaxLost \in Nat
      BY SinceFacts
    <3> DEFINE k == BeaconInterval * MaxLost
    <3> HIDE DEF k
    <3>3. up[e] <= k + m.delay => up'[e] <= k + n.delay
      BY <1>2, <1>3, <3>1, <3>2 DEF k
    <3>4. peers'[d][e] # NoSighting /\ peers[d][e].age <= Longest + m.delay
             => peers'[d][e].age <= Longest + n.delay
      BY <1>2, <1>5, <3>1, <3>2
    <3> QED
      BY <2>2, <3>1, <3>3, <3>4 DEF k
  <2> QED
    BY <1>5, <1>6, <2>1, <2>2 DEF Recent
<1> QED
  BY <1>6, <1>7, <1>8

\* A beacon of e reaches d, or d loses it.
LEMMA BeaconFollowed ==
    ASSUME Sound, NEW d \in Device, NEW e \in Device, NEW p \in Port,
           announceIn'[e] = BeaconInterval, net[d] \subseteq net'[d],
           \/ [from |-> e, port |-> p, delay |-> 0] \in net'[d] /\ lost'[d][e] = 0
           \/ lost'[d][e] = lost[d][e] + 1 /\ lost[d][e] < MaxLost
    PROVE  \/ /\ [from |-> e, port |-> p, delay |-> 0] \in net'[d]
              /\ Since(d, e)' = 0
           \/ Since(d, e)' = BeaconInterval * (lost[d][e] + 1)
<1>1. BeaconInterval \in Nat /\ lost[d][e] \in Nat
  BY MapTypes, IntervalTypes
<1>2. CASE lost'[d][e] = 0 /\ [from |-> e, port |-> p, delay |-> 0] \in net'[d]
  BY <1>1, <1>2 DEF Since
<1>3. CASE lost'[d][e] = lost[d][e] + 1
  <2> DEFINE n == lost[d][e]
  <2>1. Since(d, e)' = BeaconInterval * ((n + 1) + 1) - BeaconInterval
    BY <1>3 DEF Since
  <2>2. n \in Nat /\ n <= n
    BY <1>1
  <2> HIDE DEF n
  <2>3. /\ BeaconInterval * ((n + 1) + 1) = BeaconInterval * n + BeaconInterval + BeaconInterval
        /\ BeaconInterval * (n + 1) = BeaconInterval * n + BeaconInterval
        /\ BeaconInterval * n \in Nat
    BY <1>1, <2>2, Products
  <2>4. Since(d, e)' = BeaconInterval * (n + 1)
    BY <1>1, <2>1, <2>3
  <2> QED
    BY <2>4 DEF n
<1> QED
  BY <1>2, <1>3

\* e sends a beacon: what was known of it before the beacon is what Recent
\* says of one that is under way.
LEMMA SentFollowed ==
    ASSUME Sound, NEW d \in Device, NEW e \in Device, NEW m \in net'[d],
           m.from = e, m.delay = 0, Since(d, e)' = 0, Recent(d, e),
           net[d] \subseteq net'[d], peers'[d][e] = peers[d][e], up'[e] = up[e]
    PROVE  Heard(d, e)' /\ Recent(d, e)'
<1>1. Heard(d, e)'
  BY DEF Heard
<1>2. /\ Since(d, e) \in Nat /\ Since(d, e) <= Longest /\ Longest \in Nat
      /\ Longest = BeaconInterval * MaxLost + BeaconInterval
      /\ BeaconInterval * MaxLost \in Nat
      /\ BeaconInterval \in Nat /\ up[e] \in Nat /\ peers[d][e].age \in Nat
  <2>1. announceIn[e] \in Nat /\ BeaconInterval \in Nat /\ up[e] \in Nat /\ peers[d][e].age \in Nat
    BY MapTypes, IntervalTypes
  <2> QED
    BY <2>1, SinceFacts
<1> DEFINE k == BeaconInterval * MaxLost
<1>3. k \in Nat /\ Longest = k + BeaconInterval
  BY <1>2
<1> HIDE DEF k
<1>4. peers[d][e].age <= Since(d, e) => peers'[d][e].age <= Longest + m.delay
  BY <1>2
<1>5. up[e] + BeaconInterval <= Since(d, e) => up'[e] <= k + m.delay
  BY <1>2, <1>3
<1>6. Recent(d, e)'
  BY <1>4, <1>5 DEF Recent, k
<1> QED
  BY <1>1, <1>6

LEMMA AnnounceFollowed ==
    ASSUME Sound, Followed, NEW x \in Device, Announce(x) PROVE Followed'
<1> SUFFICES ASSUME NEW d \in Device, NEW e \in Device, Pair(d, e)'
             PROVE  (BeaconsOutlastLoss => Heard(d, e)') /\ Recent(d, e)'
  BY DEF Followed, BeaconsOutlastLoss
<1>1. Pair(d, e) /\ (BeaconsOutlastLoss => Heard(d, e)) /\ Recent(d, e)
  BY DEF Announce, self, Pair, Listens, Followed
<1>2. PICK receivers \in SUBSET Device : announce(x, port[x], receivers)
  BY DEF Announce
<1>3. port[x] \in Port /\ announceIn[x] = 0
  BY DEF Announce, Sound, Sighted
<1>4. /\ \A r \in Device : net[r] \subseteq net'[r]
      /\ \A r, s \in Device : s # x => lost'[r][s] = lost[r][s]
      /\ \A r \in Device \ {x} : Listens(r) =>
            \/ /\ [from |-> x, port |-> port[x], delay |-> 0] \in net'[r]
               /\ lost'[r][x] = 0
            \/ lost'[r][x] = lost[r][x] + 1 /\ lost[r][x] < MaxLost
  BY <1>2, <1>3, AnnounceEffect DEF Sound
<1>5. peers' = peers /\ up' = up /\ announceIn' = [announceIn EXCEPT ![x] = BeaconInterval]
  BY DEF Announce, self, map
<1>6. CASE x # e
  <2>1. Since(d, e)' = Since(d, e)
    BY <1>4, <1>5, <1>6 DEF Since, Sound, TypeOK
  <2> QED
    BY <1>1, <1>4, <1>5, <2>1, SameFollowed
<1>7. CASE x = e
  <2>1. announceIn'[e] = BeaconInterval /\ Since(d, e) = BeaconInterval * (lost[d][e] + 1)
    <3>1. BeaconInterval * (lost[d][e] + 1) \in Int
      BY MapTypes, IntervalTypes
    <3> DEFINE k == BeaconInterval * (lost[d][e] + 1)
    <3>2. Since(d, e) = k - announceIn[e] /\ k \in Int
      BY <3>1 DEF Since
    <3> HIDE DEF k
    <3>3. Since(d, e) = k
      BY <1>3, <1>7, <3>2
    <3> QED
      BY <1>5, <1>7, <3>3 DEF k, Sound, TypeOK
  <2>2. \/ /\ [from |-> e, port |-> port[e], delay |-> 0] \in net'[d]
           /\ Since(d, e)' = 0
        \/ Since(d, e)' = BeaconInterval * (lost[d][e] + 1)
    <3>1. \/ [from |-> e, port |-> port[e], delay |-> 0] \in net'[d] /\ lost'[d][e] = 0
          \/ lost'[d][e] = lost[d][e] + 1 /\ lost[d][e] < MaxLost
      BY <1>1, <1>4, <1>7 DEF Pair
    <3> QED
      BY <1>3, <1>4, <1>7, <2>1, <3>1, BeaconFollowed
  <2>3. CASE [from |-> e, port |-> port[e], delay |-> 0] \in net'[d] /\ Since(d, e)' = 0
    BY <1>1, <1>4, <1>5, <2>3, SentFollowed
  <2>4. CASE Since(d, e)' = BeaconInterval * (lost[d][e] + 1)
    BY <1>1, <1>4, <1>5, <2>1, <2>4, SameFollowed
  <2> QED
    BY <2>2, <2>3, <2>4
<1> QED
  BY <1>6, <1>7

(***************************************************************************)
(* The start of one of the pair.  A receiver that starts has seen nobody;  *)
(* a sender that starts announces itself at once, and its listings of      *)
(* before are excused until that beacon is due to have come.               *)
(***************************************************************************)
LEMMA StartFollowed ==
    ASSUME Sound, Sound', Followed, NEW x \in Device, Start(x) PROVE Followed'
<1> SUFFICES ASSUME NEW d \in Device, NEW e \in Device, Pair(d, e)'
             PROVE  (BeaconsOutlastLoss => Heard(d, e)') /\ Recent(d, e)'
  BY DEF Followed, BeaconsOutlastLoss
<1>1. d # e
  BY DEF Pair
<1>2. PICK p \in Port, receivers \in SUBSET Device : announce(x, p, receivers)
  BY DEF Start
<1>3. /\ \A r \in Device : net[r] \subseteq net'[r]
      /\ \A r, s \in Device : s # x => lost'[r][s] = lost[r][s]
      /\ \A r \in Device \ {x} : Listens(r) =>
            \/ [from |-> x, port |-> p, delay |-> 0] \in net'[r] /\ lost'[r][x] = 0
            \/ lost'[r][x] = lost[r][x] + 1 /\ lost[r][x] < MaxLost
  BY <1>2, AnnounceEffect DEF Sound
<1>4. /\ phase[x] = "off" /\ phase' = [phase EXCEPT ![x] = "on"]
      /\ announceIn' = [announceIn EXCEPT ![x] = BeaconInterval]
      /\ up' = [up EXCEPT ![x] = 0] /\ peers' = peers
  BY DEF Start, map
<1>5. \A r \in Device \ {x} : phase'[r] = phase[r] /\ joined'[r] = joined[r]
  BY DEF Start, Sound, TypeOK
<1>6. Since(d, e)' \in Nat
  BY SinceNatNext
<1>7. CASE x = d
  <2>1. peers'[d][e] = NoSighting /\ up'[d] = 0
    BY <1>4, <1>7, NobodyType DEF Sound, TypeOK, Sighted
  <2> QED
    BY <1>6, <2>1 DEF Heard, Recent
<1>8. CASE x = e
  <2>1. up'[e] = 0 /\ announceIn'[e] = BeaconInterval
    BY <1>4, <1>8 DEF Sound, TypeOK
  <2>2. Heard(d, e)'
    BY <1>6, <2>1 DEF Heard
  <2>3. Listens(d)
    BY <1>1, <1>5, <1>8 DEF Pair, Listens
  <2>4. \/ [from |-> e, port |-> p, delay |-> 0] \in net'[d]
        \/ Since(d, e)' = BeaconInterval * (lost[d][e] + 1)
    BY <1>1, <1>3, <1>8, <2>1, <2>3, BeaconFollowed
  <2>5. CASE [from |-> e, port |-> p, delay |-> 0] \in net'[d]
    <3>1. 0 <= BeaconInterval * MaxLost + 0
      BY SinceFacts
    <3>2. \E m \in net'[d] : m.from = e /\ up'[e] <= BeaconInterval * MaxLost + m.delay
      BY <2>1, <2>5, <3>1
    <3> QED
      BY <2>2, <3>2 DEF Recent
  <2>6. CASE Since(d, e)' = BeaconInterval * (lost[d][e] + 1)
    <3> DEFINE n == lost[d][e]
    <3>1. n \in Nat /\ n <= n /\ BeaconInterval \in Nat
      BY MapTypes, IntervalTypes
    <3>2. Since(d, e)' = BeaconInterval * (n + 1)
      BY <2>6
    <3> HIDE DEF n
    <3>3. BeaconInterval * n \in Nat /\ BeaconInterval * (n + 1) = BeaconInterval * n + BeaconInterval
      BY <3>1, Products
    <3>4. up'[e] + BeaconInterval <= Since(d, e)'
      BY <2>1, <3>1, <3>2, <3>3
    <3> QED
      BY <2>2, <3>4 DEF Recent
  <2> QED
    BY <2>4, <2>5, <2>6
<1>9. CASE x # d /\ x # e
  <2>1. /\ Pair(d, e) /\ Since(d, e)' = Since(d, e) /\ up'[d] = up[d] /\ up'[e] = up[e]
    BY <1>3, <1>4, <1>5, <1>9 DEF Pair, Listens, Since, Sound, TypeOK
  <2> QED
    BY <1>3, <1>4, <2>1, SameFollowed DEF Followed
<1> QED
  BY <1>7, <1>8, <1>9

\* A step of which the pair sees at most a datagram entered or repeated.
LEMMA ReceiveFollowed ==
    ASSUME Sound, Followed, NEW x \in Device, NEW m \in net[x], Receive(x, m) PROVE Followed'
<1> SUFFICES ASSUME NEW d \in Device, NEW e \in Device, Pair(d, e)'
             PROVE  (BeaconsOutlastLoss => Heard(d, e)') /\ Recent(d, e)'
  BY DEF Followed, BeaconsOutlastLoss
<1>1. /\ Pair(d, e) /\ (BeaconsOutlastLoss => Heard(d, e)) /\ Recent(d, e) /\ d # e
      /\ Since(d, e)' = Since(d, e) /\ up' = up /\ Since(d, e) \in Nat
  BY SinceNat DEF Receive, self, timers, Pair, Listens, Followed, Since
<1>2. m.from \in Device /\ m.port \in Port
  BY MapTypes DEF Datagram
<1>3. /\ \A r \in Device : r # x => peers'[r] = peers[r]
      /\ \A s \in Device : s # m.from \/ s = x => peers'[x][s] = peers[x][s]
      /\ m.from # x => peers'[x][m.from].port \in Port /\ peers'[x][m.from].age = 0
  BY <1>2, UpsertEffect DEF Receive
<1>4. \A r \in Device : \A n \in net[r] : r # x \/ n # m => n \in net'[r]
  <2>1. net' = net \/ net' = [net EXCEPT ![x] = @ \ {m}]
    BY DEF Receive
  <2> QED
    BY <2>1 DEF Sound, TypeOK
<1>5. CASE x = d /\ m.from = e
  <2>1. peers'[d][e] # NoSighting /\ peers'[d][e].age = 0
    BY <1>1, <1>3, <1>5, DiscoveryAssumption DEF NoSighting
  <2> QED
    BY <1>1, <2>1 DEF Heard, Recent
<1>6. CASE x # d \/ m.from # e
  <2>1. peers'[d][e] = peers[d][e] /\ \A n \in net[d] : n.from = e => n \in net'[d]
    BY <1>1, <1>3, <1>4, <1>6
  <2> QED
    BY <1>1, <2>1, SameFollowed
<1> QED
  BY <1>5, <1>6

LEMMA PruneFollowed ==
    ASSUME Sound, Followed, NEW x \in Device, Prune(x) PROVE Followed'
<1> SUFFICES ASSUME NEW d \in Device, NEW e \in Device, Pair(d, e)'
             PROVE  (BeaconsOutlastLoss => Heard(d, e)') /\ Recent(d, e)'
  BY DEF Followed, BeaconsOutlastLoss
<1>1. /\ Pair(d, e) /\ (BeaconsOutlastLoss => Heard(d, e)) /\ Recent(d, e)
      /\ Since(d, e)' = Since(d, e) /\ up' = up /\ net' = net
  BY DEF Prune, self, Pair, Listens, Followed, Since
<1>2. peers' = [peers EXCEPT ![x] = fresh(x, PeerTimeout)]
  BY DEF Prune, prune, emit
<1>3. CASE peers'[d][e] = peers[d][e]
  BY <1>1, <1>3, SameFollowed
<1>4. CASE peers'[d][e] # peers[d][e]
  <2>1. peers'[d][e] = NoSighting /\ peers[d][e].age > PeerTimeout
    BY <1>2, <1>4 DEF fresh, Sound, TypeOK
  <2>2. Recent(d, e)'
    BY <2>1 DEF Recent
  <2>3. BeaconsOutlastLoss => ~(peers[d][e].age <= Since(d, e))
    <3>1. /\ Since(d, e) \in Nat /\ Longest \in Nat /\ Since(d, e) <= Longest
          /\ {peers[d][e].age, PeerTimeout, MaxDelay} \subseteq Nat
      <4>1. announceIn[e] \in Nat
        BY MapTypes
      <4> QED
        BY <4>1, SinceFacts, MapTypes, IntervalTypes
    <3>2. BeaconsOutlastLoss => Longest + MaxDelay <= PeerTimeout
      BY DEF BeaconsOutlastLoss, Longest
    <3> QED
      BY <2>1, <3>1, <3>2
  <2> QED
    BY <1>1, <2>2, <2>3 DEF Heard
<1> QED
  BY <1>3, <1>4

\* A daemon that stops or exits is none of the pair that is left.
LEMMA OtherFollowed ==
    ASSUME Sound, Followed, NEW x \in Device, ReceiveLate(x) \/ StopBegin(x) \/ StopEnd(x) \/ Exit(x)
    PROVE  Followed'
<1> SUFFICES ASSUME NEW d \in Device, NEW e \in Device, Pair(d, e)'
             PROVE  (BeaconsOutlastLoss => Heard(d, e)') /\ Recent(d, e)'
  BY DEF Followed, BeaconsOutlastLoss
<1> SUFFICES /\ Pair(d, e) /\ Since(d, e)' = Since(d, e) /\ up'[d] = up[d] /\ up'[e] = up[e]
             /\ net'[d] = net[d] /\ peers'[d] = peers[d]
  BY SameFollowed DEF Followed
<1>1. CASE ReceiveLate(x)
  <2>1. x # d /\ Pair(d, e)
    BY <1>1 DEF ReceiveLate, self, Pair, Listens
  <2>2. held[x] \in Advert
    BY <1>1 DEF ReceiveLate, Sound, TypeOK
  <2>3. peers'[d] = peers[d]
    BY <1>1, <2>1, <2>2, UpsertEffect DEF ReceiveLate, Advert
  <2> QED
    BY <1>1, <2>1, <2>3 DEF ReceiveLate, self, timers, Since
<1>2. CASE StopBegin(x)
  <2>1. x # d /\ x # e /\ peers' = peers /\ silence(x)
    BY <1>2 DEF StopBegin, Pair, Listens, Sound, TypeOK, map
  <2>2. phase'[d] = phase[d] /\ phase'[e] = phase[e]
    BY <1>2, <2>1 DEF StopBegin, Sound, TypeOK
  <2> QED
    BY <2>1, <2>2, SilenceEffect DEF Pair, Listens, Since
<1>3. CASE StopEnd(x)
  <2>1. x # d /\ x # e /\ Pair(d, e)
    BY <1>3 DEF StopEnd, Pair, Listens, Sound, TypeOK
  <2>2. peers'[d] = peers[d]
    BY <1>3, <2>1 DEF StopEnd, emit, Sound, TypeOK
  <2> QED
    BY <1>3, <2>1, <2>2 DEF StopEnd, timers, Since
<1>4. CASE Exit(x)
  <2>1. x # d /\ x # e /\ silence(x)
    BY <1>4 DEF Exit, Pair, Listens, Sound, TypeOK
  <2>2. phase'[d] = phase[d] /\ phase'[e] = phase[e] /\ peers'[d] = peers[d]
    BY <1>4, <2>1 DEF Exit, emit, Sound, TypeOK
  <2> QED
    BY <2>1, <2>2, SilenceEffect DEF Pair, Listens, Since
<1> QED
  BY <1>1, <1>2, <1>3, <1>4

LEMMA NextFollowed == ASSUME Sound, Sound', Followed, Next PROVE Followed'
<1>1. CASE Tick
  BY <1>1, TickFollowed
<1>2. CASE \E x \in Device :
             \/ Start(x) \/ Announce(x) \/ Prune(x)
             \/ \E m \in net[x] : Receive(x, m)
             \/ StopBegin(x) \/ ReceiveLate(x) \/ StopEnd(x) \/ Exit(x)
  BY <1>2, StartFollowed, AnnounceFollowed, PruneFollowed, ReceiveFollowed, OtherFollowed
<1> QED
  BY <1>1, <1>2 DEF Next

LEMMA FollowedInvariant == Spec => []Followed
<1>1. Init => Followed
  BY DEF Init, Followed, Pair, Listens
<1>2. Followed /\ UNCHANGED vars => Followed'
  BY DEF Followed, Pair, Listens, Heard, Recent, Since, BeaconsOutlastLoss, Longest,
         vars, self, map, timers
<1>3. Sound /\ Sound' /\ Followed /\ [Next]_vars => Followed'
  BY <1>2, NextFollowed
<1> QED
  BY SoundInvariant, <1>1, <1>3, PTL DEF Spec

(***************************************************************************)
(* start, announce and #runRecvLoop: two daemons that have been up for     *)
(* longer than the network can lose beacons in a row see each other.       *)
(***************************************************************************)
THEOREM BeaconsAreHeard == Spec => []SeenInTime
<1>1. Sound /\ Followed => SeenInTime
  <2> SUFFICES ASSUME Sound, Followed, BeaconsOutlastLoss, NEW d \in Device, NEW e \in Device,
                      Pair(d, e), announceIn[e] # 0,
                      up[d] >= Longest + MaxDelay, up[e] >= Longest + MaxDelay,
                      peers[d][e] = NoSighting
               PROVE  \E m \in net[d] : m.from = e
    BY DEF SeenInTime, Pair, Visible, Longest
  <2>1. /\ announceIn[e] \in Nat /\ up[d] \in Nat /\ up[e] \in Nat /\ MaxDelay \in Nat
    BY MapTypes, IntervalTypes
  <2>2. Since(d, e) \in Nat /\ Longest \in Nat /\ Since(d, e) + announceIn[e] <= Longest
    BY SinceFacts
  <2>3. ~(up[d] <= Since(d, e)) /\ ~(up[e] <= Since(d, e))
    BY <2>1, <2>2
  <2> QED
    BY <2>3 DEF Followed, Heard
<1> QED
  BY SoundInvariant, FollowedInvariant, <1>1, PTL

-------------------------------------------------------------------------------
(***************************************************************************)
(* Listings follow the peers.  While a daemon runs, only its prune timer   *)
(* takes a peer off its map.                                               *)
(***************************************************************************)
LEMMA DroppedByPrune ==
    ASSUME Sound, [Next]_vars, NEW d \in Device, NEW e \in Device,
           phase'[d] = "on", Dropped(d, e)
    PROVE  Prune(d) /\ peers[d][e].age > PeerTimeout
<1> USE DEF Dropped, Visible
<1>1. CASE UNCHANGED vars
  BY <1>1 DEF vars, map
<1>2. CASE Tick
  BY <1>2, TickEffect, MapTypes DEF NoSighting
<1>3. ASSUME NEW x \in Device,
             Start(x) \/ Announce(x) \/ StopBegin(x)
      PROVE  FALSE
  BY <1>3 DEF Start, Announce, StopBegin, map
<1>4. ASSUME NEW x \in Device, NEW a, a.from \in Device, a.port \in Port, upsert(x, a)
      PROVE  FALSE
  <2>1. CASE x = d /\ e = a.from /\ e # d
    BY <1>4, <2>1, UpsertEffect, DiscoveryAssumption DEF NoSighting
  <2> QED
    BY <1>4, <2>1, UpsertEffect
<1>5. ASSUME NEW x \in Device, NEW m \in net[x], Receive(x, m) PROVE FALSE
  BY <1>4, <1>5, MapTypes DEF Receive, Datagram
<1>6. ASSUME NEW x \in Device, ReceiveLate(x) PROVE FALSE
  <2>1. held[x] \in Advert
    BY <1>6 DEF ReceiveLate, Sound, TypeOK
  <2> QED
    BY <1>4, <1>6, <2>1 DEF ReceiveLate, Advert
<1>7. ASSUME NEW x \in Device, StopEnd(x) \/ Exit(x) PROVE FALSE
  BY <1>7 DEF StopEnd, Exit, emit, Sound, TypeOK
<1>8. ASSUME NEW x \in Device, Prune(x) PROVE Prune(d) /\ peers[d][e].age > PeerTimeout
  BY <1>8 DEF Prune, prune, emit, fresh, Sound, TypeOK
<1> QED
  BY <1>1, <1>2, <1>3, <1>5, <1>6, <1>7, <1>8 DEF Next

LEMMA PruneKeepsLive ==
    ASSUME Sound, Followed, BeaconsOutlastLoss, NEW d \in Device, NEW e \in Device,
           Pair(d, e), peers[d][e] # NoSighting, peers[d][e].age > PeerTimeout,
           up[e] >= PeerTimeout
    PROVE  FALSE
<1> DEFINE k == BeaconInterval * MaxLost
<1>1. /\ Since(d, e) \in Nat /\ Longest \in Nat /\ k \in Nat /\ Since(d, e) <= Longest
      /\ Longest = k + BeaconInterval /\ BeaconInterval \in Nat /\ BeaconInterval > 0
      /\ {peers[d][e].age, up[e], PeerTimeout, MaxDelay} \subseteq Nat
  <2>1. announceIn[e] \in Nat /\ BeaconInterval > 0
    BY MapTypes, DiscoveryAssumption
  <2> QED
    BY <2>1, SinceFacts, MapTypes, IntervalTypes
<1>2. Longest + MaxDelay <= PeerTimeout
  BY DEF BeaconsOutlastLoss, Longest
<1>3. \/ peers[d][e].age <= Since(d, e) \/ up[e] + BeaconInterval <= Since(d, e)
      \/ \E m \in net[d] : peers[d][e].age <= Longest + m.delay \/ up[e] <= k + m.delay
  BY DEF Followed, Recent
<1>4. \A m \in net[d] : m.delay \in Nat /\ m.delay <= MaxDelay
  BY MapTypes
<1> HIDE DEF k
<1> QED
  BY <1>1, <1>2, <1>3, <1>4

\* A sighting has the port that its peer had, but for a restart.
LEMMA NextMisled ==
    ASSUME Sound, [Next]_vars, NEW d \in Device, NEW e \in Device PROVE MisledByRestart(d, e)
<1> SUFFICES ASSUME phase[d] = "on", ~Misleads(d, e), Misleads(d, e)'
             PROVE  \/ e \in Visible(d) /\ phase[e] = "off"
                    \/ \E m \in net[d] : m.from = e /\ m.port # port[e]
  BY DEF MisledByRestart
<1> USE DEF Misleads, Visible
<1>1. CASE UNCHANGED vars
  BY <1>1 DEF vars, self, map
<1>2. CASE Tick
  BY <1>2, TickEffect
<1>3. ASSUME NEW x \in Device, Start(x) PROVE e \in Visible(d) /\ phase[e] = "off"
  BY <1>3 DEF Start, map, Sound, TypeOK
<1>4. ASSUME NEW x \in Device, Announce(x) PROVE FALSE
  BY <1>4 DEF Announce, self, map
<1>5. ASSUME NEW x \in Device, NEW m \in net[x], Receive(x, m)
      PROVE  \E n \in net[d] : n.from = e /\ n.port # port[e]
  <2>1. m.from \in Device /\ m.port \in Port /\ port' = port /\ phase' = phase
    BY <1>5, MapTypes DEF Datagram, Receive, self
  <2>2. x = d /\ m.from = e /\ e # d
    BY <1>5, <2>1, UpsertEffect DEF Receive
  <2>3. peers'[d] = [peers[d] EXCEPT ![e] = IF e \in Visible(d) THEN [@ EXCEPT !.age = 0]
                                            ELSE [port |-> m.port, age |-> 0]]
    BY <1>5, <2>2 DEF Receive, upsert, emit, Sound, TypeOK
  <2>4. peers'[d][e].port = IF e \in Visible(d) THEN peers[d][e].port ELSE m.port
    BY <2>3 DEF Sound, TypeOK
  <2> QED
    BY <1>5, <2>1, <2>2, <2>4
<1>6. ASSUME NEW x \in Device, ReceiveLate(x) PROVE FALSE
  <2>1. held[x] \in Advert /\ x # d /\ port' = port /\ phase' = phase
    BY <1>6 DEF ReceiveLate, self, Sound, TypeOK
  <2> QED
    BY <1>6, <2>1, UpsertEffect DEF ReceiveLate, Advert
<1>7. ASSUME NEW x \in Device, Prune(x) PROVE FALSE
  BY <1>7 DEF Prune, prune, emit, fresh, self, Sound, TypeOK
<1>8. ASSUME NEW x \in Device, StopBegin(x) PROVE FALSE
  BY <1>8 DEF StopBegin, map, Sound, TypeOK
<1>9. ASSUME NEW x \in Device, StopEnd(x) \/ Exit(x) PROVE FALSE
  BY <1>9, NobodyType DEF StopEnd, Exit, emit, Sound, TypeOK
<1> QED
  BY <1>1, <1>2, <1>3, <1>4, <1>5, <1>6, <1>7, <1>8, <1>9 DEF Next

(***************************************************************************)
(* #runRecvLoop and prune: within the bounds on loss and delay a peer that *)
(* has been up for the timeout is not dropped; and a listing goes wrong    *)
(* only by a restart of its peer.                                          *)
(***************************************************************************)
THEOREM PeersAreKept == Spec => ListingsFollowPeers
<1>1. Sound /\ Followed /\ [Next]_vars =>
         \A d, e \in Device : BeaconsOutlastLoss => LiveKept(d, e)
  <2> SUFFICES ASSUME Sound, Followed, [Next]_vars, NEW d \in Device, NEW e \in Device,
                      BeaconsOutlastLoss, phase'[d] = "on", joined[d], Dropped(d, e),
                      phase[e] = "on", up[e] >= PeerTimeout
               PROVE  FALSE
    BY DEF LiveKept
  <2>1. phase[d] = "on" /\ peers[d][e].age > PeerTimeout /\ peers[d][e] # NoSighting /\ d # e
    BY DroppedByPrune DEF Prune, Dropped, Visible, Sound, Sighted
  <2> QED
    BY <2>1, PruneKeepsLive DEF Pair, Listens
<1>2. Sound /\ [Next]_vars => \A d, e \in Device : MisledByRestart(d, e)
  BY NextMisled
<1>3. Sound /\ Followed /\ [Next]_vars =>
         \A d, e \in Device : (BeaconsOutlastLoss => LiveKept(d, e)) /\ MisledByRestart(d, e)
  BY <1>1, <1>2
<1> QED
  BY SoundInvariant, FollowedInvariant, <1>3, PTL DEF Spec, ListingsFollowPeers
===============================================================================
