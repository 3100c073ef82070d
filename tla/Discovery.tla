------------------------------- MODULE Discovery -------------------------------
(***************************************************************************)
(* UdpBeacon (src/infrastructure/discovery/udp-beacon.ts): the daemons of  *)
(* a LAN announce themselves to a multicast group and keep a map of the    *)
(* peers they hear, pruned by age.                                         *)
(*                                                                         *)
(* Time advances in ticks; a tick waits for the timers that are due and    *)
(* for the datagrams that have been under way for MaxDelay ticks.  The     *)
(* network loses, delays, repeats and reorders datagrams.  A daemon may    *)
(* stop, crash and start again, each time on another TLS port: the         *)
(* composition root listens on port 0 and announces what it is given.      *)
(***************************************************************************)
EXTENDS Integers, FiniteSets

CONSTANTS
    Device,          \* daemons, named by their fingerprint
    Port,            \* the TLS ports the system hands out
    NoAdvert,        \* no datagram
    BeaconInterval,  \* BEACON_INTERVAL_MS in ticks
    PruneInterval,   \* PRUNE_INTERVAL_MS in ticks
    PeerTimeout,     \* PEER_TIMEOUT_MS in ticks
    MaxDelay,        \* bound: ticks a datagram may be under way
    MaxLost,         \* bound: beacons one receiver loses in a row
    Starts           \* bound: processes started on each device

Advert == [from : Device, port : Port]

ASSUME DiscoveryAssumption ==
    /\ NoAdvert \notin Advert \union Port
    /\ {BeaconInterval, PruneInterval, PeerTimeout} \subseteq Nat \ {0}
    /\ {MaxDelay, MaxLost} \subseteq Nat /\ Starts \in [Device -> Nat]

\* A beacon is heard before its sender is taken for gone, whatever the network
\* loses and delays within the bounds.
BeaconsOutlastLoss == BeaconInterval * (MaxLost + 1) + MaxDelay <= PeerTimeout

VARIABLES
    phase,      \* "off" is no process; "on" and the two halves of stop()
    port,       \* #self.tlsPort of the running process, if there is one
    joined,     \* joinMulticastV4 succeeded
    peers,      \* #peers: the advertised port and the age of each sighting
    told,       \* what the last snapshot showed the subscribers, without ages
    announceIn, \* ticks until #announceTimer fires
    pruneIn,    \* ticks until #pruneTimer fires
    held,       \* the datagram the receive loop was given when stop() began
    net,        \* the datagrams on their way to a device, with their delay
    lost,       \* beacons of a sender lost in a row, by receiver
    started,    \* processes started so far
    up          \* history: ticks since the process started, up to PeerTimeout

self   == <<phase, port, joined, started, up>>
timers == <<announceIn, pruneIn>>
map    == <<peers, told>>
vars   == <<self, map, timers, held, net, lost>>

NoSighting == [port |-> NoAdvert, age |-> 0]
MaxAge     == PeerTimeout + PruneInterval
Nobody     == [e \in Device |-> NoSighting]
Shown(sightings) == [e \in Device |-> sightings[e].port]

Init ==
    /\ phase = [d \in Device |-> "off"]
    /\ port = [d \in Device |-> NoAdvert]
    /\ joined = [d \in Device |-> FALSE]
    /\ peers = [d \in Device |-> Nobody]
    /\ told = [d \in Device |-> Shown(Nobody)]
    /\ announceIn = [d \in Device |-> BeaconInterval]
    /\ pruneIn = [d \in Device |-> PruneInterval]
    /\ held = [d \in Device |-> NoAdvert]
    /\ net = [d \in Device |-> {}]
    /\ lost = [d \in Device |-> [e \in Device |-> 0]]
    /\ started = [d \in Device |-> 0]
    /\ up = [d \in Device |-> 0]

Visible(d) == {e \in Device : peers[d][e] # NoSighting}

\* Can the socket of d receive what is sent to the group?
Listens(d) == phase[d] = "on" /\ joined[d]

-------------------------------------------------------------------------------
(***************************************************************************)
(* announce: one datagram to the group.  A receiver that listens gets it   *)
(* or loses it; the sender, once a member of the group, gets its own.       *)
(***************************************************************************)
announce(d, p, receivers) ==
    LET others == {r \in Device \ {d} : Listens(r)}
    IN  /\ receivers \ {d} \subseteq others
        /\ d \in receivers <=> joined[d]
        /\ \A r \in others \ receivers : lost[r][d] < MaxLost
        /\ net' = [r \in Device |->
                     IF r \in receivers
                     THEN net[r] \union {[from |-> d, port |-> p, delay |-> 0]}
                     ELSE net[r]]
        /\ lost' = [r \in Device |-> [lost[r] EXCEPT ![d] =
                     IF r \in others \ receivers THEN @ + 1 ELSE 0]]

\* Start of a process, on a port the system chooses.  The receive loop and
\* the timers start, and one beacon is sent before start() returns.  A group
\* that cannot be joined is only warned about.
Start(d) ==
    /\ phase[d] = "off" /\ started[d] < Starts[d]
    /\ phase' = [phase EXCEPT ![d] = "on"]
    /\ started' = [started EXCEPT ![d] = @ + 1]
    /\ joined' \in {[joined EXCEPT ![d] = ok] : ok \in BOOLEAN}
    /\ \E p \in Port, receivers \in SUBSET Device :
         port' = [port EXCEPT ![d] = p] /\ announce(d, p, receivers)
    /\ announceIn' = [announceIn EXCEPT ![d] = BeaconInterval]
    /\ pruneIn' = [pruneIn EXCEPT ![d] = PruneInterval]
    /\ up' = [up EXCEPT ![d] = 0]
    /\ UNCHANGED <<map, held>>

\* Mutant: a beacon only with every second period.
Announce_Slow(d) ==
    /\ phase[d] = "on" /\ announceIn[d] = 0
    /\ \E receivers \in SUBSET Device : announce(d, port[d], receivers)
    /\ announceIn' = [announceIn EXCEPT ![d] = 2 * BeaconInterval]
    /\ UNCHANGED <<self, map, pruneIn, held>>

Announce(d) ==
    /\ phase[d] = "on" /\ announceIn[d] = 0
    /\ \E receivers \in SUBSET Device : announce(d, port[d], receivers)
    /\ announceIn' = [announceIn EXCEPT ![d] = BeaconInterval]
    /\ UNCHANGED <<self, map, pruneIn, held>>

-------------------------------------------------------------------------------
(***************************************************************************)
(* The receive loop: a sighting is added, or its age restarts and the rest *)
(* of it is kept as it was first seen.                                     *)
(***************************************************************************)
\* A new map, and its snapshot to the subscribers: #emit.
emit(d, sightings) == /\ peers' = [peers EXCEPT ![d] = sightings]
                      /\ told' = [told EXCEPT ![d] = Shown(sightings)]

\* Mutant: a sighting is refreshed only when its advertisement has changed.
upsert_NoRefresh(d, a) ==
    IF a.from = d \/ a.from \in Visible(d) THEN UNCHANGED map
    ELSE emit(d, [peers[d] EXCEPT ![a.from] = [port |-> a.port, age |-> 0]])

\* Mutant: the sender is put down where its port should be.
upsert_Mixed(d, a) ==
    IF a.from = d THEN UNCHANGED map
    ELSE emit(d, [peers[d] EXCEPT ![a.from] =
                    IF a.from \in Visible(d) THEN [@ EXCEPT !.age = 0]
                    ELSE [port |-> a.from, age |-> 0]])

upsert(d, a) ==
    IF a.from = d THEN UNCHANGED map
    ELSE emit(d, [peers[d] EXCEPT ![a.from] =
                    IF a.from \in Visible(d) THEN [@ EXCEPT !.age = 0]
                    ELSE [port |-> a.port, age |-> 0]])

Receive(d, m) ==
    /\ Listens(d) /\ m \in net[d]
    /\ upsert(d, m)
    /\ net' \in {net, [net EXCEPT ![d] = @ \ {m}]}
    /\ UNCHANGED <<self, timers, held, lost>>

\* The loop asks #stopped before it waits for a datagram, not after: the one
\* it was given while stop() ran is still entered, even after the clear.
ReceiveLate(d) ==
    /\ phase[d] \in {"stopping", "stopped"} /\ held[d] # NoAdvert
    /\ upsert(d, held[d])
    /\ held' = [held EXCEPT ![d] = NoAdvert]
    /\ UNCHANGED <<self, timers, net, lost>>

-------------------------------------------------------------------------------
(***************************************************************************)
(* prune: sightings older than the timeout are removed.                    *)
(***************************************************************************)
fresh(d, limit) == [e \in Device |->
                      IF peers[d][e].age > limit THEN NoSighting ELSE peers[d][e]]

\* Mutant: a sighting is removed when it has reached the timeout, too early.
prune_Early(d) == emit(d, fresh(d, PeerTimeout - 1))

prune(d) == emit(d, fresh(d, PeerTimeout))

\* Mutant: the timer is a setTimeout, which fires once.
Prune_Once(d) ==
    /\ phase[d] = "on" /\ pruneIn[d] = 0
    /\ prune(d)
    /\ pruneIn' = [pruneIn EXCEPT ![d] = 3 * PruneInterval]
    /\ UNCHANGED <<self, announceIn, held, net, lost>>

Prune(d) ==
    /\ phase[d] = "on" /\ pruneIn[d] = 0
    /\ prune(d)
    /\ pruneIn' = [pruneIn EXCEPT ![d] = PruneInterval]
    /\ UNCHANGED <<self, announceIn, held, net, lost>>

-------------------------------------------------------------------------------
(***************************************************************************)
(* stop: #stopped is set before an await; the timers and the socket go and *)
(* the map is cleared after it.  The loop may have been given a datagram.  *)
(***************************************************************************)
\* A daemon neither sends nor hears any more, and its timers do nothing; what
\* the model counts for it starts afresh.
silence(d) ==
    /\ joined' = [joined EXCEPT ![d] = FALSE]
    /\ net' = [net EXCEPT ![d] = {}]
    /\ lost' = [r \in Device |-> [e \in Device |-> IF d \in {r, e} THEN 0 ELSE lost[r][e]]]
    /\ announceIn' = [announceIn EXCEPT ![d] = BeaconInterval]
    /\ pruneIn' = [pruneIn EXCEPT ![d] = PruneInterval]
    /\ up' = [up EXCEPT ![d] = 0]

StopBegin(d) ==
    /\ phase[d] = "on"
    /\ phase' = [phase EXCEPT ![d] = "stopping"]
    /\ \/ UNCHANGED held
       \/ joined[d] /\ \E m \in net[d] :
            held' = [held EXCEPT ![d] = [from |-> m.from, port |-> m.port]]
    /\ silence(d)
    /\ UNCHANGED <<port, started, map>>

\* Mutant: the map is left as it is.
StopEnd_NoClear(d) ==
    /\ phase[d] = "stopping"
    /\ phase' = [phase EXCEPT ![d] = "stopped"]
    /\ UNCHANGED <<port, joined, started, up, map, timers, held, net, lost>>

StopEnd(d) ==
    /\ phase[d] = "stopping"
    /\ phase' = [phase EXCEPT ![d] = "stopped"]
    /\ emit(d, Nobody)
    /\ UNCHANGED <<port, joined, started, up, timers, held, net, lost>>

\* The process ends: after stop(), or at any time by a crash.
Exit(d) ==
    /\ phase[d] # "off"
    /\ phase' = [phase EXCEPT ![d] = "off"]
    /\ emit(d, Nobody)
    /\ port' = [port EXCEPT ![d] = NoAdvert]
    /\ held' = [held EXCEPT ![d] = NoAdvert]
    /\ silence(d)
    /\ UNCHANGED started

\* Time passes: nobody's timer is due and no datagram has been under way for
\* as long as one can be.
Tick ==
    /\ \A d \in Device : phase[d] = "on" => announceIn[d] > 0 /\ pruneIn[d] > 0
    /\ \A d \in Device : \A m \in net[d] : m.delay < MaxDelay
    /\ \E d \in Device : phase[d] = "on"
    /\ LET On == {d \in Device : phase[d] = "on"} IN
       /\ announceIn' = [d \in Device |-> announceIn[d] - (IF d \in On THEN 1 ELSE 0)]
       /\ pruneIn' = [d \in Device |-> pruneIn[d] - (IF d \in On THEN 1 ELSE 0)]
       /\ up' = [d \in Device |-> IF d \in On /\ up[d] < PeerTimeout THEN up[d] + 1 ELSE up[d]]
       /\ peers' = [d \in Device |-> [e \in Device |->
                      IF d \in On /\ e \in Visible(d)
                      THEN [peers[d][e] EXCEPT !.age = @ + 1] ELSE peers[d][e]]]
    /\ net' = [d \in Device |-> {[m EXCEPT !.delay = @ + 1] : m \in net[d]}]
    /\ UNCHANGED <<phase, port, joined, started, told, held, lost>>

Next ==
    \/ Tick
    \/ \E d \in Device :
         \/ Start(d) \/ Announce(d) \/ Prune(d)
         \/ \E m \in net[d] : Receive(d, m)
         \/ StopBegin(d) \/ ReceiveLate(d) \/ StopEnd(d) \/ Exit(d)

Spec == Init /\ [][Next]_vars

-------------------------------------------------------------------------------
(***************************************************************************)
(* Properties                                                              *)
(***************************************************************************)
TypeOK ==
    /\ phase \in [Device -> {"off", "on", "stopping", "stopped"}]
    /\ port \in [Device -> Port \union {NoAdvert}] /\ joined \in [Device -> BOOLEAN]
    /\ peers \in [Device -> [Device -> [port : Port \union {NoAdvert}, age : Nat]]]
    /\ told \in [Device -> [Device -> Port \union {NoAdvert}]]
    /\ {announceIn, pruneIn} \subseteq [Device -> Nat]
    /\ held \in [Device -> Advert \union {NoAdvert}]
    /\ net \in [Device -> SUBSET [from : Device, port : Port, delay : 0 .. MaxDelay]]
    /\ lost \in [Device -> [Device -> 0 .. MaxLost]]
    /\ started \in [Device -> Nat] /\ up \in [Device -> 0 .. PeerTimeout]

\* A running daemon lists no peer it has not heard for longer than the timeout
\* and one prune interval (udp-beacon.ts prune, PRUNE_INTERVAL_MS): 14 s.
SightingsExpire ==
    \A d \in Device : phase[d] = "on" =>
        \A e \in Visible(d) : peers[d][e].age <= MaxAge

\* The subscribers have been shown the map as it is (#emit).  When stop() has
\* returned it is empty, but for the one datagram that the receive loop had been
\* given before (stop, #runRecvLoop).
StoppedForgets ==
    \A d \in Device :
        /\ told[d] = Shown(peers[d])
        /\ phase[d] = "stopped" =>
              Cardinality(Visible(d)) + (IF held[d] = NoAdvert THEN 0 ELSE 1) <= 1

\* A peer that has been up for the timeout and whose beacons the network does
\* not lose or delay beyond the bounds is never dropped (PEER_TIMEOUT_MS).
Dropped(d, e) == e \in Visible(d) /\ e \notin Visible(d)'
LiveKept(d, e) ==
    phase'[d] = "on" /\ joined[d] /\ Dropped(d, e)
        => ~(phase[e] = "on" /\ up[e] >= PeerTimeout)

\* A listing has the port of the peer's process.  It goes wrong only when the
\* peer starts again while it is listed (and then stays wrong as long as the
\* peer announces itself), or by a datagram of the earlier process.
Misleads(d, e) == phase[e] = "on" /\ e \in Visible(d) /\ peers[d][e].port # port[e]
MisledByRestart(d, e) ==
    phase[d] = "on" /\ ~Misleads(d, e) /\ Misleads(d, e)' =>
        \/ e \in Visible(d) /\ phase[e] = "off"
        \/ \E m \in net[d] : m.from = e /\ m.port # port[e]

\* Listings follow the daemons on the network, to the extent that a lost, late
\* or repeated datagram and a restart allow (#runRecvLoop, prune).
ListingsFollowPeers ==
    [][\A d, e \in Device :
          (BeaconsOutlastLoss => LiveKept(d, e)) /\ MisledByRestart(d, e)]_vars

\* Two daemons that have been up for longer than the network can lose beacons
\* in a row see each other (start, announce, #runRecvLoop).
SeenInTime ==
    BeaconsOutlastLoss =>
        \A d, e \in Device :
            LET long == BeaconInterval * (MaxLost + 1) + MaxDelay
            IN  d # e /\ Listens(d) /\ phase[e] = "on" /\ up[d] >= long /\ up[e] >= long
                  => \/ e \in Visible(d)
                     \/ announceIn[e] = 0 \/ \E m \in net[d] : m.from = e

================================================================================
