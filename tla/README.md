# clipruler in TLA+

This directory holds a formal model of clipruler: modules translated from the
TypeScript sources, TLC configurations that check them on small instances, and
theorems that the TLA+ proof system checks for every value of the constants.
`PROJECT.json` maps each definition to the lines it stands for. Paths below are
relative to the repository's `src/` unless they start with `docs/`, `plans/`
or `tests/`.

Run a check with `tlc -workers 2 -config <run>.cfg <module>.tla`, a proof with
`tlapm <module>.tla`.

## 1. The system

clipruler is a daemon on each device of a LAN. It polls the local clipboard,
sends every change to the peers the user shares with, and writes what they send
to the local clipboard. It is a single-threaded Deno program: the code between
two `await`s is atomic, and everything else interleaves. That is where its hard
behaviours come from, so an action of a model here is the code between two awaits.

| Component | State | Operations | Interacts with |
|---|---|---|---|
| Sync use cases (`application/sync-clipboard.ts`, `receive-clipboard.ts`) | remote-write gate, resolver state, subscriptions | local change, fan-out, receipt, write, shutdown | clock, resolver, adapter, registry, transport |
| Versions and resolver (`domain/clipboard-event.ts`, `conflict-resolver.ts`) | last applied version, messages seen | compare, observe | sync use cases |
| Logical clock (`infrastructure/clock`) | counter | advance, observe; a sink for every advance | sync, persistence |
| Clipboard adapters (`infrastructure/clipboard`) | last text polled, subscribers | poll, write, notify | the desktop's clipboard |
| Daemon (`shells/composition-root.ts`, `daemon.ts`) | flush timer, pending counter | start, debounced flush, stop with a timeout | everything |
| PID lock | pid file | acquire (read, probe, write), release | other processes |
| State store | state file | load, save (write, sync, rename, sync directory) | clock flush, forget |
| Identity and trusted peers | `identity.key`, trusted entries | load or create, add, delete | daemon, pairing |
| TLS transport (`infrastructure/transport/tls-tcp.ts`) | connections, peers, write queues | accept or dial, banner, send, broadcast, close | sync, pairing |
| Framing (`framing.ts` and three other readers) | buffered bytes | read a frame | transport, admin |
| Reconnect (`reconnect.ts`) | loops per peer | start, retry, cancel | (not called by the daemon) |
| Discovery (`infrastructure/discovery/udp-beacon.ts`) | peer map with ages | announce, receive, prune, stop | list devices, pairing |
| Admin server and client, CLI (`shells/admin`, `shells/cli`) | endpoint file, socket, requests under way | list, status, pair, enable, disable, forget; start and stop of the server | registry, discovery, store |
| Pairing (`application/pair-device.ts`, `infrastructure/crypto/pairing-code.ts`) | progress of a pairing | look up, derive the code, present, ask the peer | discovery, registry, keys, UI port, transport |
| Desktop shell (`shells/desktop`) | window, bindings, tray menu | register, publish, close, reload; status, pair, quit | UI port, admin |

What makes it hard, and what correctness means, component by component:

* **Sync.** Several handlers of local changes and of remote envelopes are under
  way at once; envelopes overtake each other; a send or a write may fail; the
  notification caused by a remote write must be told from a user's copy.
  Correct: a version is never given twice; the next local copy is newer than
  anything the device has seen; no copy is lost; all devices end with the same
  winner; nothing a peer sent is sent again.
* **Persistence.** Crashes and power losses between any two file operations;
  several load-change-save sequences on one file; two starting processes.
  Correct: a file always loads; a forgotten device stays forgotten; one daemon
  per directory; the counter on the disk never goes back and is there after a stop.
* **Transport.** Banner exchanges, writes of several callers, failures and
  `close()` interleave. Correct: frames are written whole, once and in order;
  the registry holds verified, working peers up to its limit.
* **Framing.** The stream merges and splits writes at will. Correct: what is
  read is what was written.
* **Discovery.** Datagrams are lost, repeated, reordered; peers restart. Correct:
  a peer that is up is listed, with its current port; one that is gone is not.
* **Admin.** Daemons start, stop, crash and follow each other while commands look for
  them through a file and a socket; handlers run on during a stop. Correct: a
  daemon that is up is found and serves; an answer is true; every command ends.
* **Desktop and pairing.** Calls of the window interleave with its reloads and its closing, by
  the program or by its user. Correct: nobody is asked before the code was given on this
  side, and nothing is posted to a page that is gone.

## 2. Modules

| Module | Models | Kind |
|---|---|---|
| `Versions` | `compareVersions`, the order of versions | operators |
| `ConflictResolver` | `observe`, the pure reducer | operators |
| `SharedClipboard` | what sync promises: a last-writer-wins register per node | abstract specification |
| `ClipSync` | both use cases on every node, clock, gate, polling adapter, network | detailed specification; implements `SharedClipboard` |
| `DaemonState` | PID lock, state file, identity, clock flush, stop, crash, power loss | specification |
| `Framing` | the four frame readers over a byte stream | specification |
| `Transport` | connections, registry, write queues, broadcast, close | specification |
| `Reconnect` | the retry loops of peers | specification |
| `Discovery` | the beacons of a LAN over time | specification |
| `Admin` | daemon processes, endpoint file, socket, server and command line | specification |
| `Tray`, `Webview`, `Pairing` | the parts of the desktop shell, with open interfaces | parts of `Desktop` |
| `Desktop` | desktopMain and the composition of the three | specification |
| `ClipSyncProofs`, `DaemonStateProofs`, `FramingProofs`, `TransportProofs`, `ReconnectProofs`, `DiscoveryProofs`, `AdminProofs`, `DesktopProofs` | what holds of each for every value of the constants | proofs |
| `MC*` | instances for TLC | |

### ClipSync
Per node: `counter` (PersistentClock), `resolver` (lastApplied and
seenMessageIds), `gate` (isRemoteWriting), `clip` and `lastText` (the desktop's
clipboard and what the adapter polled last), `poll`, and two sets of handler
instances: `out` (a local change: listing the peers, then sending to one after
the other) and `inc` (an envelope: listing, resolving, writing, notifying). `net`
holds the envelopes under way as a set: connections do not keep order up to the
handlers, because each envelope gets its own asynchronous handler. `LocalChange`
is the notification of the adapter: consume the gate, or tick the clock and start
the fan-out. `Resolve` is the part of the receiver between two awaits: it observes
the counter, runs the reducer and arms the gate. `Die` is the unhandled rejection
that a failing send causes and that ends the process. `CloseTransport` and
`Unsubscribe` are the two steps of the shutdown that matter here.

The model is over the `Transport` and `DeviceRepository` **ports**. The shipped
implementations do not get that far yet: in `tls-tcp.ts` the banner's reader
still holds the stream's lock when `#startPeerReader` asks for one, which throws, so no
registered connection is ever read (`Transport` models this: `reading`), and
`decodeEnvelopeWire` is given the body without the prefix it expects; the
registry built by `createDeviceRepository` answers `clipboardSharingEnabled: false`
for every device and ignores `setSharingEnabled`. `ClipSync` states what sync does
once those are filled in, which is what its use cases were written and tested for.

Two things go wrong for one reason, the gate being one boolean for every notification
of an adapter that notifies from its poll and from its write. A remote text is broadcast
again (`noecho`); and a user's copy polled while a remote write has landed but is not yet
notified takes the gate and is never sent, after which two quiet devices hold different
texts for good. What the code does keep is one winner in `lastApplied` everywhere.

### DaemonState
Processes share `pidFile`, `file` (what a load finds), `durable` (what it may find
after a power loss), `identity` and `durableKey` (what a power loss may leave of it: the key
is written in place and not synced). `phase` walks through acquire (read, probe,
write: three steps, in which any number of starts may interleave), load of identity and state, running, and the steps of `stop()`. `ops` holds the
load-change-save operations under way: the clock's flush, forget, and adding or
deleting a trusted device. Adding and deleting are operations of `FileKeyStore`
that the daemon does not call yet; they are here because they write the same file.
`forgotten`, `overlapped` and `contended` are histories: the devices whose forget was answered, whether an operation overtook
another, and the devices with an addition and a forget under way at once. `raced` records that a start wrote over the pid of
another that came between its read and its write (`"start"`), or loaded the state while a daemon that had given up the lock had not
ended (`"exit"`); `keyLost` that a power loss took the key of a daemon. The properties name these histories as the only ways in which
they fail, and the run has all of them. After a power loss the pid file is taken to be gone: whatever process it names is dead.

### Framing
A byte is named by its frame and its position. Each reader is its own set of
actions over `buffer`, `prefix` and `body`: `FramingReader`, the copy inside
`tls-tcp.ts`, `recvBanner`, and the admin server's `handleUnixConnection`. A read
returns any non-empty prefix of what is in flight, and connections end anywhere.

### Transport
`step` is the banner exchange on a connection, `peers` the registry, `queue`,
`writing`, `flusher` and `failed` the state of `#sendToPeer`/`#flushPeerQueue`, and
`calls` the sends and broadcasts with the promises they wait for. `wire` is a history
of what was written, `ousted` one of the fingerprints whose working connection lost its entry to another. Connections that arrive after, or finish their banner after,
`close()` stay open, and so does a connection whose peer registers again: both
leaks are in the model as they are in the code.

### Reconnect
`states` holds the loop of each peer; a loop is dialling, waiting for its backoff, or done,
with its `attempt`, its `aborted` signal and its `outcome`. Of the maps in the code,
`claiming` decides nothing (`Map.set` returns the map, so every call believes it lost
and looks at `states`), and `pendingOutcomes` is never read. A cancel during the backoff is
noticed by the timer, which only returns: the entry stays and the outcome is never
settled. The properties name this as the one exception; `reconnect_test.ts:73-74` asks
that a cancelled wrapper settles and tests a cancel during a dial.

### Discovery
Per daemon: `phase`, the advertised `port`, `peers` (port and age of each sighting),
the two timers, and `told`, what subscribers were shown last. `net` and `lost` are the
network. `Tick` advances time by one beacon interval and waits for due timers and
overdue datagrams, so timing properties are invariants. Timers are exact here and a datagram takes no time within a tick:
that five beacons in a row must be lost before a peer is dropped rests on it. A sighting is removed when the prune timer
finds it too old, so up to 14 s after the last beacon (the timeout of 10 s and one prune interval of 4 s), which is what `SightingsExpire` says;
`docs/discovery.md:25` has "A peer is removed 10 s after its last beacon was seen", and lines 28-30 "When a beacon has
not been received from a fingerprint for 10 seconds, the entry is pruned". Malformed datagrams and
those of another protocol version change nothing and are left out. `firstSeenAt` is
left out: nothing reads it. A daemon that restarts while it is listed stays listed with its old
port for as long as it announces itself, because a refresh keeps the advertisement first seen
(`udp-beacon.ts:223`) and every start gets another port (`composition-root.ts:149`):
`ListingsFollowPeers` shows that this, and a datagram of the earlier process, are the only ways for a listing to mislead.

### Admin
`stage` takes each daemon process through `buildAndRunDaemon` (lock, network, stale socket, listen,
endpoint file opened and written) and through `stop()` (server closed, network closed, lock released, endpoint
file removed); `pidFile`, `endpoint` and `socket` are what processes share on the disk. A client reads
the endpoint file up to three times, `help` like the others, connects, and waits for one answer; `call` is its connection at the server and
what the handler there has read so far. On POSIX the address is the same for all daemons and the socket file decides who
answers; on Windows every daemon has a port. The lock is acquired in its three steps (`ReadPid`, `Probe`, `WritePid`), so starts overlap here as they do in `DaemonState`; its release and the
save of the state file are one step, the bytes of a request are in `Framing`. The save of a forget and the response are two steps, so a
daemon may exit between them. `hist` records what held all along an invocation.

Facts the model keeps as they are: `stop()` does not wait for handlers; `enable` and `disable` change nothing
(`composition-root.ts:422`; `plans/010` expects otherwise); `pair` is always refused; a registry that cannot be read is an empty one;
a connect to a dead daemon's address exits with 1, although `admin-client.ts:43` says "caller maps to exit
code 2"; and a daemon that starts between line 322 and line 325 of another's `stop()` loses its endpoint file to it
and cannot be reached by commands until it restarts. The last is an exception in `UpMeansServed` (`stray`). The other is `raced`: a second start whose
read of the pid file came before the first one's write goes on, unlinks the socket of the first (`admin-server.ts:79`), binds its own, and
when it ends the first is up and nobody can reach it.

### Tray, Webview, Pairing, Desktop
Every method of the window's facade awaits once and then runs its body, so `queue` is the microtask queue: bodies run in the
order of the calls, and the second half of the bridge's `register()` comes behind the calls made meanwhile. Each
`register()` adds a listener for reloads, although the comment at `webview.ts:148` says once, and a reload runs every handler once per
listener. The window is external, and does three things to the facade. Its page may reload, which takes the binding away
at once; the `reload` event, if the windows have one (`reloads`), comes later, and not before the queue is empty. The comments say that it is not in
the documented API (`webview.ts:15-24`, `82`), and then `on()` throws or is in vain: no listener, and `#registered` stays true (`webview.ts:158-165`).
And its user may close it, which the facade does not listen for: `#win` and `#registered` stay set. What a closed window does with a call is taken
to be either nothing or an exception. `posted` records each message with what was at the other end. Posting is `postMessage`; the page of this
commit (`assets/desktop/main.js`) listens for no message, so a posted code is handed to the page and not yet shown by it.

`Pairing` is `pairWith` step by step; the code is a function of the two fingerprints. `Desktop` joins the parts: a pairing started in
the desktop's process presents its code through its UI port (`port`). That is `DesktopUiPort`, whose promise follows that of the window, or the stub
that `desktopMain` takes on Windows and when the window cannot be built (`desktop/mod.ts:87-94`, `118-123`), which resolves and shows nothing. The other
daemon logs its code.

`desktopMain` builds the facade and the bridge but never registers them, builds no tray, and calls `stop()` as soon as the daemon is
up, although the comment at `desktop/mod.ts:131` speaks of waiting for a signal. The three parts are therefore modelled under any use of their
interfaces, as their tests use them, while the process lives. After a click on Quit a status or a late pairing error
builds the full menu again, although `tray-menu.ts:13` ends with Quit; the timer then empties it.

## 3. Runs

| Run | Instance | Shows |
|---|---|---|
| `clipsync` | 2 nodes, 2 texts, 2 copies, 2 events a node, 1 opt-in change, 1 fault, one node may stop | `TypeOK`, `VersionsUnique`, `NextCopyWins`, `GateMeansWriting`; implements `SharedClipboard` |
| `fanout` | 3 nodes, 1 copy each at most, no fault, fairness | `NoCopyLost`, `WinnerEverywhere`, `Settles` |
| `noecho` | 2 nodes | **violation**: a remote text is broadcast again as a local copy |
| `daemon_state` | 2 processes, in turn or overlapping, a clock up to 2, 2 advances or operations on 1 device, 1 fault, fairness | `NeverTorn`, `SingleInstance`, `ForgottenUnlessOverlapped`, `PersistedCounterGrows`, `EventuallyPersisted` |
| `stop_flushes` | as above | **violation**: a stop within a second of a copy leaves the old counter |
| `framing` | four readers, prefix of 4 bytes, bodies of 4 and 6, 3 frames | `InOrder`, `FirstFrameRead` |
| `frames_intact` | `FramingReader` | **violation**: a second frame is refused when chunks do not match frames |
| `transport` | 2 connections, 3 fingerprints (2 known), limit 1 or 2, 3 calls, fairness | `WrittenInOrder`, `PeersVetted`, `RemovedIffFailed`, `QueueServed` |
| `reconnect` | 2 loops, 2 peers, 1 or 4 attempts, delays 2 to 6, fairness | `OneLoopPerPeer`, `PacedUntilCancelled`, `LoopSettles` |
| `discovery` | 2 daemons, 3 starts, 4 beacons lost in a row, the real intervals | `SightingsExpire`, `StoppedForgets`, `SeenInTime`, `ListingsFollowPeers` |
| `admin` | 2 daemon processes, in turn or overlapping, one of which may fail, 2 commands (one of any kind, one list or forget), 1 device, both systems, fairness | `UpMeansServed`, `OkMeansForgotten`, `ListCoherent`, `CommandsEnd` |
| `desktop` | 2 daemons, one with a window; with or without reload events, or a stub; 2 windows, 4 inputs, 3 calls queued, fairness | `AskedAfterCode`, `WindowHeld`, `ShellSettles` |

A violation run shows a disagreement between the code and what its documents say;
`findings` in `PROJECT.json` quotes the line.

**Why the bounds are enough.** The theorems of section 4 have no bounds; a run shows that what they say is not empty, and carries the liveness.
`daemon_state` counts advances and operations together (`MaxInputs`) to finish with its liveness, and two daemons that run at once, which is what a
race is, use up one input and the one fault (`MayInput`, `MayFail`): the states of two daemons that both run are many, and the properties are given up there
for a reason they name. `admin` starts three processes of its four (`MaxProcesses`): two daemons and a command, or a daemon and both commands.
The safety of `transport` was also checked with three
connections and two calls (4.1 million states), after a connection whose entry was taken over had shown up in a proof.
 Every bound counts something a user, a network or a
fault does. Two copies give the smallest conflict (two concurrent versions), and
two events a node let an echo or a second copy follow; three nodes give fan-out and ties among
receivers. One fault plus every interleaving covers each failing step on its own;
failures that need two faults are not covered. Two processes are a crash and a restart, or two starts that overlap. In `Framing`,
bodies as long as a prefix and longer cover both sides of every comparison with
the prefix length, and three frames the case where leftovers of one read reach into the next but
one. Two connections and three calls give a caller that flushes another's frame
and a peer that reconnects. In `Discovery` four lost beacons are the most that the
timeout tolerates: the fifth would make the peer time out, and a comparison off by one is
seen. The run delivers a datagram
within the tick it was sent in, in any order and any number of times; two loops are a call and a
second call for the same or another peer, and four attempts reach the cap of the delay. In `Admin` two processes are a predecessor and its successor, whose
stop and start overlap at the endpoint file; two commands let a forget run while another command lists or forgets; the faulty
process may fail at any step. In `Desktop` four inputs let a window be opened, closed and opened again, or opened, reloaded and registered again by its handler, around a pairing; a
second window is the one that follows a closed one. A reload event that would queue more than three calls does not come.

**Fairness.** The event loop runs every continuation that is ready, timers fire, and
subprocesses and file operations end: weak fairness on those actions. Users, faults, starts and stops
owe nothing. The network owes delivery only in `ClipSync` (TCP), where a lost envelope is an
explicit `Lose` step; in `Discovery` it may lose at most `MaxLost` beacons in a row, which is a bound,
not fairness. `Transport` assumes that a write ends, one way or the other. In `Admin` a start that does not throw goes on and handlers and clients
proceed, which is what a single event loop per process gives; a process that fails is exempt, since `Crash` and `TimeOut` are not fair. In `Desktop`
microtasks run, timers fire and the daemon answers the tray; that the shell ends is not assumed.

**Known faults without a run of their own.** A run would only repeat what a passing property names as its exception. All of these are in the
passing runs:

* A counter flush that overlaps a forget writes the device back (`composition-root.ts:127`; `ForgottenUnlessOverlapped`).
* Two starts that overlap at the pid file both own the lock, with two identities if there was no key (`pid-lock.ts:38-55`; `SingleInstance`), and
  one of them is hidden from every command when the other ends (`UpMeansServed`).
* A power loss takes an identity key that a daemon has run with (`file-key-store.ts:117`; `SingleInstance`).
* A restarted daemon stays listed with its old port (`ListingsFollowPeers`), and a cancel during the backoff leaves a dead loop behind (`LoopSettles`).
* A window that reloads without an event, or that its user has closed, is posted to as if it were there (`WindowHeld`); with the stub UI port a peer is asked to pair
  and nobody was given a code (`AskedAfterCode`).

Deadlock is not checked in these runs: the models may stop once the bounds are spent.

## 4. Proofs

A module `<M>Proofs` extends `<M>` and proves about it for every value of its constants; `Desktop` is proved together with its
three parts. Each proof follows the same plan: one lemma for each action (or group of actions) that can disturb the invariant, a lemma for
the step, one for the initial states, and a last temporal step. `TypeCorrect` in each of them is
`Spec => []TypeOK`. Every safety property of the passing runs is a theorem; what is not is the liveness, below.

| Module | Theorem | Property |
|---|---|---|
| `ClipSyncProofs` | `EqualOnlyIfSame`, `VersionsTotallyOrdered`, `ObserveReachesTheNewest` | laws of `compareVersions` and `observe` |
| | `UniqueVersions`, `NextCopyAlwaysWins`, `GateCorrect` | `VersionsUnique`, `NextCopyWins`, `GateMeansWriting` |
| | `ImplementsRegister` | the refinement of `SharedClipboard` |
| | `NoCopyIsLost`, `WinnerIsEverywhere` | `NoCopyLost`, `WinnerEverywhere` |
| `DaemonStateProofs` | `FileNeverTorn`, `ForgetHolds` | `NeverTorn`, `ForgottenUnlessOverlapped` |
| | `OneInstance`, `CounterNeverFalls` | `SingleInstance`, `PersistedCounterGrows` |
| `FramingProofs` | `FramesInOrder` | `InOrder` |
| `TransportProofs` | `WritesKeepOrder`, `RegistryIsVetted`, `RemovedOnlyForFailure` | `WrittenInOrder`, `PeersVetted`, `RemovedIffFailed` |
| `ReconnectProofs` | `SingleLoop`, `PacedAndCancelled` | `OneLoopPerPeer`, `PacedUntilCancelled` |
| `DiscoveryProofs` | `ListingsExpire`, `StopForgets`, `BeaconsAreHeard`, `PeersAreKept` | `SightingsExpire`, `StoppedForgets`, `SeenInTime`, `ListingsFollowPeers` |
| `AdminProofs` | `RemovedWasForgotten`, `ListsAgree`, `UpServes` | `OkMeansForgotten`, `ListCoherent`, `UpMeansServed` |
| `DesktopProofs` | `PeersAreAskedAfterTheCode`, `WindowIsHeld` | `AskedAfterCode`, `WindowHeld` |

**Assumptions.** The theorems rest on the named assumptions of the constants (`<M>Assumption`), which TLC evaluates in the runs.
Two hypotheses go beyond them; no theorem excludes an interleaving of starts:

* `PowersOfTwo` in the two theorems of `ReconnectProofs` that compute delays: the two equations that define `2 ^ n`, of which the provers know nothing.
* `BeaconsOutlastLoss` (the timeout is longer than the beacons that may be lost in a row), inside the properties of `Discovery`
  that promise to keep a peer. The shipped intervals satisfy it for four lost beacons.

**ClipSync.** `Inv == TypeOK /\ OnlyIssued /\ ClockAhead /\ VersionsUnique`. `VersionsUnique` is not inductive: a tick gives a fresh
version only if the node's counter is ahead of everything it has issued, so `ClockAhead` says that no counter runs ahead of the
clock of the node that issued it, is resolving it or has applied it. For that, whatever travels must have been issued, by another
node at a receiver: `OnlyIssued`. The refinement uses `ClockAhead` for the abstract guard that a new version is newer than
the applied one. The gate's invariant is inductive over `TypeOK`. `NoCopyLost` and `WinnerEverywhere` speak of quiet states, so the
invariant behind them, `Converging`, follows an event on its way: as long as nothing was disturbed, an event a node has not reached is
in its sender's handler, in flight, or in the node's own handler (`Arrives`). The resolver's deduplication could still drop it; that it does
not needs that message identifiers are unique (`IdsUnique`) and that whoever has seen one has reached its version (`SeenReached`).

**DaemonState.** `Whole` adds to `NeverTorn` that a temporary file is synced before its rename. `ForgetInv`: as long as no operation
overtook another, at most one is between its load and its rename (`OneSaves`), it saves its change to the file as it still is
(`SavesItsLoad`), and no state a power loss may bring back trusts a forgotten device (`DurableForgets`). Proving it showed a case the runs had
not reached: with an addition and a forget of the same device under way at once, in order, neither is wrong, and the device is trusted. The
history `contended` names those devices, and `ForgottenUnlessOverlapped` excepts them. `Lock` says of the pid file that it names only processes past their
write (`Written`) and of a process about to write that the pid it read was of no live one (`Probed`); from these follows, as long as no start
raced, that the owner's pid is in the file and that one key is in use (`Owned`), the latter unless a power loss took it.
`CounterInv` joins all of it with the order of the
counters in memory, in the flushes under way and in the file.

**Framing.** `Inv == Typed /\ Stream /\ EnvelopesOK /\ BannerOK /\ RequestOK`. `Stream`: the bytes in flight follow each other without a
gap. `EnvelopesOK` relates what a reader holds to its place: at rest, its buffer starts with the frame that is due, or with a byte that starts
no frame (`Resumes`); in a body, its prefix is that of the frame due, which gives the number of bytes to read (`Following`); what is behind a
body that was cut off is no start of a frame, which is why the reader that loses its place fails instead of returning something else. The copy
in `tls-tcp.ts` needs `Copying` (it decodes a body without its prefix, so it never returns anything). `BannerOK` says that the bytes a banner's reader
has are the first of the frame, if the length came alone.

**Transport.** `Frames`: the line of a connection (written, being written, queued) has rising numbers, a failed connection
has no write under way, a call's frame is on the line of each connection it waits for that has not failed. `Vetted`: the registry's bound
and that a dialled server was compared with the expected fingerprint a step before it registers. `Owned`: who has a fingerprint's entry.
This one was false as first stated: with three connections, a connection whose entry another took over may fail later and remove the
entry of the newer one, which the two connections of the run could not show in full. The history `ousted` names those fingerprints.

**Reconnect.** `Loops`: an entry is of a loop started for its peer, and only a loop that is done is settled. `Paced`: delays grow with the
attempts up to the cap.

**Discovery.** `Sound` (types, timers within their intervals, a sighting has a port and is never of oneself). `Expiry`: age and prune timer together stay below the
timeout plus one interval, since a tick moves them in opposite directions. `Forgets`: what `stop()` leaves. `Followed`, for each pair of
daemons that are up: a beacon is sighted, in flight or due in time, and a sighting is no older than the losses allow; ages, delays and timers
are compared through `Since`, the time since the last beacon that the network did not lose.

**Admin.** `Calls`: a handler that saves holds a set without the device. `Forgotten` and `Coherent` follow an answer from what was loaded to what is
printed. `Pids` is the pid file's part, as in `DaemonState`; as long as no start
raced, `Found` adds that who has the lock is alone (`Locked`) and that nobody else binds the socket, writes the endpoint file or removes it
(`Reachable`), except for the `stray` of section 2. `Led`: a command that began while a daemon was up and stayed up is on its way to that daemon.

**Desktop.** `Sound` joins the invariants of the parts (`TrayTypeOK`, `PairSound`, `WebviewSound`) with `Asked`: what is queued for the page is
the code of the pairing under way, and that pairing sends nothing before the code was posted, but for the stub. `Held` is about the window between a change and its
notice: where windows have the event, an open one has a listener, and one that is unbound while the facade says registered has an event to come; one that
the facade holds and that is not open was closed by its user. `TailPublished` and its siblings say
what appending to the queue and removing from it do to the messages in it.

**Only model-checked.** The liveness properties `Settles`, `EventuallyPersisted`, `FirstFrameRead`, `QueueServed`, `LoopSettles`,
`CommandsEnd` and `ShellSettles`: they rest on fairness, hence on ENABLED, which the prover does not support. The `violation` runs are counterexamples and have nothing to prove.

## 5. Not modelled

* `domain/pairing.ts`: a table of transitions that nothing in `src/` uses; the responder's side of pairing does not exist.
* `confirmPairing`, `notifyPaired` and `notifyPairingFailed` of the UI port, which nothing calls; `swapAdminCommand`; show, toggle and
  forget in the tray, which are empty methods; what the page does with a message (`assets/desktop/main.js` listens for none).
* The reuse of a pid by another program, also after a power loss: `acquire()` would then take the lock for held.
* The texts of `render.ts` and the help, malformed JSON in the endpoint file (it exits like a missing one), console logging.
* Certificates (DER and openssl): generation of files, no protocol.
* Pairing of the two sides with each other: nothing answers a request, so that two users see one code is no more than that
  `derivePairingCode` orders its arguments, which the proof of `PeersAreAskedAfterTheCode` uses.
* Cryptography, validation of names and fingerprints, detection of a clipboard backend:
  a model value, or one predicate.
* `go/`: a helper for manual tests, not part of the program.

## 6. Plan

1. *Done.* The models of section 2 with their runs, and the proofs of section 4: every safety property of a passing run.
2. Next: the fault-tolerant half of convergence (what `WinnerEverywhere` says when a send fails and a later event overtakes it), for which
   `Converging` gives the form; the lemmas on sequences that `Framing` and `Transport` share, stated once; shorter proofs of the
   readers' steps in `FramingProofs`, the longest of the project.
3. If the transport is completed so that registered peers are read, `Framing` and `Transport` should be composed and the result shown to be
   the network that `ClipSync` assumes.
