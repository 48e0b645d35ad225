# WAIL: specifications and proofs

WAIL joins Ableton Link sessions over the internet. Musicians run a Go application and two Rust
plugins; the applications meet on a relay server, which seats them in rooms and forwards their sync
messages and audio. This directory holds TLA+ modules for the parts of that system whose
correctness rests on the order of events, the TLC runs that check them, and proofs checked by
TLAPS. All paths below are relative to the repository's root, `src/`; line numbers are those of the
commit the modules were written against. `PROJECT.json` maps every definition to its lines.

| module | what it is | composed of | run for TLC in |
|---|---|---|---|
| `SignalingHub` | the relay's room registry: join, leave, eviction, deletion, tables, restart | | `MCSignalingHub` |
| `RoomDirectory` | what that registry promises, with no tables, locks or lookups | | `MCSignalingHub` |
| `HubLocks` | the mutexes of the relay, with the metrics viewer that takes them too | | itself |
| `PeerRegistry` | the application's peers, identities and audio slots | | `MCPeerRegistry` |
| `HelloExchange` | several applications that come to know each other through the relay | | `MCHelloExchange` |
| `SlotTable` | the Rust slot table, as functions of tables | | `MCRecvPlugin` |
| `IntervalRing` | playback half of the interval ring | `SlotTable` | `MCRecvPlugin` |
| `RecvPlugin` | the receive plugin's two threads around the ring | `IntervalRing` | `MCRecvPlugin` |
| `SendStream` | recording half, send plugin, encoder's lengths, frame assembler | | `MCSendStream` |
| `PluginWire` | every byte format between plugins and application | | `MCPluginLink` |
| `PluginLink` | the TCP connections those bytes travel on | `PluginWire` | `MCPluginLink` |
| `PeerMesh` | the Rust network client: connection, tasks, queues, presence | | the two below |
| `TwoMachineTest` | the end-to-end test on two machines | `PeerMesh` | `MCTwoMachineTest` |
| `TestSession` | the test client with its interval tracker and chaos scripts | `PeerMesh` | `MCTestSession` |
| `SignalingHubProofs` | theorems about the registry, and that it implements `RoomDirectory` | | |
| `PeerRegistryProofs` `HelloExchangeProofs` | theorems about the modules they name | | |
| `SendStreamProofs` | theorems about `SendStream`, `PluginWire` and `PluginLink` | | |
| `RecvPluginProofs` | theorems about `SlotTable` and `RecvPlugin` | | |
| `PeerMeshProofs` | lemmas about the network client, for the two below | | |
| `TestSessionProofs` `TwoMachineTestProofs` | theorems about the programs they name | `PeerMeshProofs` | |

Contents: 1 inventory, 2 plan, 3 the relay, 4 the application, 5 plugins and network client,
6 runs and bounds, 7 fairness, 8 proofs, 9 divergences, 10 what is only model-checked, assumed, or not modelled.

## 1. Inventory

### Relay server (`signaling-server/main.go`)

One goroutine per connection (`readPump`, run by the HTTP handler) reads and handles the client's
messages; a second one (`writePump`) drains the connection's send queue of 256 messages.

* **Room registry.** State: `h.rooms` under `h.mu`; per room `connMap`, the copy-on-write snapshot
  `conns` and `activeSession` under `r.mu`; SQLite tables `peers` and `rooms`; per connection the
  locals `room`, `peerID` and the queue `c.send`. Operations: `join`, `leave`, `getOrCreateRoom`,
  `deleteRoom`, `openDB` at start. *Hard:* join and leave are each five to eight separate statements
  and critical sections. *Right when:* nobody is a member without a live connection that will
  leave; a member knows who the others are; a room in use is never deleted, an empty one always
  is; the snapshot equals the map; a session runs exactly while there is company; an eviction
  never takes the newcomer's seat. **Modelled: `SignalingHub`, `RoomDirectory`.**
* **Message fan-out** (`signal`, `sync`, `syncTo`, `broadcastAudioBinary`, `broadcastLog`). No
  state: forwards to the connections of the lock-free snapshot; `sendWS` drops when the queue is
  full or closed. *Hard:* stale snapshot, stale locals of an evicted connection, drop of
  notifications. *Right when:* a message reaches current members only, in order per sender.
* **Session metrics** (`updateMetrics`, `metricsReport`, `archiveSession`, `snapshotMetrics`,
  `handleMetricsWS`). State: phase, peers, per-direction counters, the counters at the transition,
  the completed sessions. *Hard:* unsigned subtraction of counters that may restart, peers that
  left while the session goes on, three mutexes. *Right when:* counters of the playing phase are
  differences of one run of counters, the phase is reached, viewers block nobody. **Locks
  modelled: `HubLocks`.**
* **Rate limiter** (`tokenBucket`, `readPump`). Two buckets and a count of violations per
  connection. *Right when:* a client inside its budget is never cut off, a join is never refused
  for its rate, and a client far outside of it is.

### Go application (`wail-app/`)

* **Session loop** (`session.go`). One goroutine, one `select` over user commands, signaling
  events, sync messages, audio, plugin frames, Link events and tickers; owns bars, quantum, tempo,
  interval index, the peer registry. *Hard:* the Hello exchange after reconnects of either side, the
  5 s / 15 s / 30 s watchdogs, reconnection with back-off, joiner against incumbent. *Right when:*
  members of a room come to know each other's identity and stay, dead peers go, and slots follow.
  **Membership, the Hello exchange, watchdogs and reconnection modelled: `HelloExchange`.**
* **Peer registry** (`peers.go`). Peers with identity, slots (16), Hello flags, reserved slots of
  departed identities. *Right when:* a live peer's stream has one slot, no slot has two owners, a
  returning identity gets its slots back. **Modelled: `PeerRegistry`.**
* **Signaling connection** (`signaling.go`, `wire.go`, `protocol.go`). Join handshake (messages
  before `join_ok` are discarded; **which ones is modelled in `SignalingHub`**), reader and writer goroutines,
  channels of which some block and some drop. **Loss, replacement and the two channels modelled in
  `HelloExchange`.**
* **Plugin IPC** (`ipc.go`, `acceptIPCConnections`). A pool of writers with a deadline; a plugin
  that connects is sent the current peers. *Hard:* peers that come or go during the replay.
  **Formats, handshake and failed writes modelled in `PluginLink`.**
* **Clock, packet loss, tempo detector** (`clock.go`, `packet_loss.go`, `link_types.go`). Median of
  a window; sequence numbers modulo 2^32; the echo guard that keeps a remote tempo from bouncing.
* **Recording, WAV sender, test tone, logs, shell** (`recorder.go`, `wav_sender.go`,
  `test_tone.go`, `wslog.go`, `filelog.go`, `app.go`, `plugin_install.go`): files, devices, start-up.

### Rust crates (`crates/`)

* **Interval tracker, protocol** (`wail-core/interval.rs`, `protocol.rs`). Which interval a beat falls
  in, a monotonic index that others may push ahead. *Right when:* no interval begins twice and all
  clients end up in the same one. **As the test client uses them: `TestSession`.**
* **Slot table** (`wail-audio/slot.rs`). 15 slots keyed by client and channel, reserved for those
  who left. *Right when:* injective, and a returning client finds its slots. **Modelled: `SlotTable`.**
* **Interval ring** (`wail-audio/ring.rs`). Records one interval, plays the previous one, mixes
  remote intervals that arrive early, late or in pieces. *Hard:* three ways by which a block of audio
  reaches the mix, two books of which slots are taken. *Right when:* no block is mixed twice or
  missing, and the two books agree. **Modelled: `IntervalRing` (playback), `SendStream` (recording).**
* **Plugins** (`wail-plugin-send`, `wail-plugin-recv`). An audio thread and an IPC thread around the
  ring, with bounded channels between them; the host may reset or initialize them at any time.
  **Modelled: `SendStream`, `RecvPlugin`.**
* **Frame assembler, codec** (`frame_assembler.rs`, `codec.rs`). Intervals from frames that are lost,
  refused or of an earlier recording. *Right when:* the interval has the length that was recorded.
  **Lengths modelled in `SendStream`**, samples not.
* **Wire formats, IPC framing** (`wire.rs`, `ipc.rs`). *Hard:* reads cut anywhere, torn frames.
  **Modelled in bytes: `PluginWire`, `PluginLink`.**
* **Network client** (`wail-net`). One write task and one read task per connection, three incoming
  channels, reconnection. *Right when:* the mesh knows who is in the room. **Modelled: `PeerMesh`.**
* **End-to-end test, test client** (`wail-e2e`, `wail-test-client`): programs over `PeerMesh` that must
  not wait for each other for ever. **Modelled: `TwoMachineTest`, `TestSession`.**
* **Link bridge, clock, FFT, test tone, plugin test host, xtask, front end**: not modelled.

### Interactions

A client's `join` seats it and pushes `peer_joined`; that makes the other clients' session loops
send Hello, interval configuration and names through the relay's `sync`; the answer to a Hello sets
identity and slots in the peer registry; the registry's slots are pushed by IPC to the receive
plugin, whose slot table and ring play the audio that comes through the relay's fan-out. The
relay's `leave`, an eviction, a watchdog or a reconnect take it all down again.

## 2. Plan

Most important first; each item names its module, what it composes, its abstract specification if
it has one, and what is to be proved.

1. `SignalingHub` with `RoomDirectory` as its abstraction; type correctness, coherence,
   membership and rosters proved. *Done*,
   and the refinement `ImplementsDirectory` itself.
2. `HubLocks`: lock order. *Done.*
3. `PeerRegistry`: slots, *done* with its proofs. `HelloExchange`: members and Hellos, *done*,
   its two safety properties proved. Left: its relay as an instance of `RoomDirectory`.
4. `SlotTable`, `IntervalRing`, `RecvPlugin`: from the socket to the mix. *Done*, all five
   properties proved: the two books of slots exclusive and in agreement, the buffers of the mix exact.
5. `SendStream`: from the audio callback to the assembled interval, *done*, all its safety properties proved.
6. `PluginWire`, `PluginLink`: formats and framing. *Done*, round trips of integers and WAIF frames and `ArrivesWhole` proved.
7. `PeerMesh` with `TwoMachineTest` and `TestSession`. *Done*, presence, names, boundaries and frames proved.
8. `SessionMetrics`: phase and counters of a session against the ground truth of frames sent, with
   peers that leave, return with fresh counters, or report late.
9. The relay's fan-out and rate limiter; packet loss and tempo detector of the application against
   reference definitions.

## 3. The relay: `SignalingHub`, `RoomDirectory`, `HubLocks`

**State.** A room object (`RoomObjs`) is the address of a `*room`; `rooms` files one under a name,
and `connMap`, `snap`, `session` are its fields, so that a goroutine may hold (`ref`) an object that
is no longer registered. `peerRows` and `roomRows` are the two tables. A connection has its goroutine's
place (`pc`), `readPump`'s locals (`me`), the message it handles (`req`), join's `roomExists`
(`known`), whether its queue is open (`open`) and how many joins it sent (`joins`). Of the FIFO queue
itself the roster messages are kept, as what they amount to. `list` is join's local list of peers, noted in
the critical section and queued with `join_ok` after it; `view` is that list once it is queued, with the
notifications queued behind it. A notification that is queued between the unlock and `join_ok` is ahead of the list: `came`
and `went` are the peers whose last notification of either kind is there. `told` is read off these four.

**Actions.** One per SQL statement or critical section, since nothing is held between them:

| code | actions, in order |
|---|---|
| `handleWS` | `Connect` |
| `readPump` | `ReadJoin`, `ReadLeave`, `ReadError`; each begins with the head of `leave` (`StartLeave`) |
| `join` 437-468 | `CheckPassword`, `CheckCapacity`, `InsertRoomRow`, `UpsertPeerRow` |
| `getOrCreateRoom` | `LookupRoom` or `CreateRoom` |
| `join` 471-530 | `EnterRoom`, or `EnterPanics` when the queue to close is closed already, then `Unwind` |
| `join` 530-537 | `SendJoinOk`: the list is queued, behind what others have queued since the unlock |
| `leave` 634-668 | `ExitRoom` |
| `leave` 670-681 | `DeletePeerRow`, `CheckEmpty`, `DeleteRoom` (`deleteRoom`), `DeleteRoomRow` |
| death and `openDB` | `Restart` |

A join on a connection that has a room runs `leave` first, as the code does: `after` says where the
goroutine goes when `leave` is over. An eviction closes the old connection's queue; its `writePump`
then closes the socket and `ReadError` follows. A detached room that nobody points to is wiped, and
its address may be used again. A panic leaves the room's mutex locked (`wedged`): `net/http` recovers
the goroutine, the deferred `leave` runs with the locals from before the join.

**Properties.**

* `SeatsHaveHandlers`: no ghost members. Every seat in a registered room belongs to a goroutine that
  will give up that very seat, and whose queue is open.
* `RosterExact`: whoever sits in a registered room is sent exactly who the others are, for every interleaving of joins,
  evictions and leaves: the list with what is queued behind it, corrected by what overtook it. That is a statement about what the
  relay queues. What a client makes of it depends on what it does with a notification ahead of `join_ok`: the application
  throws it away (`ClientRosterCurrent`, section 9), the Rust client fails on it (`PeerMesh`, section 5).
* `RoomCoherent`: snapshot = map; a session exactly from two peers on; it lists all who are there.
* `EmptyRoomHasSweeper`: an empty registered room always has somebody about to enter or to delete
  it, although each leaver decides by a check that may be out of date; `EmptyRoomReclaimed` is the
  liveness that follows from it.
* `RegistryUsable`: no panic ever locks a registered room.
* `EvictedIsClosed`: the evicted connection comes to an end.
* `ImplementsDirectory`: with the mapping at the end of the module, the server implements
  `RoomDirectory`: seats change hands only as `Admit` and `Dismiss` say, with all rosters and the
  session changing in the same instant. A roster is `told`; a newcomer's is what it is about to be sent, since its list is
  noted in the critical section and queued after it.

**`HubLocks`.** Joins and leaves reduced to the mutexes they take, together with the metrics viewers: a critical
section that takes no other lock is one step, enabled when its mutex is free; two sections do take
another lock and are split: `deleteRoom` (`h.mu`, then `r.mu`) and `snapshotMetrics` (`r.mu`, or
`completedMu`, then `h.mu` in `lookupDisplayNames`). Everybody has a peer id of its own here.

## 4. The application: `PeerRegistry` and `HelloExchange`

Both model the session loop, one event per action, from two sides.

**`PeerRegistry`** is one application's registry under any sequence of events. The methods of
`peers.go` are functions from registry to registry (`Added`, `Removed`, `Rekeyed`, `Assigned`, ...), and
the actions compose them as `session.go` does: `PeerJoined` (also each name of a `join_ok`), `PeerLeft`
(also the watchdogs), `Hello` (add, evict the former session of the same identity, note the identity,
rekey, assign slot 0's stream) and `AudioFrame`. A peer takes slots under its id and is renamed to its
identity later; a slot is freed under a name, not under an index. So `SlotsExclusive`, `NoSlotLeaked`
and `SlotsStay` rest on names being unique at every moment, which the eviction in `Hello` provides:
`RegistrySound` states it. Any order of events is allowed, also those the relay never produces.

**`HelloExchange`** has several applications, the relay's membership, and what is under way between
them. `events` and `syncs` are the channels into which a connection's reader puts notifications and
sync messages; `out` is the writer's queue. `Connect` is both `ConnectSignaling` and
`ReconnectSignaling`: it drops all three, keeps the registry and adds the names of `join_ok`. `Lose`
breaks a connection unnoticed, `Vacate` is the relay finding out, in any order with the reconnection
(which evicts). `PeerJoined` broadcasts a Hello; `Hello` adds, identifies, and answers once
(`MarkHelloSent`). `SoftWatchdog`, `HardWatchdog` and `LivenessWatchdog` are the 5 s, 15 s and 30 s
timeouts. Every application has one identity and one peer id here; sessions that share an
identity are `PeerRegistry`'s.

* `IdentityMutual`: whoever has identified a peer has been identified by it or has a Hello on the way.
* `NoLivePeerDropped`: on first connections, no watchdog drops a peer that is running.
* `MembersMeet`: two who stay on their first connections come to know each other for good.
* `HelloStormEnds`: the Hellos and answers to Hellos come to an end, reconnections included.

## 5. Plugins and network client

### `SlotTable`, `IntervalRing`, `RecvPlugin`: from the socket to the mix

`SlotTable` is `slot.rs` with each method as a function from table to table. Its two lists stay
sequences because every lookup takes the first match, which matters once `rekey_client` has made two
entries alike. `IntervalRing` is the playback half of `ring.rs`; a block is the audio of one frame, and a
buffer position holds a *bag* of blocks, that is, a sum that remembers its terms. Buffers are allocated
once and keep stale sums beyond their length, as in the code. A crossfade adds the *tails* of the blocks
before.

| code | definitions |
|---|---|
| `feed_remote` | `LiveAppend`, or `Queue` with its incremental mix and backfill |
| `notify_peer_joined`, `remove_peer`, `reset`, `reset_transport` | `NotifyPeerJoined`, `RemovePeer`, `Reset`, `ResetTransport` |
| `process_with_interval` | `NoBoundary`, or `Swap` and one `KeepOrEvict`, `PlaceInSlot` or `MergeIntoFirst` per entry, then `Play` |
| `ipc_thread_recv` | `Connect`, `Disconnect`, `PeerJoined`, `PeerLeft`, `AudioFrame` |
| `process` | `OnConnected`, `OnJoined`, `OnLeft`, `OnDisconnected`, `EventsDrained`, `OnFrame`, `FramesDrained`, `PlaceEntry`, `PlayBlock`, `TransportRestarts` |
| `initialize`, `reset` | `Initialize`, `HostResets` |

The IPC thread's sends and the audio thread's receives interleave item by item, so an item can arrive
while a channel is being drained, and a frame can overtake the event that was read before it. The steps
of the boundary's loop are the audio thread's alone; they are separate so that each uses the table once.

* `SlotsExclusive`: no slot has two owners, and the flags match the entries.
* `SlotsAgree`: the table goes by identity and the playback slots by peer id; both have the same slots
  taken, whatever order audio, Hello, rename and departure come in.
* `PremixExact`: the buffer mixed ahead is exactly the sum of the entries marked as mixed, increments,
  backfill and the undoing by `remove_peer` taken together.
* `NoDoubleMix`: no block is in the main mix twice, by whichever of the three ways it came there: appended while
  it plays, mixed ahead, or added at the boundary.
* `SlotAudioInMix`: what a slot's own output plays is in the main mix at the same place.

These three hold until the transport restarts for the first time. `PlacedIsMixed` is what the comment on the mark says of a
boundary, and is refuted after a restart; section 9 says why.

### `SendStream`: from the callback to the assembled interval

The audio thread (`Process`, `Dispatch`, `Reset`, `Initialize`) records into the ring, cuts the input into
frames and offers each to a bounded channel; one IPC thread for each `initialize` (`Connect`, `Write`,
`WriteLost`, `Ends`) encodes and writes them; the assembler (`Insert`) makes intervals of them. Audio is
counted in samples; the buffers of the ring are counted (`recBuf`, `spare`, `returns`). `segs` is a history:
what was captured of each recording, and what was lost. The way between socket and assembler
(application and relay) is external, in order and without loss.

* `RecordingNeverSkipped`: at every boundary a spare buffer is there or on its way back.
* `LengthKept`: an assembled interval decodes to what was captured, in full frames with the last one
  rounded up, whatever was lost in between.
* `GapsAreLosses`: a hole in the frame numbers is the number of frames lost, also around the wrap.
* `CountsOnce`: what an interval lacks is what was lost of it, if it was recorded once.
* `OldThreadEnds`: the thread of an earlier `initialize` drains its channel and ends.

### `PluginWire`, `PluginLink`: formats and connections

`PluginWire` has every encoder and decoder of `wire.rs` and `ipc.rs` on sequences of bytes, two's
complement, byte order, flags and length fields included, and the framer. `PluginLink` uses them on the
connection of either plugin: handshake, writes, a write that fails half way (`Tear`), reads of any part of
what is there, and closing. `ArrivesWhole`: what the reader learns is a prefix of what was written, with
strings cut at 255 bytes and the application's own index in the frame; when no byte is under way, all of
it. The state of the writer's and the reader's end, the socket and the buffer are what the run varies;
the messages are a fixed set chosen for the edges of the formats.

`AudioFrames` is the struct of `interval.rs` with one or two channels and a packet whose length two bytes can say; `UInt(w)`
and `SInt(w)` are the integers of w bytes, a floating-point number is the one of its bits. `Said(f)` is
what the wire keeps of a frame: `encode` writes the metadata of a final frame only, so `decode` gives
zeros for the rest. `Meant(m)` is what the reader should learn of a message, and nothing for metrics, which the application reads past.

### `PeerMesh`, `TwoMachineTest`, `TestSession`: the network client and its programs

`PeerMesh` gives `wail-net` as operators and task actions: `ConnectFull`, `ReconnectSignaling`, `JoinFails`, `DropMesh`,
`Queued`, `QueuedAudio` and `Polled` are the calls, `WriteSync`, `WriteAudio`, `WriteEnds` and `Read` the
tasks. The relay is what its clients see of `SignalingHub`. The write task takes from its queues in any
order; the read task sorts into three channels and waits when the audio channel is full. The two
programs EXTEND it and each conjoin a call with their own state.

Connecting takes two steps, because the relay's join does. `Joins` opens the connection up to the relay's critical section, where the
newcomer gets its seat, the others hear of it, and the list is noted (`listed`); from then on the relay sends it what it sends
everybody. `join_ok` follows later. If a text message has come before it (`Overtaken`; audio frames are skipped), the client ends with "Unexpected
server message before join_ok" (`signaling.rs:260`): `JoinFails`. Otherwise `ConnectFull` or `ReconnectSignaling` goes on with the list.

`TwoMachineTest` is `wail-e2e`: `Connect`, `Discover`, `SyncExchange`, `SingleAudio`, `SustainedAudio`,
`BurstAudio`, then `Initiator` on one machine and `Waiter` on the other; `JoinError` ends a program whose join fails, in phase 1 and in
phase 7. Timeouts are left out, so that a wait which needs one does not end. `TestSession` is `wail-test-client`: `Connect`, then `Connected`
or `ConnectFails`; `Find`, `Greet`, `Open`; then the top of the loop looks at the chaos
script (`Stable`, `Leave`, `Stop`, `StillWaits`, `Rejoin`, `Resume`), then one branch of the `select!` is taken
(`Tick`, `Sync`, `Audio`, `Signal`), with `IntervalTracker` inside `Tick` and `Sync`.

* `PresenceExact`: when a mesh has heard all that was announced, it knows exactly who is in the room;
  `PresenceComplete` is the half that survives reconnections.
* `NobodyWaitsInVain`: if neither's join fails, two machines on a sound network never both wait for something that will
  not come, until one of them reconnects; full audio channels included. That a failed join leaves nobody waiting is
  `NobodyIsLeftWaiting`, which TLC refutes (section 9).
* `HelloMutual`, `NoHelloStorm`: the exchange leaves everybody named, rejoins included, and ends.
* `BoundariesReachAll`: nobody stays behind an interval that was announced while it was in the room, or about to hear that it is.
* `FramesRise`: no frame number is used twice and no interval gone back to, whatever is adopted.

## 6. Runs and bounds

| run | instance | distinct states | shows |
|---|---|---|---|
| `hub_core` | 3 connections, 2 peers, 2 objects, one join each, restarts | 339 043 | the type invariant, all safety properties, the inductive invariant `SeatInv`, the refinement |
| `hub_rejoin` | 2 connections, 2 joins each, 2 passwords | 388 886 | what still holds when a client joins again on the same connection, even one that was evicted: types, coherence, no forgotten room |
| `hub_live` | 2 connections, 2 passwords, fairness | 165 680 | `EmptyRoomReclaimed`, `EvictedIsClosed` |
| `hub_locks` | 3 clients, 1 viewer, 2 objects | | the deadlock of section 9 |
| `peer_slots` | 3 sessions of 2 identities, 2 streams, 3 slots | 49 580 | `PeerRegistry`'s safety, and that its inductive invariant is invariant |
| `hello_meet` | 2 applications, 2 losses each, fairness | 98 916 | `MembersMeet`, `HelloStormEnds` |
| `hello_trio` | 3 applications, no losses, symmetry | 107 369 | `IdentityMutual`, `NoLivePeerDropped` |
| `recv_ring` | 2 peers, 3 streams, 2 slots, 3 intervals | 2 015 052 | the receive plugin's five properties |
| `send_stream` | 2 threads, 3 callbacks, 2 troubles | 232 414 | the send side's properties and `OldThreadEnds` |
| `plugin_link` | 8 messages, 2 per connection, 2 connections | 113 464 | `ArrivesWhole` |
| `two_machines` | 2 machines, 2 connections each, one loss | 589 370 | `PresenceComplete`, `NobodyWaitsInVain` |
| `test_session` | 2 clients, 2 pairs of scripts | 628 441 | the five properties of the test client |

Deadlock is checked in `hub_core`, `hub_live`, `peer_slots`. In the others the system may stop: in
`HelloExchange` everybody may quit; in `hub_rejoin` a panic can leave every goroutine waiting for a mutex for good;
in `hub_locks` the deadlock is the finding and is stated as the progress it prevents; in `recv_ring`, `send_stream`
and `plugin_link` the bounds on frames, callbacks and connections end the behaviour; `two_machines` ends with the
test passed, with a join that failed or in the waits of section 9, and `NobodyWaitsInVain` says where it may not end; in `test_session` both
processes may exit.

Every property of the passing runs has a mutant in `PROJECT.json`: an operator beside the one it
replaces, with a plausible mistake (an evicted peer still listed, a leave that keeps its seat, a
buffer that is not returned, an entry that keeps its mark, an index adopted that is behind, ...), which TLC
refutes with the run's own bounds.

**Relay and application.**

* *Connections.* Three are the fewest with which two can interfere over a seat while a third watches
  as a member or leaves last; a join racing two leaves needs three.
* *Peers.* Two: one peer id shared by two connections is a reconnect, two make company.
* *Rooms.* One name. Names interact only through a client that changes rooms, which is a `leave`
  followed by a `join`; what is special about two names (an object is filed under one) is
  `RoomsWellNamed`, which is proved for any number. Two objects: one registered, one detached and still
  held. An address is reused when nothing points to it, so they run out only when both are held.
* *Joins per connection* (`MaxJoins`). One in `hub_core`: both clients (`wail-app/signaling.go`,
  `wail-net/src/signaling.rs`) send one join per WebSocket. A closed connection may stand for a later
  one, so clients reconnect without end. Two in `hub_rejoin`.
* *Capacity* 2 with one stream per join: a reconnect that counts its own old row is refused.
* *`FewBusy`* (state constraint of `hub_core`): at most two of the three goroutines are inside a join
  or a leave at a time; the third is connected or not. The proofs have no such bound.
* *Symmetry* over connections, objects and peers, in safety runs only.
* `PeerRegistry`: two sessions of one identity are a return; a third, with another identity, takes the
  slots they free. Two streams each against three slots: the table is full, and a kept slot is taken by
  somebody else. The code has 16 slots; the theorems have any number.
* `HelloExchange`: with two applications every loss, late message and answer happens; the third of
  `hello_trio` makes each broadcast reach somebody who has been told before. `MaxLosses` 2: a second
  loss while the first is being repaired. Queues need no bound: they are bounded by the joins.

**Plugins.**

* `recv_ring`: two slots against three streams, so that one interval has to be merged into its peer's first
  slot and a reserved slot is given away; two blocks per interval and buffer (`BlocksPer`, `Cap`), so that an
  interval arrives in parts. One stream sends through three intervals (two boundaries), the others once:
  early, in time or late relative to it. `MaxChanges` 2: any two of arrival, departure, lost connection,
  transport restart, reset and `initialize`. Channels of capacity 1 with the constraint `Calm` (one item
  waits at a time, no stream far ahead): an event that finds its channel full is lost; losing a
  frame (`MaxLost`) is excluded, since a frame that is not fed is a frame that was not sent to the ring.
* `send_stream`: frames of 8 samples and callbacks of 3 or 8 leave every kind of rest, an empty last
  frame included; a channel of 1 is full at once; frame numbers wrap at 3; `MaxFrames` 2, so that a frame beyond
  the table is reached. Two troubles: any two of reset, `initialize`, restart, application stopped, frame refused. The
  Opus encoder is assumed to have been created.
* `plugin_link`: reads of at most 1, 40 or 65 536 bytes, failed writes after 0, 3 or 9 bytes: within the length,
  within the tag and its fields, at nothing. Two messages on a connection suffice for one to be read
  from the middle of another; two connections for a leftover of the first.

**Network client.**

* `two_machines`: one interval in each audio phase, of four frames, and channels for audio that hold three: as in the code, an
  interval does not fit into the outgoing channel (400 frames of an 8 s interval against 256), so `QueuedAudio` drops its end. The phases
  bear it because they count frames as intervals. TLC finds `NobodyWaitsInVain` violated when either channel is smaller. With an
  outgoing channel of 2, a frame for each interval of the first three phases does not fit (the code has 256 for 1 + 10 + 32 by default).
  With an incoming one of 2, what gets out of an interval does not fit, and the Pong that the other machine still waits for stays behind it
  (the code has 1024 for at most 400, since nobody is more than one interval ahead of a machine in its sync exchange). The model queues an interval
  in one step; in the code the write task may take frames meanwhile, so that more of it gets out, up to all 400. A wire
  that holds one message. One connection may be lost, in the phase that reconnects.
* `test_session`: one client leaves and comes back, or the other stops and resumes; a clock that starts before 0 and
  misses ticks (`Spans`); a validator that ends after one interval. Channels and wire of 1, and `FewQueues`, a
  constraint: two queues hold something at a time. When the clocks reach `MaxBeat`, `TickPastBound` still turns the
  loop, so that scripts finish.

## 7. Fairness

`Fairness` is weak fairness of each goroutine's own steps once it has a message in hand (`Step`): the
Go scheduler runs it, SQLite returns, and mutexes are held for bounded sections. Weak fairness
is enough because a step is disabled only by a wedged room, which is for ever. Clients owe nothing:
`Connect`, `ReadJoin`, `ReadLeave` are never forced, and `ReadError` only for an evicted
connection, whose socket its own `writePump` closes. `HubLocks` has locks that are free and taken in
turn, so it assumes strong fairness of each goroutine: Go's mutexes hand over to a waiter after 1 ms.
The counterexample is a state from which no step is possible, so it does not depend on that choice.

`HelloExchange!Fairness` is weak fairness of the relay's and the session loops' steps (the `select` picks
at random among ready channels, so a ready one is taken in the end), of the pings each application
sends every 2 s (`Hear`), of the tickers' watchdogs, and of reconnection, which the code retries for ever. Nobody
has to join, to quit or to lose a connection. Time is abstracted by guards: the watchdogs for a missing
Hello act when nothing is under way between the two (`Idle`), that is, 5 s and 15 s are longer than a
delivery; the 30 s watchdog acts on a peer whose pings cannot arrive.

`SendStream`: weak fairness of each thread (the operating system runs it). Nothing is assumed of the audio
callback or of the application: `OldThreadEnds` has the application staying up in the end as its hypothesis, because
the thread retries the connection for ever while it is down. `TwoMachineTest` states weak fairness of its programs and tasks;
its properties are invariants and do not use it: `NobodyWaitsInVain` says that a step is possible.

## 8. Proofs

`SignalingHubProofs`, for every value of the constants (any number of connections, peers, rooms):

1. `TypeCorrect`: `TypeOK`. Its second half, `LocalsOf`, is what makes it inductive: a goroutine inside
   `join` or `leave` has the locals that the rest of `join` or `leave` uses.
2. `RoomsCoherent`: `RoomCoherent`, inductive on top of `TypeOK`. The counting facts (a set with one
   element more or less crosses two exactly when ...) are `SeatCount` and rest on the finiteness of
   `PeerIds`.
3. `RoomsNamed`: whoever holds an object during a join or leave looked it up under the name it is
   registered as, and no object has two names.
4. `EmptyRoomsSwept`: `EmptyRoomHasSweeper`, from 3. It is not inductive without it: a leaver that
   empties a room must be the one that will call `deleteRoom` with that room's name.
5. `SeatsInvariant`: `MaxJoins <= 1 => (Spec => []SeatInv)`. `SeatsHaveHandlers` and `RosterExact` need
   to know that a newcomer sits nowhere and has an open queue (`NewcomersOutside`), that a
   connection sits in one place (`SingleSeat`), detached rooms included, that what is wiped was vacant
   (`GarbageIsVacant`) and that wedged rooms are not registered (`WedgedDetached`). The last three
   concern rooms outside of the registry: an evicted client may sit in one.
   `SeatsHandled`, `RegistryStaysUsable` and `RostersExact` are its corollaries. `RosterExact` is inductive with these: a join or a leave
   changes `told` of each other member by the peer it announces, whether the notification is queued behind that member's list or ahead
   of it, and `SendJoinOk` moves the list from `list` to `view`, which changes `told` of nobody.

The assumption `MaxJoins <= 1` is necessary. With two joins per connection, a connection that was evicted
from a room can be seated again with a closed queue, and the next eviction panics with the room locked;
this is why `hub_rejoin` checks fewer properties.

`RegistryImplementsDirectory`, that is `MaxJoins <= 1 => (Spec => ImplementsDirectory)`, for any number of connections,
peers and rooms. A step of the hub is one of two things for the directory. It changes no registered room's seats, sessions or
rosters, and is a stutter or a `Move` of one connection's status (`QuietStep`); or it seats or unseats a peer, and is an `Admit` or a
`Dismiss` (`Admitting`, `Dismissing`). One lemma per group of actions shows which (`ReadingImplements`, `JoiningImplements`, `CreatingImplements`,
`EnteringImplements`, `AnsweringImplements`, `ExitingImplements`, `TidyingImplements`, `RestartImplements`). Three facts make it go through. Creating and deleting a room is invisible
because the room is empty (`EmptyRoom`). Who leaves a room that is no longer registered sits in no registered one (`SingleSeat`). And that the session state a
step leaves behind fits the room's size is `RoomCoherent` in the next state. `SeatInv` is used, hence `MaxJoins <= 1`.

`PeerRegistryProofs`, for any number of sessions, identities, streams and slots: `RegistryAlwaysSound` is the
inductive invariant, with one lemma per method of the registry (`AddedSound`, `RemovedSound`,
`IdentifiedSound`, `AssignedSound`). Its core is `Backed` and `Owned`: the slots' names and the
peers' slots describe the same relation; they are inductive only with `UniqueIn`, since freeing and
renaming go by name. `IdentifiedSound` has a hypothesis, that no other peer has the identity;
`HelloInSteps` shows that the eviction establishes it. `SlotsAlwaysExclusive` and `NeverLeaks` are
corollaries, `SlotsAlwaysStay` an action property proved method by method (`MethodsKeepSlots`).
`LowestIsMember` (the least element of a non-empty set of slots is in it) comes from the well-foundedness
of `<` on the naturals. The assumptions are those on the constants: session ids, identities, slots and
`None` are different things.

`HelloExchangeProofs`, for any number of applications and of lost connections: `IdentityAlwaysMutual` (`IdentityMutual`) and
`LivePeersStay` (the action property `NoLivePeerDropped`), from the inductive invariant `IInv`. Neither property is inductive.
That a watchdog drops no live peer follows from `Meeting`: of two who have been together on their first connections, either each has
identified the other, or a Hello or a `PeerJoined` between them is still under way, so two idle ones have nothing to wait for. A `PeerJoined`
keeps `Meeting` because it makes a Hello; a Hello keeps it because of `Mutual`, the property with its queues; and the
handler that finds `helloSent` and does not answer keeps `Mutual` because of `Answered` (who was answered was identified). A `PeerLeft` must not
be about somebody still here: `NoLeft`, which needs `UpInRoom`, `BrokenLost` and `NeverSeen` (nobody has heard of an application
before its first connection). `NoSelf`: nobody greets itself. One lemma per action shows what it does to entries and queues
(`ConnectEffect`, `EventTaken`, `NoticePushed`, `HelloPushed`, `SentHas`, `GreetedEntries`), one that it preserves `IInv` (`ConnectStep` and the
others). Queues enter through `Has`, the membership of a sequence, alone. Assumed: the broadcast address is no
application, and `None` is no entry. What connections that broke do to each other is `ReconnectedMeet`, section 9.

`SendStreamProofs`, for every frame size, channel capacity and set of intervals. Each theorem has an inductive invariant of its own:

* `RecordingSafe`: `BuffersCirculate` (the record slot has a buffer, and a spare one is there or on its way back),
  which `RingKeeps` preserves through a boundary: the buffer that is swapped out is returned in the same
  callback, and a return channel that is full holds one for the next.
* `SendTypeCorrect` (`TypeOK`): `TypeInv` adds that there is nothing to cut while nothing streams. Beside types, `TypeOK` says that sequence
  numbers stay below the wrap, that channels hold what they may, and `HoldsLittle`: the audio thread holds less than a frame and one
  callback. Of the frame number it says that it is a natural number; the code's is 32 bits wide, and 2^32 frames of 20 ms are years of one interval.
* `GapsAlwaysLosses`: `GapInv` says of any two frame numbers that follow each other in a thread's channel, of the last one heard and the first, and of the
  last one and the counter, that the step between them is what was lost in between, modulo the wrap.
* `LengthAlwaysKept`: `LengthInv` says of every frame in flight, to whatever thread it belongs, that it is a full frame of its recording or the rest
  that ends it, and of the packets collected that they are full, empty or missing. `EncodedLenSmallest`: the frame chosen at a boundary holds
  what is left, and no smaller Opus frame does.
* `CountsAlwaysOnce`: `InOrder` (a channel's frames are in the order they were cut, an old thread's are of earlier recordings, and no frame of an ended
  recording is cut again) and `CountInv` (what was cut of a recording is on the way, arrived or lost).

Assumed: the frame size is a multiple of 8 (960 at 48 kHz).

And for `PluginLink`, for all peers, names, frames and streams, all sizes of reads, failed writes and any number of connections:

* `UnsignedRoundTrip` and `SignedRoundTrip`: `from_le_bytes` undoes `to_le_bytes` for every width. `FoldRight` folds over the positions
  of a sequence in the order of CHOOSE; `FoldRightExists` shows that there is such a function, `UnsignedIs` that it adds the bytes up from the last to the first.
* `WaifRoundTrip`: a frame that `encode` writes decodes to what is said of it, also after the application has rewritten its index in
  place. `FrameSays` is the layout: which slice of the bytes is which field.
* `WholeArrival` (`ArrivesWhole`), from `LinkInv`. Neither half of the property says anything of the bytes, so it is not inductive;
  `LinkInv` does: for some i, what was taken is what the first i messages mean, and the frames of these, the buffer and what is
  under way are, one behind another, all the frames written and what a failed write left (`Level`). A read moves bytes
  from one part to the next. A take needs that the buffer begins with the frame of message i + 1, whatever else is in it
  (`HeadsFrame`), that its declared length is the payload's, so `Oversized` never applies (no payload reaches 16 MiB), and that a torn frame
  never looks whole. Each message decodes to what it means (`JoinedIs`, `LeftHeard`, `NameHeard`, `AudioHeard`, `FrameHeard`), strings cut at 255 bytes included.

`LinkAssumption` gives the messages the types of the code: strings of any length, frames of `AudioFrames`, a stream index of two bytes.

`RecvPluginProofs`, for any number of sessions, identities, channels and slots:

* `RingSlotsAlwaysExclusive` (`SlotsExclusive`): `TableInv`, which is `Exclusive(table)` with the types of the queues and the
  identity map. Each method of `SlotTable` keeps `Exclusive`; those that fold over a list (`release_all_for_client`,
  `reclaim_reserved_for_client`, `Vec::retain`) by induction along the fold (`ReleaseAllIs`, `ReclaimIs`, `WithoutKeeps`).
  `ReleaseAllIs` is where the order of the list matters: what is released while the list is walked must be what the walk has passed.
* `RingSlotsAlwaysAgree` (`SlotsAgree`), for sessions with an identity each (`DistinctIdentities`): `AgreeInv` says of each active entry of the
  table that it is the mapping of the stream its slot plays. `ReturningSlotsAgree` needs less: that the identity map has one session of an
  identity at a time (`OneSession`), so that an identity may return in another session once the older one has been removed. Something of the
  kind is necessary: `remove_peer` frees the table by identity and the playback slots by peer id, so of two sessions with one identity the one that
  leaves first takes the other's entries with it (section 9, `ring.rs:652`). The application takes the older session out before it announces the newer
  (`session.go:479`); the plugin loses that when the event channel is full.
* `SlotsPlayTheMix` (`SlotAudioInMix`), for any number of blocks and every capacity too: `MixInv`. Until the transport restarts, what is
  marked as mixed ahead is in the buffer mixed ahead (`AllIn`), what a slot plays is in the mix (`Within`), and of the entries that wait to
  be placed those that are marked belong to the interval that has just begun to play (`CoverInv`). `SummedIs` says what the summing helper
  writes, position by position; the lemmas on operations use nothing else of it.
* `PremixAlwaysExact` (`PremixExact`): `PremixOk`. `FoldSet` adds the entries up in the order of CHOOSE; `AddsIsTotal` shows
  from the algebra of bags (`SumAlgebra`) that this is the running total over the queue (`PremixedIs`), which changes by what an operation
  adds to one entry. An increment beyond the buffer's end, a backfill and an entry that is kept at a boundary are the cases.
* `NothingMixedTwice` (`NoDoubleMix`): `OnceInv`. A block is *spent* when it has been sent and is not in the audio channel any more. What comes
  out of the channel is not spent, so it is nowhere yet (`TakenOnce`). Entries hold blocks of their own stream and interval, and no
  two that wait, in either queue, are of one (`AllUnlike`, `Apart`). So what is in the buffer mixed ahead belongs to marked entries (`OfMarked`), an entry
  that is not marked shares nothing with it when it is added (`NoneOfUnmarked`), and each sum is of disjoint bags (`OnceSum`).

`OnceInv`, `CoverInv` and `PremixOk` were checked by TLC on the instance of `recv_ring` before they were proved. The attempt to prove `NoDoubleMix` without
its condition showed that it is false (section 9).

`PeerMeshProofs` has the facts both programs need, for any number of programs and every capacity of the queues. `MeshTypes`
gives the types: connections are numbered as they are opened, nothing is on the wire of one that is not open yet, nobody is sent what it
said itself. `Foreseen(p, q)` folds what is on p's wire, in its channel and in its presence set into what p will think of q
once it has taken all; `ExactInv` says that this is the room, for everybody in it, `CompleteInv` that it is no less. Both are
inductive, and at rest they are `PresenceExact` and `PresenceComplete`. They need `JoinInv` and `Seats`. `JoinInv` is the same of a program that
still waits for `join_ok`: the list noted for it, with what is on its wire, says who is in the room (`Destined`). `Seats`: the connection opened last
is the one the relay has for a program that waits, and no connection that was dropped is used again. `Pending` is what `Underway` is for one that waits: the
word is in the sender's queue, or the join has been overtaken and will fail. `Underway` and `Expected` say of a word, or of the news of a
newcomer, that it is in the sender's queue, on the wire or in a channel; one lemma per task shows that it stays so, or is heard.

`TestSessionProofs`, for any number of clients, every script and every capacity:

* `SessionTypeCorrect`: `TypeInv`, the mesh's types with those of the loop.
* `SessionPresenceExact`: `ExactInv`, with `JoinInv` for who is about to have a mesh. A mesh that is dropped and built again begins with the peer list, so nothing of the old channels is missed.
* `SessionFramesRise`: `RiseInv` bounds the last frame by the tracker's index, the clock's interval and the frame counter. Neither bound
  suffices: an index adopted from another client runs ahead of the clock, and the counter starts again at each boundary.
* `SessionNoHelloStorm`: `StormInv` counts the answers given on this connection by `greeted_peers`, which forgets nobody until the next.
* `SessionHelloMutual`: `NamesInv`, of two in the room, of which one may still wait for `join_ok`, each has the other's name, or the other is still to
  greet, or to hear of its joining, or a Hello is under way, or the join has been overtaken. It needs `Links`: no connection that was
  dropped is used again (`Seats`), one that is there is registered, so that what is under way is delivered, and who waits for `join_ok` is who the mesh
  has down for it (`Joining`).
* `SessionBoundariesReachAll`: `ReachInv`, also for who waits for `join_ok`: who counts less than was announced in its hearing has a boundary as high under way to it.

These invariants were checked by TLC on the instance of `test_session` before they were proved. `SessionAssumption` says that there are
finitely many clients and that no clock starts below the interval that stands for "none" (-99, a bound of the model, whose
clocks start near 0).

`TwoMachineTestProofs`: `TestPresenceComplete` (`PresenceComplete`), for any number of programs, reconnections and lost connections, from the
mesh's types, `MeshInv` (`Seats` and `JoinInv`) and `CompleteInv`. `ExactInv` does not hold there: a reconnection keeps the peers it knew (section 9, `wail-net/src/lib.rs:199`).

Folds and functions on sequences are reasoned about by induction on an index, from the well-foundedness of `<` (`NatLessThanWellFounded`) and
the existence of the function that `FoldLeft` computes (`FoldExists`); this is why `SlotTable` has folds where the code has loops.

In `SignalingHubProofs`, each preservation proof has a lemma per group of actions (reading, joining, entering, panicking,
answering, leaving, restart), one step per action and one per conjunct it can disturb. Steps that
only move a goroutine are handled once, by the frame lemmas (`NameFrame`, `SweeperFrame`, `UnseatedStep`).

## 9. Divergences between the code and what is said of it, and weak spots

**With a run.** `hub_locks`, `MetricsKeepStreaming` (`main.go:934`): the deadlock of a metrics viewer with `deleteRoom`.
It blocks `h.mu` for ever and with it every join, leave and relay that looks a room up.

**Stated in the modules and refuted by TLC, without a run of their own.** Each is a definition at the end of its
module; the instance that refutes it is given.

* `JoinOkMeansSeated` of `SignalingHub` (`main.go:471`): a join that has looked its room up but does not sit in
  it yet does not keep `deleteRoom` from unregistering that room; the client is answered `join_ok`
  and is alone in a room nobody can find, until it reconnects. `hub_core` with three objects, `MayRestart = FALSE`
  and no constraint.
* `LivePeerHasRow` of `SignalingHub` (`main.go:670`): the leave of an evicted connection deletes the row of the
  one that replaced it. `hub_core` with two connections, `MayRestart = FALSE`, no constraint.
* `ClientRosterCurrent` of `SignalingHub` (`main.go:530`): notifications queued between the unlock and
  `join_ok` are read and discarded by the application's client (`wail-app/signaling.go`), which is then wrong about who came or went. Same instance.
* `NobodyIsLeftWaiting` of `TwoMachineTest` (`wail-net/src/signaling.rs:260`): the Rust client fails on such a notification. Two machines that join at the same
  time: the relay unlocks the room after the first one's join (`main.go:530`), seats the second and queues `peer_joined` for the first (493), and only then
  queues its `join_ok` (532). The first machine's test ends with an error, and the second, whose list has the first in it, waits for a Hello that nobody
  sends, with nothing lost and nobody reconnected. The instance of `two_machines`, 11 states.
* `ReconnectedMeet` of `HelloExchange` (`peers.go:180`): after its connection was replaced, an application neither
  sends a Hello nor answers one, so peers that removed it, or missed its answer, drop it for good. `hello_meet` with `MaxLosses = 1`.
* `DepartedForgotten` of `HelloExchange` (`peers.go:203`): peers that were never heard are never timed out. Same instance.
* `FramesReceivedExact` of `SendStream` (`frame_assembler.rs:56`): after the transport restarts within an interval, a
  frame of the recording before counts as received in the one after. `send_stream`; `CountsOnce` is what holds.
* `PlacedIsMixed` of `RecvPlugin` (`ring.rs:532`): `reset_transport` gives up the buffer mixed ahead (`next_playback_len = 0`) and
  keeps the marks of the entries that stand for it, so at the next boundary they are skipped as already summed: their slots
  play them and the main mix does not have them. The comment on the mark (137) says that it has; `remove_peer`, which gives up the same buffer,
  takes the marks away (684). `recv_ring`; this is why three of its properties are stated until the first restart.
  For `NoDoubleMix` it takes two: after a restart `remove_peer` takes the marks away but clears the buffer only up to
  `next_playback_len`, which is 0, so the sums stay beyond it; after a second restart a frame that begins an entry
  while no interval is current is not summed, the next one of its stream is, beyond the end of the buffer, and what lies stale in between counts
  as mixed again. At the boundary an entry without a mark is then in the mix twice. Two peers with one stream each, `Cap` and
  `BlocksPer` 4, three and five blocks, `MaxChanges = 3`: 42 steps.

**Visible in the models, without a property.**

* Relay: the capacity's sum is read and the row written in two steps, so concurrent joins overflow a room
  (`main.go:452`); a reconnecting peer is counted against its own old row (452); of two first joins with different
  passwords one password is kept and both succeed (461); the `rooms` row is deleted after the room, maybe under a
  newcomer (679).
* `peers.go:144`: `docs/networking.md:479` keeps slots for an identity and a stream; the code keeps
  them for the identity (`Reserved`), so a returning client's streams may swap slots.
* `ring.rs:652`: the comment at 650 says that `remove_peer` frees all slots of a peer; its pending entries and queued frames
  get the departed peer a slot again, which nothing frees, and after a return under a new peer id one stream is in two
  slots. Two peers with one identity make the two books of slots differ, which is why `recv_ring` gives each its own.
* `wail-plugin-recv/src/lib.rs:733`: the old IPC thread looks for its end only when a read times out, so under
  steady traffic it never ends; `initialize` does not reset `remote_interval`.
* `wail-plugin-send/src/lib.rs`: frames at 44.1 kHz are encoded as if they were at 48 kHz; an empty final frame is encoded
  as 2.5 ms of silence while the receiver's comment (`wail-plugin-recv/src/lib.rs:634`) expects an empty packet; `was_playing` and
  `frame_seq` survive `initialize`. Frames from number 10 000 on are dropped with the final one, and `evict_stale` of the assembler has no caller.
* `wail-e2e/src/main.rs:564`: the waiter of phase 7 waits for `PeerLeft`, but the relay replaces the connection of a
  peer that reconnects without a word: the wait ends by its timeout. `drain_events` (531) may throw away the other's Hello, and
  "validate all arrive" (436) counts frames as intervals.
* `wail-test-client/src/main.rs:222`: the test client ends on a join that was overtaken, a rejoin included (`ConnectFails`).
* `wail-net/src/lib.rs:199`: a reconnection keeps the peers the mesh knows, so one that left meanwhile stays;
  `poll_signaling` answers `Ok(None)` for ever after the connection has closed.
* `wail-test-client/src/main.rs:550`: an adopted index means that the client itself crosses no boundary there, so its frames go on
  from a number other than 0; with a tick that is missed no frame is the final one. A rejoin into an empty room gives up after 30 s (350).
* `ipc.rs:71`: a length that cannot be throws away the whole buffer, with the frames behind it.
* `ipc.go:293`: a broadcast that misses its deadline of 100 ms takes a receive plugin out of the pool and leaves its
  connection open (`Tear`): the plugin waits for ever and never connects again.

## 10. Only model-checked, assumed, not modelled

*Only model-checked:* `HubLocks`, whose property is a liveness one. Out of the proof system's reach: liveness (`hub_live`, `hello_meet`, `OldThreadEnds`), and
`NobodyWaitsInVain`, which needs ENABLED. What `Undisturbed` and `restarted` exclude is not proved because it does not hold (section 9).

*Assumed of the relay and the application.* Room names and peer ids are non-empty (the empty name means "no room" in the code). Password
hashes do not collide. `minVersion` is `"0.0.0"`, so the version check refuses nobody. SQL statements
succeed. Send queues are unbounded: the drop at 256 messages (`main.go:700`) is not modelled.
`last_seen` is not kept; at a restart any subset of rows is stale. A `deleteRoom` blocked by a wedged
room holds `h.mu` for ever; the model lets others go on, which allows more than the code does.

In `HelloExchange` the relay is atomic (join, notifications and `join_ok` in one step): what `SignalingHub` shows
of the steps in between (`ClientRosterCurrent`) is left out there, and a dropped message on a full channel
too; `PeerMesh` has the steps. Pings are not queued: `Hear` says that one has arrived.

*Assumed of the plugins.* Samples are abstract: a block of audio is a term of a sum, and a fade reaches less far than a
block. The application forwards a peer's audio in order. In `SendStream` nothing is lost between socket and assembler. In `PeerMesh` the
relay delivers in order to whoever is registered; a join that the relay refuses (`join_error`: password, capacity, version), a network that fails before
`join_ok`, and the log messages, metrics reports and stream names of `wail-net` are left out. A reconnection that fails drops the mesh,
since either program ends on the error. In `PluginLink` the plugin's handshake, three bytes written at once, arrives
within the 200 ms that the application reads it for (`session.go:954-958`; after them it would take stream 0 and read the rest as a frame), and
the application takes every frame it has read: that a full `fromPluginCh` drops one (998-1002) is left out.
`TestSession` has a room of test clients only (nobody sends Ping or TempoChange), and an interval is a whole number of frames.

*Not modelled:* the components of section 1 without a module, for the reasons in `PROJECT.json`. Of the relay: the fan-out,
where an evicted connection's `readPump` keeps its room and goes on relaying (`main.go:774`) and full queues drop
notifications (700); the metrics, whose unsigned subtraction wraps when a reporter restarts its counters (223) and whose
session stays in `joining` while a peer that has gone is listed (264); the rate limiter (123); the `/rooms` listing; log broadcast;
the ping/pong timer, which is one of the causes of `ReadError`. Of the application: the replay of peers to a plugin that
connects, which races with broadcasts (`session.go:964`); tempo and interval configuration between session loops; packet loss, recording and the shell. Of the
Rust crates: FFT and tone synthesis, note scripts, the Link bridge and clock, the plugin test host, `xtask`, and the parameters and
editors of the plugins: signal processing, devices, or one program starting others in turn.
