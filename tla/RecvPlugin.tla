----------------------------- MODULE RecvPlugin -----------------------------
(***************************************************************************)
(* The receive plugin, wail-plugin-recv/src/lib.rs: the IPC thread reads    *)
(* the application's messages and passes them to the audio thread through  *)
(* two bounded channels, one for peer events and one for decoded audio; the *)
(* audio thread drains both in every callback and drives the ring.         *)
(*                                                                         *)
(* try_send and try_recv interleave item by item.  The application at the  *)
(* other end of the socket is an environment: which peers it has announced *)
(* and how far each stream has come.                                       *)
(***************************************************************************)
EXTENDS IntervalRing

CONSTANTS
    Sources,        \* the streams that are sent, pairs <<peer, stream>>
    IdentityFor,    \* the identity of each peer
    EventCap,       \* capacity of the peer event channel, 32 in the code
    FrameCap,       \* capacity of the audio channel, 512 in the code
    BlocksPer,      \* bound: blocks a stream sends in one interval
    MaxBlocks,      \* bound: blocks each stream sends in all, from interval 0 on
    MaxChanges,     \* bound: arrivals, departures, lost connections, restarts, resets
    MaxLost         \* bound: frames that find the audio channel full

ASSUME PluginAssumption ==
    /\ Sources \subseteq PeerIds \X Streams
    /\ IdentityFor \in [PeerIds -> Identities]
    /\ {EventCap, FrameCap, BlocksPer} \subseteq Nat \ {0}
    /\ {MaxChanges, MaxLost} \subseteq Nat
    /\ MaxBlocks \in [Sources -> Nat]

VARIABLES
    linked,         \* the IPC thread has a connection
    here,           \* peers in the room, whose audio the application forwards
    known,          \* peers announced on this connection
    sent,           \* how many blocks each stream has sent, counting all intervals
    events, frames, \* the two channels
    phase,          \* where the audio thread is
    remote,         \* remote_interval
    changes, lost,  \* how much of the bounds is used
    restarted       \* the transport has restarted

envVars == <<linked, here, known, sent, changes, lost>>
vars == <<ringVars, envVars, events, frames, phase, remote, restarted>>

Init ==
    /\ RingInit
    /\ linked = FALSE /\ here = PeerIds /\ known = {}
    /\ sent = [x \in Sources |-> 0]
    /\ events = <<>> /\ frames = <<>>
    /\ phase = "begin" /\ remote = None
    /\ changes = 0 /\ lost = 0 /\ restarted = FALSE

----------------------------------------------------------------------------
(* ipc_thread_recv                                                         *)

\* try_send: what does not fit is lost.
Offered(queue, cap, x) == IF Len(queue) < cap THEN Append(queue, x) ELSE queue
Tell(e) == events' = Offered(events, EventCap, e)
Event(kind, p) == [kind |-> kind, peer |-> p]

Connect ==
    /\ ~linked
    /\ linked' = TRUE /\ known' = {}
    /\ Tell(Event("connected", None))
    /\ UNCHANGED <<ringVars, here, sent, changes, lost, frames, phase, remote, restarted>>

\* read returns 0 or an error.
Disconnect ==
    /\ linked /\ changes < MaxChanges
    /\ linked' = FALSE /\ changes' = changes + 1
    /\ Tell(Event("disconnected", None))
    /\ UNCHANGED <<ringVars, here, known, sent, lost, frames, phase, remote, restarted>>

\* IPC_TAG_PEER_JOINED_PUB: a peer's Hello came, or the connection is new and the
\* application repeats whom it knows.
PeerJoined(p) ==
    /\ linked /\ p \in here \ known
    /\ known' = known \cup {p}
    /\ Tell(Event("joined", p))
    /\ UNCHANGED <<ringVars, linked, here, sent, changes, lost, frames, phase, remote, restarted>>

\* A peer enters the room: its audio may come before its Hello.
PeerEnters(p) ==
    /\ p \notin here /\ changes < MaxChanges
    /\ here' = here \cup {p} /\ changes' = changes + 1
    /\ UNCHANGED <<ringVars, linked, known, sent, lost, events, frames, phase, remote, restarted>>

\* IPC_TAG_PEER_LEFT_PUB
PeerLeft(p) ==
    /\ p \in here /\ changes < MaxChanges
    /\ here' = here \ {p} /\ known' = known \ {p} /\ changes' = changes + 1
    /\ IF linked THEN Tell(Event("left", p)) ELSE UNCHANGED events
    /\ UNCHANGED <<ringVars, linked, sent, lost, frames, phase, remote, restarted>>

\* IPC_TAG_AUDIO_PUB: one frame, decoded, or concealed when it does not decode.
IndexAt(n) == n \div BlocksPer
AudioFrame(x) ==
    /\ linked /\ x[1] \in here /\ sent[x] < MaxBlocks[x]
    /\ Len(frames) = FrameCap => lost < MaxLost
    /\ lost' = IF Len(frames) = FrameCap THEN lost + 1 ELSE lost
    /\ sent' = [sent EXCEPT ![x] = @ + 1]
    /\ frames' = Offered(frames, FrameCap,
                         [peer |-> x[1], stream |-> x[2], index |-> IndexAt(sent[x]),
                          at |-> sent[x] % BlocksPer])
    /\ UNCHANGED <<ringVars, linked, here, known, changes, events, phase, remote, restarted>>

----------------------------------------------------------------------------
(* process                                                                 *)

NextEvent(kind) ==
    /\ phase \in {"begin", "events"} /\ phase' = "events"
    /\ events # <<>> /\ Head(events).kind = kind

OnConnected ==
    /\ NextEvent("connected") /\ events' = Tail(events)
    /\ UNCHANGED <<ringVars, envVars, frames, remote, restarted>>
OnJoined ==
    /\ NextEvent("joined") /\ events' = Tail(events)
    /\ NotifyPeerJoined(Head(events).peer, IdentityFor[Head(events).peer])
    /\ UNCHANGED <<envVars, frames, remote, restarted>>
OnLeft ==
    /\ NextEvent("left") /\ events' = Tail(events)
    /\ RemovePeer(Head(events).peer)
    /\ UNCHANGED <<envVars, frames, remote, restarted>>
OnDisconnected ==
    /\ NextEvent("disconnected") /\ events' = Tail(events)
    /\ Reset
    /\ frames' = <<>> /\ remote' = None
    /\ UNCHANGED <<envVars, restarted>>
EventsDrained ==
    /\ phase \in {"begin", "events"} /\ phase' = "frames"
    /\ events = <<>>
    /\ UNCHANGED <<ringVars, envVars, events, frames, remote, restarted>>

OnFrame ==
    /\ phase = "frames" /\ frames # <<>> /\ frames' = Tail(frames)
    /\ LET f == Head(frames)
       IN  /\ remote' = IF remote = None THEN f.index ELSE Longer(remote, f.index)
           /\ FeedRemote(f.peer, f.stream, f.index, <<Audio(f.peer, f.stream, f.index, f.at)>>)
    /\ UNCHANGED <<envVars, events, phase, restarted>>

FramesDrained ==
    /\ phase = "frames" /\ frames = <<>>
    /\ \/ NoBoundary(remote) /\ phase' = "play"
       \/ Swap(remote) /\ phase' = "swap"
    /\ UNCHANGED <<envVars, events, frames, remote, restarted>>
PlaceEntry ==
    /\ phase = "swap"
    /\ KeepOrEvict \/ PlaceInSlot \/ MergeIntoFirst
    /\ UNCHANGED <<envVars, events, frames, phase, remote, restarted>>
\* The end of a callback.  The next one begins with its events, after a reset of
\* the ring's positions if the transport has started again.
PlayBlock ==
    /\ phase = "play" \/ (phase = "swap" /\ todo = <<>>)
    /\ phase' = "begin"
    /\ Play
    /\ UNCHANGED <<envVars, events, frames, remote, restarted>>
TransportRestarts ==
    /\ phase = "begin" /\ changes < MaxChanges
    /\ changes' = changes + 1 /\ restarted' = TRUE
    /\ ResetTransport
    /\ UNCHANGED <<linked, here, known, sent, lost, events, frames, phase, remote>>

\* The host initializes the plugin again: a new bridge, new channels, and a new IPC thread
\* that has yet to connect.  What the old thread still reads goes nowhere.
Initialize ==
    /\ phase = "begin" /\ changes < MaxChanges /\ changes' = changes + 1
    /\ RingRenewed
    /\ events' = <<>> /\ frames' = <<>> /\ linked' = FALSE /\ known' = {}
    /\ UNCHANGED <<here, sent, lost, phase, remote, restarted>>

\* The host resets the plugin: the channels keep what they hold.
HostResets ==
    /\ phase = "begin" /\ changes < MaxChanges /\ changes' = changes + 1
    /\ Reset /\ remote' = None
    /\ UNCHANGED <<linked, here, known, sent, lost, events, frames, phase, restarted>>

Next ==
    \/ Connect \/ Disconnect
    \/ \E p \in PeerIds : PeerJoined(p) \/ PeerEnters(p) \/ PeerLeft(p)
    \/ \E x \in Sources : AudioFrame(x)
    \/ OnConnected \/ OnJoined \/ OnLeft \/ OnDisconnected \/ EventsDrained
    \/ OnFrame \/ FramesDrained \/ PlaceEntry \/ PlayBlock
    \/ TransportRestarts \/ Initialize \/ HostResets

Spec == Init /\ [][Next]_vars

----------------------------------------------------------------------------
(* Properties.                                                             *)

\* No slot has two owners, and the flags of the slots that are taken are those of
\* the active entries, through every assignment, release, rename and reclaim.
SlotsExclusive ==
    /\ \A j, k \in DOMAIN table.active :
            table.active[j].slot = table.active[k].slot => j = k
    /\ table.occupied = {table.active[j].slot : j \in DOMAIN table.active}

\* A playback slot is active exactly while the table has it taken: remove_peer and
\* notify_peer_joined change the two in different ways, by peer and by identity.
SlotsAgree == \A i \in SlotNums : slots[i].active <=> i \in table.occupied

\* Outside the boundary's loop, and before the transport has ever restarted:
\* reset_transport forgets how much has been mixed, and forgets neither the marks of
\* the entries nor the slots' audio.
Undisturbed == phase # "swap" /\ ~restarted

\* What premixed entries contribute to position i of the next interval.
PremixedAt(i) ==
    LET ks == {k \in DOMAIN pending : pending[k].premixed /\ i < Len(pending[k].samples)}
    IN  FoldSet(LAMBDA k, b : b (+) pending[k].samples[i + 1], EmptyBag, ks)

\* Between callbacks and within them, the buffer mixed ahead is the sum of the
\* entries marked premixed, whole and once each, and those belong to the interval
\* that will be played next: feed_remote's increments and its backfill, undone by
\* remove_peer, add up to what a mix at the boundary would have given.
PremixExact ==
    Undisturbed =>
        /\ \A i \in Positions : PremixedAt(i) = IF i < nextLen THEN next[i] ELSE EmptyBag
        /\ \A k \in DOMAIN pending : pending[k].premixed => pending[k].index = current

\* No block of audio is in the main mix twice, by whichever of the three ways it came
\* there: mixed ahead, placed at the boundary, appended while it plays.  Until the
\* transport has restarted: two restarts and a departure mix an entry twice.
NoDoubleMix ==
    ~restarted =>
        \A i \in Positions : i < mixLen =>
            \A x \in BagToSet(mix[i]) : x.part = "body" => mix[i][x] = 1

\* What a slot's own output plays is in the main mix at the same position.
SlotAudioInMix ==
    Undisturbed =>
        \A i \in SlotNums : slots[i].active =>
            \A k \in DOMAIN slots[i].samples \cap 1 .. Cap :
                \A x \in BagToSet(slots[i].samples[k]) : x.part = "body" => BagIn(x, mix[k - 1])

\* What the comment on RemoteInterval.premixed says of the boundary: an entry that is
\* marked is not summed, because it has been.  So once the boundary's loop is through,
\* all that it has put into the slots is in the mix.  Not so after reset_transport,
\* which keeps the marks and gives up what they stand for.
PlacedIsMixed ==
    phase = "swap" /\ todo = <<>> =>
        \A i \in SlotNums : slots[i].active =>
            \A k \in DOMAIN slots[i].samples \cap 1 .. Cap :
                \A x \in BagToSet(slots[i].samples[k]) :
                    x.part = "body" => k <= mixLen /\ BagIn(x, mix[k - 1])
=============================================================================
