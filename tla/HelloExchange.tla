--------------------------- MODULE HelloExchange ---------------------------
(***************************************************************************)
(* How the applications in a room come to know each other: the part of     *)
(* wail-app/session.go and wail-app/signaling.go that PeerRegistry leaves  *)
(* out, for several applications and the relay between them.               *)
(*                                                                         *)
(* A relayed Hello and a notification of the relay travel one connection   *)
(* in order, but the reader puts them into different channels, and the     *)
(* select of the session loop takes from whichever is ready.  An           *)
(* application keeps its peer id when its connection is replaced, and      *)
(* keeps its peers.  The relay is what RoomDirectory promises.             *)
(***************************************************************************)
EXTENDS Naturals, Sequences

CONSTANTS
    Apps,           \* applications in the room, by peer id
    MaxLosses,      \* bound: connections an application loses
    All,            \* addressee of a broadcast
    None            \* no entry

\* PeerState: the Hello handshake's part.
Entries == [identified : BOOLEAN, helloSent : BOOLEAN, everReceived : BOOLEAN, retrySent : BOOLEAN]

ASSUME HelloAssumption == MaxLosses \in Nat /\ All \notin Apps /\ None \notin Entries

VARIABLES
    room,       \* the relay: connMap
    link,       \* an application's connection: none yet, up, broken, ended for good
    peers,      \* an application's peer registry
    out,        \* Hellos an application has queued for the relay, by addressee
    events,     \* notifications it has not handled
    syncs,      \* senders of the Hellos it has not handled
    losses      \* connections it has lost

vars == <<room, link, peers, out, events, syncs, losses>>

\* Add of a peer that is not known.
NewPeer == [identified |-> FALSE, helloSent |-> FALSE,
            everReceived |-> FALSE, retrySent |-> FALSE]
Known(a) == {b \in Apps : peers[a][b] # None}

\* Add, SeedNames: new entries for those of S that have none.
Seeded(entries, S) ==
    [b \in Apps |-> IF b \in S /\ entries[b] = None THEN NewPeer ELSE entries[b]]

\* Remove, the mark a message leaves, MarkHelloRetrySent.
Without(entries, b) == [entries EXCEPT ![b] = None]
Heard(entries, b)   == [entries EXCEPT ![b].everReceived = TRUE]
Retried(entries, b) == [entries EXCEPT ![b].retrySent = TRUE]

\* What the relay does with m for the members S: the client reads it if it can.
Pushed(queues, S, m) ==
    [a \in Apps |-> IF a \in S /\ link[a] = "up" THEN Append(queues[a], m) ELSE queues[a]]

\* Broadcast and SendTo: nobody reads the queue of a broken connection.
Sent(a, to) == IF link[a] = "up" THEN [out EXCEPT ![a] = Append(@, to)] ELSE out

----------------------------------------------------------------------------
(* Connections.                                                            *)

\* ConnectSignaling and ReconnectSignaling: the join, the names it returns, new
\* channels.  A connection the relay still has for this peer id is evicted.
Connect(a) ==
    /\ link[a] \in {"none", "broken"}
    /\ room' = room \cup {a}
    /\ link' = [link EXCEPT ![a] = "up"]
    /\ peers' = [peers EXCEPT ![a] = Seeded(@, room \ {a})]
    /\ out' = [out EXCEPT ![a] = <<>>]
    /\ events' = [Pushed(events, room \ {a}, [type |-> "PeerJoined", peer |-> a])
                    EXCEPT ![a] = <<>>]
    /\ syncs' = [syncs EXCEPT ![a] = <<>>]
    /\ UNCHANGED losses

\* What the writer has not sent is lost, what the reader has read is not.
Lose(a) ==
    /\ link[a] = "up" /\ losses[a] < MaxLosses
    /\ link' = [link EXCEPT ![a] = "broken"]
    /\ losses' = [losses EXCEPT ![a] = @ + 1]
    /\ out' = [out EXCEPT ![a] = <<>>]
    /\ UNCHANGED <<room, peers, events, syncs>>

\* Disconnect, or the end of the process.
Quit(a) ==
    /\ link[a] \in {"up", "broken"}
    /\ link' = [link EXCEPT ![a] = "ended"]
    /\ peers' = [peers EXCEPT ![a] = [b \in Apps |-> None]]
    /\ out' = [out EXCEPT ![a] = <<>>]
    /\ events' = [events EXCEPT ![a] = <<>>]
    /\ syncs' = [syncs EXCEPT ![a] = <<>>]
    /\ UNCHANGED <<room, losses>>

\* The relay handles a leave, or finds a connection dead.
Vacate(a) ==
    /\ a \in room /\ link[a] # "up"
    /\ room' = room \ {a}
    /\ events' = Pushed(events, room \ {a}, [type |-> "PeerLeft", peer |-> a])
    /\ UNCHANGED <<link, peers, out, syncs, losses>>

\* The relay forwards a sync or a sync_to.
Forward(a) ==
    /\ link[a] = "up" /\ out[a] # <<>>
    /\ LET to == Head(out[a]) IN
       syncs' = Pushed(syncs, room \cap (IF to = All THEN Apps \ {a} ELSE {to}), a)
    /\ out' = [out EXCEPT ![a] = Tail(@)]
    /\ UNCHANGED <<room, link, peers, events, losses>>

----------------------------------------------------------------------------
(* The session loop of application a.                                      *)

TakeEvent(a) ==
    /\ events[a] # <<>>
    /\ events' = [events EXCEPT ![a] = Tail(@)]
    /\ UNCHANGED <<room, link, syncs, losses>>

PeerJoined(a) ==
    /\ TakeEvent(a) /\ Head(events[a]).type = "PeerJoined"
    /\ peers' = [peers EXCEPT ![a] = Seeded(@, {Head(events[a]).peer})]
    /\ out' = Sent(a, All)

PeerLeft(a) ==
    /\ TakeEvent(a) /\ Head(events[a]).type = "PeerLeft"
    /\ peers' = [peers EXCEPT ![a] = Without(@, Head(events[a]).peer)]
    /\ UNCHANGED out

\* What a Hello of b makes of a's entries: it counts as received only if b had one.
Greeted(entries, b) ==
    LET old == Seeded(entries, {b})[b] IN
    [entries EXCEPT ![b] = [identified |-> TRUE, helloSent |-> TRUE,
                            everReceived |-> old.everReceived \/ entries[b] # None,
                            retrySent |-> old.retrySent]]

\* A reply that does not ask whether there has been one.
HelloAlwaysAnswered(a) ==
    /\ syncs[a] # <<>>
    /\ LET b == Head(syncs[a]) IN
       /\ peers' = [peers EXCEPT ![a] = Greeted(@, b)]
       /\ out' = Sent(a, b)
    /\ syncs' = [syncs EXCEPT ![a] = Tail(@)]
    /\ UNCHANGED <<room, link, events, losses>>

\* A handler that never replies.
HelloNeverAnswered(a) ==
    /\ syncs[a] # <<>>
    /\ peers' = [peers EXCEPT ![a] = Greeted(@, Head(syncs[a]))]
    /\ syncs' = [syncs EXCEPT ![a] = Tail(@)]
    /\ UNCHANGED <<room, link, out, events, losses>>

\* Hello: the sender is added if need be, identified, and answered the first time.
Hello(a) ==
    /\ syncs[a] # <<>>
    /\ LET b == Head(syncs[a])
           answered == peers[a][b] # None /\ peers[a][b].helloSent
       IN  /\ peers' = [peers EXCEPT ![a] = Greeted(@, b)]
           /\ out' = IF answered THEN out ELSE Sent(a, b)
    /\ syncs' = [syncs EXCEPT ![a] = Tail(@)]
    /\ UNCHANGED <<room, link, events, losses>>

\* A ping, a snapshot or audio of b, all of which are sent every few seconds.
Hear(a, b) ==
    /\ a # b /\ {a, b} \subseteq room /\ link[a] = "up" /\ link[b] = "up"
    /\ b \in Known(a) /\ ~peers[a][b].everReceived
    /\ peers' = [peers EXCEPT ![a] = Heard(@, b)]
    /\ UNCHANGED <<room, link, out, events, syncs, losses>>

\* The watchdogs fire after 5, 15 and 30 seconds: messages under way have arrived.
Idle(a) == out[a] = <<>> /\ events[a] = <<>> /\ syncs[a] = <<>>

\* NoIdentityActivePeers that does not look at the identity.
Overdue(a, b) ==
    /\ Idle(a) /\ Idle(b)
    /\ b \in Known(a) /\ peers[a][b].everReceived

\* NoIdentityActivePeers
Unidentified(a, b) ==
    /\ Idle(a) /\ Idle(b)
    /\ b \in Known(a) /\ peers[a][b].everReceived /\ ~peers[a][b].identified

SoftWatchdog(a, b) ==
    /\ Unidentified(a, b) /\ ~peers[a][b].retrySent
    /\ peers' = [peers EXCEPT ![a] = Retried(@, b)]
    /\ out' = Sent(a, b)
    /\ UNCHANGED <<room, link, events, syncs, losses>>

Dropped(a, b) ==
    /\ peers' = [peers EXCEPT ![a] = Without(@, b)]
    /\ UNCHANGED <<room, link, out, events, syncs, losses>>

HardWatchdog(a, b) == Unidentified(a, b) /\ Dropped(a, b)

\* TimedOutPeers: pings arrive while both connections are up.
LivenessWatchdog(a, b) ==
    /\ Idle(a) /\ b \in Known(a) /\ peers[a][b].everReceived
    /\ link[a] # "up" \/ link[b] # "up"
    /\ Dropped(a, b)

----------------------------------------------------------------------------
Init ==
    /\ room = {}
    /\ link = [a \in Apps |-> "none"]
    /\ peers = [a \in Apps |-> [b \in Apps |-> None]]
    /\ out = [a \in Apps |-> <<>>]
    /\ events = [a \in Apps |-> <<>>]
    /\ syncs = [a \in Apps |-> <<>>]
    /\ losses = [a \in Apps |-> 0]

Loop(a) == PeerJoined(a) \/ PeerLeft(a) \/ Hello(a)
Watch(a, b) == SoftWatchdog(a, b) \/ HardWatchdog(a, b) \/ LivenessWatchdog(a, b)

Next ==
    \/ \E a \in Apps : Connect(a) \/ Lose(a) \/ Quit(a) \/ Vacate(a) \/ Forward(a) \/ Loop(a)
    \/ \E a, b \in Apps : Hear(a, b) \/ Watch(a, b)

\* The relay and the session loops run, a broken connection is replaced in the end, and
\* members send pings.  Nobody needs to join, and nobody needs to quit.
Fairness ==
    /\ \A a \in Apps : /\ WF_vars(Forward(a)) /\ WF_vars(Vacate(a))
                       /\ WF_vars(PeerJoined(a) \/ PeerLeft(a)) /\ WF_vars(Hello(a))
                       /\ WF_vars(link[a] = "broken" /\ Connect(a))
    /\ \A a, b \in Apps : WF_vars(Hear(a, b)) /\ WF_vars(Watch(a, b))

Spec == Init /\ [][Next]_vars /\ Fairness

----------------------------------------------------------------------------
\* Those two are in the room for good.
Together(a, b) == a # b /\ {a, b} \subseteq room /\ link[a] = "up" /\ link[b] = "up"
Unbroken(a, b) == losses[a] = 0 /\ losses[b] = 0
Identified(a, b) == b \in Known(a) /\ peers[a][b].identified

\* Two who stay in the room on their first connections come to know each other for good,
\* whoever else comes, goes, or comes back meanwhile.
MembersMeet == \A a, b \in Apps :
    <>[](Together(a, b) /\ Unbroken(a, b)) => <>[]Identified(a, b)

\* An application never drops a peer that is still running, as long as neither's
\* connection has broken: no watchdog mistakes a slow exchange for a failed one.
NoLivePeerDropped == [][\A a, b \in Apps :
    /\ b \in Known(a) /\ peers'[a][b] = None /\ Unbroken(a, b)
    => "ended" \in {link[a], link[b], link'[a]}]_vars

\* The answer is not lost on first connections: if a has identified b, then b has
\* identified a or has a Hello of a to come.
HelloUnderWay(a, b) ==
    \/ \E i \in DOMAIN out[a] : out[a][i] \in {b, All}
    \/ \E i \in DOMAIN syncs[b] : syncs[b][i] = a
IdentityMutual == \A a, b \in Apps :
    Together(a, b) /\ Unbroken(a, b) /\ Identified(a, b)
    => Identified(b, a) \/ HelloUnderWay(a, b)

\* The exchange of Hellos comes to an end.
HelloStormEnds == <>[](\A a \in Apps : out[a] = <<>> /\ syncs[a] = <<>>)

----------------------------------------------------------------------------
(* What the documents say and the code does not do.                        *)

\* networking.md: Hello is sent "Once on connect, once on reconnect".
ReconnectedMeet == \A a, b \in Apps : <>[]Together(a, b) => <>[]Identified(a, b)

\* networking.md: "This ensures peers that connect but never send a message are still
\* timed out."
DepartedForgotten == \A a, b \in Apps : [](link[b] = "ended" => <>[](b \notin Known(a)))
=============================================================================
