------------------------------ MODULE PeerMesh ------------------------------
(***************************************************************************)
(* The Rust network client, wail-net: PeerMesh and the SignalingClient it  *)
(* owns.  Every connection has a write task, which takes from the outgoing *)
(* queues in any order (tokio::select!), and a read task, which sorts what *)
(* the relay sends into three incoming channels.  The channel for audio is *)
(* bounded in both directions: outgoing frames that do not fit are dropped, *)
(* and the read task waits for room, with everything behind it.            *)
(*                                                                         *)
(* The relay is external, as the client sees it: one room; a join seats the *)
(* newcomer, replaces an older connection of the same peer without a word, *)
(* and announces it; only then is join_ok queued, behind whatever the relay *)
(* has sent the newcomer in between; a connection that ends while it is the *)
(* peer's own makes the others hear peer_left (see SignalingHub).  That the *)
(* relay refuses a join (join_error) is left out.                          *)
(*                                                                         *)
(* The operators below give the next value of the mesh variables they name *)
(* and leave the rest to the programs that use them.                       *)
(***************************************************************************)
EXTENDS Naturals, Sequences

CONSTANTS
    Peers,          \* one program each
    MaxConns,       \* bound: connections a program opens
    AudioOut,       \* capacity of the outgoing audio channel, 256 in the code
    AudioIn,        \* capacity of the incoming audio channel, 1024 in the code
    WireCap         \* bound: messages from the write tasks on their way to one client

ASSUME MeshAssumption == {MaxConns, AudioOut, AudioIn, WireCap} \subseteq Nat \ {0}

VARIABLES
    reg,            \* relay: the connection registered for each peer, 0 for none
    wire,           \* relay to client, by connection
    conn,           \* the mesh's connection, 0 for no mesh
    opened,         \* how many connections each program has opened
    dropped,        \* connections whose client is gone and whose write task still runs
    joining,        \* programs that wait for join_ok, on the connection they opened last
    listed,         \* for these: the others when the relay seated them
    outSync, outAudio,      \* by connection: the outgoing queues
    ctl, syn, aud,  \* by program: the channels incoming_rx, sync_rx, audio_rx
    known           \* PeerMesh.peers

meshVars == <<reg, wire, conn, opened, dropped, joining, listed, outSync, outAudio,
              ctl, syn, aud, known>>
netVars  == <<reg, wire, conn, opened, dropped, joining, listed>>
pollVars == <<ctl, known>>
chanVars == <<pollVars, syn, aud>>

Conns == Peers \X (1..MaxConns)
Current(p) == <<p, conn[p]>>
Seat(p)    == <<p, opened[p]>>

MeshInit ==
    /\ reg = [p \in Peers |-> 0] /\ conn = [p \in Peers |-> 0] /\ opened = [p \in Peers |-> 0]
    /\ wire = [c \in Conns |-> <<>>] /\ dropped = {}
    /\ joining = {} /\ listed = [p \in Peers |-> {}]
    /\ outSync = [c \in Conns |-> <<>>] /\ outAudio = [c \in Conns |-> <<>>]
    /\ ctl = [p \in Peers |-> <<>>] /\ syn = [p \in Peers |-> <<>>] /\ aud = [p \in Peers |-> <<>>]
    /\ known = [p \in Peers |-> {}]

Msg(kind, p, body) == [kind |-> kind, from |-> p, body |-> body]

\* The peers in the room besides p, and the relay's sending of m to those in S.
Others(p) == {q \in Peers \ {p} : reg[q] # 0}
Relayed(S, m) ==
    [c \in Conns |-> IF c[1] \in S /\ reg[c[1]] = c[2] THEN Append(wire[c], m) ELSE wire[c]]

----------------------------------------------------------------------------
(* What a program calls                                                    *)

\* connect_with_options up to the critical section of the relay's join: an older client of
\* the peer goes on with its channels, but the relay has replaced its connection.
Joins(p) ==
    /\ p \notin joining /\ opened[p] < MaxConns
    /\ joining' = joining \cup {p} /\ listed' = [listed EXCEPT ![p] = Others(p)]
    /\ opened' = [opened EXCEPT ![p] = @ + 1]
    /\ reg' = [reg EXCEPT ![p] = opened[p] + 1]
    /\ wire' = Relayed(Others(p), Msg("joined", p, {}))
    /\ UNCHANGED <<conn, dropped, outSync, outAudio, chanVars>>

\* A text message is on the wire before join_ok; frames of audio are skipped.
Overtaken(p) == \E i \in 1..Len(wire[Seat(p)]) : wire[Seat(p)][i].kind # "audio"

\* What the two ends of a join have in common.
JoinOver(p, mesh, first) ==
    /\ p \in joining
    /\ joining' = joining \ {p} /\ listed' = [listed EXCEPT ![p] = {}]
    /\ conn' = [conn EXCEPT ![p] = mesh] /\ ctl' = [ctl EXCEPT ![p] = first]
    /\ syn' = [syn EXCEPT ![p] = <<>>] /\ aud' = [aud EXCEPT ![p] = <<>>]
    /\ UNCHANGED <<reg, opened, outSync, outAudio>>

\* join_ok comes first: the new client's channels hold no more than the peer list.
JoinOk(p, first) ==
    /\ JoinOver(p, opened[p], first)
    /\ ~Overtaken(p) /\ wire' = [wire EXCEPT ![Seat(p)] = <<>>]

ConnectFull(p) ==
    /\ conn[p] = 0 /\ JoinOk(p, <<Msg("list", p, listed[p])>>)
    /\ known' = [known EXCEPT ![p] = {}]
    /\ UNCHANGED dropped

\* The old client is replaced, its leave suppressed; the peer list is consumed here.
Reconnected(p, peers) ==
    /\ conn[p] # 0 /\ JoinOk(p, <<>>)
    /\ dropped' = dropped \cup {Current(p)}
    /\ known' = [known EXCEPT ![p] = peers]
ReconnectForgets(p) == Reconnected(p, {})       \* mutant: the peer list is not consumed
ReconnectSignaling(p) == Reconnected(p, known[p] \cup listed[p])

\* "Unexpected server message before join_ok": the connection closes, and since either
\* program ends on the error, the mesh it may have had is dropped too.
JoinFails(p) ==
    /\ JoinOver(p, 0, <<>>)
    /\ Overtaken(p) /\ dropped' = dropped \cup {Seat(p)} \cup ({Current(p)} \cap Conns)
    /\ UNCHANGED <<wire, known>>

\* The mesh is dropped, with what its channels held.
DropMesh(p) ==
    /\ conn[p] # 0
    /\ conn' = [conn EXCEPT ![p] = 0]
    /\ dropped' = dropped \cup {Current(p)}
    /\ ctl' = [ctl EXCEPT ![p] = <<>>] /\ syn' = [syn EXCEPT ![p] = <<>>]
    /\ aud' = [aud EXCEPT ![p] = <<>>]
    /\ UNCHANGED <<reg, wire, opened, joining, listed, outSync, outAudio, known>>

\* broadcast and send_to: the relay sends to all others, or to one.
Queued(p, bodies) ==
    outSync' = [outSync EXCEPT ![Current(p)] = @ \o bodies]
ToAll(what) == [what |-> what, to |-> Peers]
ToPeer(q, what) == [what |-> what, to |-> {q}]

\* broadcast_audio for each frame in turn: try_send.
QueuedAudio(p, fs) ==
    outAudio' = [outAudio EXCEPT ![Current(p)] = SubSeq(@ \o fs, 1,
        IF Len(@) + Len(fs) > AudioOut THEN AudioOut ELSE Len(@) + Len(fs))]

\* handle_signal_message: the presence set S after message m.
KeepsDeparted(m, S) ==                              \* mutant: a departure is passed over
    CASE m.kind = "list" -> S \cup m.body [] m.kind = "joined" -> S \cup {m.from} [] OTHER -> S
Present(m, S) ==
    CASE m.kind = "list"   -> S \cup m.body
      [] m.kind = "joined" -> S \cup {m.from}
      [] m.kind = "left"   -> S \ {m.from}

\* poll_signaling: the first message.
Polled(p) ==
    /\ ctl[p] # <<>> /\ ctl' = [ctl EXCEPT ![p] = Tail(@)]
    /\ known' = [known EXCEPT ![p] = Present(Head(ctl[p]), @)]

----------------------------------------------------------------------------
(* The tasks of a connection                                               *)

Live(c) == c \in dropped \/ conn[c[1]] = c[2]

\* Write task: the relay forwards what an old connection still writes, or has closed it.
Forwarded(c, S, m) ==
    \/ /\ \A q \in S \cap Others(c[1]) : Len(wire[<<q, reg[q]>>]) < WireCap
       /\ wire' = Relayed(S \cap Others(c[1]), m)
    \/ reg[c[1]] # c[2] /\ UNCHANGED wire

WriteSync(c) ==
    /\ Live(c) /\ outSync[c] # <<>>
    /\ outSync' = [outSync EXCEPT ![c] = Tail(@)]
    /\ Forwarded(c, Head(outSync[c]).to, Msg("sync", c[1], Head(outSync[c]).what))
    /\ UNCHANGED <<reg, conn, opened, dropped, joining, listed, outAudio, chanVars>>

WriteAudio(c) ==
    /\ Live(c) /\ outAudio[c] # <<>>
    /\ outAudio' = [outAudio EXCEPT ![c] = Tail(@)]
    /\ Forwarded(c, Peers, Msg("audio", c[1], Head(outAudio[c])))
    /\ UNCHANGED <<reg, conn, opened, dropped, joining, listed, outSync, chanVars>>

\* The client is gone: recv returns None on the first empty queue, which ends the task
\* with what the others hold.  With or without a leave, the connection closes.
WriteEnds(c) ==
    /\ c \in dropped /\ dropped' = dropped \ {c}
    /\ outSync' = [outSync EXCEPT ![c] = <<>>] /\ outAudio' = [outAudio EXCEPT ![c] = <<>>]
    /\ IF reg[c[1]] = c[2]
         THEN /\ reg' = [reg EXCEPT ![c[1]] = 0]
              /\ wire' = [Relayed(Others(c[1]), Msg("left", c[1], {})) EXCEPT ![c] = <<>>]
         ELSE /\ UNCHANGED reg /\ wire' = [wire EXCEPT ![c] = <<>>]
    /\ UNCHANGED <<conn, opened, joining, listed, chanVars>>

\* Read task: the channel for audio must have room.
Read(p) ==
    LET c == Current(p)
        m == Head(wire[c])
    IN  /\ conn[p] # 0 /\ wire[c] # <<>>
        /\ wire' = [wire EXCEPT ![c] = Tail(@)]
        /\ \/ /\ m.kind \in {"joined", "left"}
              /\ ctl' = [ctl EXCEPT ![p] = Append(@, m)] /\ UNCHANGED <<syn, aud>>
           \/ /\ m.kind = "sync"
              /\ syn' = [syn EXCEPT ![p] = Append(@, m)] /\ UNCHANGED <<ctl, aud>>
           \/ /\ m.kind = "audio" /\ Len(aud[p]) < AudioIn
              /\ aud' = [aud EXCEPT ![p] = Append(@, m)] /\ UNCHANGED <<ctl, syn>>
        /\ UNCHANGED <<reg, conn, opened, dropped, joining, listed, outSync, outAudio, known>>

\* The network loses the connection of p's mesh: the client is not told, it writes and
\* reads no more.
ConnectionLost(p) ==
    /\ reg[p] # 0 /\ reg[p] = conn[p]
    /\ reg' = [reg EXCEPT ![p] = 0]
    /\ wire' = [Relayed(Others(p), Msg("left", p, {})) EXCEPT ![Current(p)] = <<>>]
    /\ UNCHANGED <<conn, opened, dropped, joining, listed, outSync, outAudio, chanVars>>

Tasks ==
    \/ \E c \in Conns : WriteSync(c) \/ WriteAudio(c) \/ WriteEnds(c)
    \/ \E p \in Peers : Read(p)

----------------------------------------------------------------------------

\* Nothing that the relay has announced to p is still on its way to its mesh.
Heard(p) == conn[p] # 0 /\ reg[p] = conn[p] /\ wire[Current(p)] = <<>> /\ ctl[p] = <<>>

\* The presence set of a mesh is the room: when p has heard all the relay announced, it
\* knows the peers in the room, no more and no fewer.
PresenceExact == \A p \in Peers : Heard(p) => known[p] = Others(p)

\* Across reconnections nobody in the room is missing from it.
PresenceComplete == \A p \in Peers : Heard(p) => Others(p) \subseteq known[p]
=============================================================================
