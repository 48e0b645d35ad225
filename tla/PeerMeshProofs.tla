--------------------------- MODULE PeerMeshProofs ---------------------------
(***************************************************************************)
(* Facts about PeerMesh for every set of programs and every capacity, for  *)
(* the proofs about the programs that use it.                              *)
(*                                                                         *)
(*   - MeshTypes: the types of the queues, the channels and the wire;      *)
(*   - Seats: who waits for join_ok has its connection at the relay, and a *)
(*     connection that was dropped is nobody's own again;                  *)
(*   - JoinInv: the list a join will be given, corrected by what the relay *)
(*     sends ahead of it, is the room;                                     *)
(*   - ExactInv, CompleteInv: what a mesh will know of the room, once it   *)
(*     has taken what is still under way to it, is the room, or no less;   *)
(*   - Underway, Expected: a word, or the news of a newcomer, is in a      *)
(*     queue, on the wire or in a channel, and no task loses it; Pending:  *)
(*     to one that waits for join_ok, or it will not get join_ok first.    *)
(***************************************************************************)
EXTENDS PeerMesh, SequenceTheorems, TLAPS

(***************************************************************************)
(* The messages to p: words are what the programs of a room say through    *)
(* the relay, sounds their audio frames.                                   *)
(***************************************************************************)
Events(p)        == [kind : {"joined", "left"}, from : Peers \ {p}, body : {{}}]
Lists(p)         == [kind : {"list"}, from : {p}, body : SUBSET Peers]
Syncs(p, words)  == [kind : {"sync"}, from : Peers \ {p}, body : words]
Frames(p, sounds) == [kind : {"audio"}, from : Peers \ {p}, body : sounds]
Mail(p, words, sounds) == Events(p) \cup Syncs(p, words) \cup Frames(p, sounds)
Letters(p, words, sounds) == Seq(Mail(p, words, sounds))
News(p)          == Seq(Lists(p) \cup Events(p))
Said(p, words)   == Seq(Syncs(p, words))
Played(p, sounds) == Seq(Frames(p, sounds))
Orders(words)    == [what : words, to : SUBSET Peers]

\* Connections are numbered in the order they are opened.
Numbered ==
    /\ {reg, conn, opened} \subseteq [Peers -> Nat]
    /\ \A p \in Peers : reg[p] <= opened[p] /\ conn[p] <= opened[p] /\ opened[p] <= MaxConns
    /\ dropped \subseteq Conns
    /\ joining \subseteq Peers /\ listed \in [Peers -> SUBSET Peers]
WireTypes(words, sounds) ==
    /\ wire = [c \in Conns |-> wire[c]]
    /\ \A c \in Conns : wire[c] \in Letters(c[1], words, sounds)
Unused == \A c \in Conns : c[2] > opened[c[1]] => wire[c] = <<>>
OutTypes(words, sounds) ==
    outSync \in [Conns -> Seq(Orders(words))] /\ outAudio \in [Conns -> Seq(sounds)]
ChanTypes(words, sounds) ==
    /\ ctl = [p \in Peers |-> ctl[p]] /\ syn = [p \in Peers |-> syn[p]] /\ aud = [p \in Peers |-> aud[p]]
    /\ \A p \in Peers : /\ ctl[p] \in News(p)
                        /\ syn[p] \in Said(p, words) /\ aud[p] \in Played(p, sounds)
    /\ known \in [Peers -> SUBSET Peers]
MeshTypes(words, sounds) ==
    Numbered /\ WireTypes(words, sounds) /\ Unused /\ OutTypes(words, sounds) /\ ChanTypes(words, sounds)

----------------------------------------------------------------------------
(* What a sequence of messages says of q: that it is there, or that it is  *)
(* not gone.                                                               *)

Entering(q, m) == (m.kind = "list" /\ q \in m.body) \/ (m.kind = "joined" /\ m.from = q)
Leaving(q, m)  == m.kind = "left" /\ m.from = q
Enters(q, ms)  == \E i \in 1..Len(ms) : Entering(q, ms[i]) /\ \A j \in 1..Len(ms) : i < j => ~Leaving(q, ms[j])
Stays(q, ms)   == \A j \in 1..Len(ms) : ~Leaving(q, ms[j])

LEMMA NothingSaid ==
    ASSUME NEW q
    PROVE  ~Enters(q, <<>>) /\ Stays(q, <<>>)
<1>1. Len(<<>>) = 0 /\ 1..0 = {}
  OBVIOUS
<1> QED BY <1>1 DEF Enters, Stays

LEMMA OneSaid ==
    ASSUME NEW q, NEW m
    PROVE  (Enters(q, <<m>>) <=> Entering(q, m)) /\ (Stays(q, <<m>>) <=> ~Leaving(q, m))
<1>1. Len(<<m>>) = 1 /\ 1..1 = {1} /\ <<m>>[1] = m
  OBVIOUS
<1> HIDE DEF Entering, Leaving
<1> QED BY <1>1 DEF Enters, Stays

LEMMA SaidAppended ==
    ASSUME NEW S, NEW ms \in Seq(S), NEW m, NEW q
    PROVE  /\ Enters(q, Append(ms, m)) <=> Entering(q, m) \/ (Enters(q, ms) /\ ~Leaving(q, m))
           /\ Stays(q, Append(ms, m)) <=> Stays(q, ms) /\ ~Leaving(q, m)
<1> DEFINE n == Len(ms)
           u == Append(ms, m)
<1>1. n \in Nat /\ Len(u) = n + 1 /\ u[n + 1] = m /\ \A i \in 1..n : u[i] = ms[i]
  OBVIOUS
<1>2. /\ n + 1 \in 1..(n + 1) /\ \A i \in 1..n : i \in 1..(n + 1) /\ i < n + 1
      /\ \A i \in 1..(n + 1) : i \in 1..n \/ i = n + 1
      /\ \A i \in 1..(n + 1) : ~(n + 1 < i)
  BY <1>1
<1> HIDE DEF n, u, Entering, Leaving
<1>3. Stays(q, u) <=> Stays(q, ms) /\ ~Leaving(q, m)
  BY <1>1, <1>2 DEF Stays, n
<1>4. Entering(q, m) => Enters(q, u)
  BY <1>1, <1>2 DEF Enters
<1>5. ASSUME Enters(q, ms), ~Leaving(q, m) PROVE Enters(q, u)
  <2>1. PICK i \in 1..n : Entering(q, ms[i]) /\ \A j \in 1..n : i < j => ~Leaving(q, ms[j])
    BY <1>5 DEF Enters, n
  <2>2. i \in 1..(n + 1) /\ Entering(q, u[i])
    BY <1>1, <1>2, <2>1
  <2>3. \A j \in 1..(n + 1) : i < j => ~Leaving(q, u[j])
    BY <1>1, <1>2, <1>5, <2>1
  <2> QED BY <1>1, <2>2, <2>3 DEF Enters
<1>6. ASSUME Enters(q, u), ~Entering(q, m) PROVE Enters(q, ms) /\ ~Leaving(q, m)
  <2>1. PICK i \in 1..(n + 1) : Entering(q, u[i]) /\ \A j \in 1..(n + 1) : i < j => ~Leaving(q, u[j])
    BY <1>1, <1>6 DEF Enters
  <2>2. i \in 1..n
    BY <1>1, <1>2, <1>6, <2>1
  <2>3. Entering(q, ms[i]) /\ ~Leaving(q, m) /\ \A j \in 1..n : i < j => ~Leaving(q, ms[j])
    BY <1>1, <1>2, <2>1, <2>2
  <2> QED BY <2>2, <2>3 DEF Enters, n
<1> QED BY <1>3, <1>4, <1>5, <1>6 DEF u

LEMMA SaidFirst ==
    ASSUME NEW S, NEW ms \in Seq(S), ms # <<>>, NEW q
    PROVE  /\ Enters(q, ms) <=> Enters(q, Tail(ms)) \/ (Entering(q, Head(ms)) /\ Stays(q, Tail(ms)))
           /\ Stays(q, ms) <=> ~Leaving(q, Head(ms)) /\ Stays(q, Tail(ms))
<1> DEFINE n == Len(ms)
           d == Tail(ms)
           h == Head(ms)
<1>1. n \in Nat \ {0} /\ h = ms[1] /\ Len(d) = n - 1 /\ \A i \in 1..(n - 1) : d[i] = ms[i + 1]
  OBVIOUS
<1>2. /\ 1 \in 1..n /\ \A i \in 1..(n - 1) : i + 1 \in 1..n /\ 1 < i + 1
      /\ \A j \in 1..n : j = 1 \/ (1 < j /\ j - 1 \in 1..(n - 1) /\ (j - 1) + 1 = j)
      /\ \A i, j \in 1..(n - 1) : i < j <=> i + 1 < j + 1
  BY <1>1
<1> HIDE DEF n, d, h, Entering, Leaving
<1>3. \A j \in 1..n : j = 1 \/ (1 < j /\ j - 1 \in 1..(n - 1) /\ ms[j] = d[j - 1])
  BY <1>1, <1>2
<1>4. Stays(q, ms) <=> ~Leaving(q, h) /\ Stays(q, d)
  BY <1>1, <1>2, <1>3 DEF Stays, n
<1>5. ASSUME Entering(q, h), Stays(q, d) PROVE Enters(q, ms)
  <2>1. \A j \in 1..n : 1 < j => ~Leaving(q, ms[j])
    BY <1>1, <1>3, <1>5 DEF Stays
  <2> QED BY <1>1, <1>2, <1>5, <2>1 DEF Enters, n
<1>6. ASSUME Enters(q, d) PROVE Enters(q, ms)
  <2>1. PICK i \in 1..(n - 1) : Entering(q, d[i]) /\ \A j \in 1..(n - 1) : i < j => ~Leaving(q, d[j])
    BY <1>1, <1>6 DEF Enters
  <2>2. i + 1 \in 1..n /\ Entering(q, ms[i + 1])
    BY <1>1, <1>2, <2>1
  <2>3. \A j \in 1..n : i + 1 < j => ~Leaving(q, ms[j])
    <3> SUFFICES ASSUME NEW j \in 1..n, i + 1 < j PROVE ~Leaving(q, ms[j])
      OBVIOUS
    <3>1. j - 1 \in 1..(n - 1) /\ i < j - 1 /\ ms[j] = d[j - 1]
      BY <1>1, <1>3
    <3> QED BY <2>1, <3>1
  <2> QED BY <2>2, <2>3 DEF Enters, n
<1>7. ASSUME Enters(q, ms), ~Enters(q, d) PROVE Entering(q, h) /\ Stays(q, d)
  <2>1. PICK i \in 1..n : Entering(q, ms[i]) /\ \A j \in 1..n : i < j => ~Leaving(q, ms[j])
    BY <1>7 DEF Enters, n
  <2>2. i = 1
    <3>1. SUFFICES ASSUME i # 1 PROVE FALSE
      OBVIOUS
    <3>2. i - 1 \in 1..(n - 1) /\ Entering(q, d[i - 1])
      BY <1>3, <2>1, <3>1
    <3>3. \A j \in 1..(n - 1) : i - 1 < j => ~Leaving(q, d[j])
      <4> SUFFICES ASSUME NEW j \in 1..(n - 1), i - 1 < j PROVE ~Leaving(q, d[j])
        OBVIOUS
      <4>1. j + 1 \in 1..n /\ i < j + 1 /\ d[j] = ms[j + 1]
        BY <1>1, <1>2
      <4> QED BY <2>1, <4>1
    <3> QED BY <1>1, <1>7, <3>2, <3>3 DEF Enters
  <2>3. \A j \in 1..(n - 1) : ~Leaving(q, d[j])
    BY <1>1, <1>2, <2>1, <2>2
  <2> QED BY <1>1, <2>1, <2>2, <2>3 DEF Stays
<1> QED BY <1>4, <1>5, <1>6, <1>7 DEF d, h

----------------------------------------------------------------------------
(* Connections and what the relay sends to them                            *)

LEMMA ConnIs ==
    ASSUME NEW c \in Conns
    PROVE  c[1] \in Peers /\ c[2] \in 1..MaxConns /\ c = <<c[1], c[2]>>
BY DEF Conns

LEMMA CurrentIs ==
    ASSUME Numbered, NEW p \in Peers, conn[p] # 0
    PROVE  /\ conn[p] \in 1..MaxConns /\ Current(p) \in Conns /\ Current(p) = <<p, conn[p]>>
           /\ Current(p)[1] = p /\ Current(p)[2] = conn[p]
<1>1. MaxConns \in Nat /\ conn[p] \in Nat /\ conn[p] <= opened[p] /\ opened[p] \in Nat /\ opened[p] <= MaxConns
  BY MeshAssumption DEF Numbered
<1>2. conn[p] \in 1..MaxConns
  BY <1>1
<1> QED BY <1>2 DEF Current, Conns

\* The relay has a connection for every program that waits for join_ok: the last it opened.
Seated == \A p \in joining : reg[p] = opened[p] /\ opened[p] # 0 /\ conn[p] # opened[p]
LEMMA SeatIs ==
    ASSUME Numbered, Seated, NEW p \in joining
    PROVE  /\ p \in Peers /\ opened[p] \in 1..MaxConns /\ Seat(p) \in Conns
           /\ Seat(p)[1] = p /\ Seat(p)[2] = opened[p] /\ reg[p] = opened[p] /\ conn[p] # opened[p]
<1>1. p \in Peers /\ MaxConns \in Nat /\ opened[p] \in Nat /\ opened[p] <= MaxConns /\ opened[p] # 0
      /\ reg[p] = opened[p] /\ conn[p] # opened[p]
  BY MeshAssumption DEF Numbered, Seated
<1>2. opened[p] \in 1..MaxConns
  BY <1>1
<1> QED BY <1>1, <1>2 DEF Seat, Conns

LEMMA RelayedIs ==
    ASSUME NEW S, NEW m, NEW c \in Conns
    PROVE  Relayed(S, m)[c] = IF c[1] \in S /\ reg[c[1]] = c[2] THEN Append(wire[c], m) ELSE wire[c]
BY DEF Relayed

\* What is relayed to each of S is something it may get.
Deliverable(S, m, words, sounds) == \A p \in Peers : p \in S => m \in Mail(p, words, sounds)
LEMMA RelayedTypes ==
    ASSUME NEW words, NEW sounds, WireTypes(words, sounds), NEW S, NEW m,
           Deliverable(S, m, words, sounds)
    PROVE  /\ Relayed(S, m) = [c \in Conns |-> Relayed(S, m)[c]]
           /\ \A c \in Conns : Relayed(S, m)[c] \in Letters(c[1], words, sounds)
<1>1. Relayed(S, m) = [c \in Conns |-> Relayed(S, m)[c]]
  BY DEF Relayed
<1>2. ASSUME NEW c \in Conns PROVE Relayed(S, m)[c] \in Letters(c[1], words, sounds)
  <2>1. wire[c] \in Letters(c[1], words, sounds) /\ c[1] \in Peers
    BY ConnIs DEF WireTypes
  <2>2. c[1] \in S => Append(wire[c], m) \in Letters(c[1], words, sounds)
    BY <2>1 DEF Letters, Deliverable
  <2> QED BY <2>1, <2>2, RelayedIs
<1> QED BY <1>1, <1>2

\* The relay writes to no connection that is still to be opened.
LEMMA RelayedUnused ==
    ASSUME Numbered, Unused, NEW S, NEW m, NEW c \in Conns, c[2] > opened[c[1]]
    PROVE  Relayed(S, m)[c] = <<>>
<1>1. c[1] \in Peers /\ c[2] \in Nat
  BY ConnIs
<1>2. reg[c[1]] \in Nat /\ opened[c[1]] \in Nat /\ reg[c[1]] <= opened[c[1]]
  BY <1>1 DEF Numbered
<1>3. reg[c[1]] # c[2]
  BY <1>1, <1>2
<1> QED BY <1>3, RelayedIs DEF Unused

----------------------------------------------------------------------------
(* Types                                                                   *)

LEMMA MeshTypesInit == ASSUME NEW words, NEW sounds, MeshInit PROVE MeshTypes(words, sounds)
<1>1. Numbered
  BY MeshAssumption DEF MeshInit, Numbered
<1>3. WireTypes(words, sounds) /\ Unused
  <2>1. \A c \in Conns : wire[c] = <<>> /\ <<>> \in Letters(c[1], words, sounds)
    BY DEF MeshInit, Letters
  <2>2. wire = [c \in Conns |-> wire[c]]
    BY DEF MeshInit
  <2> QED BY <2>1, <2>2 DEF WireTypes, Unused
<1>4. OutTypes(words, sounds)
  BY DEF MeshInit, OutTypes
<1>5. ChanTypes(words, sounds)
  BY DEF MeshInit, ChanTypes, News, Said, Played
<1> QED BY <1>1, <1>3, <1>4, <1>5 DEF MeshTypes

\* What the peer list and the relay's announcements are.
LEMMA NewsTypes ==
    ASSUME NEW words, NEW sounds, NEW p \in Peers
    PROVE  /\ Msg("list", p, Others(p)) \in Lists(p)
           /\ \A q \in Others(p) : /\ q \in Peers \ {p} /\ Msg("joined", p, {}) \in Mail(q, words, sounds)
                                   /\ Msg("left", p, {}) \in Mail(q, words, sounds)
BY DEF Msg, Lists, Others, Mail, Events

LEMMA JoinsTypes ==
    ASSUME NEW words, NEW sounds, MeshTypes(words, sounds), NEW p \in Peers, Joins(p)
    PROVE  MeshTypes(words, sounds)'
<1>1. opened[p] \in Nat /\ opened[p] < MaxConns /\ MaxConns \in Nat
  BY MeshAssumption DEF Joins, MeshTypes, Numbered
<1>2. Numbered'
  <2>1. Others(p) \in SUBSET Peers
    BY DEF Others
  <2>2. joining' \subseteq Peers /\ listed' \in [Peers -> SUBSET Peers]
    BY <2>1 DEF MeshTypes, Numbered, Joins
  <2>3. UNCHANGED <<conn, dropped>> /\ opened' = [opened EXCEPT ![p] = opened[p] + 1]
        /\ reg' = [reg EXCEPT ![p] = opened[p] + 1]
    BY DEF Joins
  <2> QED BY <1>1, <2>2, <2>3 DEF MeshTypes, Numbered
<1>3. WireTypes(words, sounds)'
  <2>1. Deliverable(Others(p), Msg("joined", p, {}), words, sounds)
    BY NewsTypes DEF Deliverable
  <2>2. wire' = [c \in Conns |-> wire'[c]] /\ \A c \in Conns : wire'[c] \in Letters(c[1], words, sounds)
    BY <2>1, RelayedTypes DEF Joins, MeshTypes
  <2> QED BY <2>2 DEF WireTypes
<1>4. Unused'
  <2> SUFFICES ASSUME NEW c \in Conns, c[2] > opened'[c[1]] PROVE wire'[c] = <<>>
    BY DEF Unused
  <2>1. c[1] \in Peers /\ c[2] \in Nat /\ opened[c[1]] \in Nat
    BY ConnIs DEF MeshTypes, Numbered
  <2>2. opened'[c[1]] \in {opened[c[1]], opened[c[1]] + 1}
    BY <1>1, <2>1 DEF MeshTypes, Numbered, Joins
  <2>3. c[2] > opened[c[1]]
    BY <2>1, <2>2
  <2> QED BY <2>3, RelayedUnused DEF Joins, MeshTypes
<1>5. ChanTypes(words, sounds)' /\ OutTypes(words, sounds)'
  BY DEF MeshTypes, ChanTypes, OutTypes, Joins, chanVars, pollVars
<1> QED BY <1>2, <1>3, <1>4, <1>5 DEF MeshTypes

\* What the relay has sent is of its type, whichever connection is forgotten.
LEMMA ForgottenTypes ==
    ASSUME NEW words, NEW sounds, MeshTypes(words, sounds), UNCHANGED opened,
           NEW e, wire' = [wire EXCEPT ![e] = <<>>]
    PROVE  WireTypes(words, sounds)' /\ Unused'
<1>1. /\ wire' = [c \in Conns |-> wire'[c]]
      /\ \A c \in Conns : wire'[c] = IF c = e THEN <<>> ELSE wire[c]
  BY DEF MeshTypes, WireTypes
<1>2. ASSUME NEW c \in Conns PROVE wire'[c] \in Letters(c[1], words, sounds)
  <2>1. <<>> \in Letters(c[1], words, sounds)
    BY DEF Letters
  <2> QED BY <1>1, <2>1 DEF MeshTypes, WireTypes
<1>3. Unused'
  BY <1>1 DEF MeshTypes, Unused
<1> QED BY <1>1, <1>2, <1>3 DEF WireTypes

LEMMA JoinOverTypes ==
    ASSUME NEW words, NEW sounds, MeshTypes(words, sounds), NEW p \in Peers,
           NEW mesh \in Nat, mesh <= opened[p], NEW first \in News(p), JoinOver(p, mesh, first),
           dropped' \subseteq Conns, known' \in [Peers -> SUBSET Peers],
           WireTypes(words, sounds)', Unused'
    PROVE  MeshTypes(words, sounds)'
<1>1. Numbered'
  <2>1. joining' \subseteq Peers /\ listed' \in [Peers -> SUBSET Peers]
    BY DEF MeshTypes, Numbered, JoinOver
  <2>2. UNCHANGED <<reg, opened>> /\ conn' = [conn EXCEPT ![p] = mesh]
    BY DEF JoinOver
  <2> QED BY <2>1, <2>2 DEF MeshTypes, Numbered
<1>2. ChanTypes(words, sounds)'
  <2>1. <<>> \in Said(p, words) /\ <<>> \in Played(p, sounds)
    BY DEF Said, Played
  <2> QED BY <2>1 DEF MeshTypes, ChanTypes, JoinOver
<1>3. OutTypes(words, sounds)'
  BY DEF MeshTypes, OutTypes, JoinOver
<1> QED BY <1>1, <1>2, <1>3 DEF MeshTypes

LEMMA JoinOkTypes ==
    ASSUME NEW words, NEW sounds, MeshTypes(words, sounds), NEW p \in Peers,
           NEW first \in News(p), JoinOk(p, first),
           dropped' \subseteq Conns, known' \in [Peers -> SUBSET Peers]
    PROVE  MeshTypes(words, sounds)'
<1>1. UNCHANGED opened /\ opened[p] \in Nat /\ opened[p] <= opened[p]
  BY DEF JoinOk, JoinOver, MeshTypes, Numbered
<1>2. JoinOver(p, opened[p], first) /\ wire' = [wire EXCEPT ![Seat(p)] = <<>>]
  BY DEF JoinOk
<1>3. WireTypes(words, sounds)' /\ Unused'
  BY <1>1, <1>2, ForgottenTypes
<1> QED BY <1>1, <1>2, <1>3, JoinOverTypes

LEMMA ConnectTypes ==
    ASSUME NEW words, NEW sounds, MeshTypes(words, sounds), NEW p \in Peers, ConnectFull(p)
    PROVE  MeshTypes(words, sounds)'
<1>1. <<Msg("list", p, listed[p])>> \in News(p)
  <2>1. listed[p] \in SUBSET Peers
    BY DEF MeshTypes, Numbered
  <2> QED BY <2>1 DEF News, Msg, Lists
<1>2. known' \in [Peers -> SUBSET Peers] /\ dropped' \subseteq Conns
  BY DEF ConnectFull, MeshTypes, ChanTypes, Numbered
<1> QED BY <1>1, <1>2, JoinOkTypes DEF ConnectFull

LEMMA ReconnectTypes ==
    ASSUME NEW words, NEW sounds, MeshTypes(words, sounds), NEW p \in Peers, ReconnectSignaling(p)
    PROVE  MeshTypes(words, sounds)'
<1>1. <<>> \in News(p)
  BY DEF News
<1>2. Current(p) \in Conns
  BY CurrentIs DEF ReconnectSignaling, Reconnected, MeshTypes
<1>3. known' \in [Peers -> SUBSET Peers] /\ dropped' \subseteq Conns
  BY <1>2 DEF ReconnectSignaling, Reconnected, MeshTypes, ChanTypes, Numbered
<1> QED BY <1>1, <1>3, JoinOkTypes DEF ReconnectSignaling, Reconnected

LEMMA FailsTypes ==
    ASSUME NEW words, NEW sounds, MeshTypes(words, sounds), Seated, NEW p \in Peers, JoinFails(p)
    PROVE  MeshTypes(words, sounds)'
<1>1. JoinOver(p, 0, <<>>) /\ UNCHANGED <<wire, known, opened>> /\ p \in joining
      /\ dropped' = dropped \cup {Seat(p)} \cup ({Current(p)} \cap Conns)
  BY DEF JoinFails, JoinOver
<1>2. Seat(p) \in Conns
  BY <1>1, SeatIs DEF MeshTypes
<1>3. dropped' \subseteq Conns /\ known' \in [Peers -> SUBSET Peers] /\ WireTypes(words, sounds)' /\ Unused'
  BY <1>1, <1>2 DEF MeshTypes, Numbered, ChanTypes, WireTypes, Unused
<1>4. <<>> \in News(p) /\ 0 \in Nat /\ 0 <= opened[p]
  BY DEF News, MeshTypes, Numbered
<1> QED BY <1>1, <1>3, <1>4, JoinOverTypes

LEMMA DropTypes ==
    ASSUME NEW words, NEW sounds, MeshTypes(words, sounds), NEW p \in Peers, DropMesh(p)
    PROVE  MeshTypes(words, sounds)'
<1>1. Current(p) \in Conns
  BY CurrentIs DEF DropMesh, MeshTypes
<1>2. Numbered'
  BY <1>1 DEF MeshTypes, Numbered, DropMesh
<1>3. ChanTypes(words, sounds)'
  <2>1. <<>> \in News(p) /\ <<>> \in Said(p, words) /\ <<>> \in Played(p, sounds)
    BY DEF News, Said, Played
  <2> QED BY <2>1 DEF MeshTypes, ChanTypes, DropMesh
<1> QED BY <1>2, <1>3 DEF DropMesh, MeshTypes, WireTypes, Unused, OutTypes

LEMMA PolledTypes ==
    ASSUME NEW words, NEW sounds, MeshTypes(words, sounds), NEW p \in Peers, Polled(p), UNCHANGED <<syn, aud>>
    PROVE  ChanTypes(words, sounds)'
<1>1. ctl[p] \in News(p) /\ ctl[p] # <<>>
  BY DEF Polled, MeshTypes, ChanTypes
<1>2. Head(ctl[p]) \in Lists(p) \cup Events(p) /\ Tail(ctl[p]) \in News(p)
  BY <1>1 DEF News
<1>3. \A S \in SUBSET Peers : Present(Head(ctl[p]), S) \in SUBSET Peers
  BY <1>2 DEF Present, Lists, Events
<1>4. known' \in [Peers -> SUBSET Peers]
  BY <1>3 DEF Polled, MeshTypes, ChanTypes
<1> QED BY <1>2, <1>4 DEF Polled, MeshTypes, ChanTypes

----------------------------------------------------------------------------
(* The tasks                                                               *)

LEMMA ForwardedTypes ==
    ASSUME NEW words, NEW sounds, MeshTypes(words, sounds), NEW c \in Conns, NEW S, NEW m,
           \A q \in Peers \ {c[1]} : m \in Mail(q, words, sounds), Forwarded(c, S, m),
           UNCHANGED opened
    PROVE  WireTypes(words, sounds)' /\ Unused'
<1> DEFINE T == S \cap Others(c[1])
<1>1. CASE wire' = Relayed(T, m)
  <2>1. Deliverable(T, m, words, sounds)
    BY DEF Others, Deliverable
  <2> HIDE DEF T
  <2>2. wire' = [d \in Conns |-> wire'[d]] /\ \A d \in Conns : wire'[d] \in Letters(d[1], words, sounds)
    BY <1>1, <2>1, RelayedTypes DEF MeshTypes
  <2>3. Unused'
    BY <1>1, RelayedUnused DEF Unused, MeshTypes
  <2> QED BY <2>2, <2>3 DEF WireTypes
<1>2. CASE UNCHANGED wire
  BY <1>2 DEF MeshTypes, WireTypes, Unused
<1> QED BY <1>1, <1>2 DEF Forwarded

LEMMA WriteEndsTypes ==
    ASSUME NEW words, NEW sounds, MeshTypes(words, sounds), NEW c \in Conns, WriteEnds(c)
    PROVE  MeshTypes(words, sounds)'
<1> DEFINE p == c[1]
           w == IF reg[p] = c[2] THEN Relayed(Others(p), Msg("left", p, {})) ELSE wire
<1>1. p \in Peers /\ c[2] \in 1..MaxConns /\ c = <<p, c[2]>>
  BY ConnIs
<1>2. /\ wire' = [w EXCEPT ![c] = <<>>] /\ UNCHANGED <<conn, opened, joining, listed, ctl, known, syn, aud>>
      /\ reg' = (IF reg[p] = c[2] THEN [reg EXCEPT ![p] = 0] ELSE reg) /\ dropped' \subseteq dropped
      /\ outSync' = [outSync EXCEPT ![c] = <<>>] /\ outAudio' = [outAudio EXCEPT ![c] = <<>>]
  BY DEF WriteEnds, chanVars, pollVars
<1>3. /\ w = [d \in Conns |-> w[d]]
      /\ \A d \in Conns : w[d] \in Letters(d[1], words, sounds)
  <2>1. Deliverable(Others(p), Msg("left", p, {}), words, sounds)
    BY <1>1, NewsTypes DEF Deliverable
  <2>2. CASE reg[p] = c[2]
    BY <2>1, <2>2, RelayedTypes DEF MeshTypes
  <2>3. CASE reg[p] # c[2]
    BY <2>3 DEF MeshTypes, WireTypes
  <2> QED BY <2>2, <2>3
<1>4. \A d \in Conns : d[2] > opened[d[1]] => w[d] = <<>>
  <2>1. CASE reg[p] = c[2]
    BY <2>1, RelayedUnused DEF MeshTypes
  <2>2. CASE reg[p] # c[2]
    BY <2>2 DEF MeshTypes, Unused
  <2> QED BY <2>1, <2>2
<1> HIDE DEF w
<1>5. WireTypes(words, sounds)' /\ Unused'
  <2>1. /\ wire' = [d \in Conns |-> wire'[d]]
        /\ \A d \in Conns : wire'[d] = IF d = c THEN <<>> ELSE w[d]
    BY <1>2, <1>3
  <2>2. ASSUME NEW d \in Conns PROVE wire'[d] \in Letters(d[1], words, sounds)
    <3>1. <<>> \in Letters(d[1], words, sounds)
      BY DEF Letters
    <3> QED BY <1>3, <2>1, <3>1
  <2> QED BY <1>2, <1>4, <2>1, <2>2 DEF WireTypes, Unused
<1>6. Numbered'
  BY <1>1, <1>2 DEF MeshTypes, Numbered
<1>7. OutTypes(words, sounds)'
  BY <1>2 DEF MeshTypes, OutTypes
<1>8. ChanTypes(words, sounds)'
  BY <1>2 DEF MeshTypes, ChanTypes
<1> QED BY <1>5, <1>6, <1>7, <1>8 DEF MeshTypes


\* Taking the first element of a queue.
LEMMA Taken ==
    ASSUME NEW S, NEW s \in Seq(S), s # <<>>
    PROVE  Head(s) \in S /\ Tail(s) \in Seq(S)
OBVIOUS

LEMMA WriteTypes ==
    ASSUME NEW words, NEW sounds, MeshTypes(words, sounds), NEW c \in Conns, WriteSync(c) \/ WriteAudio(c)
    PROVE  MeshTypes(words, sounds)'
<1>1. c[1] \in Peers
  BY ConnIs
<1>2. CASE WriteSync(c)
  <2> DEFINE o == Head(outSync[c])
             m == Msg("sync", c[1], o.what)
  <2>1. /\ outSync[c] # <<>> /\ outSync' = [outSync EXCEPT ![c] = Tail(@)] /\ Forwarded(c, o.to, m)
        /\ UNCHANGED <<reg, conn, opened, dropped, joining, listed, outAudio, ctl, known, syn, aud>>
    BY <1>2 DEF WriteSync, chanVars, pollVars
  <2>2. o \in Orders(words) /\ Tail(outSync[c]) \in Seq(Orders(words))
    BY <2>1, Taken DEF MeshTypes, OutTypes
  <2>3. \A q \in Peers \ {c[1]} : m \in Mail(q, words, sounds)
    BY <1>1, <2>2 DEF Msg, Mail, Syncs, Orders
  <2> HIDE DEF m, o
  <2>4. WireTypes(words, sounds)' /\ Unused'
    BY <2>1, <2>3, ForwardedTypes
  <2>5. OutTypes(words, sounds)'
    BY <2>1, <2>2 DEF MeshTypes, OutTypes
  <2>6. Numbered' /\ ChanTypes(words, sounds)'
    BY <2>1 DEF MeshTypes, Numbered, ChanTypes
  <2> QED BY <2>4, <2>5, <2>6 DEF MeshTypes
<1>3. CASE WriteAudio(c)
  <2> DEFINE o == Head(outAudio[c])
             m == Msg("audio", c[1], o)
  <2>1. /\ outAudio[c] # <<>> /\ outAudio' = [outAudio EXCEPT ![c] = Tail(@)] /\ Forwarded(c, Peers, m)
        /\ UNCHANGED <<reg, conn, opened, dropped, joining, listed, outSync, ctl, known, syn, aud>>
    BY <1>3 DEF WriteAudio, chanVars, pollVars
  <2>2. o \in sounds /\ Tail(outAudio[c]) \in Seq(sounds)
    BY <2>1, Taken DEF MeshTypes, OutTypes
  <2>3. \A q \in Peers \ {c[1]} : m \in Mail(q, words, sounds)
    BY <1>1, <2>2 DEF Msg, Mail, Frames
  <2> HIDE DEF m, o
  <2>4. WireTypes(words, sounds)' /\ Unused'
    BY <2>1, <2>3, ForwardedTypes
  <2>5. OutTypes(words, sounds)'
    BY <2>1, <2>2 DEF MeshTypes, OutTypes
  <2>6. Numbered' /\ ChanTypes(words, sounds)'
    BY <2>1 DEF MeshTypes, Numbered, ChanTypes
  <2> QED BY <2>4, <2>5, <2>6 DEF MeshTypes
<1> QED BY <1>2, <1>3

LEMMA ReadTypes ==
    ASSUME NEW words, NEW sounds, MeshTypes(words, sounds), NEW p \in Peers, Read(p)
    PROVE  MeshTypes(words, sounds)'
<1> DEFINE c == Current(p)
           m == Head(wire[c])
<1>1. /\ wire[c] # <<>> /\ wire' = [wire EXCEPT ![c] = Tail(@)]
      /\ UNCHANGED <<reg, conn, opened, dropped, joining, listed, outSync, outAudio, known>>
      /\ \/ m.kind \in {"joined", "left"} /\ ctl' = [ctl EXCEPT ![p] = Append(@, m)] /\ UNCHANGED <<syn, aud>>
         \/ m.kind = "sync" /\ syn' = [syn EXCEPT ![p] = Append(@, m)] /\ UNCHANGED <<ctl, aud>>
         \/ m.kind = "audio" /\ aud' = [aud EXCEPT ![p] = Append(@, m)] /\ UNCHANGED <<ctl, syn>>
  BY DEF Read
<1>2. c \in Conns /\ c[1] = p
  BY CurrentIs DEF Read, MeshTypes
<1>3. wire[c] \in Letters(p, words, sounds)
  BY <1>2 DEF MeshTypes, WireTypes
<1>4. m \in Mail(p, words, sounds) /\ Tail(wire[c]) \in Letters(p, words, sounds)
  BY <1>1, <1>3, Taken DEF Letters
<1> HIDE DEF c, m
<1>5. WireTypes(words, sounds)'
  BY <1>1, <1>2, <1>4 DEF MeshTypes, WireTypes
<1>6. Unused'
  <2> SUFFICES ASSUME NEW d \in Conns, d[2] > opened[d[1]] PROVE wire'[d] = <<>>
    BY <1>1 DEF Unused
  <2>1. wire[d] = <<>>
    BY DEF MeshTypes, Unused
  <2> QED BY <1>1, <2>1 DEF MeshTypes, WireTypes
<1>7. ChanTypes(words, sounds)'
  <2>1. CASE m.kind \in {"joined", "left"} /\ ctl' = [ctl EXCEPT ![p] = Append(@, m)] /\ UNCHANGED <<syn, aud>>
    <3>1. m \in Events(p)
      BY <1>4, <2>1 DEF Mail, Syncs, Frames
    <3>2. ctl[p] \in News(p)
      BY DEF MeshTypes, ChanTypes
    <3>3. Append(ctl[p], m) \in News(p)
      BY <3>1, <3>2 DEF News
    <3> QED BY <1>1, <2>1, <3>3 DEF MeshTypes, ChanTypes
  <2>2. CASE m.kind = "sync" /\ syn' = [syn EXCEPT ![p] = Append(@, m)] /\ UNCHANGED <<ctl, aud>>
    <3>1. m \in Syncs(p, words)
      BY <1>4, <2>2 DEF Mail, Events, Frames
    <3>2. syn[p] \in Said(p, words)
      BY DEF MeshTypes, ChanTypes
    <3>3. Append(syn[p], m) \in Said(p, words)
      BY <3>1, <3>2 DEF Said
    <3> QED BY <1>1, <2>2, <3>3 DEF MeshTypes, ChanTypes
  <2>3. CASE m.kind = "audio" /\ aud' = [aud EXCEPT ![p] = Append(@, m)] /\ UNCHANGED <<ctl, syn>>
    <3>1. m \in Frames(p, sounds)
      BY <1>4, <2>3 DEF Mail, Events, Syncs
    <3>2. aud[p] \in Played(p, sounds)
      BY DEF MeshTypes, ChanTypes
    <3>3. Append(aud[p], m) \in Played(p, sounds)
      BY <3>1, <3>2 DEF Played
    <3> QED BY <1>1, <2>3, <3>3 DEF MeshTypes, ChanTypes
  <2> QED BY <1>1, <2>1, <2>2, <2>3
<1> QED BY <1>1, <1>5, <1>6, <1>7 DEF MeshTypes, Numbered, OutTypes

LEMMA TaskTypes ==
    ASSUME NEW words, NEW sounds, MeshTypes(words, sounds), Tasks
    PROVE  MeshTypes(words, sounds)'
BY WriteTypes, WriteEndsTypes, ReadTypes DEF Tasks

\* What a program queues.
LEMMA QueuedTypes ==
    ASSUME NEW words, NEW sounds, MeshTypes(words, sounds), NEW p \in Peers, NEW bodies \in Seq(Orders(words)),
           Queued(p, bodies)
    PROVE  outSync' \in [Conns -> Seq(Orders(words))]
<1>1. \A s \in Seq(Orders(words)) : s \o bodies \in Seq(Orders(words))
  <2> DEFINE S == Orders(words)
  <2> HIDE DEF S
  <2>1. \A s \in Seq(S) : bodies \in Seq(S) => s \o bodies \in Seq(S)
    OBVIOUS
  <2> QED BY <2>1 DEF S
<1> QED BY <1>1 DEF Queued, MeshTypes, OutTypes

LEMMA QueuedAudioTypes ==
    ASSUME NEW words, NEW sounds, MeshTypes(words, sounds), NEW p \in Peers, NEW fs \in Seq(sounds),
           QueuedAudio(p, fs)
    PROVE  outAudio' \in [Conns -> Seq(sounds)]
<1> DEFINE Room(s) == IF Len(s) + Len(fs) > AudioOut THEN AudioOut ELSE Len(s) + Len(fs)
<1>1. ASSUME NEW s \in Seq(sounds) PROVE SubSeq(s \o fs, 1, Room(s)) \in Seq(sounds)
  <2>1. s \o fs \in Seq(sounds) /\ Len(s \o fs) = Len(s) + Len(fs) /\ Len(s) \in Nat /\ Len(fs) \in Nat
    OBVIOUS
  <2>2. Room(s) \in 0..Len(s \o fs)
    BY <2>1, MeshAssumption
  <2> HIDE DEF Room
  <2>3. \A k \in 1..Room(s) : k \in 1..Len(s \o fs)
    BY <2>1, <2>2
  <2> QED BY <2>1, <2>2, <2>3, SubSeqProperties
<1> QED BY <1>1 DEF QueuedAudio, MeshTypes, OutTypes


----------------------------------------------------------------------------
(* The relay's seats and the connections that were dropped                 *)

\* A connection that was dropped is nobody's own again, and nobody waits on it.
Gone == \A c \in dropped :
    conn[c[1]] # c[2] /\ c[2] <= opened[c[1]] /\ (c[1] \in joining => c[2] # opened[c[1]])
Seats == Seated /\ Gone

LEMMA SeatsInit == MeshInit => Seats
BY DEF MeshInit, Seats, Seated, Gone

LEMMA SeatsJoins ==
    ASSUME NEW words, NEW sounds, MeshTypes(words, sounds), Seats, NEW p \in Peers, Joins(p)
    PROVE  Seats'
<1>1. /\ {conn, opened} \subseteq [Peers -> Nat] /\ \A c \in dropped : c \in Conns
      /\ joining \subseteq Peers /\ conn[p] <= opened[p] /\ reg \in [Peers -> Nat]
  BY DEF MeshTypes, Numbered
<1>2. /\ p \notin joining /\ joining' = joining \cup {p} /\ UNCHANGED <<conn, dropped>>
      /\ opened'[p] = opened[p] + 1 /\ reg'[p] = opened[p] + 1
      /\ \A q \in Peers \ {p} : opened'[q] = opened[q] /\ reg'[q] = reg[q]
  BY <1>1 DEF Joins
<1>3. Gone'
  <2> SUFFICES ASSUME NEW c \in dropped
               PROVE  conn[c[1]] # c[2] /\ c[2] <= opened'[c[1]] /\ (c[1] \in joining' => c[2] # opened'[c[1]])
    BY <1>2 DEF Gone
  <2>1. /\ c[1] \in Peers /\ c[2] \in Nat /\ conn[c[1]] # c[2] /\ c[2] <= opened[c[1]]
        /\ c[1] \in joining => c[2] # opened[c[1]]
    BY <1>1, ConnIs DEF Seats, Gone
  <2>2. CASE c[1] = p
    BY <1>1, <1>2, <2>1, <2>2
  <2>3. CASE c[1] # p
    BY <1>1, <1>2, <2>1, <2>3
  <2> QED BY <2>2, <2>3
<1>4. Seated'
  <2> SUFFICES ASSUME NEW q \in joining' PROVE reg'[q] = opened'[q] /\ opened'[q] # 0 /\ conn[q] # opened'[q]
    BY <1>2 DEF Seated
  <2>1. CASE q = p
    BY <1>1, <1>2, <2>1
  <2>2. CASE q # p
    BY <1>1, <1>2, <2>2 DEF Seats, Seated
  <2> QED BY <2>1, <2>2
<1> QED BY <1>3, <1>4 DEF Seats

\* A join that is over leaves dropped connections that are none of the peer's own now.
LEMMA SeatsOver ==
    ASSUME NEW words, NEW sounds, MeshTypes(words, sounds), Seats, NEW p \in Peers, NEW mesh, NEW first,
           JoinOver(p, mesh, first), mesh \in {0, opened[p]},
           \A c \in dropped' \ dropped : c[1] = p /\ c[2] \in 1..opened[p] /\ c[2] # mesh
    PROVE  Seats'
<1>1. /\ p \in joining /\ joining' = joining \ {p} /\ UNCHANGED <<reg, opened>> /\ conn'[p] = mesh
      /\ \A q \in Peers \ {p} : conn'[q] = conn[q]
  BY DEF JoinOver, MeshTypes, Numbered
<1>2. Seated'
  BY <1>1 DEF Seats, Seated, MeshTypes, Numbered
<1>3. Gone'
  <2> SUFFICES ASSUME NEW c \in dropped'
               PROVE  conn'[c[1]] # c[2] /\ c[2] <= opened[c[1]] /\ (c[1] \in joining' => c[2] # opened[c[1]])
    BY <1>1 DEF Gone
  <2>1. CASE c \in dropped
    <3>1. /\ c[1] \in Peers /\ c[2] \in 1..MaxConns /\ conn[c[1]] # c[2] /\ c[2] <= opened[c[1]]
          /\ c[1] \in joining => c[2] # opened[c[1]]
      BY <2>1, ConnIs DEF Seats, Gone, MeshTypes, Numbered
    <3>2. CASE c[1] = p
      BY <1>1, <3>1, <3>2
    <3>3. CASE c[1] # p
      BY <1>1, <3>1, <3>3
    <3> QED BY <3>2, <3>3
  <2>2. CASE c \notin dropped
    <3>1. c[1] = p /\ c[2] \in 1..opened[p] /\ c[2] # mesh /\ opened[p] \in Nat
      BY <2>2 DEF MeshTypes, Numbered
    <3> QED BY <1>1, <3>1
  <2> QED BY <2>1, <2>2
<1> QED BY <1>2, <1>3 DEF Seats

LEMMA SeatsConnect ==
    ASSUME NEW words, NEW sounds, MeshTypes(words, sounds), Seats, NEW p \in Peers, ConnectFull(p)
    PROVE  Seats'
BY SeatsOver DEF ConnectFull, JoinOk

LEMMA SeatsReconnect ==
    ASSUME NEW words, NEW sounds, MeshTypes(words, sounds), Seats, NEW p \in Peers, ReconnectSignaling(p)
    PROVE  Seats'
<1>1. /\ JoinOver(p, opened[p], <<>>) /\ conn[p] # 0 /\ dropped' = dropped \cup {Current(p)} /\ p \in joining
  BY DEF ReconnectSignaling, Reconnected, JoinOk, JoinOver
<1>2. Current(p)[1] = p /\ Current(p)[2] = conn[p] /\ conn[p] \in 1..opened[p] /\ conn[p] # opened[p]
  BY <1>1 DEF Current, MeshTypes, Numbered, Seats, Seated
<1> QED BY <1>1, <1>2, SeatsOver

LEMMA SeatsFails ==
    ASSUME NEW words, NEW sounds, MeshTypes(words, sounds), Seats, NEW p \in Peers, JoinFails(p)
    PROVE  Seats'
<1>1. /\ JoinOver(p, 0, <<>>) /\ dropped' = dropped \cup {Seat(p)} \cup ({Current(p)} \cap Conns) /\ p \in joining
  BY DEF JoinFails, JoinOver
<1>2. Seat(p)[1] = p /\ Seat(p)[2] = opened[p] /\ opened[p] \in 1..opened[p] /\ opened[p] # 0
  BY <1>1 DEF Seat, MeshTypes, Numbered, Seats, Seated
<1>3. Current(p) \in Conns => Current(p)[1] = p /\ Current(p)[2] \in 1..opened[p] /\ Current(p)[2] # 0
  <2>1. Current(p)[1] = p /\ Current(p)[2] = conn[p]
    BY DEF Current
  <2>2. conn[p] \in Nat /\ conn[p] <= opened[p] /\ opened[p] \in Nat
    BY DEF MeshTypes, Numbered
  <2>3. Current(p) \in Conns => conn[p] \in 1..MaxConns
    BY <2>1, ConnIs
  <2> QED BY <2>1, <2>2, <2>3
<1> QED BY <1>1, <1>2, <1>3, SeatsOver

LEMMA SeatsDrop ==
    ASSUME NEW words, NEW sounds, MeshTypes(words, sounds), Seats, NEW p \in Peers, DropMesh(p)
    PROVE  Seats'
<1>1. {conn, opened} \subseteq [Peers -> Nat] /\ \A c \in dropped : c \in Conns
  BY DEF MeshTypes, Numbered
<1>2. /\ conn[p] # 0 /\ conn'[p] = 0 /\ UNCHANGED <<opened, reg, joining>> /\ dropped' = dropped \cup {Current(p)}
      /\ \A q \in Peers \ {p} : conn'[q] = conn[q]
  BY <1>1 DEF DropMesh
<1>3. Current(p)[1] = p /\ Current(p)[2] = conn[p] /\ conn[p] <= opened[p] /\ (p \in joining => conn[p] # opened[p])
  BY <1>2, CurrentIs DEF MeshTypes, Numbered, Seats, Seated
<1>4. Gone'
  <2> SUFFICES ASSUME NEW c \in dropped'
               PROVE  conn'[c[1]] # c[2] /\ c[2] <= opened[c[1]] /\ (c[1] \in joining => c[2] # opened[c[1]])
    BY <1>2 DEF Gone
  <2>1. CASE c = Current(p)
    BY <1>2, <1>3, <2>1
  <2>2. CASE c \in dropped
    <3>1. /\ c[1] \in Peers /\ c[2] \in 1..MaxConns /\ conn[c[1]] # c[2] /\ c[2] <= opened[c[1]]
          /\ c[1] \in joining => c[2] # opened[c[1]]
      BY <1>1, <2>2, ConnIs DEF Seats, Gone
    <3> QED BY <1>2, <3>1
  <2> QED BY <1>2, <2>1, <2>2
<1>5. Seated'
  <2>1. \A q \in joining : q \in Peers /\ reg[q] = opened[q] /\ opened[q] # 0 /\ conn[q] # opened[q]
    BY DEF MeshTypes, Numbered, Seats, Seated
  <2> QED BY <1>2, <2>1 DEF Seated
<1> QED BY <1>4, <1>5 DEF Seats

LEMMA SeatsSame ==
    ASSUME Seats, UNCHANGED <<reg, conn, opened, joining>>, dropped' \subseteq dropped
    PROVE  Seats'
BY DEF Seats, Seated, Gone

\* A connection that the relay had for somebody, but not for one that waits for join_ok.
LEMMA SeatsVacated ==
    ASSUME NEW words, NEW sounds, MeshTypes(words, sounds), Seats, NEW p \in Peers, p \notin joining,
           reg' = [reg EXCEPT ![p] = 0], UNCHANGED <<conn, opened, joining>>, dropped' \subseteq dropped
    PROVE  Seats'
<1>1. \A q \in joining : q \in Peers /\ reg'[q] = reg[q]
  BY DEF MeshTypes, Numbered
<1> QED BY <1>1 DEF Seats, Seated, Gone

LEMMA SeatsTask ==
    ASSUME NEW words, NEW sounds, MeshTypes(words, sounds), Seats, Tasks
    PROVE  Seats' /\ UNCHANGED <<conn, opened, joining, listed>>
<1>1. UNCHANGED <<conn, opened, joining, listed>> /\ dropped' \subseteq dropped
  BY DEF Tasks, WriteSync, WriteAudio, WriteEnds, Read
<1>2. ASSUME NEW c \in Conns, WriteEnds(c), reg[c[1]] = c[2] PROVE Seats'
  <2>1. c[1] \notin joining /\ c[1] \in Peers
    BY <1>2, ConnIs DEF WriteEnds, Seats, Seated, Gone
  <2>2. reg' = [reg EXCEPT ![c[1]] = 0]
    BY <1>2 DEF WriteEnds
  <2> QED BY <1>1, <2>1, <2>2, SeatsVacated
<1>3. CASE UNCHANGED reg
  BY <1>1, <1>3, SeatsSame
<1>4. UNCHANGED reg \/ \E c \in Conns : WriteEnds(c) /\ reg[c[1]] = c[2]
  BY DEF Tasks, WriteSync, WriteAudio, WriteEnds, Read
<1> QED BY <1>1, <1>2, <1>3, <1>4

----------------------------------------------------------------------------
(* Presence                                                                *)

(***************************************************************************)
(* A member is in the room by the connection its mesh has.  It foresees q  *)
(* if q will be in its presence set once it has taken what the relay has   *)
(* sent it, and what its read task has passed on before that.              *)
(***************************************************************************)
Member(p) == conn[p] # 0 /\ reg[p] = conn[p]
Awaits(p, q)   == Enters(q, ctl[p]) \/ (Stays(q, ctl[p]) /\ q \in known[p])
Foreseen(p, q) == Enters(q, wire[Current(p)]) \/ (Stays(q, wire[Current(p)]) /\ Awaits(p, q))

\* What a program that waits for join_ok will know, if nothing overtakes that: the list that
\* is about to come, corrected by what the relay has sent meanwhile.
Destined(p, q) == Enters(q, wire[Seat(p)]) \/ (Stays(q, wire[Seat(p)]) /\ q \in listed[p])
JoinInv     == \A p \in joining : \A q \in Peers : q \in Others(p) <=> Destined(p, q)

ExactInv    == \A p \in Peers : Member(p) => \A q \in Peers : q \in Others(p) <=> Foreseen(p, q)
CompleteInv == \A p \in Peers : Member(p) => \A q \in Peers : q \in Others(p) => Foreseen(p, q)

LEMMA ExactGives ==
    ASSUME NEW words, NEW sounds, MeshTypes(words, sounds)
    PROVE  (ExactInv => PresenceExact) /\ (CompleteInv => PresenceComplete)
<1>1. ASSUME NEW p \in Peers, Heard(p)
      PROVE  Member(p) /\ \A q \in Peers : Foreseen(p, q) <=> q \in known[p]
  BY <1>1, NothingSaid DEF Heard, Member, Foreseen, Awaits
<1>2. \A p \in Peers : known[p] \subseteq Peers /\ Others(p) \subseteq Peers
  BY DEF MeshTypes, ChanTypes, Others
<1>3. ExactInv => PresenceExact
  BY <1>1, <1>2 DEF ExactInv, PresenceExact
<1>4. CompleteInv => PresenceComplete
  BY <1>1, <1>2 DEF CompleteInv, PresenceComplete
<1> QED BY <1>3, <1>4

LEMMA ExactInit == MeshInit => ExactInv /\ CompleteInv /\ JoinInv
BY DEF MeshInit, ExactInv, CompleteInv, JoinInv, Member

PresenceKept == JoinInv => JoinInv' /\ (ExactInv => ExactInv') /\ (CompleteInv => CompleteInv')

\* e is the connection that the relay has for r.
Sits(r, e) == e \in Conns /\ e[1] = r /\ reg[r] = e[2]
LEMMA MemberSits ==
    ASSUME NEW words, NEW sounds, MeshTypes(words, sounds), NEW r \in Peers, Member(r)
    PROVE  Sits(r, Current(r))
BY CurrentIs DEF MeshTypes, Member, Sits

LEMMA JoinerSits ==
    ASSUME NEW words, NEW sounds, MeshTypes(words, sounds), Seated, NEW r \in joining
    PROVE  Sits(r, Seat(r))
BY SeatIs DEF MeshTypes, Sits

\* A mesh for which nothing changes.
LEMMA SameForeseen ==
    ASSUME NEW p \in Peers, conn'[p] = conn[p], wire'[Current(p)] = wire[Current(p)],
           ctl'[p] = ctl[p], known'[p] = known[p], NEW q
    PROVE  Foreseen(p, q)' <=> Foreseen(p, q)
<1>1. Current(p)' = Current(p)
  BY DEF Current
<1> QED BY <1>1 DEF Foreseen, Awaits

LEMMA SameDestined ==
    ASSUME NEW p \in Peers, opened'[p] = opened[p], wire'[Seat(p)] = wire[Seat(p)],
           listed'[p] = listed[p], NEW q
    PROVE  Destined(p, q)' <=> Destined(p, q)
<1>1. Seat(p)' = Seat(p)
  BY DEF Seat
<1> QED BY <1>1 DEF Destined

\* A newcomer is announced on every connection that the relay has for somebody else.
LEMMA SaidJoined ==
    ASSUME NEW words, NEW sounds, MeshTypes(words, sounds), NEW p \in Peers, NEW r \in Peers, r # p,
           NEW e, Sits(r, e), wire' = Relayed(Others(p), Msg("joined", p, {})), NEW q
    PROVE  /\ Enters(q, wire'[e]) <=> q = p \/ Enters(q, wire[e])
           /\ Stays(q, wire'[e]) <=> Stays(q, wire[e])
<1> DEFINE m == Msg("joined", p, {})
<1>m. (Entering(q, m) <=> q = p) /\ ~Leaving(q, m)
  BY DEF Entering, Leaving, Msg
<1>w. wire' = Relayed(Others(p), m)
  OBVIOUS
<1> HIDE DEF m
<1>1. PICK c \in Conns : c = e
  BY DEF Sits
<1>2. c[1] \in Others(p) /\ reg[c[1]] = c[2]
  BY <1>1, ConnIs DEF Sits, Others
<1>3. wire'[e] = Append(wire[e], m)
  <2> DEFINE X == Others(p)
  <2>1. c[1] \in X /\ reg[c[1]] = c[2] /\ wire' = Relayed(X, m)
    BY <1>2, <1>w
  <2> HIDE DEF X
  <2>2. Relayed(X, m)[c] = Append(wire[c], m)
    BY <2>1, RelayedIs
  <2> QED BY <1>1, <2>1, <2>2
<1>4. wire[e] \in Seq(Mail(r, words, sounds))
  BY <1>1 DEF MeshTypes, WireTypes, Letters, Sits
<1>5. /\ Enters(q, Append(wire[e], m)) <=> Entering(q, m) \/ (Enters(q, wire[e]) /\ ~Leaving(q, m))
      /\ Stays(q, Append(wire[e], m)) <=> Stays(q, wire[e]) /\ ~Leaving(q, m)
  BY <1>4, SaidAppended
<1> QED BY <1>m, <1>3, <1>5

LEMMA JoinsDoes ==
    ASSUME NEW words, NEW sounds, MeshTypes(words, sounds), NEW p \in Peers, Joins(p)
    PROVE  /\ p \notin joining /\ joining' = joining \cup {p}
           /\ opened'[p] = opened[p] + 1 /\ reg'[p] = opened[p] + 1 /\ reg'[p] # conn'[p] /\ reg'[p] # 0
           /\ listed'[p] = Others(p) /\ <<p, opened[p] + 1>> \in Conns
           /\ wire' = Relayed(Others(p), Msg("joined", p, {}))
           /\ \A r \in Peers \ {p} : opened'[r] = opened[r] /\ reg'[r] = reg[r] /\ listed'[r] = listed[r]
           /\ UNCHANGED <<conn, dropped, outSync, outAudio, ctl, known, syn, aud>>
<1>1. /\ opened[p] \in Nat /\ opened[p] < MaxConns /\ MaxConns \in Nat
      /\ conn[p] \in Nat /\ conn[p] <= opened[p]
  BY MeshAssumption DEF Joins, MeshTypes, Numbered
<1>2. opened[p] + 1 \in 1..MaxConns /\ conn[p] # opened[p] + 1 /\ opened[p] + 1 # 0
  BY <1>1
<1>3. <<p, opened[p] + 1>> \in Conns
  BY <1>2 DEF Conns
<1> QED BY <1>2, <1>3 DEF Joins, MeshTypes, Numbered, chanVars, pollVars

LEMMA JoinsExact ==
    ASSUME NEW words, NEW sounds, MeshTypes(words, sounds), Seated, NEW p \in Peers, Joins(p)
    PROVE  PresenceKept
<1>1. /\ p \notin joining /\ joining' = joining \cup {p}
      /\ opened'[p] = opened[p] + 1 /\ reg'[p] = opened[p] + 1 /\ reg'[p] # conn'[p] /\ reg'[p] # 0
      /\ listed'[p] = Others(p) /\ <<p, opened[p] + 1>> \in Conns
      /\ wire' = Relayed(Others(p), Msg("joined", p, {}))
      /\ \A r \in Peers \ {p} : opened'[r] = opened[r] /\ reg'[r] = reg[r] /\ listed'[r] = listed[r]
      /\ UNCHANGED <<conn, dropped, outSync, outAudio, ctl, known, syn, aud>>
  BY JoinsDoes
<1>2. \A r \in Peers : r # p => \A q \in Peers : q \in Others(r)' <=> q = p \/ q \in Others(r)
  BY <1>1 DEF Others
<1>3. ASSUME NEW r \in Peers, Member(r)'
      PROVE  /\ r # p /\ Member(r)
             /\ \A q \in Peers : Foreseen(r, q)' <=> q = p \/ Foreseen(r, q)
  <2>1. r # p /\ Member(r) /\ Current(r)' = Current(r)
    BY <1>1, <1>3 DEF Member, Current
  <2>2. ASSUME NEW q \in Peers PROVE Foreseen(r, q)' <=> q = p \/ Foreseen(r, q)
    <3>1. /\ Enters(q, wire'[Current(r)]) <=> q = p \/ Enters(q, wire[Current(r)])
          /\ Stays(q, wire'[Current(r)]) <=> Stays(q, wire[Current(r)])
      BY <1>1, <2>1, MemberSits, SaidJoined
    <3>2. Awaits(r, q)' <=> Awaits(r, q)
      BY <1>1 DEF Awaits
    <3> QED BY <2>1, <3>1, <3>2 DEF Foreseen
  <2> QED BY <2>1, <2>2
<1>4. ASSUME NEW r \in joining
      PROVE  r \in Peers /\ r # p /\ \A q \in Peers : Destined(r, q)' <=> q = p \/ Destined(r, q)
  <2>1. r \in Peers /\ r # p /\ Seat(r)' = Seat(r)
    BY <1>1 DEF Seat, MeshTypes, Numbered
  <2>2. ASSUME NEW q \in Peers PROVE Destined(r, q)' <=> q = p \/ Destined(r, q)
    <3>1. /\ Enters(q, wire'[Seat(r)]) <=> q = p \/ Enters(q, wire[Seat(r)])
          /\ Stays(q, wire'[Seat(r)]) <=> Stays(q, wire[Seat(r)])
      BY <1>1, <2>1, JoinerSits, SaidJoined
    <3> QED BY <1>1, <2>1, <3>1 DEF Destined
  <2> QED BY <2>1, <2>2
<1>5. ASSUME NEW q \in Peers PROVE q \in Others(p)' <=> Destined(p, q)'
  <2>1. q \in Others(p)' <=> q \in Others(p)
    BY <1>1 DEF Others
  <2> DEFINE c == <<p, opened[p] + 1>>
  <2>2. c \in Conns /\ c[1] = p /\ c[2] = opened[p] + 1 /\ Seat(p)' = c
    BY <1>1 DEF Seat
  <2>3. wire'[c] = <<>>
    <3>1. c[2] > opened[c[1]]
      BY <2>2 DEF MeshTypes, Numbered
    <3> QED BY <1>1, <2>2, <3>1, RelayedUnused DEF MeshTypes
  <2> HIDE DEF c
  <2> QED BY <1>1, <2>1, <2>2, <2>3, NothingSaid DEF Destined
<1>6. JoinInv => JoinInv'
  BY <1>1, <1>2, <1>4, <1>5 DEF JoinInv
<1>7. (ExactInv => ExactInv') /\ (CompleteInv => CompleteInv')
  BY <1>2, <1>3 DEF ExactInv, CompleteInv
<1> QED BY <1>6, <1>7 DEF PresenceKept

----------------------------------------------------------------------------
(* The end of a join                                                       *)

LEMMA JoinOverDoes ==
    ASSUME NEW words, NEW sounds, MeshTypes(words, sounds), NEW p \in Peers, NEW mesh, NEW first,
           JoinOver(p, mesh, first)
    PROVE  /\ p \in joining /\ joining' = joining \ {p} /\ conn'[p] = mesh /\ ctl'[p] = first
           /\ \A r \in Peers \ {p} : conn'[r] = conn[r] /\ ctl'[r] = ctl[r] /\ syn'[r] = syn[r] /\ listed'[r] = listed[r]
           /\ UNCHANGED <<reg, opened, outSync, outAudio>>
BY DEF JoinOver, MeshTypes, Numbered, ChanTypes

LEMMA JoinOkDoes ==
    ASSUME NEW words, NEW sounds, MeshTypes(words, sounds), NEW p \in Peers, NEW first, JoinOk(p, first)
    PROVE  /\ JoinOver(p, opened[p], first) /\ ~Overtaken(p)
           /\ \A e \in Conns : e # Seat(p) => wire'[e] = wire[e]
           /\ Seat(p) \in Conns => wire'[Seat(p)] = <<>>
BY DEF JoinOk, MeshTypes, WireTypes

\* Without a text message on the wire nothing is said of anybody.
LEMMA NotOvertaken ==
    ASSUME NEW p, ~Overtaken(p), NEW q
    PROVE  ~Enters(q, wire[Seat(p)]) /\ Stays(q, wire[Seat(p)])
<1>1. \A i \in 1..Len(wire[Seat(p)]) : wire[Seat(p)][i].kind = "audio"
  BY DEF Overtaken
<1> QED BY <1>1 DEF Enters, Stays, Entering, Leaving

\* Whoever does not end its join sees nothing of another's end.
LEMMA OverForeseen ==
    ASSUME NEW words, NEW sounds, MeshTypes(words, sounds), Seated, NEW p \in Peers, NEW mesh, NEW first,
           JoinOver(p, mesh, first), \A r \in Peers \ {p} : known'[r] = known[r],
           \A e \in Conns : e # Seat(p) => wire'[e] = wire[e]
    PROVE  /\ \A r \in Peers : Others(r)' = Others(r)
           /\ \A r \in Peers : r # p /\ Member(r)' => Member(r) /\ \A q \in Peers : Foreseen(r, q)' <=> Foreseen(r, q)
           /\ JoinInv => JoinInv'
<1>1. /\ p \in joining /\ joining' = joining \ {p} /\ conn'[p] = mesh /\ ctl'[p] = first
      /\ \A r \in Peers \ {p} : conn'[r] = conn[r] /\ ctl'[r] = ctl[r] /\ syn'[r] = syn[r] /\ listed'[r] = listed[r]
      /\ UNCHANGED <<reg, opened, outSync, outAudio>>
  BY JoinOverDoes
<1>2. \A r \in Peers : Others(r)' = Others(r)
  BY <1>1 DEF Others
<1>s. Seat(p)[1] = p
  BY DEF Seat
<1>3. ASSUME NEW r \in Peers, r # p, Member(r)'
      PROVE  Member(r) /\ \A q \in Peers : Foreseen(r, q)' <=> Foreseen(r, q)
  <2>1. Member(r)
    BY <1>1, <1>3 DEF Member
  <2>2. Current(r) \in Conns /\ Current(r) # Seat(p)
    BY <1>s, <1>3, <2>1, MemberSits DEF Sits
  <2> QED BY <1>1, <1>3, <2>1, <2>2, SameForeseen
<1>4. ASSUME NEW r \in joining', NEW q \in Peers PROVE r \in joining /\ r \in Peers /\ (Destined(r, q)' <=> Destined(r, q))
  <2>1. r \in joining /\ r # p /\ r \in Peers
    BY <1>1 DEF MeshTypes, Numbered
  <2>2. Seat(r) \in Conns /\ Seat(r) # Seat(p)
    BY <1>s, <2>1, JoinerSits DEF Sits
  <2> QED BY <1>1, <2>1, <2>2, SameDestined
<1>5. JoinInv => JoinInv'
  BY <1>2, <1>4 DEF JoinInv
<1> QED BY <1>2, <1>3, <1>5

\* What the mesh of a completed join foresees is what its channel holds.
LEMMA JoinOkForeseen ==
    ASSUME NEW words, NEW sounds, MeshTypes(words, sounds), Seated, NEW p \in Peers, NEW first, JoinOk(p, first),
           JoinInv, NEW q \in Peers
    PROVE  /\ q \in Others(p)' <=> q \in listed[p]
           /\ Foreseen(p, q)' <=> Enters(q, first) \/ (Stays(q, first) /\ q \in known'[p])
<1>1. /\ p \in joining /\ conn'[p] = opened[p] /\ ctl'[p] = first /\ UNCHANGED reg
      /\ Seat(p) \in Conns => wire'[Seat(p)] = <<>>
  BY JoinOkDoes, JoinOverDoes
<1>2. Seat(p) \in Conns /\ Current(p)' = Seat(p)
  BY <1>1, JoinerSits DEF Sits, Current, Seat
<1>3. q \in Others(p)' <=> q \in Others(p)
  BY <1>1 DEF Others
<1>4. Destined(p, q) <=> q \in listed[p]
  BY JoinOkDoes, NotOvertaken DEF Destined
<1>5. q \in Others(p)' <=> q \in listed[p]
  BY <1>1, <1>3, <1>4 DEF JoinInv
<1>6. Awaits(p, q)' <=> Enters(q, first) \/ (Stays(q, first) /\ q \in known'[p])
  BY <1>1 DEF Awaits
<1>7. wire'[Current(p)'] = <<>>
  BY <1>1, <1>2
<1>8. ~Enters(q, <<>>) /\ Stays(q, <<>>)
  BY NothingSaid
<1>9. Foreseen(p, q)' <=> Awaits(p, q)'
  BY <1>7, <1>8 DEF Foreseen
<1> QED BY <1>5, <1>6, <1>9

LEMMA ConnectExact ==
    ASSUME NEW words, NEW sounds, MeshTypes(words, sounds), Seated, NEW p \in Peers, ConnectFull(p)
    PROVE  PresenceKept
<1> SUFFICES ASSUME JoinInv PROVE JoinInv' /\ (ExactInv => ExactInv') /\ (CompleteInv => CompleteInv')
  BY DEF PresenceKept
<1> DEFINE m == Msg("list", p, listed[p])
           first == <<m>>
<1>1. JoinOk(p, first) /\ known' = [known EXCEPT ![p] = {}]
  BY DEF ConnectFull
<1>2. known'[p] = {} /\ \A r \in Peers \ {p} : known'[r] = known[r]
  BY <1>1 DEF MeshTypes, ChanTypes
<1>3. \A q : (Entering(q, m) <=> q \in listed[p]) /\ ~Leaving(q, m)
  BY DEF Entering, Leaving, Msg
<1> HIDE DEF m
<1>4. \A q : (Enters(q, first) <=> q \in listed[p])
  BY <1>3, OneSaid
<1> HIDE DEF first
<1>5. \A q \in Peers : q \in Others(p)' <=> Foreseen(p, q)'
  BY <1>1, <1>2, <1>4, JoinOkForeseen
<1>6. /\ JoinOver(p, opened[p], first) /\ \A e \in Conns : e # Seat(p) => wire'[e] = wire[e]
  BY <1>1, JoinOkDoes
<1>7. /\ \A r \in Peers : Others(r)' = Others(r)
      /\ \A r \in Peers : r # p /\ Member(r)' => Member(r) /\ \A q \in Peers : Foreseen(r, q)' <=> Foreseen(r, q)
      /\ JoinInv'
  BY <1>2, <1>6, OverForeseen
<1> QED BY <1>5, <1>7 DEF ExactInv, CompleteInv

LEMMA ReconnectComplete ==
    ASSUME NEW words, NEW sounds, MeshTypes(words, sounds), Seated, NEW p \in Peers, ReconnectSignaling(p), JoinInv
    PROVE  JoinInv' /\ (CompleteInv => CompleteInv')
<1>1. JoinOk(p, <<>>) /\ known' = [known EXCEPT ![p] = known[p] \cup listed[p]]
  BY DEF ReconnectSignaling, Reconnected
<1>2. known'[p] = known[p] \cup listed[p] /\ \A r \in Peers \ {p} : known'[r] = known[r]
  BY <1>1 DEF MeshTypes, ChanTypes
<1>3. ASSUME NEW q \in Peers, q \in Others(p)' PROVE Foreseen(p, q)'
  <2>1. Stays(q, <<>>)
    BY NothingSaid
  <2> QED BY <1>1, <1>2, <1>3, <2>1, JoinOkForeseen
<1>6. /\ JoinOver(p, opened[p], <<>>) /\ \A e \in Conns : e # Seat(p) => wire'[e] = wire[e]
  BY <1>1, JoinOkDoes
<1>7. /\ \A r \in Peers : Others(r)' = Others(r)
      /\ \A r \in Peers : r # p /\ Member(r)' => Member(r) /\ \A q \in Peers : Foreseen(r, q)' <=> Foreseen(r, q)
      /\ JoinInv'
  BY <1>2, <1>6, OverForeseen
<1> QED BY <1>3, <1>7 DEF CompleteInv

LEMMA FailsExact ==
    ASSUME NEW words, NEW sounds, MeshTypes(words, sounds), Seated, NEW p \in Peers, JoinFails(p)
    PROVE  PresenceKept
<1> SUFFICES ASSUME JoinInv PROVE JoinInv' /\ (ExactInv => ExactInv') /\ (CompleteInv => CompleteInv')
  BY DEF PresenceKept
<1>1. JoinOver(p, 0, <<>>) /\ UNCHANGED <<wire, known>>
  BY DEF JoinFails
<1>2. ~Member(p)'
  BY <1>1, JoinOverDoes DEF Member
<1>3. /\ \A r \in Peers : Others(r)' = Others(r)
      /\ \A r \in Peers : r # p /\ Member(r)' => Member(r) /\ \A q \in Peers : Foreseen(r, q)' <=> Foreseen(r, q)
      /\ JoinInv'
  BY <1>1, OverForeseen
<1> QED BY <1>2, <1>3 DEF ExactInv, CompleteInv

----------------------------------------------------------------------------
(* The other actions                                                       *)

LEMMA RelayedOr ==
    ASSUME NEW S, NEW m, NEW c \in Conns
    PROVE  Relayed(S, m)[c] = wire[c] \/ Relayed(S, m)[c] = Append(wire[c], m)
<1> DEFINE b == c[1] \in S /\ reg[c[1]] = c[2]
<1>1. Relayed(S, m)[c] = IF b THEN Append(wire[c], m) ELSE wire[c]
  BY RelayedIs
<1> HIDE DEF b
<1> QED BY <1>1

\* Dropping a mesh makes a member of nobody.
LEMMA DropExact ==
    ASSUME NEW words, NEW sounds, MeshTypes(words, sounds), NEW p \in Peers, DropMesh(p)
    PROVE  PresenceKept
<1>1. /\ conn'[p] = 0 /\ \A r \in Peers \ {p} : conn'[r] = conn[r] /\ ctl'[r] = ctl[r]
      /\ UNCHANGED <<reg, wire, known, opened, joining, listed>>
  BY DEF DropMesh, MeshTypes, Numbered, ChanTypes
<1>2. \A r \in Peers : Member(r)' => r # p /\ Member(r)
  BY <1>1 DEF Member
<1>3. \A r \in Peers : r # p => \A q \in Peers : Foreseen(r, q)' <=> Foreseen(r, q)
  BY <1>1, SameForeseen
<1>4. \A r \in Peers : Others(r)' = Others(r)
  BY <1>1 DEF Others
<1>5. JoinInv => JoinInv'
  <2>1. \A r, q \in Peers : Destined(r, q)' <=> Destined(r, q)
    BY <1>1, SameDestined
  <2>2. joining \subseteq Peers
    BY DEF MeshTypes, Numbered
  <2> QED BY <1>1, <1>4, <2>1, <2>2 DEF JoinInv
<1>6. (ExactInv => ExactInv') /\ (CompleteInv => CompleteInv')
  BY <1>2, <1>3, <1>4 DEF ExactInv, CompleteInv
<1> QED BY <1>5, <1>6 DEF PresenceKept

\* A poll moves what is foreseen into the presence set.
LEMMA PolledForeseen ==
    ASSUME NEW words, NEW sounds, MeshTypes(words, sounds), NEW p \in Peers, Polled(p), UNCHANGED <<conn, wire>>
    PROVE  \A r, q \in Peers : Foreseen(r, q)' <=> Foreseen(r, q)
<1> DEFINE h == Head(ctl[p])
           d == Tail(ctl[p])
<1>1. /\ ctl[p] # <<>> /\ ctl'[p] = d /\ known'[p] = Present(h, known[p])
      /\ \A r \in Peers \ {p} : ctl'[r] = ctl[r] /\ known'[r] = known[r]
  BY DEF Polled, MeshTypes, ChanTypes
<1>2. ctl[p] \in News(p) /\ known[p] \in SUBSET Peers
  BY DEF MeshTypes, ChanTypes
<1>3. h \in Lists(p) \cup Events(p)
  BY <1>1, <1>2, Taken DEF News
<1>4. ASSUME NEW q \in Peers PROVE q \in known'[p] <=> Entering(q, h) \/ (q \in known[p] /\ ~Leaving(q, h))
  <2> HIDE DEF h
  <2> QED BY <1>1, <1>3 DEF Present, Entering, Leaving, Lists, Events
<1>5. ASSUME NEW q \in Peers
      PROVE  /\ Enters(q, ctl[p]) <=> Enters(q, d) \/ (Entering(q, h) /\ Stays(q, d))
             /\ Stays(q, ctl[p]) <=> ~Leaving(q, h) /\ Stays(q, d)
  BY <1>1, <1>2, SaidFirst DEF News
<1> HIDE DEF h, d
<1>6. ASSUME NEW q \in Peers PROVE Awaits(p, q)' <=> Awaits(p, q)
  BY <1>1, <1>4, <1>5 DEF Awaits
<1>7. \A q \in Peers : Foreseen(p, q)' <=> Foreseen(p, q)
  BY <1>6 DEF Foreseen, Current
<1>8. \A r, q \in Peers : r # p => (Foreseen(r, q)' <=> Foreseen(r, q))
  BY <1>1, SameForeseen
<1> QED BY <1>7, <1>8

LEMMA SameExact ==
    ASSUME UNCHANGED <<reg, conn, joining>>, \A r, q \in Peers : Member(r) => (Foreseen(r, q)' <=> Foreseen(r, q)),
           \A r \in joining, q \in Peers : Destined(r, q)' <=> Destined(r, q)
    PROVE  PresenceKept
<1>1. \A r : Others(r)' = Others(r) /\ (Member(r)' <=> Member(r))
  BY DEF Others, Member
<1>2. JoinInv => JoinInv'
  BY <1>1 DEF JoinInv
<1>3. (ExactInv => ExactInv') /\ (CompleteInv => CompleteInv')
  BY <1>1 DEF ExactInv, CompleteInv
<1> QED BY <1>2, <1>3 DEF PresenceKept

\* The wire and the joins as they are.
LEMMA WireExact ==
    ASSUME Numbered, UNCHANGED <<reg, conn, wire, opened, joining, listed>>,
           \A r, q \in Peers : Foreseen(r, q)' <=> Foreseen(r, q)
    PROVE  PresenceKept
<1>1. \A r \in joining, q \in Peers : Destined(r, q)' <=> Destined(r, q)
  BY SameDestined DEF Numbered
<1> QED BY <1>1, SameExact

LEMMA PolledExact ==
    ASSUME NEW words, NEW sounds, MeshTypes(words, sounds), NEW p \in Peers, Polled(p),
           UNCHANGED <<reg, conn, wire, opened, joining, listed>>
    PROVE  PresenceKept
BY PolledForeseen, WireExact DEF MeshTypes

\* What the programs say to each other says nothing of presence.
LEMMA SaidForwarded ==
    ASSUME NEW words, NEW sounds, MeshTypes(words, sounds), NEW c \in Conns, NEW S, NEW m, Forwarded(c, S, m),
           m.kind \in {"sync", "audio"}, NEW e \in Conns, NEW q
    PROVE  (Enters(q, wire'[e]) <=> Enters(q, wire[e])) /\ (Stays(q, wire'[e]) <=> Stays(q, wire[e]))
<1>3. wire[e] \in Seq(Mail(e[1], words, sounds))
  BY DEF MeshTypes, WireTypes, Letters
<1>4. wire'[e] = wire[e] \/ wire'[e] = Append(wire[e], m)
  <2> DEFINE T == S \cap Others(c[1])
  <2>1. wire' = Relayed(T, m) \/ UNCHANGED wire
    BY DEF Forwarded
  <2> HIDE DEF T
  <2>2. Relayed(T, m)[e] = wire[e] \/ Relayed(T, m)[e] = Append(wire[e], m)
    BY RelayedOr
  <2> QED BY <2>1, <2>2
<1>5. ~Entering(q, m) /\ ~Leaving(q, m)
  BY DEF Entering, Leaving
<1>6. CASE wire'[e] = wire[e]
  BY <1>6
<1>7. CASE wire'[e] = Append(wire[e], m)
  <2>1. /\ Enters(q, Append(wire[e], m)) <=> Entering(q, m) \/ (Enters(q, wire[e]) /\ ~Leaving(q, m))
        /\ Stays(q, Append(wire[e], m)) <=> Stays(q, wire[e]) /\ ~Leaving(q, m)
    BY <1>3, SaidAppended
  <2> QED BY <1>5, <1>7, <2>1
<1> QED BY <1>4, <1>6, <1>7

LEMMA ForwardedExact ==
    ASSUME NEW words, NEW sounds, MeshTypes(words, sounds), Seated, NEW c \in Conns, NEW S, NEW m, Forwarded(c, S, m),
           m.kind \in {"sync", "audio"}, UNCHANGED <<reg, conn, opened, joining, listed, ctl, known>>
    PROVE  PresenceKept
<1>1. ASSUME NEW r \in Peers, NEW q \in Peers, Member(r) PROVE Foreseen(r, q)' <=> Foreseen(r, q)
  <2>1. Current(r) \in Conns /\ Current(r)' = Current(r)
    BY <1>1, MemberSits DEF Sits, Current
  <2>2. (Enters(q, wire'[Current(r)]) <=> Enters(q, wire[Current(r)])) /\ (Stays(q, wire'[Current(r)]) <=> Stays(q, wire[Current(r)]))
    BY <2>1, SaidForwarded
  <2>3. Awaits(r, q)' <=> Awaits(r, q)
    BY DEF Awaits
  <2> QED BY <2>1, <2>2, <2>3 DEF Foreseen
<1>2. ASSUME NEW r \in joining, NEW q \in Peers PROVE Destined(r, q)' <=> Destined(r, q)
  <2>1. Seat(r) \in Conns /\ Seat(r)' = Seat(r)
    BY JoinerSits DEF Sits, Seat
  <2>2. (Enters(q, wire'[Seat(r)]) <=> Enters(q, wire[Seat(r)])) /\ (Stays(q, wire'[Seat(r)]) <=> Stays(q, wire[Seat(r)]))
    BY <2>1, SaidForwarded
  <2> QED BY <2>1, <2>2 DEF Destined
<1> QED BY <1>1, <1>2, SameExact

\* The read task only passes on.
LEMMA ReadExact ==
    ASSUME NEW words, NEW sounds, MeshTypes(words, sounds), Seated, NEW p \in Peers, Read(p)
    PROVE  PresenceKept
<1>1. PICK c \in Conns : c = Current(p) /\ c[1] = p
  BY CurrentIs DEF Read, MeshTypes
<1> DEFINE m == Head(wire[c])
           d == Tail(wire[c])
<1>2. /\ wire[c] # <<>> /\ wire'[c] = d /\ \A e \in Conns \ {c} : wire'[e] = wire[e]
      /\ UNCHANGED <<reg, conn, known, opened, joining, listed>>
      /\ \A r \in Peers \ {p} : ctl'[r] = ctl[r]
      /\ \/ m.kind \in {"joined", "left"} /\ ctl'[p] = Append(ctl[p], m)
         \/ m.kind \in {"sync", "audio"} /\ ctl'[p] = ctl[p]
  BY <1>1 DEF Read, MeshTypes, WireTypes, ChanTypes
<1>3. wire[c] \in Seq(Mail(p, words, sounds))
  BY <1>1 DEF MeshTypes, WireTypes, Letters
<1>4. ctl[p] \in Seq(Lists(p) \cup Events(p))
  BY DEF MeshTypes, ChanTypes, News
<1> HIDE DEF m, d
<1>j. ASSUME NEW r \in joining, NEW q \in Peers PROVE Destined(r, q)' <=> Destined(r, q)
  <2>1. Seat(r) \in Conns /\ Seat(r) # c /\ r \in Peers
    BY <1>1, SeatIs DEF MeshTypes, Current
  <2> QED BY <1>2, <2>1, SameDestined
<1> SUFFICES ASSUME NEW r \in Peers, NEW q \in Peers, Member(r) PROVE Foreseen(r, q)' <=> Foreseen(r, q)
  BY <1>2, <1>j, SameExact
<1>5. CASE r = p
  <2>1. /\ Enters(q, wire[c]) <=> Enters(q, d) \/ (Entering(q, m) /\ Stays(q, d))
        /\ Stays(q, wire[c]) <=> ~Leaving(q, m) /\ Stays(q, d)
    BY <1>2, <1>3, SaidFirst DEF m, d
  <2>2. Awaits(p, q)' <=> Entering(q, m) \/ (Awaits(p, q) /\ ~Leaving(q, m))
    <3>1. CASE m.kind \in {"joined", "left"} /\ ctl'[p] = Append(ctl[p], m)
      <4>1. /\ Enters(q, ctl'[p]) <=> Entering(q, m) \/ (Enters(q, ctl[p]) /\ ~Leaving(q, m))
            /\ Stays(q, ctl'[p]) <=> Stays(q, ctl[p]) /\ ~Leaving(q, m)
        BY <1>4, <3>1, SaidAppended
      <4>2. ~(Entering(q, m) /\ Leaving(q, m))
        BY DEF Entering, Leaving
      <4> QED BY <1>2, <4>1, <4>2 DEF Awaits
    <3>2. CASE m.kind \in {"sync", "audio"} /\ ctl'[p] = ctl[p]
      <4>1. ~Entering(q, m) /\ ~Leaving(q, m)
        BY <3>2 DEF Entering, Leaving
      <4> QED BY <1>2, <3>2, <4>1 DEF Awaits
    <3> QED BY <1>2, <3>1, <3>2
  <2>3. Current(p)' = c
    BY <1>1, <1>2 DEF Current
  <2>4. Foreseen(p, q)' <=> Enters(q, d) \/ (Stays(q, d) /\ Awaits(p, q)')
    BY <1>2, <2>3 DEF Foreseen
  <2>5. Foreseen(p, q) <=> Enters(q, wire[c]) \/ (Stays(q, wire[c]) /\ Awaits(p, q))
    BY <1>1 DEF Foreseen
  <2> QED BY <1>5, <2>1, <2>2, <2>4, <2>5
<1>6. CASE r # p
  <2>1. PICK e \in Conns : e = Current(r) /\ e[1] = r
    BY CurrentIs DEF Member, MeshTypes
  <2>2. wire'[Current(r)] = wire[Current(r)]
    BY <1>1, <1>2, <1>6, <2>1
  <2> QED BY <1>2, <1>6, <2>2, SameForeseen
<1> QED BY <1>5, <1>6

----------------------------------------------------------------------------
(* A connection that ends while it is its peer's own                       *)

Departs(c) ==
    /\ reg[c[1]] = c[2] /\ reg' = [reg EXCEPT ![c[1]] = 0]
    /\ wire' = [Relayed(Others(c[1]), Msg("left", c[1], {})) EXCEPT ![c] = <<>>]

LEMMA SaidLeft ==
    ASSUME NEW words, NEW sounds, MeshTypes(words, sounds), NEW c \in Conns, Departs(c),
           NEW r \in Peers, r # c[1], NEW e, Sits(r, e), NEW q
    PROVE  /\ Enters(q, wire'[e]) <=> q # c[1] /\ Enters(q, wire[e])
           /\ Stays(q, wire'[e]) <=> q # c[1] /\ Stays(q, wire[e])
<1> DEFINE p == c[1]
           m == Msg("left", p, {})
           w == Relayed(Others(p), m)
<1>m. ~Entering(q, m) /\ (Leaving(q, m) <=> q = p)
  BY DEF Entering, Leaving, Msg
<1>w. wire' = [w EXCEPT ![c] = <<>>] /\ w = [d \in Conns |-> w[d]]
  BY DEF Departs, Relayed
<1> HIDE DEF m
<1>1. PICK d \in Conns : d = e
  BY DEF Sits
<1>2. d[1] \in Others(p) /\ reg[d[1]] = d[2] /\ d # c
  BY <1>1, ConnIs DEF Sits, Others
<1>3. w[d] = Append(wire[d], m)
  BY <1>2, RelayedIs
<1> HIDE DEF w
<1>4. wire'[e] = Append(wire[e], m)
  BY <1>1, <1>2, <1>3, <1>w
<1>5. wire[e] \in Seq(Mail(r, words, sounds))
  BY <1>1 DEF MeshTypes, WireTypes, Letters, Sits
<1>6. /\ Enters(q, Append(wire[e], m)) <=> Entering(q, m) \/ (Enters(q, wire[e]) /\ ~Leaving(q, m))
      /\ Stays(q, Append(wire[e], m)) <=> Stays(q, wire[e]) /\ ~Leaving(q, m)
  BY <1>5, SaidAppended
<1> QED BY <1>m, <1>4, <1>6

LEMMA DepartsExact ==
    ASSUME NEW words, NEW sounds, MeshTypes(words, sounds), Seated, NEW c \in Conns, Departs(c), c[1] \notin joining,
           UNCHANGED <<conn, ctl, known, opened, joining, listed>>
    PROVE  PresenceKept
<1> DEFINE p == c[1]
<1>1. p \in Peers /\ reg[p] = c[2] /\ c[2] # 0
  BY ConnIs DEF Departs
<1>2. reg'[p] = 0 /\ \A r \in Peers \ {p} : reg'[r] = reg[r]
  BY <1>1 DEF Departs, MeshTypes, Numbered
<1>p. p \notin joining /\ p = c[1]
  OBVIOUS
<1> HIDE DEF p
<1>3. \A r, q \in Peers : q \in Others(r)' <=> q # p /\ q \in Others(r)
  BY <1>2 DEF Others
<1>4. ASSUME NEW r \in Peers, Member(r)'
      PROVE  Member(r) /\ \A q \in Peers : Foreseen(r, q)' <=> q # p /\ Foreseen(r, q)
  <2>1. r # p /\ Member(r) /\ Current(r)' = Current(r)
    BY <1>2, <1>4 DEF Member, Current
  <2>2. ASSUME NEW q \in Peers PROVE Foreseen(r, q)' <=> q # p /\ Foreseen(r, q)
    <3>1. /\ Enters(q, wire'[Current(r)]) <=> q # p /\ Enters(q, wire[Current(r)])
          /\ Stays(q, wire'[Current(r)]) <=> q # p /\ Stays(q, wire[Current(r)])
      BY <1>p, <2>1, MemberSits, SaidLeft
    <3>2. Awaits(r, q)' <=> Awaits(r, q)
      BY DEF Awaits
    <3> QED BY <2>1, <3>1, <3>2 DEF Foreseen
  <2> QED BY <2>1, <2>2
<1>5. ASSUME NEW r \in joining
      PROVE  r \in Peers /\ \A q \in Peers : Destined(r, q)' <=> q # p /\ Destined(r, q)
  <2>1. r \in Peers /\ r # p /\ Seat(r)' = Seat(r)
    BY <1>p DEF Seat, MeshTypes, Numbered
  <2>2. ASSUME NEW q \in Peers PROVE Destined(r, q)' <=> q # p /\ Destined(r, q)
    <3>1. /\ Enters(q, wire'[Seat(r)]) <=> q # p /\ Enters(q, wire[Seat(r)])
          /\ Stays(q, wire'[Seat(r)]) <=> q # p /\ Stays(q, wire[Seat(r)])
      BY <1>p, <2>1, JoinerSits, SaidLeft
    <3> QED BY <2>1, <3>1 DEF Destined
  <2> QED BY <2>1, <2>2
<1>6. JoinInv => JoinInv'
  BY <1>3, <1>5 DEF JoinInv
<1>7. (ExactInv => ExactInv') /\ (CompleteInv => CompleteInv')
  BY <1>3, <1>4 DEF ExactInv, CompleteInv
<1> QED BY <1>6, <1>7 DEF PresenceKept

LEMMA WriteEndsExact ==
    ASSUME NEW words, NEW sounds, MeshTypes(words, sounds), Seats, NEW c \in Conns, WriteEnds(c)
    PROVE  PresenceKept
<1>1. UNCHANGED <<conn, ctl, known, opened, joining, listed>> /\ c \in dropped
  BY DEF WriteEnds, chanVars, pollVars
<1>2. CASE reg[c[1]] = c[2]
  <2>1. c[1] \notin joining
    BY <1>1, <1>2 DEF Seats, Seated, Gone
  <2>2. Departs(c)
    BY <1>2 DEF WriteEnds, Departs
  <2> QED BY <1>1, <2>1, <2>2, DepartsExact DEF Seats
<1>3. CASE reg[c[1]] # c[2]
  <2>1. UNCHANGED reg /\ wire' = [wire EXCEPT ![c] = <<>>]
    BY <1>3 DEF WriteEnds
  <2>2. \A e \in Conns : e # c => wire'[e] = wire[e]
    BY <2>1 DEF MeshTypes, WireTypes
  <2>3. ASSUME NEW r \in Peers, NEW q \in Peers, Member(r) PROVE Foreseen(r, q)' <=> Foreseen(r, q)
    <3>1. Current(r) \in Conns /\ Current(r) # c
      BY <1>3, <2>3, MemberSits DEF Sits
    <3> QED BY <1>1, <2>2, <3>1, SameForeseen
  <2>4. ASSUME NEW r \in joining, NEW q \in Peers PROVE Destined(r, q)' <=> Destined(r, q)
    <3>1. Seat(r) \in Conns /\ Seat(r) # c /\ r \in Peers
      BY <1>3, JoinerSits DEF Sits, Seats, MeshTypes, Numbered
    <3> QED BY <1>1, <2>2, <3>1, SameDestined
  <2> QED BY <1>1, <2>1, <2>3, <2>4, SameExact
<1> QED BY <1>2, <1>3

LEMMA TaskExact ==
    ASSUME NEW words, NEW sounds, MeshTypes(words, sounds), Seats, Tasks
    PROVE  PresenceKept
<1>1. ASSUME NEW c \in Conns, WriteSync(c) PROVE PresenceKept
  <2>1. Forwarded(c, Head(outSync[c]).to, Msg("sync", c[1], Head(outSync[c]).what)) /\ UNCHANGED <<reg, conn, opened, joining, listed, ctl, known>>
    BY <1>1 DEF WriteSync, chanVars, pollVars
  <2>2. Msg("sync", c[1], Head(outSync[c]).what).kind = "sync"
    BY DEF Msg
  <2> QED BY <2>1, <2>2, ForwardedExact DEF Seats
<1>2. ASSUME NEW c \in Conns, WriteAudio(c) PROVE PresenceKept
  <2>1. Forwarded(c, Peers, Msg("audio", c[1], Head(outAudio[c]))) /\ UNCHANGED <<reg, conn, opened, joining, listed, ctl, known>>
    BY <1>2 DEF WriteAudio, chanVars, pollVars
  <2>2. Msg("audio", c[1], Head(outAudio[c])).kind = "audio"
    BY DEF Msg
  <2> QED BY <2>1, <2>2, ForwardedExact DEF Seats
<1> QED BY <1>1, <1>2, WriteEndsExact, ReadExact DEF Tasks, Seats


----------------------------------------------------------------------------
(* What is under way                                                       *)

Holds(ms, X) == \E i \in 1..Len(ms) : ms[i] \in X

LEMMA HoldsNothing ==
    ASSUME NEW X
    PROVE  ~Holds(<<>>, X)
<1>1. Len(<<>>) = 0 /\ 1..0 = {}
  OBVIOUS
<1> QED BY <1>1 DEF Holds

LEMMA HoldsAppended ==
    ASSUME NEW S, NEW ms \in Seq(S), NEW m, NEW X
    PROVE  Holds(Append(ms, m), X) <=> Holds(ms, X) \/ m \in X
<1> DEFINE n == Len(ms)
           u == Append(ms, m)
<1>1. n \in Nat /\ Len(u) = n + 1 /\ u[n + 1] = m /\ \A i \in 1..n : u[i] = ms[i]
  OBVIOUS
<1>2. /\ n + 1 \in 1..(n + 1) /\ \A i \in 1..n : i \in 1..(n + 1)
      /\ \A i \in 1..(n + 1) : i \in 1..n \/ i = n + 1
  BY <1>1
<1> HIDE DEF n, u
<1>3. Holds(u, X) <=> Holds(ms, X) \/ m \in X
  BY <1>1, <1>2 DEF Holds, n
<1> QED BY <1>3 DEF u

LEMMA HoldsJoined ==
    ASSUME NEW S, NEW ms \in Seq(S), NEW ns \in Seq(S), NEW X
    PROVE  Holds(ms \o ns, X) <=> Holds(ms, X) \/ Holds(ns, X)
<1> DEFINE n == Len(ms)
           k == Len(ns)
           u == ms \o ns
<1>1. /\ n \in Nat /\ k \in Nat /\ Len(u) = n + k
      /\ \A i \in 1..n : u[i] = ms[i]
      /\ \A i \in 1..k : u[n + i] = ns[i]
  OBVIOUS
<1>2. /\ \A i \in 1..n : i \in 1..(n + k)
      /\ \A i \in 1..k : n + i \in 1..(n + k)
      /\ \A i \in 1..(n + k) : i \in 1..n \/ (i - n \in 1..k /\ n + (i - n) = i)
  BY <1>1
<1> HIDE DEF n, k, u
<1>3. Holds(ms, X) => Holds(u, X)
  BY <1>1, <1>2 DEF Holds, n
<1>4. Holds(ns, X) => Holds(u, X)
  BY <1>1, <1>2 DEF Holds, k
<1>5. ASSUME NEW i \in 1..(n + k), u[i] \in X PROVE Holds(ms, X) \/ Holds(ns, X)
  <2>1. CASE i \in 1..n
    BY <1>1, <1>5, <2>1 DEF Holds, n
  <2>2. CASE i - n \in 1..k /\ n + (i - n) = i
    <3>1. ns[i - n] \in X
      BY <1>1, <1>5, <2>2
    <3> QED BY <2>2, <3>1 DEF Holds, k
  <2> QED BY <1>2, <2>1, <2>2
<1>6. Holds(u, X) => Holds(ms, X) \/ Holds(ns, X)
  BY <1>1, <1>5 DEF Holds
<1> QED BY <1>3, <1>4, <1>6 DEF u

LEMMA HoldsFirst ==
    ASSUME NEW S, NEW ms \in Seq(S), ms # <<>>, NEW X
    PROVE  Holds(ms, X) <=> Head(ms) \in X \/ Holds(Tail(ms), X)
<1> DEFINE n == Len(ms)
           d == Tail(ms)
           h == Head(ms)
<1>1. n \in Nat \ {0} /\ h = ms[1] /\ Len(d) = n - 1 /\ \A i \in 1..(n - 1) : d[i] = ms[i + 1]
  OBVIOUS
<1>2. /\ 1 \in 1..n /\ \A i \in 1..(n - 1) : i + 1 \in 1..n
      /\ \A j \in 1..n : j = 1 \/ (j - 1 \in 1..(n - 1) /\ (j - 1) + 1 = j)
  BY <1>1
<1> HIDE DEF n, d, h
<1>3. \A j \in 1..n : j = 1 \/ (j - 1 \in 1..(n - 1) /\ ms[j] = d[j - 1])
  BY <1>1, <1>2
<1>4. Holds(d, X) => Holds(ms, X)
  BY <1>1, <1>2 DEF Holds, n
<1>5. h \in X => Holds(ms, X)
  BY <1>1, <1>2 DEF Holds, n
<1>6. Holds(ms, X) => h \in X \/ Holds(d, X)
  BY <1>1, <1>3 DEF Holds, n
<1> QED BY <1>4, <1>5, <1>6 DEF d, h

(***************************************************************************)
(* A word of W is under way from q to p, or the news that p has joined is  *)
(* under way to q.                                                         *)
(***************************************************************************)
Asked(p, W)  == [what : W, to : {S \in SUBSET Peers : p \in S}]
Told(q, W)   == [kind : {"sync"}, from : {q}, body : W]
Newcomer(p)  == {Msg("joined", p, {})}
Underway(p, q, W) ==
    Holds(outSync[Current(q)], Asked(p, W)) \/ Holds(wire[Current(p)], Told(q, W)) \/ Holds(syn[p], Told(q, W))
Expected(p, q) == Holds(wire[Current(q)], Newcomer(p)) \/ Holds(ctl[q], Newcomer(p))
\* To one that waits for join_ok a word stays in its queue, or it comes on the wire.
Pending(p, q, W) == Holds(outSync[Current(q)], Asked(p, W)) \/ Overtaken(p)

\* What is under way stays so when the queues on its way only grow.
Grown(u, s, S) == u = s \/ (\E m : u = Append(s, m)) \/ (\E t \in Seq(S) : u = s \o t)
LEMMA GrownHolds ==
    ASSUME NEW S, NEW s \in Seq(S), NEW u, Grown(u, s, S), NEW X, Holds(s, X)
    PROVE  Holds(u, X)
<1>1. ASSUME NEW m, u = Append(s, m) PROVE Holds(u, X)
  BY <1>1, HoldsAppended
<1>2. ASSUME NEW t \in Seq(S), u = s \o t PROVE Holds(u, X)
  BY <1>2, HoldsJoined
<1> QED BY <1>1, <1>2 DEF Grown


LEMMA MemberConn ==
    ASSUME NEW words, NEW sounds, MeshTypes(words, sounds), NEW p \in Peers, conn[p] # 0
    PROVE  /\ Current(p) \in Conns /\ Current(p)[1] = p /\ Current(p)[2] = conn[p]
           /\ wire[Current(p)] \in Seq(Mail(p, words, sounds))
           /\ outSync[Current(p)] \in Seq(Orders(words))
           /\ syn[p] \in Seq(Syncs(p, words)) /\ ctl[p] \in Seq(Lists(p) \cup Events(p))
<1>1. PICK c \in Conns : c = Current(p) /\ c[1] = p /\ c[2] = conn[p]
  BY CurrentIs DEF MeshTypes
<1>2. wire[c] \in Seq(Mail(p, words, sounds)) /\ outSync[c] \in Seq(Orders(words))
  BY <1>1 DEF MeshTypes, WireTypes, OutTypes, Letters
<1>3. syn[p] \in Seq(Syncs(p, words)) /\ ctl[p] \in Seq(Lists(p) \cup Events(p))
  BY DEF MeshTypes, ChanTypes, Said, News
<1> QED BY <1>1, <1>2, <1>3

LEMMA KeptUnderway ==
    ASSUME NEW words, NEW sounds, MeshTypes(words, sounds), NEW p \in Peers, NEW q \in Peers, NEW W,
           conn[p] # 0, conn[q] # 0, conn'[p] = conn[p], conn'[q] = conn[q],
           Grown(outSync'[Current(q)], outSync[Current(q)], Orders(words)),
           Grown(wire'[Current(p)], wire[Current(p)], Mail(p, words, sounds)),
           Grown(syn'[p], syn[p], Syncs(p, words)),
           Underway(p, q, W)
    PROVE  Underway(p, q, W)'
<1>1. Current(p)' = Current(p) /\ Current(q)' = Current(q)
  BY DEF Current
<1>2. /\ outSync[Current(q)] \in Seq(Orders(words)) /\ wire[Current(p)] \in Seq(Mail(p, words, sounds))
      /\ syn[p] \in Seq(Syncs(p, words))
  BY MemberConn
<1>3. Holds(outSync[Current(q)], Asked(p, W)) => Holds(outSync'[Current(q)], Asked(p, W))
  BY <1>2, GrownHolds
<1>4. Holds(wire[Current(p)], Told(q, W)) => Holds(wire'[Current(p)], Told(q, W))
  BY <1>2, GrownHolds
<1>5. Holds(syn[p], Told(q, W)) => Holds(syn'[p], Told(q, W))
  BY <1>2, GrownHolds
<1> QED BY <1>1, <1>3, <1>4, <1>5 DEF Underway, Asked, Told

LEMMA KeptExpected ==
    ASSUME NEW words, NEW sounds, MeshTypes(words, sounds), NEW p \in Peers, NEW q \in Peers,
           conn[q] # 0, conn'[q] = conn[q],
           Grown(wire'[Current(q)], wire[Current(q)], Mail(q, words, sounds)),
           Grown(ctl'[q], ctl[q], Lists(q) \cup Events(q)),
           Expected(p, q)
    PROVE  Expected(p, q)'
<1>1. Current(q)' = Current(q)
  BY DEF Current
<1>2. wire[Current(q)] \in Seq(Mail(q, words, sounds)) /\ ctl[q] \in Seq(Lists(q) \cup Events(q))
  BY MemberConn
<1>3. Holds(wire[Current(q)], Newcomer(p)) => Holds(wire'[Current(q)], Newcomer(p))
  BY <1>2, GrownHolds
<1>4. Holds(ctl[q], Newcomer(p)) => Holds(ctl'[q], Newcomer(p))
  BY <1>2, GrownHolds
<1> QED BY <1>1, <1>3, <1>4 DEF Expected, Newcomer, Msg

\* A queue that stays as it is.
LEMMA SameGrown == \A s, S : Grown(s, s, S)
BY DEF Grown

LEMMA RelayedGrown ==
    ASSUME NEW T, NEW m, NEW c \in Conns, NEW S
    PROVE  Grown(Relayed(T, m)[c], wire[c], S)
BY RelayedOr DEF Grown

LEMMA ForwardedGrown ==
    ASSUME NEW c \in Conns, NEW T, NEW m, Forwarded(c, T, m)
    PROVE  /\ \A e \in Conns : \A S : Grown(wire'[e], wire[e], S)
           /\ \A e \in Conns : e[1] \in T \cap Others(c[1]) /\ reg[e[1]] = e[2] /\ reg[c[1]] = c[2]
                => wire'[e] = Append(wire[e], m)
<1> DEFINE X == T \cap Others(c[1])
<1>1. wire' = Relayed(X, m) \/ (reg[c[1]] # c[2] /\ UNCHANGED wire)
  BY DEF Forwarded
<1>x. X = T \cap Others(c[1])
  OBVIOUS
<1> HIDE DEF X
<1>2. CASE wire' = Relayed(X, m)
  <2>1. \A e \in Conns : \A S : Grown(wire'[e], wire[e], S)
    BY <1>2, RelayedGrown
  <2>2. \A e \in Conns : e[1] \in X /\ reg[e[1]] = e[2] => wire'[e] = Append(wire[e], m)
    BY <1>2, RelayedIs
  <2> QED BY <1>x, <2>1, <2>2
<1>3. CASE reg[c[1]] # c[2] /\ UNCHANGED wire
  BY <1>3, SameGrown
<1> QED BY <1>1, <1>2, <1>3

----------------------------------------------------------------------------
(* The tasks lose nothing that is under way between two members            *)

LEMMA WriteUnderway ==
    ASSUME NEW words, NEW sounds, MeshTypes(words, sounds), NEW c \in Conns, WriteSync(c) \/ WriteAudio(c),
           NEW p \in Peers, NEW q \in Peers, p # q, Member(q), NEW W
    PROVE  /\ Member(p) /\ Underway(p, q, W) => Underway(p, q, W)'
           /\ Expected(p, q) => Expected(p, q)'
<1>q. conn[q] # 0 /\ reg[q] = conn[q]
  BY DEF Member
<1>1. UNCHANGED <<reg, conn, ctl, syn>>
  BY DEF WriteSync, WriteAudio, chanVars, pollVars
<1>3. PICK cq \in Conns : cq = Current(q) /\ cq[1] = q /\ cq[2] = conn[q]
  BY <1>q, MemberConn
<1>4. \A e \in Conns : \A S : Grown(wire'[e], wire[e], S)
  BY ForwardedGrown DEF WriteSync, WriteAudio
<1>5. Expected(p, q) => Expected(p, q)'
  BY <1>q, <1>1, <1>3, <1>4, SameGrown, KeptExpected
<1> SUFFICES ASSUME Member(p) PROVE Underway(p, q, W) => Underway(p, q, W)'
  BY <1>5
<1>0. conn[p] # 0 /\ conn[q] # 0 /\ reg[p] = conn[p] /\ reg[q] = conn[q]
  BY <1>q DEF Member
<1>2. PICK cp \in Conns : cp = Current(p) /\ cp[1] = p /\ cp[2] = conn[p]
  BY <1>0, MemberConn
<1>w. PICK S : wire[cp] \in Seq(S)
  BY <1>0, <1>2, MemberConn
<1>6. outSync \in [Conns -> Seq(Orders(words))]
  BY DEF MeshTypes, OutTypes
<1>7. CASE outSync'[cq] = outSync[cq]
  BY <1>0, <1>1, <1>2, <1>3, <1>4, <1>7, SameGrown, KeptUnderway
<1>8. CASE c = cq /\ WriteSync(c)
  <2> DEFINE o == Head(outSync[cq])
             m == Msg("sync", q, o.what)
  <2>1. outSync[cq] # <<>> /\ outSync'[cq] = Tail(outSync[cq]) /\ Forwarded(cq, o.to, m)
    BY <1>3, <1>6, <1>8 DEF WriteSync
  <2>m. m.kind = "sync" /\ m.from = q /\ m.body = o.what /\ m = [kind |-> "sync", from |-> q, body |-> o.what]
    BY DEF Msg
  <2> HIDE DEF o, m
  <2>2. o \in Orders(words)
    BY <1>6, <2>1, Taken DEF o
  <2>3. ASSUME Holds(outSync[cq], Asked(p, W)) PROVE Underway(p, q, W)'
    <3>1. o \in Asked(p, W) \/ Holds(Tail(outSync[cq]), Asked(p, W))
      BY <1>6, <2>1, <2>3, HoldsFirst DEF o
    <3>2. CASE Holds(Tail(outSync[cq]), Asked(p, W))
      BY <1>1, <1>3, <2>1, <3>2 DEF Underway, Current, Asked
    <3>3. CASE o \in Asked(p, W)
      <4>1. p \in o.to /\ o.what \in W
        BY <3>3 DEF Asked
      <4>2. p \in o.to \cap Others(q)
        BY <1>0, <4>1 DEF Others, MeshTypes, Numbered
      <4>3. wire'[cp] = Append(wire[cp], m)
        BY <1>0, <1>2, <1>3, <2>1, <4>2, ForwardedGrown
      <4>4. m \in Told(q, W)
        BY <2>m, <4>1 DEF Told
      <4>5. Holds(wire'[cp], Told(q, W))
        BY <1>w, <4>3, <4>4, HoldsAppended
      <4> QED BY <1>1, <1>2, <4>5 DEF Underway, Current, Told
    <3> QED BY <3>1, <3>2, <3>3
  <2>4. ASSUME Holds(wire[cp], Told(q, W)) PROVE Underway(p, q, W)'
    <3>1. Holds(wire'[cp], Told(q, W))
      BY <1>w, <1>4, <2>4, GrownHolds
    <3> QED BY <1>1, <1>2, <3>1 DEF Underway, Current, Told
  <2>5. ASSUME Holds(syn[p], Told(q, W)) PROVE Underway(p, q, W)'
    BY <1>1, <2>5 DEF Underway, Told
  <2> QED BY <1>2, <1>3, <2>3, <2>4, <2>5 DEF Underway
<1>9. outSync'[cq] = outSync[cq] \/ (c = cq /\ WriteSync(c))
  BY <1>6 DEF WriteSync, WriteAudio
<1> QED BY <1>7, <1>8, <1>9

\* A connection that ends takes nothing off another's wire.
LEMMA EndsGrown ==
    ASSUME NEW words, NEW sounds, MeshTypes(words, sounds), NEW c \in Conns, WriteEnds(c)
    PROVE  \A e \in Conns \ {c} : \A S : Grown(wire'[e], wire[e], S)
<1>1. CASE reg[c[1]] = c[2]
  <2> DEFINE w == Relayed(Others(c[1]), Msg("left", c[1], {}))
  <2>1. wire' = [w EXCEPT ![c] = <<>>]
    BY <1>1 DEF WriteEnds
  <2>2. \A e \in Conns : \A S : Grown(w[e], wire[e], S)
    BY RelayedGrown
  <2>3. w = [e \in Conns |-> w[e]]
    BY DEF Relayed
  <2> HIDE DEF w
  <2>4. \A e \in Conns \ {c} : wire'[e] = w[e]
    BY <2>1, <2>3
  <2> QED BY <2>2, <2>4
<1>2. CASE reg[c[1]] # c[2]
  <2>1. wire' = [wire EXCEPT ![c] = <<>>]
    BY <1>2 DEF WriteEnds
  <2>2. \A e \in Conns \ {c} : wire'[e] = wire[e]
    BY <2>1 DEF MeshTypes, WireTypes
  <2> QED BY <2>2, SameGrown
<1> QED BY <1>1, <1>2

LEMMA WriteEndsUnderway ==
    ASSUME NEW words, NEW sounds, MeshTypes(words, sounds), Gone, NEW c \in Conns, WriteEnds(c),
           NEW p \in Peers, NEW q \in Peers, Member(q), NEW W
    PROVE  /\ Member(p) /\ Underway(p, q, W) => Underway(p, q, W)'
           /\ Expected(p, q) => Expected(p, q)'
           /\ Member(q)'
<1>q. conn[q] # 0 /\ reg[q] = conn[q]
  BY DEF Member
<1>1. UNCHANGED <<conn, ctl, syn>> /\ c \in dropped /\ outSync' = [outSync EXCEPT ![c] = <<>>]
  BY DEF WriteEnds, chanVars, pollVars
<1>3. PICK cq \in Conns : cq = Current(q) /\ cq[1] = q /\ cq[2] = conn[q]
  BY <1>q, MemberConn
<1>4. cq # c /\ (reg[c[1]] = c[2] => c[1] # q)
  BY <1>q, <1>1, <1>3 DEF Gone
<1>5. \A e \in Conns \ {c} : \A S : Grown(wire'[e], wire[e], S)
  BY EndsGrown
<1>6. outSync'[cq] = outSync[cq]
  BY <1>1, <1>4 DEF MeshTypes, OutTypes
<1>7. ASSUME Member(p), Underway(p, q, W) PROVE Underway(p, q, W)'
  <2>0. conn[p] # 0 /\ reg[p] = conn[p]
    BY <1>7 DEF Member
  <2>1. PICK cp \in Conns : cp = Current(p) /\ cp[1] = p /\ cp[2] = conn[p]
    BY <2>0, MemberConn
  <2>2. cp # c
    BY <1>1, <2>1 DEF Gone
  <2> QED BY <1>q, <1>1, <1>3, <1>5, <1>6, <1>7, <2>0, <2>1, <2>2, SameGrown, KeptUnderway
<1>8. Expected(p, q) => Expected(p, q)'
  BY <1>q, <1>1, <1>3, <1>4, <1>5, SameGrown, KeptExpected
<1>9. Member(q)'
  <2>1. reg'[q] = reg[q]
    <3>1. CASE reg[c[1]] = c[2]
      <4>1. reg' = [reg EXCEPT ![c[1]] = 0] /\ c[1] # q
        BY <1>4, <3>1 DEF WriteEnds
      <4> QED BY <4>1 DEF MeshTypes, Numbered
    <3>2. CASE reg[c[1]] # c[2]
      BY <3>2 DEF WriteEnds
    <3> QED BY <3>1, <3>2
  <2> QED BY <1>q, <1>1, <2>1 DEF Member
<1> QED BY <1>7, <1>8, <1>9

LEMMA ReadUnderway ==
    ASSUME NEW words, NEW sounds, MeshTypes(words, sounds), NEW r \in Peers, Read(r),
           NEW p \in Peers, NEW q \in Peers, Member(q), NEW W
    PROVE  /\ Member(p) /\ Underway(p, q, W) => Underway(p, q, W)'
           /\ Expected(p, q) => Expected(p, q)'
<1>0. conn[q] # 0 /\ conn[r] # 0
  BY DEF Member, Read
<1>3. PICK cq \in Conns : cq = Current(q) /\ cq[1] = q
  BY <1>0, MemberConn
<1>4. PICK c \in Conns : c = Current(r) /\ c[1] = r
  BY <1>0, MemberConn
<1> DEFINE m == Head(wire[c])
           d == Tail(wire[c])
<1>5. /\ wire[c] # <<>> /\ wire'[c] = d /\ \A e \in Conns \ {c} : wire'[e] = wire[e]
      /\ UNCHANGED <<conn, outSync>>
      /\ \A s \in Peers \ {r} : ctl'[s] = ctl[s] /\ syn'[s] = syn[s]
  BY <1>4 DEF Read, MeshTypes, WireTypes, ChanTypes
<1>6. /\ m.kind \in {"joined", "left"} => ctl'[r] = Append(ctl[r], m)
      /\ m.kind = "sync" => syn'[r] = Append(syn[r], m)
      /\ ctl'[r] \in {ctl[r], Append(ctl[r], m)} /\ syn'[r] \in {syn[r], Append(syn[r], m)}
  <2>1. /\ \/ m.kind \in {"joined", "left"} /\ ctl' = [ctl EXCEPT ![r] = Append(@, m)] /\ UNCHANGED syn
           \/ m.kind = "sync" /\ syn' = [syn EXCEPT ![r] = Append(@, m)] /\ UNCHANGED ctl
           \/ m.kind = "audio" /\ UNCHANGED <<ctl, syn>>
    BY <1>4 DEF Read
  <2>2. ctl = [s \in Peers |-> ctl[s]] /\ syn = [s \in Peers |-> syn[s]]
    BY DEF MeshTypes, ChanTypes
  <2> HIDE DEF m
  <2> QED BY <2>1, <2>2
<1>7. PICK S : wire[c] \in Seq(S)
  BY <1>0, <1>4, MemberConn
<1>8. PICK T : syn[r] \in Seq(T)
  BY <1>0, MemberConn
<1>9. PICK V : ctl[r] \in Seq(V)
  BY <1>0, MemberConn
<1>10. \A X : Holds(wire[c], X) <=> m \in X \/ Holds(d, X)
  BY <1>5, <1>7, HoldsFirst
<1> HIDE DEF m, d
<1>11. ASSUME NEW X, Holds(syn[r], X) PROVE Holds(syn'[r], X)
  <2>1. Holds(Append(syn[r], m), X)
    BY <1>8, <1>11, HoldsAppended
  <2>2. syn'[r] = syn[r] \/ syn'[r] = Append(syn[r], m)
    BY <1>6
  <2> QED BY <1>11, <2>1, <2>2
<1>12. ASSUME NEW X, Holds(ctl[r], X) PROVE Holds(ctl'[r], X)
  <2>1. Holds(Append(ctl[r], m), X)
    BY <1>9, <1>12, HoldsAppended
  <2>2. ctl'[r] = ctl[r] \/ ctl'[r] = Append(ctl[r], m)
    BY <1>6
  <2> QED BY <1>12, <2>1, <2>2
<1>13. ASSUME Member(p), Underway(p, q, W) PROVE Underway(p, q, W)'
  <2>p. PICK cp \in Conns : cp = Current(p) /\ cp[1] = p
    BY <1>13, MemberConn DEF Member
  <2>1. CASE r # p
    <3>1. wire'[cp] = wire[cp] /\ syn'[p] = syn[p]
      BY <2>p, <1>4, <1>5, <2>1
    <3> QED BY <2>p, <1>5, <1>13, <3>1 DEF Underway, Current, Asked, Told
  <2>2. CASE r = p
    <3>1. cp = c
      BY <2>p, <1>4, <2>2
    <3>2. CASE Holds(outSync[Current(q)], Asked(p, W))
      BY <1>5, <3>2 DEF Underway, Current, Asked
    <3>3. CASE Holds(wire[c], Told(q, W))
      <4>1. CASE m \in Told(q, W)
        <5>1. syn'[p] = Append(syn[p], m)
          BY <1>6, <2>2, <4>1 DEF Told
        <5>2. Holds(syn'[p], Told(q, W))
          BY <1>8, <2>2, <4>1, <5>1, HoldsAppended
        <5> QED BY <5>2 DEF Underway, Told
      <4>2. CASE Holds(d, Told(q, W))
        BY <2>p, <1>5, <3>1, <4>2 DEF Underway, Current, Told
      <4> QED BY <1>10, <3>3, <4>1, <4>2
    <3>4. CASE Holds(syn[p], Told(q, W))
      <4>1. Holds(syn'[p], Told(q, W))
        BY <1>11, <2>2, <3>4
      <4> QED BY <4>1 DEF Underway, Told
    <3> QED BY <2>p, <1>13, <3>1, <3>2, <3>3, <3>4 DEF Underway
  <2> QED BY <2>1, <2>2
<1>14. ASSUME Expected(p, q) PROVE Expected(p, q)'
  <2>1. CASE r # q
    <3>1. wire'[cq] = wire[cq] /\ ctl'[q] = ctl[q]
      BY <1>3, <1>4, <1>5, <2>1
    <3> QED BY <1>3, <1>5, <1>14, <3>1 DEF Expected, Current, Newcomer, Msg
  <2>2. CASE r = q
    <3>1. cq = c
      BY <1>3, <1>4, <2>2
    <3>2. CASE Holds(wire[c], Newcomer(p))
      <4>1. CASE m \in Newcomer(p)
        <5>1. ctl'[q] = Append(ctl[q], m)
          BY <1>6, <2>2, <4>1 DEF Newcomer, Msg
        <5>2. Holds(ctl'[q], Newcomer(p))
          BY <1>9, <2>2, <4>1, <5>1, HoldsAppended
        <5> QED BY <5>2 DEF Expected, Newcomer, Msg
      <4>2. CASE Holds(d, Newcomer(p))
        BY <1>3, <1>5, <3>1, <4>2 DEF Expected, Current, Newcomer, Msg
      <4> QED BY <1>10, <3>2, <4>1, <4>2
    <3>3. CASE Holds(ctl[q], Newcomer(p))
      <4>1. Holds(ctl'[q], Newcomer(p))
        BY <1>12, <2>2, <3>3
      <4> QED BY <4>1 DEF Expected, Newcomer, Msg
    <3> QED BY <1>3, <1>14, <3>1, <3>2, <3>3 DEF Expected
  <2> QED BY <2>1, <2>2
<1> QED BY <1>13, <1>14

LEMMA TaskUnderway ==
    ASSUME NEW words, NEW sounds, MeshTypes(words, sounds), Gone, Tasks,
           NEW p \in Peers, NEW q \in Peers, p # q, Member(q), NEW W
    PROVE  /\ Member(p) /\ Underway(p, q, W) => Underway(p, q, W)'
           /\ Expected(p, q) => Expected(p, q)'
<1>1. ASSUME NEW c \in Conns, WriteSync(c) \/ WriteAudio(c)
      PROVE  (Member(p) /\ Underway(p, q, W) => Underway(p, q, W)') /\ (Expected(p, q) => Expected(p, q)')
  BY <1>1, WriteUnderway
<1>2. ASSUME NEW c \in Conns, WriteEnds(c)
      PROVE  (Member(p) /\ Underway(p, q, W) => Underway(p, q, W)') /\ (Expected(p, q) => Expected(p, q)')
  BY <1>2, WriteEndsUnderway
<1>3. ASSUME NEW r \in Peers, Read(r)
      PROVE  (Member(p) /\ Underway(p, q, W) => Underway(p, q, W)') /\ (Expected(p, q) => Expected(p, q)')
  BY <1>3, ReadUnderway
<1> QED BY <1>1, <1>2, <1>3 DEF Tasks

\* No task makes or unmakes a member.
LEMMA TaskMember ==
    ASSUME NEW words, NEW sounds, MeshTypes(words, sounds), Seats, Tasks, NEW p \in Peers
    PROVE  (Member(p) => Member(p)') /\ (Member(p)' => Member(p))
<1>1. Member(p) => Member(p)'
  <2>1. ASSUME NEW c \in Conns, WriteEnds(c), Member(p) PROVE Member(p)'
    BY <2>1, WriteEndsUnderway DEF Seats
  <2>2. ASSUME ~\E c \in Conns : WriteEnds(c) PROVE UNCHANGED <<reg, conn>>
    BY <2>2 DEF Tasks, WriteSync, WriteAudio, Read
  <2> QED BY <2>1, <2>2 DEF Member
<1>2. Member(p)' => Member(p)
  <2>1. UNCHANGED conn /\ conn[p] \in Nat /\ reg \in [Peers -> Nat]
    BY SeatsTask DEF MeshTypes, Numbered
  <2>2. reg'[p] = reg[p] \/ reg'[p] = 0
    <3>1. ASSUME NEW c \in Conns, WriteEnds(c) PROVE reg'[p] = reg[p] \/ reg'[p] = 0
      BY <2>1, <3>1 DEF WriteEnds
    <3>2. ASSUME ~\E c \in Conns : WriteEnds(c) PROVE UNCHANGED reg
      BY <3>2 DEF Tasks, WriteSync, WriteAudio, Read
    <3> QED BY <3>1, <3>2
  <2> QED BY <2>1, <2>2 DEF Member
<1> QED BY <1>1, <1>2


----------------------------------------------------------------------------
(* What a program queues                                                   *)

LEMMA QueuedGrown ==
    ASSUME NEW words, NEW sounds, MeshTypes(words, sounds), NEW p \in Peers,
           NEW bodies \in Seq(Orders(words)), Queued(p, bodies)
    PROVE  \A e \in Conns : Grown(outSync'[e], outSync[e], Orders(words))
<1>1. outSync \in [Conns -> Seq(Orders(words))]
  BY DEF MeshTypes, OutTypes
<1>2. ASSUME NEW e \in Conns PROVE outSync'[e] = outSync[e] \/ outSync'[e] = outSync[e] \o bodies
  BY <1>1 DEF Queued
<1> QED BY <1>2 DEF Grown

\* What a member says to p is under way to p.
LEMMA QueuedUnderway ==
    ASSUME NEW words, NEW sounds, MeshTypes(words, sounds), NEW p \in Peers, NEW q \in Peers, NEW W,
           conn[q] # 0, conn'[q] = conn[q],
           NEW o \in Orders(words), o \in Asked(p, W), Queued(q, <<o>>)
    PROVE  Underway(p, q, W)' /\ Pending(p, q, W)'
<1>1. PICK c \in Conns : c = Current(q)
  BY MemberConn
<1>2. outSync[c] \in Seq(Orders(words)) /\ <<o>> \in Seq(Orders(words))
  BY DEF MeshTypes, OutTypes
<1>3. outSync'[c] = outSync[c] \o <<o>>
  BY <1>1 DEF Queued, MeshTypes, OutTypes
<1>4. Holds(<<o>>, Asked(p, W))
  <2>1. Len(<<o>>) = 1 /\ <<o>>[1] = o /\ 1 \in 1..1
    OBVIOUS
  <2> QED BY <2>1 DEF Holds
<1>5. Holds(outSync'[c], Asked(p, W))
  <2> DEFINE t == <<o>>
  <2>1. PICK S : outSync[c] \in Seq(S) /\ t \in Seq(S)
    BY <1>2
  <2>2. outSync'[c] = outSync[c] \o t /\ Holds(t, Asked(p, W))
    BY <1>3, <1>4
  <2> HIDE DEF t
  <2> QED BY <2>1, <2>2, HoldsJoined
<1>6. Current(q)' = c
  BY <1>1 DEF Current
<1> QED BY <1>5, <1>6 DEF Underway, Pending, Asked

\* A member hears of every newcomer.
LEMMA JoinsExpected ==
    ASSUME NEW words, NEW sounds, MeshTypes(words, sounds), NEW p \in Peers, NEW q \in Peers, p # q,
           Joins(p), Member(q)
    PROVE  Expected(p, q)'
<1>0. conn[q] # 0 /\ reg[q] = conn[q]
  BY DEF Member
<1>1. PICK c \in Conns : c = Current(q) /\ c[1] = q /\ c[2] = conn[q]
  BY <1>0, MemberConn
<1>2. wire' = Relayed(Others(p), Msg("joined", p, {})) /\ conn'[q] = conn[q]
  BY DEF Joins
<1>3. c[1] \in Others(p) /\ reg[c[1]] = c[2]
  BY <1>0, <1>1 DEF Others
<1>4. wire'[c] = Append(wire[c], Msg("joined", p, {}))
  BY <1>2, <1>3, RelayedIs
<1>5. PICK S : wire[c] \in Seq(S)
  BY <1>0, <1>1, MemberConn
<1>6. Msg("joined", p, {}) \in Newcomer(p)
  BY DEF Newcomer
<1>7. Holds(wire'[c], Newcomer(p))
  BY <1>4, <1>5, <1>6, HoldsAppended
<1>8. Current(q)' = c
  BY <1>1, <1>2 DEF Current
<1> QED BY <1>7, <1>8 DEF Expected, Newcomer, Msg

----------------------------------------------------------------------------
(* What comes while a program waits for join_ok                            *)

\* What the relay sends a program that waits stays on the wire, and a text message fails it.
Text(p, words, sounds) == {m \in Mail(p, words, sounds) : m.kind # "audio"}

LEMMA OvertakenIs ==
    ASSUME NEW words, NEW sounds, MeshTypes(words, sounds), Seated, NEW p \in joining
    PROVE  /\ wire[Seat(p)] \in Seq(Mail(p, words, sounds))
           /\ Overtaken(p) <=> Holds(wire[Seat(p)], Text(p, words, sounds))
<1>1. PICK c \in Conns : c = Seat(p) /\ c[1] = p
  BY SeatIs DEF MeshTypes
<1>2. wire[c] \in Seq(Mail(p, words, sounds))
  BY <1>1 DEF MeshTypes, WireTypes, Letters
<1>3. \A i \in 1..Len(wire[c]) : wire[c][i] \in Mail(p, words, sounds)
  BY <1>2
<1> HIDE DEF Mail
<1> QED BY <1>1, <1>2, <1>3 DEF Overtaken, Holds, Text

LEMMA KeptOvertaken ==
    ASSUME NEW words, NEW sounds, MeshTypes(words, sounds), Seated, NEW p \in joining, opened'[p] = opened[p],
           Grown(wire'[Seat(p)], wire[Seat(p)], Mail(p, words, sounds)), Overtaken(p)
    PROVE  Overtaken(p)'
<1>1. Seat(p)' = Seat(p)
  BY DEF Seat
<1>2. Holds(wire'[Seat(p)], Text(p, words, sounds))
  BY OvertakenIs, GrownHolds
<1> QED BY <1>1, <1>2 DEF Overtaken, Holds, Text

LEMMA KeptPending ==
    ASSUME NEW words, NEW sounds, MeshTypes(words, sounds), Seated, NEW p \in joining, NEW q \in Peers, NEW W,
           opened'[p] = opened[p], conn[q] # 0, conn'[q] = conn[q],
           Grown(outSync'[Current(q)], outSync[Current(q)], Orders(words)),
           Grown(wire'[Seat(p)], wire[Seat(p)], Mail(p, words, sounds)),
           Pending(p, q, W)
    PROVE  Pending(p, q, W)'
<1>1. Current(q)' = Current(q) /\ outSync[Current(q)] \in Seq(Orders(words))
  BY MemberConn DEF Current
<1>2. Holds(outSync[Current(q)], Asked(p, W)) => Holds(outSync'[Current(q)], Asked(p, W))
  BY <1>1, GrownHolds
<1>3. Overtaken(p) => Overtaken(p)'
  BY KeptOvertaken
<1> QED BY <1>1, <1>2, <1>3 DEF Pending, Asked

\* A word that a write task takes for a program that waits overtakes its join_ok.
LEMMA WritePending ==
    ASSUME NEW words, NEW sounds, MeshTypes(words, sounds), Seated, NEW c \in Conns, WriteSync(c) \/ WriteAudio(c),
           NEW p \in joining, NEW q \in Peers, p # q, Member(q), NEW W, Pending(p, q, W)
    PROVE  Pending(p, q, W)'
<1>0. conn[q] # 0 /\ reg[q] = conn[q]
  BY DEF Member
<1>1. UNCHANGED <<conn, opened>>
  BY DEF WriteSync, WriteAudio
<1>2. PICK cq \in Conns : cq = Current(q) /\ cq[1] = q /\ cq[2] = conn[q]
  BY <1>0, MemberConn
<1>3. PICK cp \in Conns : cp = Seat(p) /\ cp[1] = p /\ reg[cp[1]] = cp[2] /\ cp[2] # 0
  BY SeatIs DEF MeshTypes, Seated
<1>4. \A e \in Conns : \A S : Grown(wire'[e], wire[e], S)
  BY ForwardedGrown DEF WriteSync, WriteAudio
<1>5. outSync \in [Conns -> Seq(Orders(words))] /\ p \in Peers
  BY DEF MeshTypes, OutTypes, Numbered
<1>6. CASE outSync'[cq] = outSync[cq]
  BY <1>0, <1>1, <1>2, <1>3, <1>4, <1>6, SameGrown, KeptPending
<1>7. CASE c = cq /\ WriteSync(c)
  <2> DEFINE o == Head(outSync[cq])
             m == Msg("sync", q, o.what)
  <2>1. outSync[cq] # <<>> /\ outSync'[cq] = Tail(outSync[cq]) /\ Forwarded(cq, o.to, m)
    BY <1>2, <1>5, <1>7 DEF WriteSync
  <2>m. m.kind = "sync"
    BY DEF Msg
  <2> HIDE DEF o, m
  <2>2. ASSUME Overtaken(p) PROVE Pending(p, q, W)'
    <3>1. Overtaken(p)'
      BY <1>1, <1>3, <1>4, <2>2, KeptOvertaken
    <3> QED BY <3>1 DEF Pending
  <2>3. ASSUME Holds(outSync[cq], Asked(p, W)) PROVE Pending(p, q, W)'
    <3>1. o \in Asked(p, W) \/ Holds(Tail(outSync[cq]), Asked(p, W))
      BY <1>5, <2>1, <2>3, HoldsFirst DEF o
    <3>2. CASE Holds(Tail(outSync[cq]), Asked(p, W))
      BY <1>1, <1>2, <2>1, <3>2 DEF Pending, Current, Asked
    <3>3. CASE o \in Asked(p, W)
      <4>1. p \in o.to \cap Others(q)
        BY <1>3, <1>5, <3>3 DEF Others, Asked
      <4>2. wire'[cp] = Append(wire[cp], m)
        BY <1>0, <1>2, <1>3, <2>1, <4>1, ForwardedGrown
      <4>3. PICK S : wire[cp] \in Seq(S)
        BY <1>3, OvertakenIs
      <4>4. Holds(wire'[cp], {m})
        BY <4>2, <4>3, HoldsAppended
      <4>5. Seat(p)' = cp
        BY <1>1, <1>3 DEF Seat
      <4>6. Overtaken(p)'
        BY <2>m, <4>4, <4>5 DEF Overtaken, Holds
      <4> QED BY <4>6 DEF Pending
    <3> QED BY <3>1, <3>2, <3>3
  <2> QED BY <1>2, <2>2, <2>3 DEF Pending
<1>8. outSync'[cq] = outSync[cq] \/ (c = cq /\ WriteSync(c))
  BY <1>5 DEF WriteSync, WriteAudio
<1> QED BY <1>6, <1>7, <1>8

\* No task loses what is pending.
LEMMA TaskPending ==
    ASSUME NEW words, NEW sounds, MeshTypes(words, sounds), Seats, Tasks,
           NEW p \in joining, NEW q \in Peers, p # q, Member(q), NEW W, Pending(p, q, W)
    PROVE  Pending(p, q, W)'
<1>0. conn[q] # 0 /\ reg[q] = conn[q] /\ Seated /\ Gone
  BY DEF Member, Seats
<1>1. UNCHANGED <<conn, opened>>
  BY SeatsTask
<1>2. PICK cq \in Conns : cq = Current(q) /\ cq[1] = q /\ cq[2] = conn[q]
  BY <1>0, MemberConn
<1>3. PICK cp \in Conns : cp = Seat(p) /\ cp[1] = p /\ cp[2] = opened[p] /\ conn[p] # opened[p]
  BY <1>0, SeatIs DEF MeshTypes
<1>4. ASSUME NEW c \in Conns, WriteEnds(c) PROVE Pending(p, q, W)'
  <2>1. c # cq /\ c # cp
    BY <1>0, <1>2, <1>3, <1>4 DEF WriteEnds, Gone
  <2>2. outSync'[cq] = outSync[cq]
    BY <1>4, <2>1 DEF WriteEnds, MeshTypes, OutTypes
  <2>3. \A S : Grown(wire'[cp], wire[cp], S)
    BY <1>4, <2>1, EndsGrown
  <2> QED BY <1>0, <1>1, <1>2, <1>3, <2>2, <2>3, SameGrown, KeptPending
<1>5. ASSUME NEW r \in Peers, Read(r) PROVE Pending(p, q, W)'
  <2>1. Current(r) # cp
    BY <1>3 DEF Current
  <2>2. wire'[cp] = wire[cp] /\ UNCHANGED outSync
    BY <1>5, <2>1 DEF Read, MeshTypes, WireTypes
  <2> QED BY <1>0, <1>1, <1>2, <1>3, <2>2, SameGrown, KeptPending
<1>6. ASSUME NEW c \in Conns, WriteSync(c) \/ WriteAudio(c) PROVE Pending(p, q, W)'
  BY <1>0, <1>6, WritePending
<1> QED BY <1>4, <1>5, <1>6 DEF Tasks

\* When join_ok comes first, what was pending is under way.
LEMMA PendingUnderway ==
    ASSUME NEW p \in Peers, NEW q \in Peers, conn'[q] = conn[q], UNCHANGED outSync, ~Overtaken(p),
           NEW W, Pending(p, q, W)
    PROVE  Underway(p, q, W)'
BY DEF Pending, Underway, Current, Asked

=============================================================================
