------------------------ MODULE TwoMachineTestProofs ------------------------
(***************************************************************************)
(* The presence set of the end-to-end test's programs, through their       *)
(* reconnection and whatever connections the network loses: CompleteInv is *)
(* inductive together with the types, with who has a seat at the relay     *)
(* (Seats) and with what a join will be told (JoinInv).                    *)
(***************************************************************************)
EXTENDS TwoMachineTest, PeerMeshProofs

Words  == {"Hello", Ping, Pong}
Sounds == {Frame}

CountTypes == toSend \in [Peers -> Nat]
TypeInv == MeshTypes(Words, Sounds) /\ CountTypes

\* What an action leaves to the mesh's invariants.
MeshInv  == Seats /\ JoinInv
MeshKept == MeshInv => MeshTypes(Words, Sounds)' /\ MeshInv' /\ (CompleteInv => CompleteInv')

LEMMA TypeInit == Init => TypeInv
BY MeshTypesInit DEF Init, TypeInv, CountTypes

\* What the test says.
LEMMA Bodies ==
    /\ <<ToAll("Hello"), ToAll(Ping)>> \in Seq(Orders(Words))
    /\ \A q \in Peers : <<ToPeer(q, Pong)>> \in Seq(Orders(Words))
<1>1. ToAll("Hello") \in Orders(Words) /\ ToAll(Ping) \in Orders(Words)
  BY DEF Words, Orders, ToAll
<1>2. \A q \in Peers : ToPeer(q, Pong) \in Orders(Words)
  BY DEF Words, Orders, ToPeer
<1> QED BY <1>1, <1>2

LEMMA IntervalTypes == [k \in 1..PerInterval |-> Frame] \in Seq(Sounds)
<1>1. PerInterval \in Nat
  BY TestAssumption
<1> QED BY <1>1 DEF Sounds

\* With the net as it was nobody's seat or join changes.
LEMMA NetKept ==
    ASSUME MeshTypes(Words, Sounds), UNCHANGED netVars, MeshTypes(Words, Sounds)', PresenceKept
    PROVE  MeshKept
<1>1. UNCHANGED <<reg, conn, opened, joining>> /\ dropped' \subseteq dropped
  BY DEF netVars
<1>2. Seats => Seats'
  BY <1>1, SeatsSame
<1> QED BY <1>2 DEF MeshKept, MeshInv, PresenceKept

\* An action of a program that leaves the net alone keeps the mesh if what it does to its
\* queues and channels is of their types.
LEMMA QueuesKept ==
    ASSUME MeshTypes(Words, Sounds), UNCHANGED netVars, UNCHANGED pollVars,
           outSync' \in [Conns -> Seq(Orders(Words))], outAudio' \in [Conns -> Seq(Sounds)],
           ChanTypes(Words, Sounds)'
    PROVE  MeshKept
<1>1. UNCHANGED <<reg, conn, wire, ctl, known, opened, dropped, joining, listed>>
  BY DEF netVars, pollVars
<1>2. MeshTypes(Words, Sounds)'
  BY <1>1 DEF MeshTypes, Numbered, WireTypes, Unused, OutTypes
<1>3. \A p, q \in Peers : Foreseen(p, q)' <=> Foreseen(p, q)
  BY <1>1 DEF Foreseen, Awaits, Current
<1>4. PresenceKept
  BY <1>1, <1>3, WireExact DEF MeshTypes
<1> QED BY <1>2, <1>4, NetKept

LEMMA PollKept ==
    ASSUME MeshTypes(Words, Sounds), NEW p \in Peers, Polled(p), UNCHANGED <<netVars, outAudio, syn, aud>>,
           outSync' \in [Conns -> Seq(Orders(Words))]
    PROVE  MeshKept
<1>1. UNCHANGED <<reg, conn, wire, opened, dropped, joining, listed>>
  BY DEF netVars
<1>2. ChanTypes(Words, Sounds)'
  BY PolledTypes
<1>3. MeshTypes(Words, Sounds)'
  BY <1>1, <1>2 DEF MeshTypes, Numbered, WireTypes, Unused, OutTypes
<1>4. PresenceKept
  BY <1>1, PolledExact
<1> QED BY <1>3, <1>4, NetKept

\* The first word or frame is taken from a channel.
LEMMA SynTaken ==
    ASSUME MeshTypes(Words, Sounds), NEW p \in Peers, syn[p] # <<>>, syn' = [syn EXCEPT ![p] = Tail(@)],
           UNCHANGED <<ctl, known, aud>>
    PROVE  ChanTypes(Words, Sounds)' /\ Head(syn[p]).from \in Peers
<1>1. syn[p] \in Said(p, Words)
  BY DEF MeshTypes, ChanTypes
<1>2. Head(syn[p]) \in Syncs(p, Words) /\ Tail(syn[p]) \in Said(p, Words)
  BY <1>1, Taken DEF Said
<1>3. Head(syn[p]).from \in Peers
  BY <1>2 DEF Syncs
<1> QED BY <1>2, <1>3 DEF MeshTypes, ChanTypes

LEMMA AudTaken ==
    ASSUME MeshTypes(Words, Sounds), NEW p \in Peers, aud[p] # <<>>, aud' = [aud EXCEPT ![p] = Tail(@)],
           UNCHANGED <<ctl, known, syn>>
    PROVE  ChanTypes(Words, Sounds)'
<1>1. aud[p] \in Played(p, Sounds)
  BY DEF MeshTypes, ChanTypes
<1>2. Tail(aud[p]) \in Played(p, Sounds)
  BY <1>1, Taken DEF Played
<1> QED BY <1>2 DEF MeshTypes, ChanTypes

LEMMA SameOut ==
    ASSUME MeshTypes(Words, Sounds)
    PROVE  /\ UNCHANGED outSync => outSync' \in [Conns -> Seq(Orders(Words))]
           /\ UNCHANGED outAudio => outAudio' \in [Conns -> Seq(Sounds)]
           /\ UNCHANGED chanVars => ChanTypes(Words, Sounds)'
BY DEF MeshTypes, OutTypes, ChanTypes, chanVars, pollVars

----------------------------------------------------------------------------
(* The actions                                                             *)

LEMMA JoinsKept ==
    ASSUME MeshTypes(Words, Sounds), NEW p \in Peers, Joins(p)
    PROVE  MeshKept
<1>1. SUFFICES ASSUME MeshInv PROVE MeshTypes(Words, Sounds)' /\ MeshInv' /\ (CompleteInv => CompleteInv')
  BY DEF MeshKept
<1>2. PresenceKept
  BY <1>1, JoinsExact DEF MeshInv, Seats
<1> QED BY <1>1, <1>2, JoinsTypes, SeatsJoins DEF MeshInv, PresenceKept

LEMMA ConnectKept ==
    ASSUME MeshTypes(Words, Sounds), NEW p \in Peers, Connect(p)
    PROVE  MeshKept
<1>1. CASE Joins(p)
  BY <1>1, JoinsKept
<1>2. CASE ConnectFull(p)
  <2>1. SUFFICES ASSUME MeshInv PROVE MeshTypes(Words, Sounds)' /\ MeshInv' /\ (CompleteInv => CompleteInv')
    BY DEF MeshKept
  <2>2. PresenceKept
    BY <1>2, <2>1, ConnectExact DEF MeshInv, Seats
  <2> QED BY <1>2, <2>1, <2>2, ConnectTypes, SeatsConnect DEF MeshInv, PresenceKept
<1> QED BY <1>1, <1>2 DEF Connect

LEMMA JoinErrorKept ==
    ASSUME MeshTypes(Words, Sounds), NEW p \in Peers, JoinError(p)
    PROVE  MeshKept
<1>1. SUFFICES ASSUME MeshInv PROVE MeshTypes(Words, Sounds)' /\ MeshInv' /\ (CompleteInv => CompleteInv')
  BY DEF MeshKept
<1>2. JoinFails(p) /\ Seated
  BY <1>1 DEF JoinError, MeshInv, Seats
<1>3. PresenceKept
  BY <1>2, FailsExact
<1> QED BY <1>1, <1>2, <1>3, FailsTypes, SeatsFails DEF MeshInv, PresenceKept

LEMMA ReconnectKept ==
    ASSUME MeshTypes(Words, Sounds), NEW p \in Peers, Reconnect(p)
    PROVE  MeshKept
<1>1. CASE Joins(p)
  BY <1>1, JoinsKept
<1>2. CASE ReconnectSignaling(p)
  <2>1. SUFFICES ASSUME MeshInv PROVE MeshTypes(Words, Sounds)' /\ MeshInv' /\ (CompleteInv => CompleteInv')
    BY DEF MeshKept
  <2>2. JoinInv' /\ (CompleteInv => CompleteInv')
    BY <1>2, <2>1, ReconnectComplete DEF MeshInv, Seats
  <2> QED BY <1>2, <2>1, <2>2, ReconnectTypes, SeatsReconnect DEF MeshInv
<1> QED BY <1>1, <1>2 DEF Reconnect

\* The actions that poll, greeting or not.
LEMMA PollingKept ==
    ASSUME MeshTypes(Words, Sounds), NEW p \in Peers,
           Discover(p) \/ PollsPast(p) \/ WaitLeft(p) \/ WaitJoin(p)
    PROVE  MeshKept
<1>1. Polled(p) /\ UNCHANGED <<netVars, outAudio, syn, aud>>
  BY DEF Discover, PollsPast, WaitLeft, WaitJoin
<1>2. UNCHANGED outSync \/ Queued(p, <<ToAll("Hello"), ToAll(Ping)>>)
  BY DEF Discover, PollsPast, WaitLeft, WaitJoin, SyncBegins
<1>3. outSync' \in [Conns -> Seq(Orders(Words))]
  BY <1>2, SameOut, Bodies, QueuedTypes
<1> QED BY <1>1, <1>3, PollKept

LEMMA WordKept ==
    ASSUME MeshTypes(Words, Sounds), NEW p \in Peers, Passthrough(p) \/ SyncTakes(p)
    PROVE  MeshKept
<1> DEFINE q == Head(syn[p]).from
<1>1. /\ syn[p] # <<>> /\ syn' = [syn EXCEPT ![p] = Tail(@)] /\ UNCHANGED <<netVars, pollVars, aud>>
      /\ UNCHANGED outSync \/ Queued(p, <<ToPeer(q, Pong)>>)
  BY DEF Passthrough, SyncTakes
<1>2. ChanTypes(Words, Sounds)' /\ q \in Peers
  BY <1>1, SynTaken DEF pollVars
<1> HIDE DEF q
<1>3. outSync' \in [Conns -> Seq(Orders(Words))]
  <2>1. <<ToPeer(q, Pong)>> \in Seq(Orders(Words))
    BY <1>2, Bodies
  <2> QED BY <1>1, <2>1, SameOut, QueuedTypes
<1>4. outAudio' \in [Conns -> Seq(Sounds)]
  <2>1. CASE UNCHANGED outAudio
    BY <2>1, SameOut
  <2>2. CASE SendsInterval(p)
    BY <2>2, IntervalTypes, QueuedAudioTypes DEF SendsInterval
  <2>3. UNCHANGED outAudio \/ SendsInterval(p)
    <3>1. CASE Passthrough(p)
      BY <3>1 DEF Passthrough
    <3>2. CASE SyncTakes(p)
      BY <3>2 DEF SyncTakes
    <3> QED BY <3>1, <3>2
  <2> QED BY <2>1, <2>2, <2>3
<1> QED BY <1>1, <1>2, <1>3, <1>4, QueuesKept

LEMMA SendKept ==
    ASSUME TypeInv, NEW p \in Peers, NEW where, SendNext(p, where)
    PROVE  MeshKept /\ CountTypes'
<1>1. toSend[p] \in Nat \ {0} /\ MeshTypes(Words, Sounds)
  BY DEF SendNext, TypeInv, CountTypes
<1>2. outAudio' \in [Conns -> Seq(Sounds)]
  BY <1>1, IntervalTypes, QueuedAudioTypes DEF SendNext, SendsInterval
<1>3. UNCHANGED <<netVars, outSync, chanVars>>
  BY DEF SendNext
<1>4. UNCHANGED pollVars
  BY <1>3 DEF chanVars
<1>5. MeshKept
  BY <1>1, <1>2, <1>3, <1>4, SameOut, QueuesKept
<1>6. CountTypes'
  BY <1>1 DEF SendNext, TypeInv, CountTypes
<1> QED BY <1>5, <1>6

\* The actions that take or throw away a frame.
FrameTaken(p) ==
    /\ aud[p] # <<>> /\ aud' = [aud EXCEPT ![p] = Tail(@)]
    /\ UNCHANGED <<netVars, outSync, outAudio, pollVars, syn>>
LEMMA FrameKept ==
    ASSUME MeshTypes(Words, Sounds), NEW p \in Peers, FrameTaken(p)
    PROVE  MeshKept
<1>1. ChanTypes(Words, Sounds)'
  BY AudTaken DEF FrameTaken, pollVars
<1> QED BY <1>1, SameOut, QueuesKept DEF FrameTaken

LEMMA TakesCount ==
    ASSUME TypeInv, NEW p \in Peers, NEW where, NEW count, NEW next, NEW sends \in Nat,
           Takes(p, where, count, next, sends)
    PROVE  FrameTaken(p) /\ CountTypes'
BY DEF Takes, FrameTaken, TypeInv, CountTypes

LEMMA TakingKept ==
    ASSUME TypeInv, NEW p \in Peers, TakeSingle(p) \/ TakeSustained(p) \/ TakeBurst(p) \/ TakeLast(p)
    PROVE  MeshKept /\ CountTypes'
<1>1. Intervals \in Nat /\ Burst \in Nat /\ 0 \in Nat
  BY TestAssumption
<1>2. FrameTaken(p) /\ CountTypes'
  BY <1>1, TakesCount DEF TakeSingle, TakeSustained, TakeBurst, TakeLast
<1> QED BY <1>2, FrameKept DEF TypeInv

LEMMA DrainKept ==
    ASSUME MeshTypes(Words, Sounds), NEW p \in Peers, Drain(p)
    PROVE  MeshKept
<1>1. UNCHANGED <<netVars, outSync, outAudio>>
  BY DEF Drain
<1>2. CASE Polled(p) /\ UNCHANGED <<syn, aud>>
  BY <1>1, <1>2, SameOut, PollKept
<1>3. CASE syn[p] # <<>> /\ syn' = [syn EXCEPT ![p] = Tail(@)] /\ UNCHANGED <<pollVars, aud>>
  BY <1>1, <1>3, SameOut, SynTaken, QueuesKept DEF pollVars
<1>4. CASE aud[p] # <<>> /\ aud' = [aud EXCEPT ![p] = Tail(@)] /\ UNCHANGED <<pollVars, syn>>
  BY <1>1, <1>4, FrameKept DEF FrameTaken
<1> QED BY <1>2, <1>3, <1>4 DEF Drain

LEMMA DrainEndsKept ==
    ASSUME MeshTypes(Words, Sounds), NEW p \in Peers, DrainEnds(p)
    PROVE  MeshKept
<1>1. Queued(p, <<ToAll("Hello"), ToAll(Ping)>>) /\ UNCHANGED <<netVars, outAudio, chanVars>>
  BY DEF DrainEnds, SyncBegins
<1>2. outSync' \in [Conns -> Seq(Orders(Words))]
  BY <1>1, Bodies, QueuedTypes
<1>3. UNCHANGED pollVars
  BY <1>1 DEF chanVars
<1> QED BY <1>1, <1>2, <1>3, SameOut, QueuesKept


LEMMA WaitLeftAudioKept ==
    ASSUME MeshTypes(Words, Sounds), NEW p \in Peers, WaitLeftAudio(p)
    PROVE  MeshKept
BY FrameKept DEF WaitLeftAudio, FrameTaken

\* The connection that the network loses is the one that the relay has for its peer.
LEMMA LossKept ==
    ASSUME MeshTypes(Words, Sounds), NEW p \in Peers, Loss(p)
    PROVE  MeshKept
<1>1. /\ reg[p] # 0 /\ reg[p] = conn[p] /\ reg' = [reg EXCEPT ![p] = 0]
      /\ wire' = [Relayed(Others(p), Msg("left", p, {})) EXCEPT ![Current(p)] = <<>>]
      /\ UNCHANGED <<conn, opened, dropped, joining, listed, outSync, outAudio, ctl, known, syn, aud>>
  BY DEF Loss, ConnectionLost, chanVars, pollVars
<1>2. PICK c \in Conns : c = Current(p) /\ c[1] = p /\ c[2] = conn[p]
  BY <1>1, CurrentIs DEF MeshTypes
<1>3. Departs(c)
  BY <1>1, <1>2 DEF Departs
<1>4. Seats => p \notin joining
  BY <1>1 DEF Seats, Seated
<1>k. Seats => PresenceKept /\ Seats'
  BY <1>1, <1>2, <1>3, <1>4, DepartsExact, SeatsVacated DEF Seats
<1> DEFINE w == Relayed(Others(p), Msg("left", p, {}))
<1>5. /\ w = [d \in Conns |-> w[d]]
      /\ \A d \in Conns : w[d] \in Letters(d[1], Words, Sounds)
  <2>1. Deliverable(Others(p), Msg("left", p, {}), Words, Sounds)
    BY NewsTypes DEF Deliverable
  <2> QED BY <2>1, RelayedTypes DEF MeshTypes
<1>6. \A d \in Conns : d[2] > opened[d[1]] => w[d] = <<>>
  BY RelayedUnused DEF MeshTypes
<1>7. wire' = [w EXCEPT ![c] = <<>>]
  BY <1>1, <1>2
<1> HIDE DEF w
<1>8. WireTypes(Words, Sounds)' /\ Unused'
  <2>1. /\ wire' = [d \in Conns |-> wire'[d]]
        /\ \A d \in Conns : wire'[d] = IF d = c THEN <<>> ELSE w[d]
    BY <1>5, <1>7
  <2>2. ASSUME NEW d \in Conns PROVE wire'[d] \in Letters(d[1], Words, Sounds)
    <3>1. <<>> \in Letters(d[1], Words, Sounds)
      BY DEF Letters
    <3> QED BY <1>5, <2>1, <3>1
  <2> QED BY <1>1, <1>6, <2>1, <2>2 DEF WireTypes, Unused
<1>9. Numbered' /\ OutTypes(Words, Sounds)' /\ ChanTypes(Words, Sounds)'
  BY <1>1 DEF MeshTypes, Numbered, OutTypes, ChanTypes
<1> QED BY <1>k, <1>8, <1>9 DEF MeshKept, MeshTypes, MeshInv, PresenceKept

LEMMA TasksKept ==
    ASSUME MeshTypes(Words, Sounds), Tasks
    PROVE  MeshKept
<1>1. SUFFICES ASSUME MeshInv PROVE MeshTypes(Words, Sounds)' /\ MeshInv' /\ (CompleteInv => CompleteInv')
  BY DEF MeshKept
<1>2. PresenceKept /\ Seats'
  BY <1>1, TaskExact, SeatsTask DEF MeshInv
<1> QED BY <1>1, <1>2, TaskTypes DEF MeshInv, PresenceKept

LEMMA IdleKept ==
    ASSUME MeshTypes(Words, Sounds), UNCHANGED meshVars
    PROVE  MeshKept
BY SameOut, QueuesKept DEF meshVars, netVars, pollVars, chanVars

----------------------------------------------------------------------------
(* A step                                                                  *)

\* The actions that send none of the intervals of a phase.
LEMMA CountsSame ==
    ASSUME CountTypes, UNCHANGED toSend
    PROVE  CountTypes'
BY DEF CountTypes

LEMMA ProgramKept ==
    ASSUME TypeInv, NEW p \in Peers, Program(p)
    PROVE  MeshKept /\ CountTypes'
<1>1. MeshTypes(Words, Sounds) /\ CountTypes
  BY DEF TypeInv
<1>2. CASE Connect(p) \/ JoinError(p) \/ Discover(p) \/ PollsPast(p)
  <2>1. UNCHANGED toSend
    BY <1>2 DEF Connect, JoinError, Discover, PollsPast, Rest, audioVars
  <2> QED BY <1>1, <1>2, <2>1, ConnectKept, JoinErrorKept, PollingKept, CountsSame
<1>3. CASE Passthrough(p) \/ SyncTakes(p)
  <2>1. UNCHANGED toSend
    BY <1>3 DEF Passthrough, SyncTakes, audioVars
  <2> QED BY <1>1, <1>3, <2>1, WordKept, CountsSame
<1>4. CASE TakeSingle(p) \/ TakeSustained(p) \/ TakeBurst(p) \/ TakeLast(p)
  BY <1>4, TakingKept
<1>5. CASE SendSustained(p) \/ SendBurst(p)
  BY <1>5, SendKept DEF SendSustained, SendBurst
<1>6. CASE Initiator(p)
  <2>1. UNCHANGED toSend
    BY <1>6 DEF Initiator, Reconnect, Drain, DrainEnds, Rest, audioVars
  <2> QED BY <1>1, <1>6, <2>1, ReconnectKept, DrainKept, DrainEndsKept, CountsSame DEF Initiator
<1>7. CASE WaitLeft(p) \/ WaitLeftAudio(p) \/ WaitJoin(p)
  <2>1. UNCHANGED toSend
    BY <1>7 DEF WaitLeft, WaitLeftAudio, WaitJoin, audioVars
  <2> QED BY <1>1, <1>7, <2>1, PollingKept, WaitLeftAudioKept, CountsSame
<1> QED BY <1>2, <1>3, <1>4, <1>5, <1>6, <1>7
        DEF Program, SyncExchange, SingleAudio, SustainedAudio, BurstAudio, Waiter

LEMMA StepKept == TypeInv /\ [Next]_vars => MeshKept /\ CountTypes'
<1> SUFFICES ASSUME TypeInv, [Next]_vars PROVE MeshKept /\ CountTypes'
  OBVIOUS
<1>1. MeshTypes(Words, Sounds) /\ CountTypes
  BY DEF TypeInv
<1>2. ASSUME NEW p \in Peers, Loss(p) PROVE MeshKept /\ CountTypes'
  BY <1>1, <1>2, LossKept, CountsSame DEF Loss, audioVars
<1>3. CASE Task
  BY <1>1, <1>3, TasksKept, CountsSame DEF Task, audioVars
<1>4. CASE UNCHANGED vars
  BY <1>1, <1>4, IdleKept, CountsSame DEF vars, audioVars
<1> QED BY <1>2, <1>3, <1>4, ProgramKept DEF Next

\* A program that has heard all that the relay announced to it knows everybody in the room:
\* through joins whose list is overtaken or comes in time, reconnect_signaling, which takes
\* the peer list itself, and connections that the network loses.
THEOREM TestPresenceComplete == Spec => []PresenceComplete
<1>1. Init => TypeInv /\ MeshInv /\ CompleteInv
  BY TypeInit, ExactInit, SeatsInit DEF Init, MeshInv
<1>2. TypeInv /\ MeshInv /\ CompleteInv /\ [Next]_vars => TypeInv' /\ MeshInv' /\ CompleteInv'
  BY StepKept DEF MeshKept, TypeInv
<1>3. TypeInv /\ CompleteInv => PresenceComplete
  BY ExactGives DEF TypeInv
<1> QED BY <1>1, <1>2, <1>3, PTL DEF Spec
=============================================================================
