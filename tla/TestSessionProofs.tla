------------------------- MODULE TestSessionProofs -------------------------
(***************************************************************************)
(* What holds of TestSession for every set of clients, every script and    *)
(* every capacity.  Each theorem has its inductive invariant:              *)
(*                                                                         *)
(*   - TypeInv: the types of the mesh (MeshTypes) and of the loop;         *)
(*   - Seats, of PeerMeshProofs: who waits for join_ok has its connection  *)
(*     at the relay, and one that was dropped is nobody's own again;       *)
(*   - ExactInv and JoinInv, of PeerMeshProofs, for PresenceExact;         *)
(*   - RiseInv: the last frame made is behind the clock, the tracker and   *)
(*     the frame counter;                                                  *)
(*   - StormInv: the answers given are bounded by what greeted_peers       *)
(*     remembers and the connections before this one;                      *)
(*   - Links: a mesh that is there is registered at the relay, and who     *)
(*     waits for join_ok has none;                                         *)
(*   - NamesInv, ReachInv: where a name or a boundary is that a client has *)
(*     not taken yet: in the sender's queue, on the wire or in a channel.  *)
(***************************************************************************)
EXTENDS TestSession, PeerMeshProofs, FiniteSetTheorems

----------------------------------------------------------------------------
(* Intervals of a clock                                                    *)

LEMMA IntervalInt ==
    ASSUME NEW b \in Int
    PROVE  Interval(b) \in Int
BY SessionAssumption DEF Interval

\* A clock that goes on does not go back an interval.
LEMMA IntervalsRise ==
    ASSUME NEW a \in Int, NEW b \in Int, a <= b
    PROVE  Interval(a) <= Interval(b)
<1> DEFINE d == PerInterval
           k == a \div d
           l == b \div d
           r == a % d
           s == b % d
<1>1. d \in Nat \ {0}
  BY SessionAssumption
<1>2. /\ k \in Int /\ l \in Int /\ r \in Int /\ s \in Int
      /\ a = d * k + r /\ b = d * l + s /\ 0 <= r /\ r < d /\ 0 <= s /\ s < d
  BY <1>1
<1> HIDE DEF d, k, l, r, s
<1>3. SUFFICES ASSUME k > l PROVE FALSE
  BY <1>2 DEF Interval, d, k, l
<1>4. d * k = d * l + d * (k - l)
  BY <1>1, <1>2
<1>5. d * (k - l) >= d
  BY <1>1, <1>2, <1>3
<1>6. d * k \in Int /\ d * l \in Int /\ d * (k - l) \in Int
  BY <1>1, <1>2
<1> QED BY <1>1, <1>2, <1>4, <1>5, <1>6


----------------------------------------------------------------------------
(* Types                                                                   *)

Words ==
    [what : {"Hello"}, index : {None}] \cup [what : {"IntervalBoundary"}, index : {i \in Int : i > None}]
Sounds == [interval : Int, number : Nat, final : BOOLEAN, stream : {0, 1}]
Stages == {"start", "joining", "find", "open", "top", "select", "exit", "over"}

SessionTypes ==
    /\ stage \in [Peers -> Stages]
    /\ greeted \in [Peers -> SUBSET Peers] /\ names \in [Peers -> SUBSET Peers]
    /\ answers \in [Peers -> Nat] /\ number \in [Peers -> Nat]
    /\ beat \in [Peers -> Int] /\ \A p \in Peers : Interval(beat[p]) > None
    /\ index \in [Peers -> Int] /\ \A p \in Peers : index[p] >= None
    /\ due \in [Peers -> Int] /\ \A p \in Peers : due[p] >= None
    /\ latest \in [Peers -> Int \X Nat]
TypeInv == MeshTypes(Words, Sounds) /\ SessionTypes

LEMMA NoneInt == None \in Int /\ None = -99
BY DEF None

LEMMA TypeInit == Init => TypeInv /\ Seats
<1> SUFFICES ASSUME Init PROVE TypeInv /\ Seats
  OBVIOUS
<1>1. MeshTypes(Words, Sounds) /\ Seats
  BY MeshTypesInit, SeatsInit DEF Init
<1>2. beat = StartBeat /\ StartBeat \in [Peers -> Int] /\ \A p \in Peers : Interval(StartBeat[p]) > None
  BY SessionAssumption DEF Init, Interval
<1>3. SessionTypes
  BY <1>2, NoneInt DEF Init, SessionTypes, Stages
<1> QED BY <1>1, <1>3 DEF TypeInv

\* What a program does to its queues and channels, the net left alone.
LEMMA QueuesTypes ==
    ASSUME NEW words, NEW sounds, MeshTypes(words, sounds), UNCHANGED netVars,
           outSync' \in [Conns -> Seq(Orders(words))], outAudio' \in [Conns -> Seq(sounds)],
           ChanTypes(words, sounds)'
    PROVE  MeshTypes(words, sounds)'
BY DEF MeshTypes, netVars, Numbered, WireTypes, Unused, OutTypes

LEMMA SameMesh ==
    ASSUME NEW words, NEW sounds, MeshTypes(words, sounds), UNCHANGED meshVars
    PROVE  MeshTypes(words, sounds)'
BY DEF MeshTypes, meshVars, Numbered, WireTypes, Unused, OutTypes, ChanTypes

LEMMA PolledMesh ==
    ASSUME NEW words, NEW sounds, MeshTypes(words, sounds), NEW p \in Peers, Polled(p),
           UNCHANGED <<netVars, outAudio, syn, aud>>, outSync' \in [Conns -> Seq(Orders(words))]
    PROVE  MeshTypes(words, sounds)'
<1>1. ChanTypes(words, sounds)'
  BY PolledTypes
<1>2. outAudio' \in [Conns -> Seq(sounds)]
  BY DEF MeshTypes, OutTypes
<1> QED BY <1>1, <1>2, QueuesTypes

\* What the clients say.
LEMMA HelloWord == <<ToAll(Hello)>> \in Seq(Orders(Words)) /\ \A q \in Peers : <<ToPeer(q, Hello)>> \in Seq(Orders(Words))
<1>1. Hello \in Words
  BY DEF Words, Hello
<1>2. ToAll(Hello) \in Orders(Words) /\ \A q \in Peers : ToPeer(q, Hello) \in Orders(Words)
  BY <1>1 DEF Orders, ToAll, ToPeer
<1> QED BY <1>2

LEMMA BoundaryWord == ASSUME NEW i \in Int, i > None PROVE <<ToAll(Boundary(i))>> \in Seq(Orders(Words))
<1>1. Boundary(i) \in Words
  BY DEF Words, Boundary
<1>2. ToAll(Boundary(i)) \in Orders(Words)
  BY <1>1 DEF Orders, ToAll
<1> QED BY <1>2

LEMMA FrameSound ==
    ASSUME NEW p \in Peers, NEW i \in Int, NEW k \in Nat
    PROVE  <<Frame(p, i, k)>> \in Seq(Sounds)
<1> DEFINE last == k = PerInterval - 1
<1>1. last \in BOOLEAN
  BY Zenon
<1> HIDE DEF last
<1>2. [interval |-> i, number |-> k, final |-> last, stream |-> 0] \in Sounds
  BY <1>1 DEF Sounds
<1>3. Frame(p, i, k) \in Sounds
  BY <1>2 DEF Frame, last
<1> QED BY <1>3

\* The next word for p, and who says it.
LEMMA HeadSyn ==
    ASSUME MeshTypes(Words, Sounds), NEW p \in Peers, syn[p] # <<>>
    PROVE  /\ Head(syn[p]) \in Syncs(p, Words) /\ Tail(syn[p]) \in Said(p, Words)
           /\ Head(syn[p]).from \in Peers \ {p} /\ Head(syn[p]).body \in Words
<1>1. syn[p] \in Said(p, Words)
  BY DEF MeshTypes, ChanTypes
<1>2. Head(syn[p]) \in Syncs(p, Words) /\ Tail(syn[p]) \in Said(p, Words)
  BY <1>1, Taken DEF Said
<1> QED BY <1>2 DEF Syncs

LEMMA HeadAud ==
    ASSUME MeshTypes(Words, Sounds), NEW p \in Peers, aud[p] # <<>>
    PROVE  /\ Head(aud[p]) \in Frames(p, Sounds) /\ Tail(aud[p]) \in Played(p, Sounds)
           /\ Head(aud[p]).body \in Sounds
<1>1. aud[p] \in Played(p, Sounds)
  BY DEF MeshTypes, ChanTypes
<1>2. Head(aud[p]) \in Frames(p, Sounds) /\ Tail(aud[p]) \in Played(p, Sounds)
  BY <1>1, Taken DEF Played
<1> QED BY <1>2 DEF Frames


----------------------------------------------------------------------------
(* What each action does to the mesh                                       *)

\* The types, the seats and what is foreseen, after a step.
MeshKept == MeshTypes(Words, Sounds)' /\ Seats' /\ PresenceKept

LEMMA NetKept ==
    ASSUME MeshTypes(Words, Sounds), Seats, UNCHANGED netVars, MeshTypes(Words, Sounds)', PresenceKept
    PROVE  MeshKept
<1>1. UNCHANGED <<reg, conn, opened, joining>> /\ dropped' \subseteq dropped
  BY DEF netVars
<1> QED BY <1>1, SeatsSame DEF MeshKept

LEMMA QueuesKept ==
    ASSUME MeshTypes(Words, Sounds), Seats, UNCHANGED netVars, UNCHANGED <<ctl, known>>, MeshTypes(Words, Sounds)'
    PROVE  MeshKept
<1>1. UNCHANGED <<reg, conn, wire, opened, joining, listed>>
  BY DEF netVars
<1>2. \A p, q \in Peers : Foreseen(p, q)' <=> Foreseen(p, q)
  BY <1>1 DEF Foreseen, Awaits, Current
<1>3. PresenceKept
  BY <1>1, <1>2, WireExact DEF MeshTypes
<1> QED BY <1>3, NetKept

LEMMA IdleMesh ==
    ASSUME MeshTypes(Words, Sounds), Seats, UNCHANGED meshVars
    PROVE  MeshKept
BY SameMesh, QueuesKept DEF meshVars, netVars

LEMMA OpenMesh ==
    ASSUME MeshTypes(Words, Sounds), Seats, NEW p \in Peers, Open(p)
    PROVE  MeshKept
<1>1. outSync' \in [Conns -> Seq(Orders(Words))]
  BY HelloWord, QueuedTypes DEF Open, Greet
<1>2. outAudio' \in [Conns -> Seq(Sounds)] /\ ChanTypes(Words, Sounds)'
  BY DEF Open, chanVars, pollVars, MeshTypes, OutTypes, ChanTypes
<1>3. UNCHANGED <<ctl, known>> /\ UNCHANGED netVars
  BY DEF Open, netVars, chanVars, pollVars
<1> QED BY <1>1, <1>2, <1>3, QueuesTypes, QueuesKept

LEMMA PollMesh ==
    ASSUME MeshTypes(Words, Sounds), Seats, NEW p \in Peers, Find(p) \/ OpenPolls(p) \/ Signal(p)
    PROVE  MeshKept
<1>1. Polled(p) /\ UNCHANGED <<netVars, outAudio, syn, aud>>
  BY DEF Find, OpenPolls, Signal
<1>2. UNCHANGED <<reg, conn, wire, opened, joining, listed>>
  BY <1>1 DEF netVars
<1>3. outSync' \in [Conns -> Seq(Orders(Words))]
  <2>1. UNCHANGED outSync \/ Queued(p, <<ToAll(Hello)>>)
    BY DEF Find, OpenPolls, Signal, Welcome
  <2>2. CASE UNCHANGED outSync
    BY <2>2 DEF MeshTypes, OutTypes
  <2> QED BY <2>1, <2>2, HelloWord, QueuedTypes
<1> QED BY <1>1, <1>2, <1>3, PolledMesh, PolledExact, NetKept

LEMMA SyncMesh ==
    ASSUME MeshTypes(Words, Sounds), Seats, NEW p \in Peers, Sync(p)
    PROVE  MeshKept
<1> DEFINE q == Head(syn[p]).from
<1>1. syn[p] # <<>> /\ syn' = [syn EXCEPT ![p] = Tail(@)] /\ UNCHANGED <<netVars, outAudio, ctl, known, aud>>
  BY DEF Sync, pollVars
<1>2. q \in Peers /\ Tail(syn[p]) \in Said(p, Words)
  BY <1>1, HeadSyn
<1>3. ChanTypes(Words, Sounds)'
  BY <1>1, <1>2 DEF MeshTypes, ChanTypes
<1>4. outSync' \in [Conns -> Seq(Orders(Words))]
  <2>1. UNCHANGED outSync \/ Queued(p, <<ToPeer(q, Hello)>>)
    BY DEF Sync
  <2>2. CASE UNCHANGED outSync
    BY <2>2 DEF MeshTypes, OutTypes
  <2> HIDE DEF q
  <2>3. <<ToPeer(q, Hello)>> \in Seq(Orders(Words))
    BY <1>2, HelloWord
  <2> QED BY <2>1, <2>2, <2>3, QueuedTypes
<1>5. outAudio' \in [Conns -> Seq(Sounds)]
  BY <1>1 DEF MeshTypes, OutTypes
<1>6. UNCHANGED netVars /\ UNCHANGED <<ctl, known>>
  BY <1>1 DEF netVars
<1> QED BY <1>1, <1>3, <1>4, <1>5, <1>6, QueuesTypes, QueuesKept

LEMMA AudioMesh ==
    ASSUME MeshTypes(Words, Sounds), Seats, NEW p \in Peers, Audio(p)
    PROVE  MeshKept
<1> DEFINE f == Head(aud[p]).body
           g == [f EXCEPT !.stream = 1]
<1>1. aud[p] # <<>> /\ aud' = [aud EXCEPT ![p] = Tail(@)] /\ UNCHANGED <<netVars, outSync, ctl, known, syn>>
  BY DEF Audio, pollVars
<1>2. f \in Sounds /\ Tail(aud[p]) \in Played(p, Sounds)
  BY <1>1, HeadAud
<1>3. ChanTypes(Words, Sounds)'
  BY <1>1, <1>2 DEF MeshTypes, ChanTypes
<1>4. outAudio' \in [Conns -> Seq(Sounds)]
  <2>1. UNCHANGED outAudio \/ QueuedAudio(p, <<g>>)
    BY DEF Audio
  <2>2. CASE UNCHANGED outAudio
    BY <2>2 DEF MeshTypes, OutTypes
  <2>3. g \in Sounds
    <3> HIDE DEF f
    <3> QED BY <1>2 DEF Sounds
  <2> HIDE DEF g
  <2>4. <<g>> \in Seq(Sounds)
    BY <2>3
  <2> QED BY <2>1, <2>2, <2>4, QueuedAudioTypes
<1>5. outSync' \in [Conns -> Seq(Orders(Words))]
  BY <1>1 DEF MeshTypes, OutTypes
<1>6. UNCHANGED netVars /\ UNCHANGED <<ctl, known>>
  BY <1>1 DEF netVars
<1> QED BY <1>1, <1>3, <1>4, <1>5, <1>6, QueuesTypes, QueuesKept

\* The clock after a tick, and what is played and announced on it.
LEMMA TickIs ==
    ASSUME TypeInv, NEW p \in Peers, Tick(p)
    PROVE  /\ beat' = [beat EXCEPT ![p] = beat'[p]] /\ beat'[p] \in Int /\ beat'[p] > beat[p]
           /\ Interval(beat'[p]) \in Int /\ Interval(beat'[p]) > None
           /\ Interval(beat[p]) <= Interval(beat'[p])
           /\ beat \in [Peers -> Int]
<1>1. PICK span \in Spans[p] : beat' = [beat EXCEPT ![p] = @ + span]
  BY DEF Tick
<1>2. span \in Nat \ {0} /\ beat \in [Peers -> Int]
  BY <1>1, SessionAssumption DEF TypeInv, SessionTypes
<1>3. beat'[p] = beat[p] + span /\ beat[p] \in Int /\ beat' = [beat EXCEPT ![p] = beat'[p]]
  BY <1>1, <1>2
<1>4. beat'[p] \in Int /\ beat'[p] > beat[p] /\ beat[p] <= beat'[p]
  BY <1>2, <1>3
<1>5. Interval(beat[p]) <= Interval(beat'[p]) /\ Interval(beat[p]) \in Int /\ Interval(beat'[p]) \in Int
  BY <1>3, <1>4, IntervalsRise, IntervalInt
<1>6. Interval(beat[p]) > None
  BY DEF TypeInv, SessionTypes
<1> QED BY <1>2, <1>3, <1>4, <1>5, <1>6, NoneInt

\* The number of the frame that is due, and the number after it.
NumberAt(p, i) == IF Fires(p, i) THEN 0 ELSE number[p]
TickPlays(p, i, k) ==
    \/ playing[p] /\ number' = [number EXCEPT ![p] = k + 1] /\ latest' = [latest EXCEPT ![p] = <<i, k>>]
    \/ ~playing[p] /\ number' = [number EXCEPT ![p] = k] /\ UNCHANGED latest
LEMMA TickDoes ==
    ASSUME TypeInv, NEW p \in Peers, Tick(p), NEW i, i = Interval(beat'[p]), NEW k, k = NumberAt(p, i)
    PROVE  /\ stage[p] = "select" /\ (stage' = [stage EXCEPT ![p] = stage'[p]]) /\ stage'[p] \in {"top", "select", "exit"}
           /\ \/ Fires(p, i) /\ index' = [index EXCEPT ![p] = i] /\ conn[p] # 0 /\ Queued(p, <<ToAll(Boundary(i))>>) /\ Announced(p, i)
              \/ Fires(p, i) /\ index' = [index EXCEPT ![p] = i] /\ conn[p] = 0 /\ UNCHANGED <<outSync, due>>
              \/ ~Fires(p, i) /\ UNCHANGED <<index, outSync, due>>
           /\ k \in Nat
           /\ TickPlays(p, i, k)
           /\ QueuedAudio(p, <<Frame(p, i, k)>>) \/ UNCHANGED outAudio
           /\ UNCHANGED <<netVars, chanVars, chaos, step, waiting, playing, helloVars, checked>>
<1>1. stage[p] = "select" /\ (stage' = [stage EXCEPT ![p] = stage'[p]]) /\ stage'[p] \in {"top", "select", "exit"}
  <2>1. Turns(p) \/ Goes(p, "exit")
    BY DEF Tick
  <2>2. \E s \in {"top", "select", "exit"} : stage' = [stage EXCEPT ![p] = s]
    BY <2>1 DEF Turns, Goes
  <2> QED BY <2>2 DEF Tick, TypeInv, SessionTypes
<1>2. /\ \/ Fires(p, i) /\ index' = [index EXCEPT ![p] = i] /\ conn[p] # 0 /\ Queued(p, <<ToAll(Boundary(i))>>) /\ Announced(p, i)
         \/ Fires(p, i) /\ index' = [index EXCEPT ![p] = i] /\ conn[p] = 0 /\ UNCHANGED <<outSync, due>>
         \/ ~Fires(p, i) /\ UNCHANGED <<index, outSync, due>>
  BY DEF Tick
<1>3. k \in Nat
  BY DEF NumberAt, TypeInv, SessionTypes
<1>4. TickPlays(p, i, k)
  <2>1. /\ number' = [number EXCEPT ![p] = IF playing[p] THEN k + 1 ELSE k]
        /\ latest' = [latest EXCEPT ![p] = IF playing[p] THEN <<i, k>> ELSE @]
    BY DEF Tick, NumberAt
  <2>2. CASE playing[p]
    BY <2>1, <2>2 DEF TickPlays
  <2>3. CASE ~playing[p]
    BY <2>1, <2>3 DEF TypeInv, SessionTypes, TickPlays
  <2> QED BY <2>2, <2>3
<1>5. QueuedAudio(p, <<Frame(p, i, k)>>) \/ UNCHANGED outAudio
  BY DEF Tick, NumberAt
<1> QED BY <1>1, <1>2, <1>3, <1>4, <1>5 DEF Tick


LEMMA TickMesh ==
    ASSUME TypeInv, Seats, NEW p \in Peers, Tick(p)
    PROVE  MeshKept
<1> DEFINE i == Interval(beat'[p])
           k == NumberAt(p, i)
<1>1. i \in Int /\ i > None
  BY TickIs
<1>2. /\ Queued(p, <<ToAll(Boundary(i))>>) \/ UNCHANGED outSync
      /\ QueuedAudio(p, <<Frame(p, i, k)>>) \/ UNCHANGED outAudio
      /\ k \in Nat /\ UNCHANGED <<netVars, chanVars>>
  BY TickDoes
<1>3. MeshTypes(Words, Sounds)
  BY DEF TypeInv
<1> HIDE DEF i, k
<1>4. outSync' \in [Conns -> Seq(Orders(Words))]
  BY <1>1, <1>2, <1>3, BoundaryWord, QueuedTypes DEF MeshTypes, OutTypes
<1>5. outAudio' \in [Conns -> Seq(Sounds)]
  <2>1. <<Frame(p, i, k)>> \in Seq(Sounds)
    BY <1>1, <1>2, FrameSound
  <2> QED BY <1>2, <1>3, <2>1, QueuedAudioTypes DEF MeshTypes, OutTypes
<1>6. ChanTypes(Words, Sounds)'
  BY <1>2, <1>3 DEF MeshTypes, ChanTypes, chanVars, pollVars
<1>7. UNCHANGED netVars /\ UNCHANGED <<ctl, known>>
  BY <1>2 DEF netVars, chanVars, pollVars
<1> QED BY <1>2, <1>3, <1>4, <1>5, <1>6, <1>7, QueuesTypes, QueuesKept

LEMMA JoinsMesh ==
    ASSUME MeshTypes(Words, Sounds), Seats, NEW p \in Peers, Joins(p)
    PROVE  MeshKept
BY JoinsTypes, SeatsJoins, JoinsExact DEF MeshKept, Seats

LEMMA JoinOverMesh ==
    ASSUME MeshTypes(Words, Sounds), Seats, NEW p \in Peers, ConnectFull(p) \/ JoinFails(p)
    PROVE  MeshKept
<1>1. CASE ConnectFull(p)
  BY <1>1, ConnectTypes, SeatsConnect, ConnectExact DEF MeshKept, Seats
<1>2. CASE JoinFails(p)
  BY <1>2, FailsTypes, SeatsFails, FailsExact DEF MeshKept, Seats
<1> QED BY <1>1, <1>2

LEMMA DropMeshKept ==
    ASSUME MeshTypes(Words, Sounds), Seats, NEW p \in Peers, DropMesh(p)
    PROVE  MeshKept
BY DropTypes, SeatsDrop, DropExact DEF MeshKept

LEMMA MeshStep ==
    ASSUME TypeInv, Seats, Next
    PROVE  MeshKept
<1>1. MeshTypes(Words, Sounds)
  BY DEF TypeInv
<1>2. CASE Task
  BY <1>1, <1>2, TaskTypes, SeatsTask, TaskExact DEF Task, MeshKept
<1>3. ASSUME NEW p \in Peers, Client(p) PROVE MeshKept
  <2>1. CASE Connect(p)
    BY <1>1, <2>1, JoinsMesh DEF Connect
  <2>2. CASE Find(p) \/ OpenPolls(p) \/ Signal(p)
    BY <1>1, <2>2, PollMesh
  <2>3. CASE Open(p)
    BY <1>1, <2>3, OpenMesh
  <2>4. CASE OpenFails(p)
    BY <1>1, <2>4, DropMeshKept DEF OpenFails
  <2>5. CASE Leave(p) \/ Exit(p)
    BY <1>1, <2>5, DropMeshKept, IdleMesh DEF Leave, Exit
  <2>6. CASE Rejoin(p)
    BY <1>1, <2>6, JoinsMesh, IdleMesh DEF Rejoin
  <2>7. CASE Stable(p) \/ Stop(p) \/ StillWaits(p) \/ Resume(p) \/ TickPastBound(p)
    BY <1>1, <2>7, IdleMesh DEF Stable, Stop, StillWaits, Resume, TickPastBound
  <2>8. CASE Tick(p)
    BY <2>8, TickMesh
  <2>9. CASE Sync(p)
    BY <1>1, <2>9, SyncMesh
  <2>10. CASE Audio(p)
    BY <1>1, <2>10, AudioMesh
  <2>11. CASE Connected(p) \/ ConnectFails(p)
    BY <1>1, <2>11, JoinOverMesh DEF Connected, ConnectFails
  <2> QED BY <1>3, <2>1, <2>2, <2>3, <2>4, <2>5, <2>6, <2>7, <2>8, <2>9, <2>10, <2>11 DEF Client, Loop
<1> QED BY <1>2, <1>3 DEF Next

----------------------------------------------------------------------------
(* What each action does to the session                                    *)

\* Where a client goes next.
LEMMA TurnsIs ==
    ASSUME NEW p \in Peers, Turns(p)
    PROVE  Goes(p, "top") \/ Goes(p, "select")
BY DEF Turns, Goes

LEMMA TopDoneIs ==
    ASSUME NEW p \in Peers, TopDone(p)
    PROVE  Goes(p, "exit") \/ Goes(p, "select")
<1> DEFINE b == p \in Validators /\ step'[p] > Len(chaos[p])
<1>1. Goes(p, IF b THEN "exit" ELSE "select")
  BY DEF TopDone
<1> HIDE DEF b
<1>2. CASE b
  BY <1>1, <1>2
<1>3. CASE ~b
  BY <1>1, <1>3
<1> QED BY <1>2, <1>3

LEMMA ConnectedIs ==
    ASSUME NEW p \in Peers, Connected(p)
    PROVE  Goes(p, "open") \/ Goes(p, "find")
<1> DEFINE b == opened[p] > 1
<1>1. Goes(p, IF b THEN "open" ELSE "find")
  BY DEF Connected
<1> HIDE DEF b
<1>2. CASE b
  BY <1>1, <1>2
<1>3. CASE ~b
  BY <1>1, <1>3
<1> QED BY <1>2, <1>3

LEMMA StageStep ==
    ASSUME TypeInv, NEW p \in Peers, Client(p)
    PROVE  stage' = [stage EXCEPT ![p] = stage'[p]] /\ stage'[p] \in Stages
<1>1. \E s \in Stages : stage' = [stage EXCEPT ![p] = s]
  <2>s. stage[p] \in Stages /\ (UNCHANGED stage => stage' = [stage EXCEPT ![p] = stage[p]])
    BY DEF TypeInv, SessionTypes
  <2>1. CASE Connect(p) \/ Find(p) \/ OpenPolls(p) \/ OpenFails(p)
    BY <2>1, <2>s DEF Connect, Find, OpenPolls, OpenFails, Goes, Stages
  <2>2. CASE Open(p) \/ Stable(p) \/ StillWaits(p) \/ Rejoin(p) \/ Resume(p)
    <3>1. Turns(p) \/ TopDone(p) \/ Goes(p, "joining")
      BY <2>2 DEF Open, Stable, StillWaits, Rejoin, Resume
    <3>2. Goes(p, "top") \/ Goes(p, "select") \/ Goes(p, "exit") \/ Goes(p, "joining")
      BY <3>1, TurnsIs, TopDoneIs
    <3> QED BY <3>2 DEF Goes, Stages
  <2>3. CASE Leave(p) \/ Stop(p) \/ Exit(p)
    BY <2>3 DEF Leave, Stop, Waits, Exit, Goes, Stages
  <2>4. CASE Tick(p) \/ TickPastBound(p) \/ Sync(p) \/ Audio(p) \/ Signal(p)
    <3>1. Turns(p) \/ Goes(p, "exit")
      BY <2>4 DEF Tick, TickPastBound, Sync, Audio, Signal, Validated
    <3>2. Goes(p, "top") \/ Goes(p, "select") \/ Goes(p, "exit")
      BY <3>1, TurnsIs
    <3> QED BY <3>2 DEF Goes, Stages
  <2>5. CASE Connected(p) \/ ConnectFails(p)
    <3>1. Goes(p, "open") \/ Goes(p, "find") \/ Goes(p, "over")
      BY <2>5, ConnectedIs DEF ConnectFails
    <3> QED BY <3>1 DEF Goes, Stages
  <2> QED BY <2>1, <2>2, <2>3, <2>4, <2>5 DEF Client, Loop
<1> QED BY <1>1 DEF TypeInv, SessionTypes


\* The actions that are no step of the clock, no greeting and no word.
Quiet(p) ==
    \/ Connect(p) \/ Connected(p) \/ ConnectFails(p)
    \/ Find(p) \/ OpenPolls(p) \/ OpenFails(p) \/ Stable(p) \/ Leave(p) \/ Stop(p)
    \/ StillWaits(p) \/ Rejoin(p) \/ Resume(p) \/ Exit(p) \/ TickPastBound(p) \/ Audio(p) \/ Signal(p)
LEMMA ClientIs ==
    ASSUME NEW p \in Peers, Client(p)
    PROVE  Quiet(p) \/ Open(p) \/ Tick(p) \/ Sync(p)
BY DEF Client, Loop, Quiet

LEMMA QuietSame ==
    ASSUME NEW p \in Peers, Quiet(p)
    PROVE  UNCHANGED <<greeted, names, answers, beat, index, number, latest>>
<1>1. UNCHANGED loopVars \/ (Audio(p) /\ UNCHANGED <<helloVars, toneVars>>)
  BY DEF Quiet, Connect, Connected, ConnectFails, Find, OpenPolls, OpenFails, Stable, Leave, Stop,
         StillWaits, Rejoin, Resume, Exit, TickPastBound, Audio, Signal
<1> QED BY <1>1 DEF loopVars, helloVars, toneVars

\* The highest index announced, after a step that only forgets.
LEMMA QuietDue ==
    ASSUME TypeInv, NEW p \in Peers, Quiet(p)
    PROVE  \E S \in SUBSET Peers : Unheard(S)
<1>1. UNCHANGED due \/ Unheard({p}) \/ Unheard(Peers)
  BY DEF Quiet, Connect, Connected, ConnectFails, Find, OpenPolls, OpenFails, Stable, Leave, Stop,
         StillWaits, Rejoin, Resume, Exit, TickPastBound, Audio, Signal
<1>2. CASE UNCHANGED due
  <2>1. Unheard({})
    BY <1>2 DEF Unheard, TypeInv, SessionTypes
  <2> QED BY <2>1
<1> QED BY <1>1, <1>2

LEMMA UnheardTypes ==
    ASSUME TypeInv, NEW S, Unheard(S)
    PROVE  due' \in [Peers -> Int] /\ \A p \in Peers : due'[p] >= None
BY NoneInt DEF Unheard, TypeInv, SessionTypes

LEMMA AnnouncedTypes ==
    ASSUME TypeInv, NEW p \in Peers, NEW i \in Int, Announced(p, i)
    PROVE  due' \in [Peers -> Int] /\ \A q \in Peers : due'[q] >= None /\ due'[q] >= due[q]
<1>1. \A q \in Peers : due[q] \in Int /\ due[q] >= None
  BY DEF TypeInv, SessionTypes
<1>2. /\ due' = [q \in Peers |-> due'[q]]
      /\ \A q \in Peers : due'[q] = IF (q = p \/ reg[q] # 0) /\ i > due[q] THEN i ELSE due[q]
  BY DEF Announced
<1> QED BY <1>1, <1>2, NoneInt

LEMMA OpenDoes ==
    ASSUME TypeInv, NEW p \in Peers, Open(p)
    PROVE  /\ UNCHANGED <<names, answers, beat, index, number, latest, due>>
           /\ \/ opened[p] > 1 /\ greeted' = [greeted EXCEPT ![p] = {}]
              \/ opened[p] <= 1 /\ UNCHANGED greeted
<1>1. opened[p] \in Nat
  BY DEF TypeInv, MeshTypes, Numbered
<1>2. /\ opened[p] > 1 => greeted' = [greeted EXCEPT ![p] = {}]
      /\ ~(opened[p] > 1) => UNCHANGED greeted
  BY DEF Open
<1> QED BY <1>1, <1>2 DEF Open, toneVars

\* What a Hello of q does, and what a boundary m does.
HelloDoes(p, q) ==
    /\ names' = [names EXCEPT ![p] = @ \cup {q}]
    /\ greeted' = [greeted EXCEPT ![p] = @ \cup {q}] /\ UNCHANGED index
    /\ \/ q \notin greeted[p] /\ Queued(p, <<ToPeer(q, Hello)>>) /\ answers' = [answers EXCEPT ![p] = @ + 1]
       \/ q \in greeted[p] /\ UNCHANGED <<outSync, answers>>
BoundaryDoes(p, m) ==
    /\ m.index \in Int /\ m.index > None
    /\ index'[p] >= index[p] /\ index'[p] >= m.index /\ index'[p] \in Int
    /\ index' = [index EXCEPT ![p] = index'[p]]
    /\ UNCHANGED <<outSync, names, greeted, answers>>
LEMMA SyncDoes ==
    ASSUME TypeInv, NEW p \in Peers, Sync(p), NEW q, q = Head(syn[p]).from, NEW m, m = Head(syn[p]).body
    PROVE  /\ stage[p] = "select" /\ q \in Peers \ {p} /\ m \in Words
           /\ syn[p] # <<>> /\ syn' = [syn EXCEPT ![p] = Tail(@)]
           /\ (m.what = "Hello" /\ HelloDoes(p, q)) \/ (m.what = "IntervalBoundary" /\ BoundaryDoes(p, m))
           /\ UNCHANGED <<netVars, outAudio, pollVars, aud, beat, number, latest, due>>
<1>1. syn[p] # <<>> /\ stage[p] = "select"
  BY DEF Sync
<1>2. q \in Peers \ {p} /\ m \in Words
  BY <1>1, HeadSyn DEF TypeInv
<1>3. CASE m.what = "Hello"
  BY <1>2, <1>3 DEF Sync, Greets, HelloDoes
<1>4. CASE m.what = "IntervalBoundary"
  <2>1. m.index \in Int /\ m.index > None
    BY <1>2, <1>4 DEF Words
  <2>2. index' = [index EXCEPT ![p] = IF Adopts(p, m.index) THEN m.index ELSE @] /\ UNCHANGED <<outSync, helloVars>>
    BY <1>4 DEF Sync
  <2>3. index \in [Peers -> Int] /\ index[p] >= None
    BY DEF TypeInv, SessionTypes
  <2>4. index'[p] >= index[p] /\ index'[p] >= m.index /\ index'[p] \in Int /\ index' = [index EXCEPT ![p] = index'[p]]
    BY <2>1, <2>2, <2>3, NoneInt DEF Adopts
  <2> QED BY <1>1, <1>2, <1>4, <2>1, <2>2, <2>4 DEF Sync, helloVars, BoundaryDoes
<1>5. m.what \in {"Hello", "IntervalBoundary"}
  BY DEF Sync
<1> QED BY <1>1, <1>3, <1>4, <1>5

LEMMA SessionStep ==
    ASSUME TypeInv, NEW p \in Peers, Client(p)
    PROVE  SessionTypes'
<1>s. stage' \in [Peers -> Stages]
  BY StageStep DEF TypeInv, SessionTypes
<1>1. CASE Quiet(p)
  BY <1>s, <1>1, QuietSame, QuietDue, UnheardTypes DEF TypeInv, SessionTypes, Interval
<1>2. CASE Open(p)
  BY <1>s, <1>2, OpenDoes DEF TypeInv, SessionTypes, Interval
<1>3. CASE Tick(p)
  <2> DEFINE i == Interval(beat'[p])
             k == NumberAt(p, i)
  <2>1. /\ beat' = [beat EXCEPT ![p] = beat'[p]] /\ beat'[p] \in Int /\ i \in Int /\ i > None
    BY <1>3, TickIs
  <2>2. /\ \/ index' = [index EXCEPT ![p] = i] /\ Announced(p, i)
           \/ index' = [index EXCEPT ![p] = i] /\ UNCHANGED due
           \/ UNCHANGED <<index, due>>
        /\ k \in Nat
        /\ \/ number' = [number EXCEPT ![p] = k + 1] /\ latest' = [latest EXCEPT ![p] = <<i, k>>]
           \/ number' = [number EXCEPT ![p] = k] /\ UNCHANGED latest
        /\ UNCHANGED <<greeted, names, answers>>
    <3>1. k = NumberAt(p, i) /\ i = Interval(beat'[p])
      OBVIOUS
    <3> HIDE DEF i, k
    <3>2. /\ \/ index' = [index EXCEPT ![p] = i] /\ Announced(p, i)
             \/ index' = [index EXCEPT ![p] = i] /\ UNCHANGED due
             \/ UNCHANGED <<index, due>>
          /\ k \in Nat
      BY <1>3, <3>1, TickDoes
    <3>3. \/ number' = [number EXCEPT ![p] = k + 1] /\ latest' = [latest EXCEPT ![p] = <<i, k>>]
          \/ number' = [number EXCEPT ![p] = k] /\ UNCHANGED latest
      <4>1. TickPlays(p, i, k)
        BY <1>3, <3>1, TickDoes
      <4> QED BY <4>1 DEF TickPlays
    <3>4. UNCHANGED <<greeted, names, answers>>
      BY <1>3, <3>1, TickDoes DEF helloVars
    <3> QED BY <3>2, <3>3, <3>4
  <2>3. beat' \in [Peers -> Int] /\ \A q \in Peers : Interval(beat'[q]) > None
    BY <2>1 DEF TypeInv, SessionTypes
  <2> HIDE DEF i, k
  <2>4. index' \in [Peers -> Int] /\ \A q \in Peers : index'[q] >= None
    BY <2>1, <2>2, NoneInt DEF TypeInv, SessionTypes
  <2>5. due' \in [Peers -> Int] /\ \A q \in Peers : due'[q] >= None
    BY <2>1, <2>2, AnnouncedTypes DEF TypeInv, SessionTypes
  <2>6. number' \in [Peers -> Nat] /\ latest' \in [Peers -> Int \X Nat]
    <3>1. <<i, k>> \in Int \X Nat /\ k + 1 \in Nat
      BY <2>1, <2>2
    <3>2. number \in [Peers -> Nat] /\ latest \in [Peers -> Int \X Nat]
      BY DEF TypeInv, SessionTypes
    <3>3. number' \in [Peers -> Nat]
      BY <2>2, <3>1, <3>2
    <3>4. latest' \in [Peers -> Int \X Nat]
      BY <2>2, <3>1, <3>2
    <3> QED BY <3>3, <3>4
  <2>7. greeted' \in [Peers -> SUBSET Peers] /\ names' \in [Peers -> SUBSET Peers] /\ answers' \in [Peers -> Nat]
    BY <2>2 DEF helloVars, TypeInv, SessionTypes
  <2>8. \A q \in Peers : Interval(beat[q])' = Interval(beat'[q])
    BY DEF Interval
  <2> QED BY <1>s, <2>3, <2>4, <2>5, <2>6, <2>7, <2>8 DEF SessionTypes
<1>4. CASE Sync(p)
  <2> DEFINE q == Head(syn[p]).from
             m == Head(syn[p]).body
  <2>1. /\ q \in Peers
        /\ \/ /\ names' = [names EXCEPT ![p] = @ \cup {q}]
              /\ greeted' = [greeted EXCEPT ![p] = @ \cup {q}] /\ UNCHANGED index
              /\ answers' = [answers EXCEPT ![p] = @ + 1] \/ UNCHANGED answers
           \/ /\ index'[p] >= index[p] /\ index'[p] \in Int /\ index' = [index EXCEPT ![p] = index'[p]]
              /\ UNCHANGED <<names, greeted, answers>>
        /\ UNCHANGED <<beat, number, latest, due>>
    BY <1>4, SyncDoes DEF HelloDoes, BoundaryDoes
  <2> HIDE DEF q, m
  <2>2. greeted' \in [Peers -> SUBSET Peers] /\ names' \in [Peers -> SUBSET Peers] /\ answers' \in [Peers -> Nat]
    <3>1. greeted \in [Peers -> SUBSET Peers] /\ names \in [Peers -> SUBSET Peers] /\ answers \in [Peers -> Nat]
      BY DEF TypeInv, SessionTypes
    <3>2. greeted' \in [Peers -> SUBSET Peers]
      BY <2>1, <3>1
    <3>3. names' \in [Peers -> SUBSET Peers]
      BY <2>1, <3>1
    <3>4. answers' \in [Peers -> Nat]
      BY <2>1, <3>1
    <3> QED BY <3>2, <3>3, <3>4
  <2>3. index' \in [Peers -> Int] /\ \A r \in Peers : index'[r] >= None
    BY <2>1, NoneInt DEF TypeInv, SessionTypes
  <2> QED BY <1>s, <2>1, <2>2, <2>3 DEF TypeInv, SessionTypes, Interval
<1> QED BY <1>1, <1>2, <1>3, <1>4, ClientIs

LEMMA SameSession ==
    ASSUME SessionTypes, UNCHANGED <<stage, chaosVars, loopVars, due>>
    PROVE  SessionTypes'
BY DEF SessionTypes, loopVars, helloVars, toneVars, Interval

LEMMA TypeStep == TypeInv /\ Seats /\ [Next]_vars => TypeInv' /\ Seats'
<1> SUFFICES ASSUME TypeInv, Seats, [Next]_vars PROVE TypeInv' /\ Seats'
  OBVIOUS
<1>1. CASE UNCHANGED vars
  BY <1>1, IdleMesh, SameSession DEF vars, TypeInv, MeshKept
<1>2. CASE Task
  BY <1>2, MeshStep, SameSession DEF Task, TypeInv, Next, MeshKept
<1>3. ASSUME NEW p \in Peers, Client(p) PROVE TypeInv' /\ Seats'
  BY <1>3, MeshStep, SessionStep DEF TypeInv, Next, MeshKept
<1> QED BY <1>1, <1>2, <1>3 DEF Next

\* The mesh, the queues, the channels and the loop of every client stay within their types.
THEOREM SessionTypeCorrect == Spec => []TypeInv
BY TypeInit, TypeStep, PTL DEF Spec

----------------------------------------------------------------------------
(* Presence                                                                *)

LEMMA ExactStep == TypeInv /\ Seats /\ JoinInv /\ ExactInv /\ [Next]_vars => JoinInv' /\ ExactInv'
<1>1. TypeInv /\ Seats /\ UNCHANGED vars => PresenceKept
  BY IdleMesh DEF vars, TypeInv, MeshKept
<1>2. TypeInv /\ Seats /\ Next => PresenceKept
  BY MeshStep DEF MeshKept
<1> QED BY <1>1, <1>2 DEF PresenceKept

\* When a client has heard all that the relay announced to it, its presence set is the room:
\* through leaves and rejoins of anybody, joins that are overtaken, announcements read past
\* or still in channels that were dropped (handle_signal_message, connect_full, wait_for_peer).
THEOREM SessionPresenceExact == Spec => []PresenceExact
<1>1. Init => ExactInv /\ JoinInv
  BY ExactInit DEF Init
<1>2. TypeInv /\ ExactInv => PresenceExact
  BY ExactGives DEF TypeInv
<1> QED BY <1>1, <1>2, TypeInit, TypeStep, ExactStep, PTL DEF Spec


----------------------------------------------------------------------------
(* The frames of a client rise                                             *)

(***************************************************************************)
(* The last frame made is of no interval above those that the tracker and  *)
(* the clock have reached, and within the interval of the clock its number *)
(* is below the one that is due.                                           *)
(***************************************************************************)
RiseInv == \A p \in Peers :
    /\ latest[p][1] <= index[p] /\ latest[p][1] <= Interval(beat[p])
    /\ latest[p][1] = Interval(beat[p]) => latest[p][2] < number[p]

LEMMA RiseInit == Init => RiseInv
<1> SUFFICES ASSUME Init, NEW p \in Peers
             PROVE  /\ latest[p][1] <= index[p] /\ latest[p][1] <= Interval(beat[p])
                    /\ latest[p][1] # Interval(beat[p])
  BY DEF RiseInv
<1>1. latest[p][1] = None /\ index[p] = None
  BY DEF Init
<1>2. Interval(beat[p]) \in Int /\ Interval(beat[p]) > None
  BY TypeInit, IntervalInt DEF TypeInv, SessionTypes
<1> QED BY <1>1, <1>2, NoneInt

LEMMA RiseTick ==
    ASSUME TypeInv, RiseInv, NEW p \in Peers, Tick(p)
    PROVE  RiseInv' /\ (playing[p] => Later(latest[p], latest'[p]))
<1> DEFINE i == Interval(beat'[p])
           k == NumberAt(p, i)
           b == Interval(beat[p])
<1>0. k = NumberAt(p, i) /\ i = Interval(beat'[p]) /\ b = Interval(beat[p])
  OBVIOUS
<1>1. /\ i \in Int /\ i > None /\ b \in Int /\ b <= i
      /\ beat' = [beat EXCEPT ![p] = beat'[p]] /\ beat \in [Peers -> Int]
  BY TickIs, IntervalInt DEF TypeInv, SessionTypes
<1> HIDE DEF i, k, b
<1>2. Fires(p, i) => index' = [index EXCEPT ![p] = i]
  BY <1>0, TickDoes
<1>3. ~Fires(p, i) => UNCHANGED index
  BY <1>0, TickDoes
<1>4. TickPlays(p, i, k) /\ k \in Nat
  BY <1>0, TickDoes
<1>5. index \in [Peers -> Int] /\ index[p] >= None /\ number \in [Peers -> Nat]
      /\ latest \in [Peers -> Int \X Nat]
  BY DEF TypeInv, SessionTypes
<1>6. latest[p][1] \in Int /\ latest[p][2] \in Nat /\ number[p] \in Nat /\ index[p] \in Int
  BY <1>5
<1>7. latest[p][1] <= index[p] /\ latest[p][1] <= b /\ (latest[p][1] = b => latest[p][2] < number[p])
  BY <1>0 DEF RiseInv
<1>8. /\ index'[p] >= i /\ latest[p][1] <= i
      /\ latest[p][1] = i => latest[p][2] < k
  <2>1. CASE Fires(p, i)
    <3>1. index'[p] = i /\ latest[p][1] < i
      <4>1. index[p] < i
        BY <1>1, <1>6, <2>1, NoneInt DEF Fires
      <4>2. index'[p] = i
        BY <1>2, <1>5, <2>1
      <4> QED BY <1>1, <1>6, <1>7, <4>1, <4>2
    <3> QED BY <1>1, <1>6, <3>1
  <2>2. CASE ~Fires(p, i)
    <3>1. index'[p] = index[p] /\ i <= index[p]
      BY <1>1, <1>3, <1>6, <2>2 DEF Fires
    <3>2. k = number[p]
      BY <1>0, <2>2 DEF NumberAt
    <3> QED BY <1>1, <1>6, <1>7, <3>1, <3>2
  <2> QED BY <2>1, <2>2
<1>9. index'[p] \in Int
  BY <1>1, <1>2, <1>3, <1>5
<1>10. \A q \in Peers \ {p} : index'[q] = index[q] /\ number'[q] = number[q] /\ latest'[q] = latest[q]
  <2>1. \A q \in Peers \ {p} : index'[q] = index[q]
    BY <1>2, <1>3, <1>5
  <2>2. \A q \in Peers \ {p} : number'[q] = number[q]
    BY <1>4, <1>5 DEF TickPlays
  <2>3. \A q \in Peers \ {p} : latest'[q] = latest[q]
    BY <1>4, <1>5 DEF TickPlays
  <2> QED BY <2>1, <2>2, <2>3
<1>11. /\ latest'[p][1] <= index'[p] /\ latest'[p][1] <= i
       /\ latest'[p][1] = i => latest'[p][2] < number'[p]
  <2>1. CASE playing[p] /\ number' = [number EXCEPT ![p] = k + 1] /\ latest' = [latest EXCEPT ![p] = <<i, k>>]
    <3>1. latest'[p] = <<i, k>> /\ number'[p] = k + 1
      BY <1>5, <2>1
    <3> QED BY <1>1, <1>4, <1>8, <1>9, <3>1
  <2>2. CASE ~playing[p] /\ number' = [number EXCEPT ![p] = k] /\ UNCHANGED latest
    <3>1. latest'[p] = latest[p] /\ number'[p] = k
      BY <1>5, <2>2
    <3> QED BY <1>1, <1>4, <1>6, <1>8, <1>9, <3>1
  <2> QED BY <1>4, <2>1, <2>2 DEF TickPlays
<1>12. ASSUME playing[p] PROVE Later(latest[p], latest'[p])
  <2>1. latest'[p] = <<i, k>>
    BY <1>4, <1>5, <1>12 DEF TickPlays
  <2> QED BY <1>1, <1>4, <1>6, <1>8, <2>1 DEF Later
<1>13. RiseInv'
  <2> SUFFICES ASSUME NEW q \in Peers
               PROVE  /\ latest'[q][1] <= index'[q] /\ latest'[q][1] <= Interval(beat'[q])
                      /\ latest'[q][1] = Interval(beat'[q]) => latest'[q][2] < number'[q]
    BY DEF RiseInv, Interval
  <2>1. CASE q = p
    BY <1>0, <1>11, <2>1
  <2>2. CASE q # p
    <3>1. beat'[q] = beat[q]
      BY <1>1, <2>2
    <3> QED BY <1>10, <2>2, <3>1 DEF RiseInv
  <2> QED BY <2>1, <2>2
<1> QED BY <1>12, <1>13

LEMMA RiseElse ==
    ASSUME TypeInv, RiseInv, UNCHANGED <<beat, number, latest>>,
           \A p \in Peers : index'[p] >= index[p] /\ index'[p] \in Int
    PROVE  RiseInv'
<1>1. index \in [Peers -> Int] /\ latest \in [Peers -> Int \X Nat]
  BY DEF TypeInv, SessionTypes
<1>2. ASSUME NEW p \in Peers PROVE latest[p][1] <= index'[p]
  <2>1. latest[p][1] \in Int /\ index[p] \in Int /\ latest[p][1] <= index[p]
    BY <1>1 DEF RiseInv
  <2> QED BY <2>1
<1> QED BY <1>2 DEF RiseInv, Interval

LEMMA RiseStep ==
    ASSUME TypeInv, RiseInv, [Next]_vars
    PROVE  /\ RiseInv'
           /\ \A p \in Peers : beat'[p] # beat[p] /\ playing[p] => Later(latest[p], latest'[p])
<1>0. index \in [Peers -> Int] /\ beat \in [Peers -> Int]
  BY DEF TypeInv, SessionTypes
<1>i. \A p \in Peers : index[p] >= index[p] /\ index[p] \in Int
  BY <1>0
<1>1. CASE UNCHANGED <<beat, index, number, latest>>
  <2>1. \A p \in Peers : index'[p] >= index[p] /\ index'[p] \in Int
    BY <1>1, <1>i
  <2> QED BY <1>1, <2>1, RiseElse
<1>2. UNCHANGED vars => UNCHANGED <<beat, index, number, latest>>
  BY DEF vars, loopVars, toneVars
<1>3. Task => UNCHANGED <<beat, index, number, latest>>
  BY DEF Task, loopVars, toneVars
<1>4. ASSUME NEW p \in Peers, Client(p), ~Tick(p), ~Sync(p) PROVE UNCHANGED <<beat, index, number, latest>>
  BY <1>4, ClientIs, QuietSame, OpenDoes
<1>5. ASSUME NEW p \in Peers, Tick(p)
      PROVE  /\ RiseInv'
             /\ \A q \in Peers : beat'[q] # beat[q] /\ playing[q] => Later(latest[q], latest'[q])
  <2>1. \A q \in Peers : q # p => beat'[q] = beat[q]
    BY <1>0, <1>5, TickIs
  <2>2. RiseInv' /\ (playing[p] => Later(latest[p], latest'[p]))
    BY <1>5, RiseTick
  <2> HIDE DEF Later
  <2> QED BY <2>1, <2>2
<1>6. ASSUME NEW p \in Peers, Sync(p)
      PROVE  /\ RiseInv'
             /\ \A q \in Peers : beat'[q] # beat[q] /\ playing[q] => Later(latest[q], latest'[q])
  <2>1. /\ UNCHANGED <<beat, number, latest>>
        /\ \/ UNCHANGED index
           \/ index'[p] >= index[p] /\ index'[p] \in Int /\ index' = [index EXCEPT ![p] = index'[p]]
    BY <1>6, SyncDoes DEF HelloDoes, BoundaryDoes
  <2>2. \A q \in Peers : index'[q] >= index[q] /\ index'[q] \in Int
    BY <1>0, <1>i, <2>1
  <2> QED BY <2>1, <2>2, RiseElse
<1> QED BY <1>1, <1>2, <1>3, <1>4, <1>5, <1>6 DEF Next

\* Every frame of a client follows the last one it made: in a later interval, or in the same
\* with a higher number (IntervalTracker::update, the frame timer of run_client), also when
\* boundaries of others move the tracker ahead of the client's own clock, ticks are missed,
\* and the transport stops and starts.
THEOREM SessionFramesRise == Spec => FramesRise
<1>1. TypeInv /\ RiseInv /\ [Next]_vars => RiseInv'
  BY RiseStep
<1>2. TypeInv /\ RiseInv /\ [Next]_vars
        => [\A p \in Peers : beat'[p] # beat[p] /\ playing[p] => Later(latest[p], latest'[p])]_vars
  BY RiseStep
<1> QED BY <1>1, <1>2, TypeInit, TypeStep, RiseInit, PTL DEF Spec, FramesRise


----------------------------------------------------------------------------
(* Where a client is, and what it has opened                               *)

LoopStages == {"top", "select", "exit"}
\* The actions within the loop.
Turn(p) ==
    \/ Stable(p) \/ Leave(p) \/ Stop(p) \/ StillWaits(p) \/ (Rejoin(p) /\ conn[p] # 0) \/ Resume(p)
    \/ Tick(p) \/ TickPastBound(p) \/ Sync(p) \/ Audio(p) \/ Signal(p)
Flow(p) ==
    \/ Connect(p) /\ stage[p] = "start" /\ stage'[p] = "joining"
    \/ Connected(p) /\ stage[p] = "joining" /\ stage'[p] \in {"find", "open"}
    \/ ConnectFails(p) /\ stage[p] = "joining" /\ stage'[p] = "over"
    \/ Find(p) /\ stage[p] = "find" /\ stage'[p] \in {"find", "open"}
    \/ OpenPolls(p) /\ stage[p] = "open" /\ stage'[p] = "open"
    \/ OpenFails(p) /\ stage[p] = "open" /\ stage'[p] = "over"
    \/ Open(p) /\ stage[p] = "open" /\ stage'[p] \in LoopStages
    \/ Rejoin(p) /\ conn[p] = 0 /\ stage[p] = "top" /\ stage'[p] = "joining"
    \/ Exit(p) /\ stage[p] = "exit" /\ stage'[p] = "over"
    \/ Turn(p) /\ stage[p] \in LoopStages /\ stage'[p] \in LoopStages

LEMMA GoesIs ==
    ASSUME TypeInv, NEW p \in Peers, NEW s, Goes(p, s)
    PROVE  stage'[p] = s
BY DEF Goes, TypeInv, SessionTypes

LEMMA TurnFlow ==
    ASSUME TypeInv, NEW p \in Peers, Turn(p)
    PROVE  stage[p] \in LoopStages /\ stage'[p] \in LoopStages
<1>1. stage[p] \in LoopStages
  BY DEF Turn, Stable, Leave, Stop, StillWaits, Rejoin, Resume, Tick, TickPastBound, Sync, Audio, Signal,
         Waits, Is, LoopStages
<1>2. Turns(p) \/ TopDone(p) \/ Goes(p, "select") \/ Goes(p, "exit")
  <2>1. CASE Stable(p) \/ StillWaits(p) \/ Resume(p) \/ (Rejoin(p) /\ conn[p] # 0)
    BY <2>1 DEF Stable, StillWaits, Rejoin, Resume
  <2>2. CASE Leave(p) \/ Stop(p)
    BY <2>2 DEF Leave, Stop, Waits
  <2>3. CASE Tick(p) \/ TickPastBound(p) \/ Sync(p) \/ Audio(p) \/ Signal(p)
    BY <2>3 DEF Tick, TickPastBound, Sync, Audio, Signal, Validated
  <2> QED BY <2>1, <2>2, <2>3 DEF Turn
<1>3. Goes(p, "top") \/ Goes(p, "select") \/ Goes(p, "exit")
  BY <1>2, TurnsIs, TopDoneIs
<1> QED BY <1>1, <1>3, GoesIs DEF LoopStages

LEMMA ClientFlow ==
    ASSUME TypeInv, NEW p \in Peers, Client(p)
    PROVE  Flow(p)
<1>1. CASE Connect(p)
  BY <1>1, GoesIs DEF Connect, Flow
<1>2. CASE Find(p)
  BY <1>2, GoesIs DEF Find, Flow
<1>3. CASE OpenPolls(p)
  BY <1>3 DEF OpenPolls, Flow
<1>4. CASE OpenFails(p)
  BY <1>4, GoesIs DEF OpenFails, Flow
<1>5. CASE Open(p)
  <2>1. stage[p] = "open" /\ (Turns(p) \/ TopDone(p))
    BY <1>5 DEF Open
  <2>2. Goes(p, "top") \/ Goes(p, "select") \/ Goes(p, "exit")
    BY <2>1, TurnsIs, TopDoneIs
  <2> QED BY <1>5, <2>1, <2>2, GoesIs DEF Flow, LoopStages
<1>6. CASE Rejoin(p) /\ conn[p] = 0
  BY <1>6, GoesIs DEF Rejoin, Is, Flow
<1>7. CASE Exit(p)
  BY <1>7, GoesIs DEF Exit, Flow
<1>8. CASE Turn(p)
  BY <1>8, TurnFlow DEF Flow
<1>9. CASE Connected(p)
  BY <1>9, ConnectedIs, GoesIs DEF Connected, Flow
<1>10. CASE ConnectFails(p)
  BY <1>10, GoesIs DEF ConnectFails, Flow
<1> QED BY <1>1, <1>2, <1>3, <1>4, <1>5, <1>6, <1>7, <1>8, <1>9, <1>10 DEF Client, Loop, Turn

\* The actions that begin a join, and those that end one.
Opens(p) == Connect(p) \/ (Rejoin(p) /\ conn[p] = 0)
LEMMA OpensIs ==
    ASSUME TypeInv, NEW p \in Peers, Opens(p)
    PROVE  /\ Joins(p) /\ Unheard({p})
           /\ p \notin joining /\ joining' = joining \cup {p}
           /\ opened'[p] = opened[p] + 1 /\ reg'[p] = opened[p] + 1
           /\ \A q \in Peers \ {p} : opened'[q] = opened[q] /\ reg'[q] = reg[q]
           /\ wire' = Relayed(Others(p), Msg("joined", p, {}))
           /\ UNCHANGED <<conn, outSync, ctl, syn>>
<1>1. Joins(p) /\ Unheard({p})
  BY DEF Opens, Connect, Rejoin
<1> QED BY <1>1, JoinsDoes DEF TypeInv

Over(p) == Connected(p) \/ ConnectFails(p)
LEMMA OverIs ==
    ASSUME TypeInv, NEW p \in Peers, Over(p)
    PROVE  /\ p \in joining /\ joining' = joining \ {p}
           /\ Connected(p) => conn'[p] = opened[p] /\ ~Overtaken(p)
           /\ ConnectFails(p) => conn'[p] = 0
           /\ \A q \in Peers \ {p} : conn'[q] = conn[q] /\ ctl'[q] = ctl[q] /\ syn'[q] = syn[q]
           /\ \A e \in Conns : e # Seat(p) => wire'[e] = wire[e]
           /\ UNCHANGED <<reg, opened, outSync, due>>
<1>0. MeshTypes(Words, Sounds)
  BY DEF TypeInv
<1>1. CASE Connected(p)
  <2>1. JoinOk(p, <<Msg("list", p, listed[p])>>) /\ UNCHANGED due
    BY <1>1 DEF Connected, ConnectFull
  <2>2. JoinOver(p, opened[p], <<Msg("list", p, listed[p])>>) /\ ~Overtaken(p)
        /\ \A e \in Conns : e # Seat(p) => wire'[e] = wire[e]
    BY <1>0, <2>1, JoinOkDoes
  <2>3. ~ConnectFails(p)
    BY <2>2 DEF ConnectFails, JoinFails
  <2> QED BY <1>0, <1>1, <2>1, <2>2, <2>3, JoinOverDoes
<1>2. CASE ConnectFails(p)
  <2>1. JoinOver(p, 0, <<>>) /\ UNCHANGED <<wire, due>> /\ Overtaken(p)
    BY <1>2 DEF ConnectFails, JoinFails
  <2>2. ~Connected(p)
    BY <2>1 DEF Connected, ConnectFull, JoinOk
  <2> QED BY <1>0, <1>2, <2>1, <2>2, JoinOverDoes
<1> QED BY <1>1, <1>2 DEF Over

LEMMA OpenedElse ==
    ASSUME NEW p \in Peers, Client(p), ~Opens(p)
    PROVE  UNCHANGED <<reg, opened>>
<1>1. CASE Quiet(p)
  <2>1. CASE OpenFails(p) \/ Leave(p) \/ Exit(p)
    BY <2>1 DEF OpenFails, Leave, Exit, DropMesh, meshVars
  <2>2. CASE Connected(p) \/ ConnectFails(p)
    BY <2>2 DEF Connected, ConnectFails, ConnectFull, JoinFails, JoinOk, JoinOver
  <2>3. CASE ~(OpenFails(p) \/ Leave(p) \/ Exit(p) \/ Connected(p) \/ ConnectFails(p))
    <3>1. UNCHANGED meshVars \/ UNCHANGED netVars
      BY <1>1, <2>3 DEF Quiet, Opens, Connect, Rejoin, Find, OpenPolls, Stable, Stop, StillWaits, Resume,
             TickPastBound, Audio, Signal
    <3> QED BY <3>1 DEF meshVars, netVars
  <2> QED BY <2>1, <2>2, <2>3
<1>2. CASE Open(p) \/ Tick(p) \/ Sync(p)
  BY <1>2 DEF Open, Tick, Sync, netVars
<1> QED BY <1>1, <1>2, ClientIs

LEMMA TaskOpened == Task => UNCHANGED <<stage, chaosVars, loopVars, due>> /\ UNCHANGED <<conn, opened, joining>>
BY DEF Task, Tasks, WriteSync, WriteAudio, WriteEnds, Read


----------------------------------------------------------------------------
(* Hellos are answered once per connection                                 *)

N == Cardinality(Peers) - 1
Rounds(o) == o * N

LEMMA RoundsGrow ==
    /\ N \in Int /\ (Peers # {} => N \in Nat)
    /\ \A o \in Nat : Peers # {} => Rounds(o) \in Nat /\ Rounds(o + 1) = Rounds(o) + N
<1>1. IsFiniteSet(Peers)
  BY SessionAssumption
<1>2. Cardinality(Peers) \in Nat /\ (Cardinality(Peers) = 0 <=> Peers = {})
  BY <1>1, FS_CardinalityType, FS_EmptySet
<1>3. N \in Int /\ (Peers # {} => N \in Nat)
  BY <1>2 DEF N
<1> HIDE DEF N
<1>4. ASSUME NEW o \in Nat, Peers # {} PROVE o * N \in Nat /\ (o + 1) * N = o * N + N
  BY <1>3, <1>4
<1> QED BY <1>3, <1>4 DEF Rounds

\* A client greets every other at most once.
LEMMA GreetedCount ==
    ASSUME NEW p \in Peers, NEW G, G \subseteq Peers \ {p}
    PROVE  /\ Cardinality(G) \in Nat /\ Cardinality(G) <= N
           /\ \A q : q \notin G => Cardinality(G \cup {q}) = Cardinality(G) + 1
<1>1. IsFiniteSet(Peers)
  BY SessionAssumption
<1>2. IsFiniteSet(Peers \ {p}) /\ Cardinality(Peers \ {p}) = N
  BY <1>1, FS_RemoveElement DEF N
<1>3. IsFiniteSet(G) /\ Cardinality(G) <= N
  BY <1>2, FS_Subset
<1>4. \A q : q \notin G => Cardinality(G \cup {q}) = Cardinality(G) + 1
  BY <1>3, FS_AddElement
<1> QED BY <1>3, <1>4, FS_CardinalityType

(***************************************************************************)
(* In the loop a client has answered at most all the others for each of    *)
(* its earlier connections, and for this one those that it remembers.      *)
(***************************************************************************)
StormAt(p) ==
    /\ greeted[p] \subseteq Peers \ {p}
    /\ stage[p] = "start" => opened[p] = 0 /\ answers[p] = 0 /\ greeted[p] = {}
    /\ stage[p] \in {"joining", "find", "open"} =>
         opened[p] >= 1 /\ answers[p] <= Rounds(opened[p] - 1) /\ (opened[p] = 1 => greeted[p] = {})
    /\ stage[p] \in LoopStages =>
         opened[p] >= 1 /\ answers[p] <= Rounds(opened[p] - 1) + Cardinality(greeted[p])
    /\ stage[p] = "over" => answers[p] <= Rounds(opened[p])
StormInv == \A p \in Peers : StormAt(p)

LEMMA StormInit == Init => StormInv
BY DEF Init, MeshInit, StormInv, StormAt, LoopStages

LEMMA StormGives == TypeInv /\ StormInv => NoHelloStorm
<1> SUFFICES ASSUME TypeInv, StormInv, NEW p \in Peers PROVE answers[p] <= Rounds(opened[p])
  BY DEF NoHelloStorm, Rounds, N
<1>1. opened[p] \in Nat /\ answers[p] \in Nat /\ stage[p] \in Stages
  BY DEF TypeInv, MeshTypes, Numbered, SessionTypes
<1>2. StormAt(p)
  BY DEF StormInv
<1>3. CASE stage[p] = "start"
  BY <1>1, <1>2, <1>3, RoundsGrow DEF StormAt
<1>4. CASE stage[p] = "over"
  BY <1>2, <1>4 DEF StormAt
<1>5. CASE stage[p] \in {"joining", "find", "open"} \cup LoopStages
  <2>1. opened[p] >= 1 /\ opened[p] - 1 \in Nat /\ (opened[p] - 1) + 1 = opened[p]
    BY <1>1, <1>2, <1>5 DEF StormAt
  <2>2. N \in Nat /\ Rounds(opened[p] - 1) \in Nat /\ Rounds(opened[p]) = Rounds(opened[p] - 1) + N
    BY <2>1, RoundsGrow
  <2>3. Cardinality(greeted[p]) \in Nat /\ Cardinality(greeted[p]) <= N
    BY <1>2, GreetedCount DEF StormAt
  <2>4. answers[p] <= Rounds(opened[p] - 1) + N
    BY <1>1, <1>2, <1>5, <2>1, <2>2, <2>3 DEF StormAt
  <2> QED BY <2>2, <2>4
<1> QED BY <1>1, <1>3, <1>4, <1>5 DEF Stages, LoopStages

LEMMA StormSame ==
    ASSUME NEW p \in Peers, StormAt(p), stage'[p] = stage[p], opened'[p] = opened[p],
           answers'[p] = answers[p], greeted'[p] = greeted[p]
    PROVE  StormAt(p)'
BY DEF StormAt, Rounds, N, LoopStages

LEMMA StormClient ==
    ASSUME TypeInv, NEW p \in Peers, StormAt(p), Client(p)
    PROVE  StormAt(p)'
<1>1. Flow(p)
  BY ClientFlow
<1>2. opened[p] \in Nat /\ answers[p] \in Nat
  BY DEF TypeInv, MeshTypes, Numbered, SessionTypes
<1>n. N \in Nat /\ \A o \in Nat : Rounds(o) \in Nat /\ Rounds(o + 1) = Rounds(o) + N
  BY RoundsGrow
<1>g. greeted[p] \subseteq Peers \ {p} /\ Cardinality(greeted[p]) \in Nat /\ Cardinality(greeted[p]) <= N
  BY GreetedCount DEF StormAt
<1>c. Cardinality({}) = 0
  BY FS_EmptySet
<1>r. \A o : Rounds(o)' = Rounds(o)
  BY DEF Rounds, N
<1>3. CASE Opens(p)
  <2>1. opened'[p] = opened[p] + 1
    BY <1>3, OpensIs
  <2>2. stage'[p] = "joining" /\ (stage[p] = "start" \/ stage[p] \in LoopStages)
        /\ UNCHANGED <<answers, greeted>>
    <3>1. Quiet(p)
      BY <1>3 DEF Opens, Quiet
    <3>2. CASE Connect(p)
      <4>1. stage[p] = "start" /\ stage'[p] = "joining"
        BY <3>2, GoesIs DEF Connect
      <4> QED BY <3>1, <4>1, QuietSame
    <3>3. CASE Rejoin(p) /\ conn[p] = 0
      <4>1. stage[p] = "top" /\ stage'[p] = "joining"
        BY <3>3, GoesIs DEF Rejoin, Is
      <4> QED BY <3>1, <4>1, QuietSame DEF LoopStages
    <3> QED BY <1>3, <3>2, <3>3 DEF Opens
  <2>3. opened'[p] - 1 = opened[p]
    BY <1>2, <2>1
  <2>4. answers[p] <= Rounds(opened[p]) /\ (opened[p] = 0 => greeted[p] = {})
    <3>1. CASE stage[p] = "start"
      BY <1>2, <1>n, <3>1 DEF StormAt
    <3>2. CASE stage[p] \in LoopStages
      <4>1. opened[p] - 1 \in Nat /\ (opened[p] - 1) + 1 = opened[p]
            /\ answers[p] <= Rounds(opened[p] - 1) + Cardinality(greeted[p])
        BY <1>2, <3>2 DEF StormAt
      <4> QED BY <1>2, <1>n, <1>g, <4>1
    <3> QED BY <2>2, <3>1, <3>2
  <2>5. answers'[p] <= Rounds(opened'[p] - 1) /\ (opened'[p] = 1 => greeted'[p] = {}) /\ opened'[p] >= 1
        /\ greeted'[p] \subseteq Peers \ {p}
    BY <1>2, <1>g, <2>1, <2>2, <2>3, <2>4
  <2> QED BY <2>2, <2>5 DEF StormAt, LoopStages, Rounds, N
<1>4. CASE ~Opens(p)
  <2>1. UNCHANGED opened
    BY <1>4, OpenedElse
  <2>2. CASE OpenFails(p) \/ Exit(p) \/ ConnectFails(p)
    <3>1. UNCHANGED <<answers, greeted>>
      BY <2>2, QuietSame DEF Quiet
    <3>2. stage'[p] = "over" /\ stage[p] \in {"open", "exit", "joining"}
      BY <2>2, GoesIs DEF OpenFails, Exit, ConnectFails
    <3>3. answers[p] <= Rounds(opened[p])
      <4>1. opened[p] - 1 \in Nat /\ (opened[p] - 1) + 1 = opened[p]
            /\ answers[p] <= Rounds(opened[p] - 1) + N
        <5>1. CASE stage[p] \in {"open", "joining"}
          <6>1. opened[p] >= 1 /\ answers[p] <= Rounds(opened[p] - 1)
            BY <5>1 DEF StormAt
          <6>2. opened[p] - 1 \in Nat /\ (opened[p] - 1) + 1 = opened[p]
            BY <1>2, <6>1
          <6> QED BY <1>2, <1>n, <6>1, <6>2
        <5>2. CASE stage[p] = "exit"
          BY <1>2, <1>n, <1>g, <5>2 DEF StormAt, LoopStages
        <5> QED BY <3>2, <5>1, <5>2
      <4> QED BY <1>n, <4>1
    <3> QED BY <1>g, <2>1, <3>1, <3>2, <3>3 DEF StormAt, LoopStages, Rounds, N
  <2>3. CASE Find(p) \/ OpenPolls(p) \/ Connected(p)
    <3>1. UNCHANGED <<answers, greeted>>
      BY <2>3, QuietSame DEF Quiet
    <3>2. stage'[p] \in {"find", "open"} /\ stage[p] \in {"joining", "find", "open"}
      BY <2>3, ConnectedIs, GoesIs DEF Find, OpenPolls, Connected
    <3> QED BY <2>1, <3>1, <3>2 DEF StormAt, LoopStages, Rounds, N
  <2>4. CASE Open(p)
    <3>1. UNCHANGED answers /\ greeted'[p] = {}
      <4>1. stage[p] = "open"
        BY <2>4 DEF Open
      <4>2. opened[p] >= 1 /\ (opened[p] = 1 => greeted[p] = {})
        BY <4>1 DEF StormAt
      <4>3. greeted \in [Peers -> SUBSET Peers]
        BY DEF TypeInv, SessionTypes
      <4> QED BY <1>2, <2>4, <4>2, <4>3, OpenDoes
    <3>2. stage'[p] \in LoopStages /\ stage[p] = "open"
      <4>1. stage[p] = "open" /\ (Turns(p) \/ TopDone(p))
        BY <2>4 DEF Open
      <4> QED BY <4>1, TurnsIs, TopDoneIs, GoesIs DEF LoopStages
    <3>3. opened[p] >= 1 /\ answers[p] <= Rounds(opened[p] - 1)
      BY <3>2 DEF StormAt
    <3>4. Rounds(opened[p] - 1) \in Nat
      BY <1>2, <1>n, <3>3
    <3>5. answers'[p] <= Rounds(opened'[p] - 1) + Cardinality(greeted'[p])
      BY <1>2, <1>c, <2>1, <3>1, <3>3, <3>4
    <3> QED BY <2>1, <3>1, <3>2, <3>3, <3>5 DEF StormAt, LoopStages, Rounds, N
  <2>5. CASE Turn(p) /\ ~Sync(p)
    <3>1. UNCHANGED <<answers, greeted>>
      <4>1. CASE Tick(p)
        BY <4>1, TickDoes DEF helloVars
      <4>2. CASE ~Tick(p)
        BY <2>5, <4>2, QuietSame DEF Turn, Quiet
      <4> QED BY <4>1, <4>2
    <3>2. stage'[p] \in LoopStages /\ stage[p] \in LoopStages
      BY <2>5, TurnFlow
    <3> QED BY <2>1, <3>1, <3>2 DEF StormAt, LoopStages, Rounds, N
  <2>6. CASE Sync(p)
    <3>1. stage'[p] \in LoopStages /\ stage[p] \in LoopStages
      BY <2>6, TurnFlow DEF Turn
    <3>2. /\ greeted \in [Peers -> SUBSET Peers] /\ answers \in [Peers -> Nat]
      BY DEF TypeInv, SessionTypes
    <3>3. \/ greeted'[p] = greeted[p] /\ answers'[p] = answers[p]
          \/ \E q \in Peers \ {p} : q \notin greeted[p] /\ greeted'[p] = greeted[p] \cup {q} /\ answers'[p] = answers[p] + 1
      <4> DEFINE q == Head(syn[p]).from
                 m == Head(syn[p]).body
      <4>1. q = Head(syn[p]).from /\ m = Head(syn[p]).body
        OBVIOUS
      <4> HIDE DEF q, m
      <4>a. q \in Peers \ {p} /\ (HelloDoes(p, q) \/ BoundaryDoes(p, m))
        BY <2>6, <4>1, SyncDoes
      <4>2. /\ q \in Peers \ {p}
            /\ \/ /\ greeted' = [greeted EXCEPT ![p] = @ \cup {q}]
                  /\ \/ q \notin greeted[p] /\ answers' = [answers EXCEPT ![p] = @ + 1]
                     \/ q \in greeted[p] /\ UNCHANGED answers
               \/ UNCHANGED <<greeted, answers>>
        BY <4>a DEF HelloDoes, BoundaryDoes
      <4>3. CASE UNCHANGED <<greeted, answers>>
        BY <4>3
      <4>4. ASSUME greeted' = [greeted EXCEPT ![p] = @ \cup {q}], q \notin greeted[p],
                   answers' = [answers EXCEPT ![p] = @ + 1]
            PROVE  greeted'[p] = greeted[p] \cup {q} /\ answers'[p] = answers[p] + 1
        BY <3>2, <4>4
      <4>5. ASSUME greeted' = [greeted EXCEPT ![p] = @ \cup {q}], q \in greeted[p], UNCHANGED answers
            PROVE  greeted'[p] = greeted[p] /\ answers'[p] = answers[p]
        <5>1. greeted'[p] = greeted[p] \cup {q}
          BY <3>2, <4>5
        <5> QED BY <4>5, <5>1
      <4> QED BY <4>2, <4>3, <4>4, <4>5
    <3>4. opened[p] >= 1 /\ answers[p] <= Rounds(opened[p] - 1) + Cardinality(greeted[p])
      BY <3>1 DEF StormAt
    <3>5. Rounds(opened[p] - 1) \in Nat
      BY <1>2, <1>n, <3>4
    <3>6. greeted'[p] \subseteq Peers \ {p} /\ answers'[p] <= Rounds(opened'[p] - 1) + Cardinality(greeted'[p])
      <4>1. CASE greeted'[p] = greeted[p] /\ answers'[p] = answers[p]
        BY <1>g, <2>1, <3>4, <4>1
      <4>2. ASSUME NEW q \in Peers \ {p}, q \notin greeted[p], greeted'[p] = greeted[p] \cup {q},
                   answers'[p] = answers[p] + 1
            PROVE  greeted'[p] \subseteq Peers \ {p} /\ answers'[p] <= Rounds(opened'[p] - 1) + Cardinality(greeted'[p])
        <5>1. Cardinality(greeted'[p]) = Cardinality(greeted[p]) + 1
          BY <1>g, <4>2, GreetedCount
        <5> QED BY <1>2, <1>g, <2>1, <3>4, <3>5, <4>2, <5>1
      <4> QED BY <3>3, <4>1, <4>2
    <3> QED BY <2>1, <3>1, <3>4, <3>6 DEF StormAt, LoopStages, Rounds, N
  <2> QED BY <1>1, <1>4, <2>2, <2>3, <2>4, <2>5, <2>6 DEF Flow, Opens
<1> QED BY <1>3, <1>4

LEMMA ClientAlone ==
    ASSUME TypeInv, NEW p \in Peers, Client(p), NEW q \in Peers, q # p
    PROVE  /\ stage'[q] = stage[q] /\ opened'[q] = opened[q] /\ answers'[q] = answers[q]
           /\ greeted'[q] = greeted[q] /\ names'[q] = names[q] /\ index'[q] = index[q]
<1>1. stage'[q] = stage[q]
  BY StageStep DEF TypeInv, SessionTypes
<1>2. opened'[q] = opened[q]
  <2>1. CASE Opens(p)
    BY <2>1, OpensIs
  <2> QED BY <2>1, OpenedElse
<1>3. /\ greeted \in [Peers -> SUBSET Peers] /\ names \in [Peers -> SUBSET Peers]
      /\ answers \in [Peers -> Nat] /\ index \in [Peers -> Int]
  BY DEF TypeInv, SessionTypes
<1>4. CASE Quiet(p)
  BY <1>1, <1>2, <1>4, QuietSame
<1>5. CASE Open(p)
  BY <1>1, <1>2, <1>3, <1>5, OpenDoes
<1>6. CASE Tick(p)
  <2> DEFINE i == Interval(beat'[p])
  <2> HIDE DEF i
  <2>1. UNCHANGED helloVars /\ (index' = [index EXCEPT ![p] = i] \/ UNCHANGED index)
    BY <1>6, TickDoes DEF i
  <2> QED BY <1>1, <1>2, <1>3, <2>1 DEF helloVars
<1>7. CASE Sync(p)
  <2> DEFINE r == Head(syn[p]).from
             m == Head(syn[p]).body
  <2>1. r = Head(syn[p]).from /\ m = Head(syn[p]).body
    OBVIOUS
  <2> HIDE DEF r, m
  <2>2. \/ /\ names' = [names EXCEPT ![p] = @ \cup {r}] /\ greeted' = [greeted EXCEPT ![p] = @ \cup {r}]
           /\ UNCHANGED index /\ (answers' = [answers EXCEPT ![p] = @ + 1] \/ UNCHANGED answers)
        \/ index' = [index EXCEPT ![p] = index'[p]] /\ UNCHANGED <<names, greeted, answers>>
    <3>1. HelloDoes(p, r) \/ BoundaryDoes(p, m)
      BY <1>7, <2>1, SyncDoes
    <3>2. CASE HelloDoes(p, r)
      BY <3>2 DEF HelloDoes
    <3>3. CASE BoundaryDoes(p, m)
      BY <3>3 DEF BoundaryDoes
    <3> QED BY <3>1, <3>2, <3>3
  <2>3. names'[q] = names[q] /\ greeted'[q] = greeted[q] /\ index'[q] = index[q]
    BY <1>3, <2>2
  <2>4. answers'[q] = answers[q]
    BY <1>3, <2>2
  <2> QED BY <1>1, <1>2, <2>3, <2>4
<1> QED BY <1>4, <1>5, <1>6, <1>7, ClientIs

LEMMA StormStep == TypeInv /\ StormInv /\ [Next]_vars => StormInv'
<1> SUFFICES ASSUME TypeInv, StormInv, [Next]_vars, NEW p \in Peers PROVE StormAt(p)'
  BY DEF StormInv
<1>1. StormAt(p)
  BY DEF StormInv
<1>2. CASE UNCHANGED vars \/ Task
  <2>1. UNCHANGED <<stage, opened, answers, greeted>>
    BY <1>2, TaskOpened DEF vars, meshVars, loopVars, helloVars
  <2> QED BY <1>1, <2>1, StormSame
<1>3. ASSUME NEW q \in Peers, Client(q) PROVE StormAt(p)'
  <2>1. CASE q = p
    BY <1>1, <1>3, <2>1, StormClient
  <2>2. CASE q # p
    BY <1>1, <1>3, <2>2, ClientAlone, StormSame
  <2> QED BY <2>1, <2>2
<1> QED BY <1>2, <1>3 DEF Next

\* A client answers each other client at most once for each connection of its own, whatever
\* Hellos cross: greetings never go back and forth (handle_sync, greeted_peers).
THEOREM SessionNoHelloStorm == Spec => []NoHelloStorm
BY TypeInit, TypeStep, StormInit, StormStep, StormGives, PTL DEF Spec


----------------------------------------------------------------------------
(* What a client does to what is under way                                 *)

\* A mesh is in the room by its connection as long as it is there, and who waits for join_ok
\* has none.
Registered == \A p \in Peers : conn[p] # 0 => reg[p] = conn[p]
Joining == \A p \in Peers :
    (p \in joining <=> stage[p] = "joining") /\ (stage[p] \in {"start", "joining"} => conn[p] = 0)
Links == Registered /\ Seats /\ Joining

LEMMA LinksIs == ASSUME Links, NEW p \in Peers PROVE Member(p) <=> conn[p] # 0
BY DEF Links, Registered, Member

LEMMA LinksInit == Init => Links
BY SeatsInit DEF Init, MeshInit, Links, Registered, Joining

\* The actions that drop the mesh.
Drops(p) == OpenFails(p) \/ (Leave(p) /\ conn[p] # 0) \/ (Exit(p) /\ conn[p] # 0)
LEMMA DropsIs ==
    ASSUME TypeInv, NEW p \in Peers, Drops(p)
    PROVE  /\ DropMesh(p) /\ Unheard(Peers) /\ conn[p] # 0 /\ conn'[p] = 0
           /\ \A q \in Peers \ {p} : conn'[q] = conn[q] /\ ctl'[q] = ctl[q] /\ syn'[q] = syn[q]
           /\ UNCHANGED <<reg, wire, opened, joining, outSync>>
<1>1. DropMesh(p) /\ Unheard(Peers)
  BY DEF Drops, OpenFails, Leave, Exit
<1> QED BY <1>1 DEF DropMesh, TypeInv, MeshTypes, Numbered, ChanTypes

Polls(p) == Find(p) \/ OpenPolls(p) \/ Signal(p)
LEMMA ElseIs ==
    ASSUME TypeInv, NEW p \in Peers, Client(p), ~Opens(p), ~Over(p), ~Drops(p)
    PROVE  /\ UNCHANGED netVars
           /\ (Polls(p) /\ Polled(p)) \/ UNCHANGED ctl
           /\ Sync(p) \/ UNCHANGED syn
           /\ \A e \in Conns : Grown(outSync'[e], outSync[e], Orders(Words))
<1>0. MeshTypes(Words, Sounds)
  BY DEF TypeInv
<1>g. ASSUME UNCHANGED outSync PROVE \A e \in Conns : Grown(outSync'[e], outSync[e], Orders(Words))
  BY <1>g, SameGrown
<1>1. CASE Quiet(p) /\ ~Polls(p)
  <2>1. UNCHANGED meshVars \/ Audio(p)
    BY <1>1 DEF Quiet, Opens, Over, Drops, Polls, Connect, Rejoin, Stable, Leave, Stop, StillWaits, Resume, Exit,
           TickPastBound
  <2>2. UNCHANGED meshVars => UNCHANGED <<netVars, ctl, syn, outSync>>
    BY DEF meshVars, netVars
  <2>3. Audio(p) => UNCHANGED <<netVars, ctl, syn, outSync>>
    BY DEF Audio, pollVars
  <2> QED BY <1>g, <2>1, <2>2, <2>3
<1>2. CASE Polls(p)
  <2>1. Polled(p) /\ UNCHANGED <<netVars, syn>>
    BY <1>2 DEF Polls, Find, OpenPolls, Signal
  <2>2. UNCHANGED outSync \/ Queued(p, <<ToAll(Hello)>>)
    BY <1>2 DEF Polls, Find, OpenPolls, Signal, Welcome
  <2> QED BY <1>0, <1>2, <1>g, <2>1, <2>2, HelloWord, QueuedGrown
<1>3. CASE Open(p)
  <2>1. Queued(p, <<ToAll(Hello)>>) /\ UNCHANGED <<netVars, ctl, syn>>
    BY <1>3 DEF Open, Greet, chanVars, pollVars
  <2> QED BY <1>0, <2>1, HelloWord, QueuedGrown
<1>4. CASE Tick(p)
  <2> DEFINE i == Interval(beat'[p])
  <2>1. i \in Int /\ i > None
    BY <1>4, TickIs
  <2>2. (Queued(p, <<ToAll(Boundary(i))>>) \/ UNCHANGED outSync) /\ UNCHANGED <<netVars, chanVars>>
    BY <1>4, TickDoes
  <2> HIDE DEF i
  <2>3. <<ToAll(Boundary(i))>> \in Seq(Orders(Words))
    BY <2>1, BoundaryWord
  <2>4. UNCHANGED <<ctl, syn>>
    BY <2>2 DEF chanVars, pollVars
  <2> QED BY <1>0, <1>g, <2>2, <2>3, <2>4, QueuedGrown
<1>5. CASE Sync(p)
  <2> DEFINE q == Head(syn[p]).from
  <2>1. (Queued(p, <<ToPeer(q, Hello)>>) \/ UNCHANGED outSync) /\ UNCHANGED <<netVars, pollVars>> /\ q \in Peers
    BY <1>5, SyncDoes DEF HelloDoes, BoundaryDoes
  <2> HIDE DEF q
  <2>2. <<ToPeer(q, Hello)>> \in Seq(Orders(Words))
    BY <2>1, HelloWord
  <2>3. UNCHANGED ctl
    BY <2>1 DEF pollVars
  <2> QED BY <1>0, <1>5, <1>g, <2>1, <2>2, <2>3, QueuedGrown
<1> QED BY <1>1, <1>2, <1>3, <1>4, <1>5, ClientIs

\* Where a client is before and after a step that is of no join.
LEMMA ElseFlow ==
    ASSUME TypeInv, NEW p \in Peers, Client(p), ~Opens(p), ~Over(p)
    PROVE  {stage[p], stage'[p]} \cap {"start", "joining"} = {}
<1>1. Flow(p)
  BY ClientFlow
<1> QED BY <1>1 DEF Flow, Opens, Over, LoopStages

LEMMA OpensFlow ==
    ASSUME TypeInv, Links, NEW p \in Peers, Opens(p)
    PROVE  stage'[p] = "joining" /\ conn[p] = 0
<1>1. CASE Connect(p)
  BY <1>1, GoesIs DEF Connect, Links, Joining
<1>2. CASE Rejoin(p) /\ conn[p] = 0
  BY <1>2, GoesIs DEF Rejoin
<1> QED BY <1>1, <1>2 DEF Opens

LEMMA OverFlow ==
    ASSUME TypeInv, NEW p \in Peers, Over(p)
    PROVE  /\ Connected(p) => stage'[p] \in {"find", "open"}
           /\ stage'[p] \in {"find", "open", "over"}
<1>1. Connected(p) => stage'[p] \in {"find", "open"}
  BY ConnectedIs, GoesIs
<1>2. ConnectFails(p) => stage'[p] = "over"
  BY GoesIs DEF ConnectFails
<1> QED BY <1>1, <1>2 DEF Over

\* What a step of r leaves of the network, but for what it takes from its own channels and
\* for the connection on which its join ends.
LEMMA ClientNet ==
    ASSUME TypeInv, NEW r \in Peers, Client(r)
    PROVE  /\ \A s \in Peers \ {r} :
                 /\ conn'[s] = conn[s] /\ reg'[s] = reg[s] /\ opened'[s] = opened[s]
                 /\ (s \in joining' <=> s \in joining) /\ ctl'[s] = ctl[s] /\ syn'[s] = syn[s]
           /\ \A e \in Conns : (Over(r) /\ e = Seat(r)) \/ \A S : Grown(wire'[e], wire[e], S)
           /\ \A e \in Conns : Grown(outSync'[e], outSync[e], Orders(Words))
<1>1. CASE Opens(r)
  <2>1. \A e \in Conns : \A S : Grown(wire'[e], wire[e], S)
    <3> DEFINE T == Others(r)
               m == Msg("joined", r, {})
    <3>1. wire' = Relayed(T, m)
      BY <1>1, OpensIs
    <3> HIDE DEF T, m
    <3> QED BY <3>1, RelayedGrown
  <2>2. UNCHANGED outSync
    BY <1>1, OpensIs
  <2>3. \A e \in Conns : Grown(outSync'[e], outSync[e], Orders(Words))
    BY <2>2, SameGrown
  <2> QED BY <1>1, <2>1, <2>3, OpensIs
<1>2. CASE Over(r)
  <2>1. \A e \in Conns : e # Seat(r) => \A S : Grown(wire'[e], wire[e], S)
    BY <1>2, OverIs, SameGrown
  <2>2. \A e \in Conns : Grown(outSync'[e], outSync[e], Orders(Words))
    BY <1>2, OverIs, SameGrown
  <2> QED BY <1>2, <2>1, <2>2, OverIs
<1>3. CASE Drops(r)
  <2>1. \A e \in Conns : \A S : Grown(wire'[e], wire[e], S)
    BY <1>3, DropsIs, SameGrown
  <2>2. \A e \in Conns : Grown(outSync'[e], outSync[e], Orders(Words))
    BY <1>3, DropsIs, SameGrown
  <2> QED BY <1>3, <2>1, <2>2, DropsIs
<1>4. CASE ~Opens(r) /\ ~Over(r) /\ ~Drops(r)
  <2>1. /\ UNCHANGED <<reg, wire, conn, opened, joining>>
        /\ (Polls(r) /\ Polled(r)) \/ UNCHANGED ctl
        /\ Sync(r) \/ UNCHANGED syn
        /\ \A e \in Conns : Grown(outSync'[e], outSync[e], Orders(Words))
    BY <1>4, ElseIs DEF netVars
  <2>2. \A s \in Peers \ {r} : ctl'[s] = ctl[s]
    BY <2>1 DEF Polled, TypeInv, MeshTypes, ChanTypes
  <2>3. \A s \in Peers \ {r} : syn'[s] = syn[s]
    BY <2>1 DEF Sync, TypeInv, MeshTypes, ChanTypes
  <2>4. \A e \in Conns : \A S : Grown(wire'[e], wire[e], S)
    BY <2>1, SameGrown
  <2> QED BY <2>1, <2>2, <2>3, <2>4
<1> QED BY <1>1, <1>2, <1>3, <1>4

LEMMA LinksStep == TypeInv /\ Links /\ [Next]_vars => Links'
<1> SUFFICES ASSUME TypeInv, Links, [Next]_vars PROVE Links'
  OBVIOUS
<1>0. MeshTypes(Words, Sounds) /\ Seats /\ Seats'
  BY TypeStep DEF TypeInv, Links
<1>1. CASE UNCHANGED vars
  <2>1. UNCHANGED <<reg, conn, joining, stage>>
    BY <1>1 DEF vars, meshVars
  <2> QED BY <1>0, <2>1 DEF Links, Registered, Joining
<1>2. CASE Task
  <2>1. Tasks /\ UNCHANGED <<conn, joining, stage>>
    BY <1>2, TaskOpened DEF Task
  <2>2. ASSUME NEW p \in Peers, conn'[p] # 0 PROVE reg'[p] = conn'[p]
    BY <1>0, <2>1, <2>2, LinksIs, TaskMember DEF Member
  <2> QED BY <1>0, <2>1, <2>2 DEF Links, Registered, Joining
<1>3. ASSUME NEW r \in Peers, Client(r) PROVE Links'
  <2>1. ASSUME NEW p \in Peers \ {r}
        PROVE  /\ conn'[p] # 0 => reg'[p] = conn'[p]
               /\ (p \in joining' <=> stage'[p] = "joining") /\ (stage'[p] \in {"start", "joining"} => conn'[p] = 0)
    <3>1. /\ conn'[p] = conn[p] /\ reg'[p] = reg[p] /\ (p \in joining' <=> p \in joining)
          /\ stage'[p] = stage[p]
      BY <1>3, <2>1, ClientNet, ClientAlone
    <3> QED BY <3>1 DEF Links, Registered, Joining
  <2>2. /\ conn'[r] # 0 => reg'[r] = conn'[r]
        /\ (r \in joining' <=> stage'[r] = "joining") /\ (stage'[r] \in {"start", "joining"} => conn'[r] = 0)
    <3>1. CASE Opens(r)
      BY <3>1, OpensIs, OpensFlow
    <3>2. CASE Over(r)
      <4>1. reg[r] = opened[r] /\ UNCHANGED reg /\ (conn'[r] = opened[r] \/ conn'[r] = 0)
        BY <1>0, <3>2, OverIs DEF Over, Seats, Seated
      <4> QED BY <3>2, <4>1, OverIs, OverFlow
    <3>3. CASE ~Opens(r) /\ ~Over(r)
      <4>1. {stage[r], stage'[r]} \cap {"start", "joining"} = {}
        BY <1>3, <3>3, ElseFlow
      <4>2. UNCHANGED joining
        BY <1>3, <3>3, DropsIs, ElseIs DEF netVars
      <4>3. conn'[r] # 0 => UNCHANGED <<conn, reg>>
        BY <1>3, <3>3, DropsIs, ElseIs DEF netVars
      <4> QED BY <4>1, <4>2, <4>3 DEF Links, Registered, Joining
    <3> QED BY <3>1, <3>2, <3>3
  <2> QED BY <1>0, <2>1, <2>2 DEF Links, Registered, Joining
<1> QED BY <1>1, <1>2, <1>3 DEF Next

\* In the room, with a mesh or before it has one; what is on its way from q to p then.
Here(p) == conn[p] # 0 \/ p \in joining
OnWay(p, q, W) == IF p \in joining THEN Pending(p, q, W) ELSE Underway(p, q, W)

LEMMA HereKept ==
    ASSUME TypeInv, NEW r \in Peers, Client(r), NEW p \in Peers, ~(Opens(r) /\ r = p), Here(p)'
    PROVE  Here(p)
<1>1. CASE r # p
  BY <1>1, ClientNet DEF Here
<1>2. CASE r = p /\ Over(p)
  BY <1>2, OverIs DEF Here
<1>3. CASE r = p /\ Drops(p)
  BY <1>3, DropsIs DEF Here
<1>4. CASE r = p /\ ~Over(p) /\ ~Drops(p)
  <2>1. UNCHANGED netVars
    BY <1>4, ElseIs
  <2> QED BY <2>1 DEF netVars, Here
<1> QED BY <1>1, <1>2, <1>3, <1>4

\* A mesh is there only through the end of a join, and it does not change.
LEMMA ConnKept ==
    ASSUME TypeInv, Links, NEW r \in Peers, Client(r), NEW q \in Peers
    PROVE  /\ ~(Over(r) /\ r = q) /\ conn'[q] # 0 => conn[q] # 0
           /\ conn[q] # 0 /\ conn'[q] # 0 => conn'[q] = conn[q]
<1>1. CASE r # q
  BY <1>1, ClientNet
<1>2. CASE r = q /\ Opens(q)
  BY <1>2, OpensIs
<1>3. CASE r = q /\ Over(q)
  <2>1. conn[q] = 0
    BY <1>3, OverIs DEF Links, Joining
  <2> QED BY <1>3, <2>1
<1>4. CASE r = q /\ Drops(q)
  BY <1>4, DropsIs
<1>5. CASE r = q /\ ~Opens(q) /\ ~Over(q) /\ ~Drops(q)
  <2>1. UNCHANGED conn
    BY <1>5, ElseIs DEF netVars
  <2> QED BY <2>1
<1> QED BY <1>1, <1>2, <1>3, <1>4, <1>5

\* A client takes what is on its way to it only from its own sync channel.
LEMMA SyncTakes ==
    ASSUME TypeInv, NEW p \in Peers, Client(p), ~Opens(p), ~Over(p), ~Drops(p), NEW q \in Peers,
           conn[p] # 0, conn[q] # 0, NEW W, Underway(p, q, W)
    PROVE  Underway(p, q, W)' \/ (Sync(p) /\ Head(syn[p]) \in Told(q, W))
<1>0. MeshTypes(Words, Sounds)
  BY DEF TypeInv
<1>1. /\ UNCHANGED <<reg, wire, conn>> /\ (Sync(p) \/ UNCHANGED syn)
      /\ \A e \in Conns : Grown(outSync'[e], outSync[e], Orders(Words))
  BY ElseIs DEF netVars
<1>2. Current(p) \in Conns /\ Current(q) \in Conns
  BY <1>0, MemberConn
<1>3. CASE UNCHANGED syn
  <2>1. Grown(outSync'[Current(q)], outSync[Current(q)], Orders(Words))
    BY <1>1, <1>2
  <2>2. Grown(wire'[Current(p)], wire[Current(p)], Mail(p, Words, Sounds)) /\ Grown(syn'[p], syn[p], Syncs(p, Words))
    BY <1>1, <1>3, SameGrown
  <2>3. conn'[p] = conn[p] /\ conn'[q] = conn[q]
    BY <1>1
  <2> QED BY <1>0, <2>1, <2>2, <2>3, KeptUnderway
<1>4. CASE Sync(p)
  <2>1. syn[p] # <<>> /\ syn'[p] = Tail(syn[p])
    BY <1>0, <1>4 DEF Sync, MeshTypes, ChanTypes
  <2>2. PICK S : syn[p] \in Seq(S)
    BY <1>0, MemberConn
  <2>3. PICK T : outSync[Current(q)] \in Seq(T) /\ Grown(outSync'[Current(q)], outSync[Current(q)], T)
    BY <1>0, <1>1, <1>2, MemberConn
  <2>4. Current(p)' = Current(p) /\ Current(q)' = Current(q)
    BY <1>1 DEF Current
  <2>5. CASE Holds(outSync[Current(q)], Asked(p, W))
    <3>1. Holds(outSync'[Current(q)], Asked(p, W))
      BY <2>3, <2>5, GrownHolds
    <3> QED BY <2>4, <3>1 DEF Underway, Asked
  <2>6. CASE Holds(wire[Current(p)], Told(q, W))
    BY <1>1, <2>4, <2>6 DEF Underway, Told
  <2>7. CASE Holds(syn[p], Told(q, W))
    <3>1. Head(syn[p]) \in Told(q, W) \/ Holds(syn'[p], Told(q, W))
      BY <2>1, <2>2, <2>7, HoldsFirst
    <3>2. Holds(syn'[p], Told(q, W)) => Underway(p, q, W)'
      BY DEF Underway, Told
    <3> QED BY <1>4, <3>1, <3>2
  <2> QED BY <2>5, <2>6, <2>7 DEF Underway
<1> QED BY <1>1, <1>3, <1>4

\* It hears of a newcomer only from its own event channel.
LEMMA SignalTakes ==
    ASSUME TypeInv, NEW q \in Peers, Client(q), ~Opens(q), ~Over(q), ~Drops(q), NEW p \in Peers,
           conn[q] # 0, Expected(p, q)
    PROVE  Expected(p, q)' \/ (Polls(q) /\ Polled(q) /\ Head(ctl[q]) \in Newcomer(p))
<1>0. MeshTypes(Words, Sounds)
  BY DEF TypeInv
<1>1. UNCHANGED <<wire, conn>> /\ ((Polls(q) /\ Polled(q)) \/ UNCHANGED ctl)
  BY ElseIs DEF netVars
<1>2. CASE UNCHANGED ctl
  <2>1. Grown(wire'[Current(q)], wire[Current(q)], Mail(q, Words, Sounds)) /\ Grown(ctl'[q], ctl[q], Lists(q) \cup Events(q))
    BY <1>1, <1>2, SameGrown
  <2>2. conn'[q] = conn[q]
    BY <1>1
  <2> QED BY <1>0, <2>1, <2>2, KeptExpected
<1>3. CASE Polls(q) /\ Polled(q)
  <2>1. ctl[q] # <<>> /\ ctl'[q] = Tail(ctl[q])
    BY <1>0, <1>3 DEF Polled, MeshTypes, ChanTypes
  <2>2. PICK S : ctl[q] \in Seq(S)
    BY <1>0, MemberConn
  <2>3. Current(q)' = Current(q)
    BY <1>1 DEF Current
  <2>4. CASE Holds(wire[Current(q)], Newcomer(p))
    BY <1>1, <2>3, <2>4 DEF Expected, Newcomer, Msg
  <2>5. CASE Holds(ctl[q], Newcomer(p))
    <3>1. Head(ctl[q]) \in Newcomer(p) \/ Holds(ctl'[q], Newcomer(p))
      BY <2>1, <2>2, <2>5, HoldsFirst
    <3>2. Holds(ctl'[q], Newcomer(p)) => Expected(p, q)'
      BY DEF Expected, Newcomer, Msg
    <3> QED BY <1>3, <3>1, <3>2
  <2> QED BY <2>4, <2>5 DEF Expected
<1> QED BY <1>1, <1>2, <1>3

\* To one in the room from a mesh that stays, a client takes what is on its way only where it
\* is meant to.
LEMMA ClientOnWay ==
    ASSUME TypeInv, Links, NEW r \in Peers, Client(r), NEW p \in Peers, NEW q \in Peers, p # q,
           ~(Opens(r) /\ r = p), Here(p), Here(p)', conn[q] # 0, conn'[q] # 0, NEW W, OnWay(p, q, W)
    PROVE  OnWay(p, q, W)' \/ (r = p /\ Sync(p) /\ Head(syn[p]) \in Told(q, W))
<1>0. MeshTypes(Words, Sounds) /\ Seated
  BY DEF TypeInv, Links, Seats
<1>1. Current(q) \in Conns /\ conn'[q] = conn[q]
  BY <1>0, MemberConn, ConnKept
<1>2. Grown(outSync'[Current(q)], outSync[Current(q)], Orders(Words))
  BY <1>1, ClientNet
<1>3. CASE r # p /\ p \in joining
  <2>1. Seat(p) \in Conns /\ Seat(p) # Seat(r)
    BY <1>0, <1>3, SeatIs DEF MeshTypes, Seat
  <2>2. Grown(wire'[Seat(p)], wire[Seat(p)], Mail(p, Words, Sounds))
    BY <2>1, ClientNet
  <2>3. opened'[p] = opened[p] /\ p \in joining'
    BY <1>3, ClientNet
  <2>4. Pending(p, q, W)
    BY <1>3 DEF OnWay
  <2>5. Pending(p, q, W)'
    BY <1>0, <1>1, <1>2, <1>3, <2>2, <2>3, <2>4, KeptPending
  <2> QED BY <2>3, <2>5 DEF OnWay
<1>4. CASE r # p /\ p \notin joining
  <2>1. /\ conn[p] # 0 /\ conn'[p] = conn[p] /\ syn'[p] = syn[p] /\ p \notin joining'
    BY <1>4, ClientNet DEF Here
  <2>2. Current(p) \in Conns /\ Current(p) # Seat(r)
    BY <1>0, <1>4, <2>1, MemberConn DEF Current, Seat
  <2>3. Grown(wire'[Current(p)], wire[Current(p)], Mail(p, Words, Sounds))
    BY <2>2, ClientNet
  <2>4. Grown(syn'[p], syn[p], Syncs(p, Words))
    BY <2>1, SameGrown
  <2>5. Underway(p, q, W)
    BY <1>4 DEF OnWay
  <2>6. Underway(p, q, W)'
    BY <1>0, <1>1, <1>2, <2>1, <2>3, <2>4, <2>5, KeptUnderway
  <2> QED BY <2>1, <2>6 DEF OnWay
<1>5. CASE r = p /\ Over(p)
  <2>1. p \in joining /\ p \notin joining' /\ UNCHANGED outSync
    BY <1>5, OverIs
  <2>2. Connected(p) /\ ~Overtaken(p)
    BY <1>5, <2>1, OverIs DEF Over, Here
  <2>3. Pending(p, q, W)
    BY <2>1 DEF OnWay
  <2>4. Underway(p, q, W)'
    BY <1>1, <2>1, <2>2, <2>3, PendingUnderway
  <2> QED BY <2>1, <2>4 DEF OnWay
<1>6. CASE r = p /\ Drops(p)
  <2>1. conn[p] # 0 /\ conn'[p] = 0 /\ UNCHANGED joining
    BY <1>6, DropsIs
  <2> QED BY <2>1 DEF Here, Links, Joining
<1>7. CASE r = p /\ ~Over(p) /\ ~Drops(p)
  <2>1. stage[p] # "joining" /\ UNCHANGED joining
    BY <1>7, ElseFlow, ElseIs DEF netVars
  <2>2. p \notin joining /\ p \notin joining'
    BY <2>1 DEF Links, Joining
  <2>3. conn[p] # 0 /\ Underway(p, q, W)
    BY <2>2 DEF Here, OnWay
  <2>4. Underway(p, q, W)' \/ (Sync(p) /\ Head(syn[p]) \in Told(q, W))
    BY <1>7, <2>3, SyncTakes
  <2> QED BY <1>7, <2>2, <2>4 DEF OnWay
<1> QED BY <1>3, <1>4, <1>5, <1>6, <1>7

LEMMA ClientExpected ==
    ASSUME TypeInv, Links, NEW r \in Peers, Client(r), NEW p \in Peers, NEW q \in Peers,
           conn[q] # 0, conn'[q] # 0, Expected(p, q)
    PROVE  Expected(p, q)' \/ (r = q /\ Polls(q) /\ Polled(q) /\ Head(ctl[q]) \in Newcomer(p))
<1>0. MeshTypes(Words, Sounds) /\ conn'[q] = conn[q]
  BY ConnKept DEF TypeInv
<1>1. CASE r # q
  <2>1. Current(q) \in Conns /\ Current(q) # Seat(r)
    BY <1>0, <1>1, MemberConn DEF Current, Seat
  <2>2. Grown(wire'[Current(q)], wire[Current(q)], Mail(q, Words, Sounds))
    BY <2>1, ClientNet
  <2>3. ctl'[q] = ctl[q]
    BY <1>1, ClientNet
  <2>4. Grown(ctl'[q], ctl[q], Lists(q) \cup Events(q))
    BY <2>3, SameGrown
  <2> QED BY <1>0, <2>2, <2>4, KeptExpected
<1>2. CASE r = q
  <2>1. ~Opens(q) /\ ~Over(q) /\ ~Drops(q)
    BY OpensFlow, OverIs, DropsIs DEF Links, Joining
  <2> QED BY <1>2, <2>1, SignalTakes
<1> QED BY <1>1, <1>2

\* No task loses what is on its way.
LEMMA TaskOnWay ==
    ASSUME TypeInv, Links, Task, NEW p \in Peers, NEW q \in Peers, p # q, Here(p), conn[q] # 0, NEW W
    PROVE  /\ OnWay(p, q, W) => OnWay(p, q, W)'
           /\ Expected(p, q) => Expected(p, q)'
<1>0. MeshTypes(Words, Sounds) /\ Seats /\ Gone /\ Tasks
  BY DEF TypeInv, Links, Seats, Task
<1>1. Member(q) /\ UNCHANGED joining
  BY LinksIs, TaskOpened
<1>2. CASE p \in joining
  <2>1. Pending(p, q, W) => Pending(p, q, W)'
    BY <1>0, <1>1, <1>2, TaskPending
  <2> QED BY <1>0, <1>1, <1>2, <2>1, TaskUnderway DEF OnWay
<1>3. CASE p \notin joining
  <2>1. Member(p)
    BY <1>3, LinksIs DEF Here
  <2>2. Underway(p, q, W) => Underway(p, q, W)'
    BY <1>0, <1>1, <2>1, TaskUnderway
  <2> QED BY <1>0, <1>1, <1>3, <2>2, TaskUnderway DEF OnWay
<1> QED BY <1>2, <1>3

\* What a mesh says is on its way to everybody it is meant for.
LEMMA QueuedOnWay ==
    ASSUME TypeInv, NEW p \in Peers, NEW q \in Peers, NEW W, conn[q] # 0, conn'[q] = conn[q],
           NEW o \in Orders(Words), o \in Asked(p, W), Queued(q, <<o>>)
    PROVE  OnWay(p, q, W)'
<1>1. Underway(p, q, W)' /\ Pending(p, q, W)'
  BY QueuedUnderway DEF TypeInv
<1> QED BY <1>1 DEF OnWay

LEMMA NothingOnWay ==
    ASSUME TypeInv, Links, Silent, NEW p \in Peers, NEW q \in Peers, Streams(p), conn[q] # 0
    PROVE  Here(p) /\ (\A W : ~OnWay(p, q, W)) /\ ~Expected(p, q)
<1>1. Current(p) \in Conns /\ Current(q) \in Conns /\ conn[p] # 0 /\ p \notin joining
  BY MemberConn DEF TypeInv, Links, Joining, Streams
<1>2. outSync[Current(q)] = <<>> /\ wire[Current(p)] = <<>> /\ wire[Current(q)] = <<>>
      /\ syn[p] = <<>> /\ ctl[q] = <<>>
  BY <1>1 DEF Silent
<1> QED BY <1>1, <1>2, HoldsNothing DEF Underway, Expected, OnWay, Here

----------------------------------------------------------------------------
(* Names                                                                   *)

(***************************************************************************)
(* One that is in the room knows the name of one that has a mesh, or will: *)
(* the other is still to greet, or to hear of its joining, or a Hello is   *)
(* on its way.                                                             *)
(***************************************************************************)
NamedSoon(p, q) ==
    \/ q \in names[p] \/ stage[q] \in {"find", "open"}
    \/ Expected(p, q) \/ OnWay(p, q, {Hello})
NamesInv == \A p, q \in Peers : p # q /\ Here(p) /\ conn[q] # 0 => NamedSoon(p, q)

LEMMA NamesInit == Init => NamesInv
BY DEF Init, MeshInit, NamesInv

LEMMA NamesGives == TypeInv /\ Links /\ NamesInv => HelloMutual
<1> SUFFICES ASSUME TypeInv, Links, NamesInv, Silent, NEW p \in Peers, NEW q \in Peers, p # q, Streams(p), Streams(q)
             PROVE  q \in names[p]
  BY DEF HelloMutual
<1>1. conn[q] # 0 /\ stage[q] \in {"top", "select"}
  BY DEF Streams
<1>2. Here(p) /\ ~Expected(p, q) /\ ~OnWay(p, q, {Hello})
  BY <1>1, NothingOnWay
<1>3. NamedSoon(p, q)
  BY <1>1, <1>2 DEF NamesInv
<1> QED BY <1>1, <1>2, <1>3 DEF NamedSoon

\* Names are not forgotten.
LEMMA NamesGrow ==
    ASSUME TypeInv, NEW r \in Peers, Client(r), NEW p \in Peers
    PROVE  names[p] \subseteq names'[p]
<1>1. CASE r # p
  BY <1>1, ClientAlone
<1>2. CASE r = p
  <2>1. CASE Quiet(p)
    BY <2>1, QuietSame
  <2>2. CASE Open(p)
    BY <2>2, OpenDoes
  <2>3. CASE Tick(p)
    BY <2>3, TickDoes DEF helloVars
  <2>4. CASE Sync(p)
    <3> DEFINE q == Head(syn[p]).from
               m == Head(syn[p]).body
    <3>1. HelloDoes(p, q) \/ BoundaryDoes(p, m)
      BY <2>4, SyncDoes
    <3> HIDE DEF q, m
    <3>2. CASE HelloDoes(p, q)
      BY <3>2 DEF HelloDoes, TypeInv, SessionTypes
    <3>3. CASE BoundaryDoes(p, m)
      BY <3>3 DEF BoundaryDoes
    <3> QED BY <3>1, <3>2, <3>3
  <2> QED BY <1>2, <2>1, <2>2, <2>3, <2>4, ClientIs
<1> QED BY <1>1, <1>2

LEMMA HelloAsked ==
    ASSUME NEW p \in Peers
    PROVE  ToAll(Hello) \in Orders(Words) /\ ToAll(Hello) \in Asked(p, {Hello})
<1>1. Hello \in Words
  BY DEF Words, Hello
<1> QED BY <1>1 DEF Orders, ToAll, Asked

LEMMA NamesClient ==
    ASSUME TypeInv, Links, NamesInv, NEW r \in Peers, Client(r), NEW p \in Peers, NEW q \in Peers, p # q,
           Here(p)', conn'[q] # 0
    PROVE  NamedSoon(p, q)'
<1>0. MeshTypes(Words, Sounds)
  BY DEF TypeInv
<1>1. CASE Opens(p) /\ r = p
  <2>1. Joins(p) /\ Member(q)
    BY <1>1, OpensIs, LinksIs
  <2>2. Expected(p, q)'
    BY <1>0, <2>1, JoinsExpected
  <2> QED BY <2>2 DEF NamedSoon
<1>2. CASE Over(q) /\ r = q
  <2>1. stage'[q] \in {"find", "open"}
    BY <1>2, OverIs, OverFlow DEF Over
  <2> QED BY <2>1 DEF NamedSoon
<1>3. CASE ~(Opens(p) /\ r = p) /\ ~(Over(q) /\ r = q)
  <2>1. Here(p) /\ conn[q] # 0 /\ conn'[q] = conn[q]
    BY <1>3, HereKept, ConnKept
  <2>3. NamedSoon(p, q)
    BY <2>1 DEF NamesInv
  <2>h. Queued(q, <<ToAll(Hello)>>) => OnWay(p, q, {Hello})'
    BY <2>1, HelloAsked, QueuedOnWay
  <2>4. CASE q \in names[p]
    BY <2>4, NamesGrow DEF NamedSoon
  <2>5. CASE stage[q] \in {"find", "open"}
    <3>1. CASE r # q
      BY <2>5, <3>1, ClientAlone DEF NamedSoon
    <3>2. CASE r = q
      <4>1. Flow(q)
        BY <3>2, ClientFlow
      <4>2. ~OpenFails(q)
        BY DropsIs DEF Drops
      <4>3. stage'[q] \in {"find", "open"} \/ Open(q)
        BY <2>5, <4>1, <4>2 DEF Flow, LoopStages
      <4>4. Open(q) => OnWay(p, q, {Hello})'
        BY <2>h DEF Open, Greet
      <4> QED BY <4>3, <4>4 DEF NamedSoon
    <3> QED BY <3>1, <3>2
  <2>6. CASE Expected(p, q)
    <3>1. Expected(p, q)' \/ (r = q /\ Polls(q) /\ Polled(q) /\ Head(ctl[q]) \in Newcomer(p))
      BY <2>1, <2>6, ClientExpected
    <3>2. CASE Expected(p, q)'
      BY <3>2 DEF NamedSoon
    <3>3. CASE Find(q) \/ OpenPolls(q)
      <4>1. stage'[q] \in {"find", "open"}
        BY <3>3, GoesIs DEF Find, OpenPolls
      <4> QED BY <4>1 DEF NamedSoon
    <3>4. CASE Signal(q) /\ Head(ctl[q]) \in Newcomer(p)
      <4>1. Head(ctl[q]).kind = "joined"
        BY <3>4 DEF Newcomer, Msg
      <4>2. Queued(q, <<ToAll(Hello)>>)
        BY <3>4, <4>1 DEF Signal, Welcome
      <4> QED BY <2>h, <4>2 DEF NamedSoon
    <3> QED BY <3>1, <3>2, <3>3, <3>4 DEF Polls
  <2>7. CASE OnWay(p, q, {Hello})
    <3>1. OnWay(p, q, {Hello})' \/ (Sync(p) /\ Head(syn[p]) \in Told(q, {Hello}))
      BY <1>3, <2>1, <2>7, ClientOnWay
    <3>2. CASE OnWay(p, q, {Hello})'
      BY <3>2 DEF NamedSoon
    <3>3. CASE Sync(p) /\ Head(syn[p]) \in Told(q, {Hello})
      <4>1. Head(syn[p]).from = q /\ Head(syn[p]).body = Hello /\ Hello.what = "Hello"
        BY <3>3 DEF Told, Hello
      <4> DEFINE m == Head(syn[p]).body
      <4>2. HelloDoes(p, q) \/ m.what = "IntervalBoundary"
        BY <3>3, <4>1, SyncDoes
      <4>3. HelloDoes(p, q)
        BY <4>1, <4>2
      <4>4. q \in names'[p]
        BY <4>3 DEF HelloDoes, TypeInv, SessionTypes
      <4> QED BY <4>4 DEF NamedSoon
    <3> QED BY <3>1, <3>2, <3>3
  <2> QED BY <2>3, <2>4, <2>5, <2>6, <2>7 DEF NamedSoon
<1> QED BY <1>1, <1>2, <1>3

LEMMA NamesStep == TypeInv /\ Links /\ NamesInv /\ [Next]_vars => NamesInv'
<1> SUFFICES ASSUME TypeInv, Links, NamesInv, [Next]_vars, NEW p \in Peers, NEW q \in Peers, p # q,
                    Here(p)', conn'[q] # 0
             PROVE  NamedSoon(p, q)'
  BY DEF NamesInv
<1>1. CASE UNCHANGED vars
  <2>1. UNCHANGED <<conn, joining, opened, names, stage, outSync, wire, syn, ctl>>
    BY <1>1 DEF vars, meshVars, loopVars, helloVars
  <2>2. NamedSoon(p, q)
    BY <2>1 DEF NamesInv, Here
  <2> QED BY <2>1, <2>2 DEF NamedSoon, Expected, OnWay, Underway, Pending, Overtaken, Seat, Current,
                           Newcomer, Asked, Told, Msg, Hello
<1>2. CASE Task
  <2>1. UNCHANGED <<conn, joining, names, stage>>
    BY <1>2, TaskOpened DEF loopVars, helloVars
  <2>2. NamedSoon(p, q) /\ Here(p) /\ conn[q] # 0
    BY <2>1 DEF NamesInv, Here
  <2>3. /\ OnWay(p, q, {Hello}) => OnWay(p, q, {Hello})'
        /\ Expected(p, q) => Expected(p, q)'
    BY <1>2, <2>2, TaskOnWay
  <2> QED BY <2>1, <2>2, <2>3 DEF NamedSoon
<1>3. ASSUME NEW r \in Peers, Client(r) PROVE NamedSoon(p, q)'
  BY <1>3, NamesClient
<1> QED BY <1>1, <1>2, <1>3 DEF Next

\* Any two clients that stream know each other's names when nothing is on its way
\* (handle_sync, the greeting of run_client): neither the answer that is given once, nor a
\* rejoin with an empty greeted_peers, nor a join that another overtakes, nor events read
\* past in wait_for_peer leave one unnamed.
THEOREM SessionHelloMutual == Spec => []HelloMutual
BY TypeInit, TypeStep, LinksInit, LinksStep, NamesInit, NamesStep, NamesGives, PTL DEF Spec

----------------------------------------------------------------------------
(* Boundaries                                                              *)

AtLeast(d) == {w \in Words : w.what = "IntervalBoundary" /\ w.index >= d}
(***************************************************************************)
(* Who is in the room counts what was announced in its hearing, or a       *)
(* boundary as high is on its way to it from a client that has a mesh.     *)
(***************************************************************************)
Coming(p, d)  == \E q \in Peers \ {p} : conn[q] # 0 /\ OnWay(p, q, AtLeast(d))
ReachSoon(p)  == index[p] >= due[p] \/ Coming(p, due[p])
ReachInv == \A p \in Peers : Here(p) => ReachSoon(p)

LEMMA ReachInit == Init => ReachInv
BY DEF Init, MeshInit, ReachInv, Here

LEMMA ReachGives == TypeInv /\ Links /\ ReachInv => BoundariesReachAll
<1> SUFFICES ASSUME TypeInv, Links, ReachInv, Silent, NEW p \in Peers, Streams(p)
             PROVE  index[p] >= due[p]
  BY DEF BoundariesReachAll
<1>1. ReachSoon(p)
  BY DEF ReachInv, Here, Streams
<1> QED BY <1>1, NothingOnWay DEF ReachSoon, Coming

\* The index of a client never falls.
LEMMA IndexGrows ==
    ASSUME TypeInv, NEW r \in Peers, Client(r), NEW p \in Peers
    PROVE  index'[p] >= index[p]
<1>0. index \in [Peers -> Int]
  BY DEF TypeInv, SessionTypes
<1>1. CASE r # p
  BY <1>0, <1>1, ClientAlone
<1>2. CASE r = p
  <2>1. CASE Quiet(p) \/ Open(p)
    BY <1>0, <2>1, QuietSame, OpenDoes
  <2>2. CASE Tick(p)
    <3> DEFINE i == Interval(beat'[p])
    <3>1. i \in Int /\ i > None
      BY <2>2, TickIs
    <3>i. i = Interval(beat'[p])
      OBVIOUS
    <3> HIDE DEF i
    <3>2. (Fires(p, i) /\ index' = [index EXCEPT ![p] = i]) \/ UNCHANGED index
      BY <2>2, <3>i, TickDoes
    <3>3. CASE Fires(p, i) /\ index' = [index EXCEPT ![p] = i]
      <4>1. index[p] < i
        BY <1>0, <3>1, <3>3, NoneInt DEF Fires
      <4>2. index'[p] = i
        BY <1>0, <3>3
      <4> QED BY <1>0, <3>1, <4>1, <4>2
    <3> QED BY <1>0, <3>2, <3>3
  <2>3. CASE Sync(p)
    <3> DEFINE q == Head(syn[p]).from
               m == Head(syn[p]).body
    <3>1. HelloDoes(p, q) \/ BoundaryDoes(p, m)
      BY <2>3, SyncDoes
    <3> HIDE DEF q, m
    <3> QED BY <1>0, <3>1 DEF HelloDoes, BoundaryDoes
  <2> QED BY <1>2, <2>1, <2>2, <2>3, ClientIs
<1> QED BY <1>1, <1>2


\* With nothing new announced in p's hearing, what was coming still comes or has come.
LEMMA ReachKept ==
    ASSUME TypeInv, Links, ReachInv, NEW r \in Peers, Client(r), ~Drops(r), NEW p \in Peers,
           ~(Opens(r) /\ r = p), Here(p)', due'[p] = due[p]
    PROVE  ReachSoon(p)'
<1>0. Here(p)
  BY HereKept
<1>1. ReachSoon(p)
  BY <1>0 DEF ReachInv
<1>2. index'[p] >= index[p] /\ index[p] \in Int /\ due[p] \in Int /\ index'[p] \in Int
  BY IndexGrows, SessionStep DEF TypeInv, SessionTypes
<1>3. CASE index[p] >= due[p]
  <2>1. index'[p] >= due'[p]
    BY <1>2, <1>3
  <2> QED BY <2>1 DEF ReachSoon
<1>4. ASSUME NEW d, d = due[p], NEW q \in Peers \ {p}, conn[q] # 0, OnWay(p, q, AtLeast(d))
      PROVE  ReachSoon(p)'
  <2>1. conn'[q] # 0
    <3>1. CASE r # q \/ Opens(r)
      BY <1>4, <3>1, ClientNet, OpensIs
    <3>2. CASE r = q /\ ~Opens(r)
      <4>1. ~Over(r)
        BY <1>4, <3>2, OverIs DEF Links, Joining
      <4> QED BY <1>4, <3>2, <4>1, ElseIs DEF netVars
    <3> QED BY <3>1, <3>2
  <2> DEFINE W == AtLeast(d)
  <2>2. OnWay(p, q, W)' \/ (Sync(p) /\ Head(syn[p]) \in Told(q, W))
    <3> HIDE DEF W
    <3>1. OnWay(p, q, W)
      BY <1>4 DEF W
    <3> QED BY <1>0, <1>4, <2>1, <3>1, ClientOnWay
  <2>3. CASE OnWay(p, q, W)'
    <3>1. Coming(p, d)'
      BY <2>1, <2>3 DEF Coming
    <3> QED BY <1>4, <3>1 DEF ReachSoon
  <2>4. CASE Sync(p) /\ Head(syn[p]) \in Told(q, W)
    <3> DEFINE m == Head(syn[p]).body
    <3>1. m \in W
      BY <2>4 DEF Told
    <3>2. m.what = "IntervalBoundary" /\ m.index >= d
      BY <3>1 DEF AtLeast
    <3>3. BoundaryDoes(p, m)
      <4> DEFINE s == Head(syn[p]).from
      <4>1. (m.what = "Hello" /\ HelloDoes(p, s)) \/ (m.what = "IntervalBoundary" /\ BoundaryDoes(p, m))
        BY <2>4, SyncDoes
      <4> HIDE DEF m, s
      <4> QED BY <3>2, <4>1
    <3> HIDE DEF m
    <3>4. index'[p] >= due'[p]
      BY <1>2, <1>4, <3>2, <3>3 DEF BoundaryDoes
    <3> QED BY <3>4 DEF ReachSoon
  <2> QED BY <2>2, <2>3, <2>4
<1> QED BY <1>1, <1>3, <1>4 DEF ReachSoon, Coming

LEMMA BoundaryAsked ==
    ASSUME NEW p \in Peers, NEW i \in Int, i > None
    PROVE  ToAll(Boundary(i)) \in Orders(Words) /\ ToAll(Boundary(i)) \in Asked(p, AtLeast(i))
<1>1. Boundary(i) \in AtLeast(i)
  BY DEF Words, Boundary, AtLeast
<1>2. AtLeast(i) \subseteq Words
  BY DEF AtLeast
<1> QED BY <1>1, <1>2 DEF Orders, ToAll, Asked

LEMMA ReachClient ==
    ASSUME TypeInv, Links, ReachInv, NEW r \in Peers, Client(r), NEW p \in Peers, Here(p)'
    PROVE  ReachSoon(p)'
<1>n. index'[p] >= None
  BY SessionStep DEF SessionTypes
<1>1. CASE Unheard({p}) \/ Unheard(Peers)
  <2>1. due'[p] = None
    BY <1>1 DEF Unheard
  <2> QED BY <1>n, <2>1 DEF ReachSoon
<1>2. CASE Opens(r)
  <2>1. CASE r = p
    BY <1>1, <1>2, <2>1, OpensIs
  <2>2. CASE r # p
    <3>1. due'[p] = due[p] /\ ~Drops(r)
      <4>1. Unheard({r}) /\ conn[r] = 0
        BY <1>2, OpensIs, OpensFlow
      <4> QED BY <2>2, <4>1, DropsIs DEF Unheard
    <3> QED BY <2>2, <3>1, ReachKept
  <2> QED BY <2>1, <2>2
<1>3. CASE Drops(r)
  BY <1>1, <1>3, DropsIs
<1>4. CASE ~Opens(r) /\ ~Drops(r) /\ UNCHANGED due
  BY <1>4, ReachKept
<1>5. CASE Over(r) /\ ~Drops(r) /\ ~Opens(r)
  BY <1>4, <1>5, OverIs
<1>6. CASE ~Opens(r) /\ ~Over(r) /\ ~Drops(r)
  <2>1. UNCHANGED conn
    BY <1>6, ElseIs DEF netVars
  <2>3. ASSUME Tick(r), NEW i, i = Interval(beat'[r]), index' = [index EXCEPT ![r] = i], conn[r] # 0,
               Queued(r, <<ToAll(Boundary(i))>>), Announced(r, i)
        PROVE  ReachSoon(p)'
    <3>1. i \in Int /\ i > None
      BY <2>3, TickIs
    <3>2. due'[p] = due[p] \/ due'[p] = i
      BY <2>3 DEF Announced
    <3>3. CASE due'[p] = due[p]
      BY <1>6, <3>3, ReachKept
    <3>4. CASE due'[p] = i /\ r = p
      <4>1. index'[p] = i
        BY <2>3, <3>4 DEF TypeInv, SessionTypes
      <4> QED BY <3>1, <3>4, <4>1 DEF ReachSoon
    <3>5. CASE due'[p] = i /\ r # p
      <4> DEFINE o == ToAll(Boundary(i))
                 W == AtLeast(i)
      <4>1. o \in Orders(Words) /\ o \in Asked(p, W) /\ Queued(r, <<o>>) /\ conn'[r] = conn[r]
        BY <2>1, <2>3, <3>1, BoundaryAsked
      <4> HIDE DEF o, W
      <4>2. OnWay(p, r, W)'
        BY <2>3, <4>1, QueuedOnWay
      <4>3. Coming(p, i)'
        BY <2>1, <2>3, <3>5, <4>2 DEF Coming, W
      <4> QED BY <3>5, <4>3 DEF ReachSoon
    <3> QED BY <3>2, <3>3, <3>4, <3>5
  <2>4. CASE Tick(r)
    <3> DEFINE i == Interval(beat'[r])
    <3>1. i = Interval(beat'[r])
      OBVIOUS
    <3> HIDE DEF i
    <3>2. \/ index' = [index EXCEPT ![r] = i] /\ conn[r] # 0 /\ Queued(r, <<ToAll(Boundary(i))>>) /\ Announced(r, i)
          \/ UNCHANGED due
      BY <2>4, <3>1, TickDoes
    <3> QED BY <1>4, <1>6, <2>3, <2>4, <3>1, <3>2
  <2>5. CASE ~Tick(r)
    <3>1. UNCHANGED due \/ Unheard(Peers)
      <4>1. CASE Quiet(r)
        BY <1>6, <4>1 DEF Quiet, Opens, Over, Drops, Connect, Find, OpenPolls, OpenFails, Stable, Leave, Stop,
               StillWaits, Rejoin, Resume, Exit, TickPastBound, Audio, Signal
      <4>2. CASE Open(r) \/ Sync(r)
        BY <4>2 DEF Open, Sync
      <4> QED BY <2>5, <4>1, <4>2, ClientIs
    <3> QED BY <1>1, <1>4, <1>6, <3>1
  <2> QED BY <2>4, <2>5
<1> QED BY <1>2, <1>3, <1>5, <1>6

LEMMA ReachStep == TypeInv /\ Links /\ ReachInv /\ [Next]_vars => ReachInv'
<1> SUFFICES ASSUME TypeInv, Links, ReachInv, [Next]_vars, NEW p \in Peers, Here(p)'
             PROVE  ReachSoon(p)'
  BY DEF ReachInv
<1>1. ASSUME UNCHANGED <<conn, joining, index, due>>,
             \A q \in Peers \ {p} : \A W : conn[q] # 0 /\ OnWay(p, q, W) => OnWay(p, q, W)'
      PROVE  ReachSoon(p)'
  <2>1. ReachSoon(p)
    BY <1>1 DEF ReachInv, Here
  <2>2. ASSUME NEW d, Coming(p, d) PROVE Coming(p, d)'
    <3>1. PICK q \in Peers \ {p} : conn[q] # 0 /\ OnWay(p, q, AtLeast(d))
      BY <2>2 DEF Coming
    <3>2. OnWay(p, q, AtLeast(d))'
      BY <1>1, <3>1
    <3> QED BY <1>1, <3>1, <3>2 DEF Coming
  <2> QED BY <1>1, <2>1, <2>2 DEF ReachSoon
<1>2. CASE UNCHANGED vars
  <2>1. UNCHANGED <<conn, joining, opened, index, due, outSync, wire, syn>>
    BY <1>2 DEF vars, meshVars, loopVars, toneVars
  <2>2. \A q \in Peers \ {p} : \A W : conn[q] # 0 /\ OnWay(p, q, W) => OnWay(p, q, W)'
    BY <2>1 DEF OnWay, Underway, Pending, Overtaken, Seat, Current, Asked, Told
  <2> QED BY <1>1, <2>1, <2>2
<1>3. CASE Task
  <2>1. UNCHANGED <<conn, joining, index, due>>
    BY <1>3, TaskOpened DEF loopVars, toneVars
  <2>2. \A q \in Peers \ {p} : \A W : conn[q] # 0 /\ OnWay(p, q, W) => OnWay(p, q, W)'
    <3>1. Here(p)
      BY <2>1 DEF Here
    <3> QED BY <1>3, <3>1, TaskOnWay
  <2> QED BY <1>1, <2>1, <2>2
<1>4. ASSUME NEW r \in Peers, Client(r) PROVE ReachSoon(p)'
  BY <1>4, ReachClient
<1> QED BY <1>2, <1>3, <1>4 DEF Next

\* A boundary reaches everybody who was in the room when it was announced, and stays reached:
\* when nothing is on its way no client counts a lower interval than one announced in its
\* hearing, however far apart the clocks are, also one that still waited for its join_ok
\* (IntervalTracker, handle_sync).
THEOREM SessionBoundariesReachAll == Spec => []BoundariesReachAll
BY TypeInit, TypeStep, LinksInit, LinksStep, ReachInit, ReachStep, ReachGives, PTL DEF Spec

=============================================================================
