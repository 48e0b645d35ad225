-------------------------- MODULE SendStreamProofs --------------------------
(***************************************************************************)
(* Theorems about SendStream for every frame size, channel capacity and    *)
(* set of intervals, and about PluginLink, the connections on which frames *)
(* and peer events travel, for every message.                              *)
(*                                                                         *)
(*   - BuffersCirculate: the ring has three buffers at first and one in    *)
(*     hand after every callback;                                          *)
(*   - TypeInv: the types, and nothing to cut while nothing streams;       *)
(*   - GapInv: sequence numbers follow each other in a thread's channel up *)
(*     to the frames lost between them, modulo the wrap;                   *)
(*   - LengthInv: every frame in flight and every packet collected is a    *)
(*     full frame of its recording, or the rest that ends it;              *)
(*   - InOrder: frames are delivered in the order they were cut, across    *)
(*     threads as far as recordings go;                                    *)
(*   - CountInv: what was cut of a recording is on the way, arrived or     *)
(*     lost;                                                               *)
(*   - LinkInv: what the reader of a connection has taken, what its buffer *)
(*     holds and what is under way are what was written, whole frames and  *)
(*     perhaps one that is torn.                                           *)
(***************************************************************************)
EXTENDS SendStream, PluginLink, FiniteSetTheorems, SequenceTheorems, WellFoundedInduction, TLAPS

(***************************************************************************)
(* encode_frame takes the smallest of the four Opus frames that holds what *)
(* is left at a boundary (codec.rs, "picks the smallest valid Opus frame   *)
(* size that fits").                                                       *)
(***************************************************************************)
OpusSizes == {Full, Full \div 2, Full \div 4, Full \div 8}

THEOREM EncodedLenSmallest ==
    ASSUME NEW n \in 0..Full
    PROVE  /\ EncodedLen(n) \in OpusSizes /\ n <= EncodedLen(n)
           /\ \A m \in OpusSizes : n <= m => EncodedLen(n) <= m
<1>1. Full \in Nat /\ Full > 0 /\ Full % 8 = 0
  BY SendAssumption
<1>2. PICK k \in Nat : Full = 8 * k
  <2>1. Full = 8 * (Full \div 8)
    BY <1>1, SMT
  <2>2. Full \div 8 \in Nat
    BY <1>1, SMT
  <2> QED BY <2>1, <2>2
<1>3. Full \div 2 = 4 * k /\ Full \div 4 = 2 * k /\ Full \div 8 = k
  BY <1>2, SMT
<1>4. OpusSizes = {8 * k, 4 * k, 2 * k, k}
  BY <1>2, <1>3 DEF OpusSizes
<1>5. EncodedLen(n) = IF n > 4 * k THEN 8 * k ELSE IF n > 2 * k THEN 4 * k
                      ELSE IF n > k THEN 2 * k ELSE k
  BY <1>2, <1>3 DEF EncodedLen
<1>6. n \in Nat /\ n <= 8 * k
  BY <1>2, <1>1
<1> HIDE DEF EncodedLen, OpusSizes
<1> QED BY <1>4, <1>5, <1>6, SMT

----------------------------------------------------------------------------

BuffersCirculate ==
    /\ recBuf = TRUE /\ spare \in BOOLEAN /\ returns \in Nat
    /\ spare \/ returns > 0

LEMMA RingKeeps ==
    ASSUME BuffersCirculate, NEW before, NEW some, NEW idx, RingProcess(before, some, idx)
    PROVE  BuffersCirculate'
<1>1. ReturnCap \in Nat /\ ReturnCap > 0
  BY SendAssumption
<1> DEFINE take == ~spare /\ returns > 0
           left == IF take THEN returns - 1 ELSE returns
           swap == before # None /\ before # idx /\ some
<1>2. spare \/ take
  BY DEF BuffersCirculate
<1>3. left \in Nat
  BY DEF BuffersCirculate
<1>4. recBuf' = TRUE /\ spare' = ~swap /\ returns' = IF swap THEN Returned(left) ELSE left
  BY <1>2 DEF RingProcess, BuffersCirculate
<1>5. Returned(left) \in Nat /\ Returned(left) > 0
  BY <1>1, <1>3 DEF Returned
<1> HIDE DEF left, take, swap
<1>6. CASE swap
  BY <1>4, <1>5, <1>6 DEF BuffersCirculate
<1>7. CASE ~swap
  BY <1>4, <1>3, <1>7 DEF BuffersCirculate
<1> QED BY <1>6, <1>7

LEMMA BuffersInductive == BuffersCirculate /\ [Next]_vars => BuffersCirculate'
<1> SUFFICES ASSUME BuffersCirculate, [Next]_vars PROVE BuffersCirculate'
  OBVIOUS
<1>1. ASSUME NEW idx, NEW n, NEW playing, Process(idx, n, playing) PROVE BuffersCirculate'
  BY <1>1, RingKeeps DEF Process
<1>2. CASE Dispatch
  BY <1>2 DEF Dispatch, ringVars, BuffersCirculate
<1>3. CASE Reset
  BY <1>3 DEF Reset, RingReset, BuffersCirculate
<1>4. CASE Initialize
  BY <1>4 DEF Initialize, BuffersCirculate
<1>5. ASSUME NEW t, Thread(t) PROVE BuffersCirculate'
  BY <1>5 DEF Thread, Connect, Write, WriteLost, Ends, ringVars, BuffersCirculate
<1>6. CASE AppStops \/ AppStarts
  BY <1>6 DEF AppStops, AppStarts, ringVars, BuffersCirculate
<1>7. CASE UNCHANGED vars
  BY <1>7 DEF vars, ringVars, BuffersCirculate
<1> QED BY <1>1, <1>2, <1>3, <1>4, <1>5, <1>6, <1>7 DEF Next

(***************************************************************************)
(* Recording is never skipped (ring.rs, "recording degrades gracefully for *)
(* one interval" when the return channel is empty): the buffer seeded by   *)
(* initialize and the return of each completed one are enough, across      *)
(* every boundary, reset and restart.                                      *)
(***************************************************************************)
THEOREM RecordingSafe == Spec => []RecordingNeverSkipped
<1>1. Init => BuffersCirculate
  BY DEF Init, BuffersCirculate
<1>2. BuffersCirculate => RecordingNeverSkipped
  BY DEF BuffersCirculate, RecordingNeverSkipped
<1> QED BY <1>1, <1>2, BuffersInductive, PTL DEF Spec

----------------------------------------------------------------------------
(* Types                                                                   *)

LEMMA EncodedIs ==
    /\ \A n \in 0..Full : EncodedLen(n) \in 1..Full
    /\ EncodedLen(Full) = Full
<1>1. Full \in Nat /\ Full > 0 /\ Full % 8 = 0
  BY SendAssumption
<1>2. Full \div 8 \in 1..Full /\ Full \div 4 \in 1..Full /\ Full \div 2 \in 1..Full /\ Full > Full \div 2
  <2>1. Full >= 8
    BY <1>1
  <2> QED BY <1>1, <2>1
<1>3. \A n \in 0..Full : EncodedLen(n) \in 1..Full
  BY <1>1, <1>2 DEF EncodedLen
<1>4. EncodedLen(Full) = Full
  BY <1>1, <1>2 DEF EncodedLen
<1> QED BY <1>3, <1>4

\* What TypeOK rests on besides: what the provers need to know of the ghosts, and that
\* there is nothing to cut while nothing streams.
Segs == [index : Intervals, captured : Nat, lost : Nat]
TypeInv ==
    /\ TypeOK
    /\ chan = [t \in Threads |-> chan[t]] /\ link = [t \in Threads |-> link[t]]
    /\ missed \in [Threads -> Nat] /\ heard \in [Threads -> SUBSET (0..SeqWrap-1)]
    /\ segs \in Seq(Segs)
    /\ streaming = None => fbuf = 0 /\ fnum = 0

LEMMA Limits ==
    /\ Full \in Nat \ {0} /\ FrameCap \in Nat \ {0} /\ SeqWrap \in Nat \ {0} /\ MaxFrames \in Nat \ {0}
    /\ MaxThreads \in Nat \ {0} /\ ReturnCap \in Nat \ {0}
    /\ \A q \in 0..SeqWrap-1 : SeqAfter(q) \in 0..SeqWrap-1
<1>1. SeqWrap \in Nat \ {0}
  BY SendAssumption
<1>2. \A q \in 0..SeqWrap-1 : SeqAfter(q) \in 0..SeqWrap-1
  BY <1>1 DEF SeqAfter
<1> QED BY <1>2, SendAssumption

\* What an offered frame does to the channels, and that they keep their type.
LEMMA OfferIs ==
    ASSUME TypeInv, NEW f \in Frames, NEW ss, Offer(f, ss)
    PROVE  /\ \A t \in Threads \ {now} : chan'[t] = chan[t]
           /\ chan'[now] \in {chan[now], Append(chan[now], f)}
           /\ chan' = [t \in Threads |-> chan'[t]]
           /\ \A t \in Threads : chan'[t] \in Seq(Frames) /\ Len(chan'[t]) <= FrameCap
           /\ skipped' \in Nat
<1>1. now \in Threads /\ chan[now] \in Seq(Frames) /\ Len(chan[now]) <= FrameCap /\ skipped \in Nat
  BY DEF TypeInv, TypeOK
<1>2. CASE Len(chan[now]) < FrameCap
  <2>1. chan' = [chan EXCEPT ![now] = Append(@, f)] /\ skipped' = 0
    BY <1>2 DEF Offer
  <2>2. Append(chan[now], f) \in Seq(Frames) /\ Len(Append(chan[now], f)) = Len(chan[now]) + 1
    BY <1>1
  <2>3. /\ chan' = [t \in Threads |-> chan'[t]] /\ chan'[now] = Append(chan[now], f)
        /\ \A t \in Threads \ {now} : chan'[t] = chan[t]
    BY <1>1, <2>1 DEF TypeInv
  <2>4. Len(chan[now]) + 1 <= FrameCap
    BY <1>1, <1>2, Limits
  <2>5. \A t \in Threads : chan'[t] \in Seq(Frames) /\ Len(chan'[t]) <= FrameCap
    BY <2>2, <2>3, <2>4 DEF TypeInv, TypeOK
  <2> QED BY <2>1, <2>3, <2>5
<1>3. CASE ~(Len(chan[now]) < FrameCap)
  BY <1>1, <1>3 DEF Offer, TypeInv, TypeOK
<1> QED BY <1>2, <1>3

LEMMA RingTypes ==
    ASSUME TypeInv, NEW before, NEW some, NEW idx \in Intervals, RingProcess(before, some, idx)
    PROVE  {current'} \subseteq Intervals /\ {recBuf', spare', recorded'} \subseteq BOOLEAN /\ returns' \in 0..ReturnCap
<1> DEFINE take == ~spare /\ returns > 0
           left == IF take THEN returns - 1 ELSE returns
<1>1. returns \in 0..ReturnCap /\ ReturnCap \in Nat /\ recBuf \in BOOLEAN /\ spare \in BOOLEAN
  BY Limits DEF TypeInv, TypeOK
<1>2. left \in 0..ReturnCap /\ Returned(left) \in 0..ReturnCap
  BY <1>1 DEF Returned
<1>3. returns' \in {left, Returned(left)}
  BY DEF RingProcess
<1> HIDE DEF left
<1>4. {recBuf', spare', recorded'} \subseteq BOOLEAN /\ current' = idx
  BY <1>1 DEF RingProcess
<1> QED BY <1>2, <1>3, <1>4

LEMMA InsertTypes ==
    ASSUME TypeInv, NEW f \in Frames, NEW packet \in Packets, Insert(f, packet)
    PROVE  pending' \in [Intervals -> [0..MaxFrames-1 -> Packets]]
<1>1. CASE f.number >= MaxFrames
  BY <1>1 DEF Insert, TypeInv, TypeOK
<1>2. CASE ~(f.number >= MaxFrames)
  <2>1. f.index \in Intervals /\ pending \in [Intervals -> [0..MaxFrames-1 -> Packets]]
    BY DEF Frames, TypeInv, TypeOK
  <2> DEFINE coll == [pending[f.index] EXCEPT ![f.number] = packet]
  <2>2. coll \in [0..MaxFrames-1 -> Packets]
    BY <2>1
  <2>3. NoFrames \in [0..MaxFrames-1 -> Packets]
    BY DEF NoFrames, Packets
  <2>4. pending' = [pending EXCEPT ![f.index] = IF f.final THEN NoFrames ELSE coll]
    BY <1>2 DEF Insert
  <2> HIDE DEF coll
  <2> QED BY <2>1, <2>2, <2>3, <2>4
<1> QED BY <1>1, <1>2

LEMMA TypeInit == Init => TypeInv
<1> SUFFICES ASSUME Init PROVE TypeInv
  OBVIOUS
<1>1. \A t \in Threads : chan[t] \in Seq(Frames) /\ Len(chan[t]) <= FrameCap
  BY Limits DEF Init
<1>2. pending \in [Intervals -> [0..MaxFrames-1 -> Packets]]
  BY DEF Init, NoFrames, Packets
<1>3. 1 \in Threads /\ 0 \in 0..SeqWrap-1 /\ 1 \in 0..ReturnCap
  BY Limits DEF Threads
<1>4. /\ wasPlaying \in SUBSET BOOLEAN /\ {current, streaming} \subseteq Intervals \cup {None}
      /\ {recBuf, spare, recorded, appUp} \subseteq BOOLEAN /\ returns \in 0..ReturnCap
      /\ {fnum, fbuf, skipped} \subseteq Nat /\ fseq \in 0..SeqWrap-1 /\ now \in Threads
  <2>1. {recBuf, spare, recorded, appUp} \subseteq BOOLEAN
    BY Zenon DEF Init
  <2>2. wasPlaying \in SUBSET BOOLEAN /\ {current, streaming} \subseteq Intervals \cup {None}
    BY DEF Init
  <2>3. returns \in 0..ReturnCap /\ {fnum, fbuf, skipped} \subseteq Nat /\ fseq \in 0..SeqWrap-1 /\ now \in Threads
    BY <1>3 DEF Init
  <2> QED BY <2>1, <2>2, <2>3
<1>5. \A t \in Threads : link[t] \in {"unborn", "down", "up", "broken", "ended"}
  BY DEF Init
<1>6. /\ chan = [t \in Threads |-> chan[t]] /\ link = [t \in Threads |-> link[t]]
      /\ missed \in [Threads -> Nat] /\ heard \in [Threads -> SUBSET (0..SeqWrap-1)]
      /\ segs \in Seq(Segs) /\ (streaming = None => fbuf = 0 /\ fnum = 0)
  BY DEF Init
<1>7. HoldsLittle
  BY Limits DEF Init, HoldsLittle
<1> QED BY <1>1, <1>2, <1>4, <1>5, <1>6, <1>7 DEF TypeInv, TypeOK

\* The frames that Process and Dispatch offer.
LEMMA FrameTypes ==
    ASSUME TypeInv, streaming # None, NEW n \in 0..Full, NEW final \in BOOLEAN, NEW total \in Nat
    PROVE  Frame(streaming, n, final, total) \in Frames
<1>1. streaming \in Intervals /\ fnum \in Nat /\ fseq \in 0..SeqWrap-1 /\ skipped \in Nat
  BY DEF TypeInv, TypeOK
<1>2. Len(segs) \in Nat
  BY DEF TypeInv
<1> QED BY <1>1, <1>2 DEF Frame, Frames

\* What Process does: the frame number of a new recording is 0, a flush offers the last
\* frame of the one before.
LEMMA ProcessIs ==
    ASSUME TypeInv, NEW idx \in Intervals, NEW n \in BlockSizes, NEW playing \in BOOLEAN,
           Process(idx, n, playing)
    PROVE  /\ Between /\ streaming' = idx /\ fbuf' \in Nat /\ fnum' \in Nat
           /\ UNCHANGED <<now, link, heard, missed, appUp, rcvVars>>
           /\ \/ /\ streaming # None /\ streaming # idx /\ fseq' = SeqAfter(fseq)
                 /\ fnum' = 0 /\ fbuf' = n
                 /\ Offer(Frame(streaming, fbuf, TRUE, TotalFrames), Append(segs, NewSeg(idx, n)))
              \/ /\ UNCHANGED <<fseq, skipped, chan>>
                 /\ segs' = Append(segs, NewSeg(idx, n)) /\ fbuf' = n /\ fnum' = 0
              \/ /\ UNCHANGED <<fseq, skipped, chan>> /\ streaming # None /\ streaming = idx
                 /\ segs' = Fed(segs, n) /\ fbuf' = fbuf + n /\ fnum' = fnum
<1> DEFINE restarted == wasPlaying = {FALSE} /\ playing
           before == IF restarted THEN None ELSE streaming
           flush  == before # None /\ before # idx
<1>1. /\ Between /\ streaming' = idx
      /\ UNCHANGED <<now, link, heard, missed, appUp, rcvVars>>
      /\ fbuf' = IF restarted \/ flush THEN n ELSE fbuf + n
      /\ fnum' = IF restarted \/ flush THEN 0 ELSE fnum
      /\ IF flush
             THEN /\ Offer(Frame(before, fbuf, TRUE, TotalFrames), Append(segs, NewSeg(idx, n)))
                  /\ fseq' = SeqAfter(fseq)
             ELSE /\ segs' = IF before = None THEN Append(segs, NewSeg(idx, n)) ELSE Fed(segs, n)
                  /\ UNCHANGED <<fseq, skipped, chan>>
  BY DEF Process
<1>2. n \in Nat /\ fbuf \in Nat /\ fnum \in Nat
  BY SendAssumption DEF TypeInv, TypeOK
<1> HIDE DEF restarted
<1>3. CASE flush
  <2>1. ~restarted /\ before = streaming
    BY <1>3
  <2> QED BY <1>1, <1>2, <1>3, <2>1
<1>4. CASE ~flush /\ before = None
  <2>1. restarted \/ streaming = None
    BY <1>4
  <2>2. fbuf' = n /\ fnum' = 0
    BY <1>1, <1>2, <1>4, <2>1 DEF TypeInv
  <2> HIDE DEF flush, before
  <2>3. segs' = Append(segs, NewSeg(idx, n)) /\ UNCHANGED <<fseq, skipped, chan>>
    BY <1>1, <1>4
  <2>4. Between /\ streaming' = idx /\ UNCHANGED <<now, link, heard, missed, appUp, rcvVars>>
    BY <1>1
  <2>5. fbuf' \in Nat /\ fnum' \in Nat
    BY <1>2, <2>2
  <2> QED BY <2>2, <2>3, <2>4, <2>5, Zenon
<1>5. CASE ~flush /\ before # None
  <2>1. ~restarted /\ before = streaming /\ streaming = idx
    BY <1>5
  <2> QED BY <1>1, <1>2, <1>5, <2>1
<1> QED BY <1>3, <1>4, <1>5

LEMMA LostKeeps ==
    ASSUME NEW ss \in Seq(Segs), NEW i
    PROVE  /\ Lost(ss, i) \in Seq(Segs) /\ DOMAIN Lost(ss, i) = DOMAIN ss /\ Len(Lost(ss, i)) = Len(ss)
           /\ \A k \in DOMAIN ss :
                /\ Lost(ss, i)[k].index = ss[k].index /\ Lost(ss, i)[k].captured = ss[k].captured
                /\ Lost(ss, i)[k].lost = IF k = i THEN ss[k].lost + 1 ELSE ss[k].lost
<1> DEFINE L == Len(ss)
<1>1. L \in Nat /\ DOMAIN ss = 1..L /\ \A k \in 1..L : ss[k] \in Segs
  OBVIOUS
<1>2. ASSUME NEW s \in Segs PROVE [s EXCEPT !.lost = @ + 1] \in Segs
  <2>1. s.lost + 1 \in Nat
    BY DEF Segs
  <2> QED BY <2>1 DEF Segs
<1>3. ASSUME NEW u \in [1..L -> Segs] PROVE u \in Seq(Segs) /\ Len(u) = L
  BY <1>1
<1> HIDE DEF L
<1>4. Lost(ss, i) \in [1..L -> Segs]
  BY <1>1, <1>2 DEF Lost
<1>5. ASSUME NEW k \in 1..L
      PROVE  /\ Lost(ss, i)[k].index = ss[k].index /\ Lost(ss, i)[k].captured = ss[k].captured
             /\ Lost(ss, i)[k].lost = IF k = i THEN ss[k].lost + 1 ELSE ss[k].lost
  BY <1>1 DEF Lost, Segs
<1> QED BY <1>1, <1>3, <1>4, <1>5 DEF L

LEMMA FedKeeps ==
    ASSUME NEW ss \in Seq(Segs), NEW n \in Nat
    PROVE  /\ Fed(ss, n) \in Seq(Segs) /\ DOMAIN Fed(ss, n) = DOMAIN ss /\ Len(Fed(ss, n)) = Len(ss)
           /\ \A k \in DOMAIN ss :
                /\ Fed(ss, n)[k].index = ss[k].index /\ Fed(ss, n)[k].lost = ss[k].lost
                /\ Fed(ss, n)[k].captured = IF k = Len(ss) THEN ss[k].captured + n ELSE ss[k].captured
<1> DEFINE L == Len(ss)
<1>1. L \in Nat /\ DOMAIN ss = 1..L /\ \A k \in 1..L : ss[k] \in Segs
  OBVIOUS
<1>2. ASSUME NEW s \in Segs PROVE [s EXCEPT !.captured = @ + n] \in Segs
  <2>1. s.captured + n \in Nat
    BY DEF Segs
  <2> QED BY <2>1 DEF Segs
<1>3. ASSUME NEW u \in [1..L -> Segs] PROVE u \in Seq(Segs) /\ Len(u) = L
  BY <1>1
<1>4. Fed(ss, n) = [ss EXCEPT ![L].captured = @ + n]
  BY DEF Fed
<1> HIDE DEF L
<1>5. Fed(ss, n) \in [1..L -> Segs]
  BY <1>1, <1>2, <1>4
<1>6. ASSUME NEW k \in 1..L
      PROVE  /\ Fed(ss, n)[k].index = ss[k].index /\ Fed(ss, n)[k].lost = ss[k].lost
             /\ Fed(ss, n)[k].captured = IF k = L THEN ss[k].captured + n ELSE ss[k].captured
  BY <1>1, <1>4 DEF Segs
<1> QED BY <1>1, <1>3, <1>5, <1>6 DEF L

LEMMA SegsKeep ==
    ASSUME segs \in Seq(Segs), NEW n \in Nat, NEW idx \in Intervals
    PROVE  /\ Fed(segs, n) \in Seq(Segs) /\ NewSeg(idx, n) \in Segs
           /\ Append(segs, NewSeg(idx, n)) \in Seq(Segs)
<1>1. NewSeg(idx, n) \in Segs
  BY DEF NewSeg, Segs
<1> QED BY <1>1, FedKeeps

\* Every step keeps the types.  One case per action.
LEMMA TypeStep == TypeInv /\ [Next]_vars => TypeInv'
<1> SUFFICES ASSUME TypeInv, [Next]_vars PROVE TypeInv'
  OBVIOUS
<1> DEFINE Audio == /\ wasPlaying \in SUBSET BOOLEAN /\ {current} \subseteq Intervals \cup {None}
                    /\ {recBuf, spare, recorded} \subseteq BOOLEAN /\ returns \in 0..ReturnCap
           Cut == /\ {streaming} \subseteq Intervals \cup {None} /\ {fnum, fbuf} \subseteq Nat /\ fseq \in 0..SeqWrap-1
                  /\ now \in Threads /\ (streaming = None => fbuf = 0 /\ fnum = 0) /\ HoldsLittle
           Chans == /\ \A t \in Threads : chan[t] \in Seq(Frames) /\ Len(chan[t]) <= FrameCap
                    /\ chan = [t \in Threads |-> chan[t]] /\ skipped \in Nat
           Links == /\ \A t \in Threads : link[t] \in {"unborn", "down", "up", "broken", "ended"}
                    /\ link = [t \in Threads |-> link[t]] /\ {appUp} \subseteq BOOLEAN
           Hears == missed \in [Threads -> Nat] /\ heard \in [Threads -> SUBSET (0..SeqWrap-1)]
           Rest  == segs \in Seq(Segs) /\ pending \in [Intervals -> [0..MaxFrames-1 -> Packets]]
<1>0. Audio /\ Cut /\ Chans /\ Links /\ Hears /\ Rest
  <2>1. Audio /\ Cut
    BY DEF TypeInv, TypeOK
  <2> QED BY <2>1 DEF TypeInv, TypeOK
<1>q. Audio' /\ Cut' /\ Chans' /\ Links' /\ Hears' /\ Rest' => TypeInv'
  BY DEF TypeInv, TypeOK
<1>u. /\ UNCHANGED <<wasPlaying, ringVars>> => Audio'
      /\ UNCHANGED <<streaming, fnum, fbuf, fseq, now>> => Cut'
      /\ UNCHANGED <<chan, skipped>> => Chans'
      /\ UNCHANGED <<link, appUp>> => Links'
      /\ UNCHANGED <<heard, missed>> => Hears'
      /\ UNCHANGED <<segs, pending>> => Rest'
  BY <1>0 DEF ringVars, HoldsLittle
<1>f. fbuf \in Nat /\ fnum \in Nat /\ fseq \in 0..SeqWrap-1 /\ now \in Threads
  BY <1>0
<1> HIDE DEF Audio, Cut, Chans, Links, Hears, Rest
<1>1. ASSUME NEW idx \in Intervals, NEW n \in BlockSizes, NEW playing \in BOOLEAN, Process(idx, n, playing)
      PROVE  TypeInv'
  <2>1. Audio'
    <3>1. recorded \in BOOLEAN /\ wasPlaying' = {playing}
      BY <1>0, <1>1 DEF Process, Audio
    <3>2. \E before, some : RingProcess(before, some, idx)
      BY <1>1, <3>1 DEF Process
    <3>3. current' = idx /\ {recBuf', spare', recorded'} \subseteq BOOLEAN /\ returns' \in 0..ReturnCap
      BY <3>2, RingTypes DEF RingProcess
    <3> QED BY <3>1, <3>3 DEF Audio
  <2>2. n \in Nat /\ fbuf < Full
    BY <1>1, ProcessIs, SendAssumption DEF Between
  <2>3. fseq' \in 0..SeqWrap-1
    BY <1>1, <1>f, ProcessIs, Limits
  <2>4. Cut'
    <3>1. HoldsLittle'
      <4>1. fbuf' = n \/ fbuf' = fbuf + n
        BY <1>1, ProcessIs
      <4>2. Full \in Nat /\ Full > 0
        BY Limits
      <4>3. fbuf' < Full + n
        BY <1>f, <2>2, <4>1, <4>2
      <4> QED BY <1>1, <4>3 DEF HoldsLittle
    <3>2. /\ streaming' = idx /\ idx \in Intervals /\ idx # None
          /\ fbuf' \in Nat /\ fnum' \in Nat /\ now' = now
      BY <1>1, ProcessIs, SendAssumption
    <3> QED BY <1>f, <2>3, <3>1, <3>2 DEF Cut
  <2>5. Chans' /\ segs' \in Seq(Segs)
    <3>0. Append(segs, NewSeg(idx, n)) \in Seq(Segs) /\ Fed(segs, n) \in Seq(Segs)
      BY <2>2, SegsKeep DEF TypeInv
    <3>1. CASE UNCHANGED <<skipped, chan>> /\ segs' \in {Append(segs, NewSeg(idx, n)), Fed(segs, n)}
      BY <1>u, <3>0, <3>1
    <3>2. CASE Offer(Frame(streaming, fbuf, TRUE, TotalFrames), Append(segs, NewSeg(idx, n))) /\ streaming # None
      <4>1. TotalFrames \in Nat /\ fbuf \in 0..Full
        BY <1>f, <2>2, Limits DEF TotalFrames
      <4>2. Frame(streaming, fbuf, TRUE, TotalFrames) \in Frames
        BY <3>2, <4>1, FrameTypes
      <4>3. Chans'
        BY <3>2, <4>2, OfferIs DEF Chans
      <4>4. segs' = Append(segs, NewSeg(idx, n)) \/ segs' = Lost(Append(segs, NewSeg(idx, n)), Len(segs))
        BY <3>2 DEF Offer, Frame
      <4> QED BY <3>0, <4>3, <4>4, LostKeeps
    <3> QED BY <1>1, <3>1, <3>2, ProcessIs
  <2>6. Links' /\ Hears' /\ UNCHANGED pending
    BY <1>1, <1>u, ProcessIs DEF rcvVars
  <2>7. Rest'
    BY <1>0, <2>5, <2>6 DEF Rest
  <2> QED BY <1>q, <2>1, <2>4, <2>5, <2>6, <2>7
<1>2. CASE Dispatch
  <2> DEFINE f == Frame(streaming, Full, FALSE, 0)
  <2>1. fbuf >= Full /\ streaming # None
    BY <1>2, <1>f, Limits DEF Dispatch, TypeInv
  <2>2. f \in Frames
    <3>1. Full \in 0..Full /\ 0 \in Nat
      BY Limits
    <3> QED BY <2>1, <3>1, FrameTypes
  <2>3. Offer(f, segs)
    BY <1>2 DEF Dispatch
  <2>4. f.seg \in Nat
    BY <2>2 DEF Frames
  <2> HIDE DEF f
  <2>5. Chans'
    BY <2>2, <2>3, OfferIs DEF Chans
  <2>6. segs' \in Seq(Segs)
    BY <2>3, <2>4, LostKeeps DEF Offer, TypeInv
  <2>7. Cut'
    <3>1. fseq' \in 0..SeqWrap-1 /\ fbuf' \in Nat /\ fnum' \in Nat /\ UNCHANGED <<streaming, now>>
      BY <1>2, <1>f, <2>1, Limits DEF Dispatch
    <3>2. HoldsLittle'
      <4>1. PICK n \in BlockSizes : fbuf < Full + n
        BY <1>0, <1>f, <2>1, Limits DEF Cut, HoldsLittle
      <4>2. n \in Nat /\ fbuf' = fbuf - Full
        BY <1>2, SendAssumption DEF Dispatch
      <4>3. fbuf' < Full + n
        BY <1>f, <4>1, <4>2, Limits
      <4> QED BY <4>3 DEF HoldsLittle
    <3> QED BY <1>0, <2>1, <3>1, <3>2 DEF Cut
  <2> QED BY <1>2, <1>0, <1>q, <1>u, <2>5, <2>6, <2>7 DEF Dispatch, rcvVars, Rest
<1>3. CASE Reset
  <2>1. Audio' /\ Cut'
    <3>1. {recBuf', spare', recorded'} \subseteq BOOLEAN
      BY <1>3, Zenon DEF Reset, RingReset
    <3>2. Audio'
      BY <1>3, <1>0, <3>1 DEF Reset, RingReset, Audio
    <3>3. Cut'
      BY <1>3, <1>f, Limits DEF Reset, Cut, HoldsLittle
    <3> QED BY <3>2, <3>3
  <2> QED BY <1>3, <1>q, <1>u, <2>1 DEF Reset, ipcVars, rcvVars
<1>4. CASE Initialize
  <2>1. {recBuf', spare', recorded'} \subseteq BOOLEAN
    BY <1>4, Zenon DEF Initialize
  <2>2. Audio'
    BY <1>4, <1>0, <2>1, Limits DEF Initialize, Audio
  <2>3. now + 1 \in Threads
    BY <1>4, <1>f, Limits DEF Initialize, Threads
  <2>4. Cut'
    BY <1>4, <1>f, <2>3, Limits DEF Initialize, Cut, HoldsLittle
  <2>5. Links'
    BY <1>4, <1>0, <2>3 DEF Initialize, Links
  <2>6. Chans'
    BY <1>4, <1>0 DEF Initialize, Chans
  <2> QED BY <1>4, <1>q, <1>u, <2>2, <2>4, <2>5, <2>6 DEF Initialize, rcvVars
<1>5. ASSUME NEW t \in Threads, Thread(t) PROVE TypeInv'
  <2>1. CASE Connect(t) \/ Ends(t)
    <3>1. Links'
      BY <1>0, <2>1 DEF Connect, Ends, Links
    <3> QED BY <2>1, <1>q, <1>u, <3>1 DEF Connect, Ends, cutVars, rcvVars
  <2>2. CASE Write(t) \/ WriteLost(t)
    <3> DEFINE f == Head(chan[t])
    <3>1. f \in Frames /\ Tail(chan[t]) \in Seq(Frames) /\ Len(Tail(chan[t])) <= FrameCap
      BY <1>0, <2>2, Limits DEF Write, WriteLost, Received, Chans
    <3>2. chan' = [chan EXCEPT ![t] = Tail(@)] /\ UNCHANGED <<wasPlaying, ringVars, cutVars, now, appUp>>
      BY <2>2 DEF Write, WriteLost, Received
    <3>3. Chans'
      BY <1>0, <3>1, <3>2 DEF Chans, cutVars
    <3>4. f.seg \in Nat /\ f.seq \in 0..SeqWrap-1 /\ f.skipped \in Nat /\ f.len \in 0..Full
      BY <3>1 DEF Frames
    <3>5. CASE Write(t)
      <4>1. EncodedLen(f.len) \in Packets /\ 0 \in Packets
        BY <3>4, EncodedIs, Limits DEF Packets
      <4>2. Insert(f, EncodedLen(f.len)) \/ Insert(f, 0)
        BY <3>5 DEF Write
      <4>3. pending' \in [Intervals -> [0..MaxFrames-1 -> Packets]]
        BY <3>1, <4>1, <4>2, InsertTypes
      <4>4. /\ heard' = [heard EXCEPT ![t] = {f.seq}] /\ missed' = [missed EXCEPT ![t] = 0]
            /\ UNCHANGED <<link, segs>>
        BY <3>5 DEF Write
      <4> HIDE DEF f
      <4>5. Hears' /\ Rest'
        BY <1>0, <3>4, <4>3, <4>4 DEF Hears, Rest
      <4> QED BY <1>q, <1>u, <3>2, <3>3, <4>4, <4>5 DEF cutVars
    <3>6. CASE WriteLost(t)
      <4>1. /\ link' \in {link, [link EXCEPT ![t] = "down"]} /\ missed' = [missed EXCEPT ![t] = @ + f.skipped + 1]
            /\ segs' = Lost(segs, f.seg) /\ UNCHANGED <<heard, rcvVars>>
        BY <3>6 DEF WriteLost
      <4> HIDE DEF f
      <4>2. Links'
        BY <1>0, <3>2, <4>1 DEF Links
      <4>3. Hears'
        BY <1>0, <3>4, <4>1 DEF Hears
      <4>4. Rest'
        BY <1>0, <3>4, <4>1, LostKeeps DEF Rest, rcvVars
      <4> QED BY <1>q, <1>u, <3>2, <3>3, <4>2, <4>3, <4>4 DEF cutVars
    <3> QED BY <2>2, <3>5, <3>6
  <2> QED BY <1>5, <2>1, <2>2 DEF Thread
<1>6. CASE AppStops
  <2>1. Links'
    <3>1. {appUp'} \subseteq BOOLEAN
      BY <1>6, Zenon DEF AppStops
    <3> QED BY <1>0, <1>6, <3>1 DEF AppStops, Links
  <2> QED BY <1>6, <1>q, <1>u, <2>1 DEF AppStops, cutVars, rcvVars
<1>7. CASE AppStarts
  <2>1. Links'
    <3>1. {appUp'} \subseteq BOOLEAN
      BY <1>7, Zenon DEF AppStarts
    <3> QED BY <1>0, <1>7, <3>1 DEF AppStarts, ipcVars, Links
  <2> QED BY <1>7, <1>q, <1>u, <2>1 DEF AppStarts, cutVars, ipcVars, rcvVars
<1>8. CASE UNCHANGED vars
  BY <1>8, <1>q, <1>u DEF vars, cutVars, ipcVars, rcvVars
<1> QED BY <1>1, <1>2, <1>3, <1>4, <1>5, <1>6, <1>7, <1>8 DEF Next

\* Every variable has its type for any capacity and callback: a sequence number is below
\* the wrap, a channel within its capacity, a packet put inside its interval, and the audio
\* thread, which never waits for the channel, holds less than a frame and one callback.
THEOREM SendTypeCorrect == Spec => []TypeOK
<1>1. TypeInv => TypeOK
  BY DEF TypeInv
<1> QED BY <1>1, TypeInit, TypeStep, PTL DEF Spec

----------------------------------------------------------------------------
(* Frame numbers modulo SeqWrap                                             *)

Multiple(x)      == \E k \in Int : x = k * SeqWrap
\* r is the frame number n + 1 after q.
Follows(q, r, n) == Multiple(r - q - 1 - n)

LEMMA MultipleSum ==
    ASSUME NEW x \in Int, NEW y \in Int, Multiple(x), Multiple(y)
    PROVE  Multiple(x + y)
<1>1. SeqWrap \in Int
  BY Limits
<1>2. PICK j \in Int : x = j * SeqWrap
  BY DEF Multiple
<1>3. PICK k \in Int : y = k * SeqWrap
  BY DEF Multiple
<1>4. j * SeqWrap + k * SeqWrap = (j + k) * SeqWrap
  BY <1>1
<1> QED BY <1>2, <1>3, <1>4 DEF Multiple

LEMMA SameRemainder ==
    ASSUME NEW x \in Int, NEW y \in Int, Multiple(x - y)
    PROVE  x % SeqWrap = y % SeqWrap
<1> DEFINE M == SeqWrap
<1>1. M \in Nat \ {0}
  BY Limits
<1>2. PICK k \in Int : x - y = k * M
  BY DEF Multiple
<1> HIDE DEF M
<1> DEFINE a == x \div M
           b == y \div M
           r == x % M
           s == y % M
<1>3. x = M * a + r /\ y = M * b + s /\ a \in Int /\ b \in Int /\ r \in 0..(M-1) /\ s \in 0..(M-1)
  BY <1>1
<1> HIDE DEF a, b, r, s
<1>4. M * a - M * b = (a - b) * M /\ k * M - (a - b) * M = (k - a + b) * M
  BY <1>1, <1>3
<1> DEFINE d == k - a + b
<1>5. r - s = d * M /\ d \in Int
  BY <1>1, <1>2, <1>3, <1>4
<1> HIDE DEF d
<1>6. d = 0
  <2>1. ASSUME d >= 1 PROVE FALSE
    <3>1. d * M >= M
      BY <1>1, <1>5, <2>1
    <3> QED BY <1>1, <1>3, <1>5, <3>1
  <2>2. ASSUME d <= -1 PROVE FALSE
    <3>1. d * M <= -M
      BY <1>1, <1>5, <2>2
    <3> QED BY <1>1, <1>3, <1>5, <3>1
  <2> QED BY <1>5, <2>1, <2>2
<1>7. r = s
  BY <1>1, <1>3, <1>5, <1>6
<1> QED BY <1>7 DEF r, s, M

LEMMA FollowsJoin ==
    ASSUME NEW q \in Int, NEW r \in Int, NEW s \in Int, NEW m \in Int, NEW n \in Int,
           Follows(q, r, m), Follows(r, s, n)
    PROVE  Follows(q, s, m + n + 1)
<1>1. (r - q - 1 - m) + (s - r - 1 - n) = s - q - 1 - (m + n + 1)
  OBVIOUS
<1> QED BY <1>1, MultipleSum DEF Follows

LEMMA FollowsNext ==
    ASSUME NEW r \in Int
    PROVE  Follows(r, SeqAfter(r), 0)
<1>1. SeqWrap \in Nat \ {0}
  BY Limits
<1>2. r + 1 = SeqWrap * ((r + 1) \div SeqWrap) + SeqAfter(r) /\ (r + 1) \div SeqWrap \in Int /\ SeqAfter(r) \in Int
  BY <1>1 DEF SeqAfter
<1> DEFINE k == (r + 1) \div SeqWrap
<1>3. SeqWrap * k = -((-k) * SeqWrap)
  BY <1>1, <1>2
<1> HIDE DEF k
<1>4. SeqAfter(r) - r - 1 - 0 = (-k) * SeqWrap /\ -k \in Int
  BY <1>1, <1>2, <1>3 DEF k
<1> QED BY <1>4 DEF Follows, Multiple

LEMMA FollowsGap ==
    ASSUME NEW q \in Int, NEW r \in Int, NEW n \in Int, Follows(q, r, n)
    PROVE  SeqGap(q, r) = n % SeqWrap
<1>1. r - q - 1 - n = (r - q - 1) - n /\ r - q - 1 \in Int
  OBVIOUS
<1> QED BY <1>1, SameRemainder DEF Follows, SeqGap

(***************************************************************************)
(* From each frame number to the next one of its thread, in the channel,   *)
(* at its head and at its end, the step is what was lost in between.       *)
(***************************************************************************)
Inside(t)  == \A i \in 1..(Len(chan[t]) - 1) :
                Follows(chan[t][i].seq, chan[t][i + 1].seq, chan[t][i + 1].skipped)
AtHead(t)  == chan[t] # <<>> =>
                \A q \in heard[t] : Follows(q, Head(chan[t]).seq, missed[t] + Head(chan[t]).skipped)
AtEnd      == IF chan[now] # <<>> THEN Follows(chan[now][Len(chan[now])].seq, fseq, skipped)
              ELSE \A q \in heard[now] : Follows(q, fseq, missed[now] + skipped)
Unborn     == \A t \in Threads : t > now => chan[t] = <<>> /\ heard[t] = {}
Stepwise   == (\A t \in Threads : Inside(t) /\ AtHead(t)) /\ AtEnd /\ Unborn
GapInv     == Stepwise /\ GapsAreLosses

LEMMA ThreadTypes ==
    ASSUME TypeInv, NEW t \in Threads
    PROVE  /\ chan[t] \in Seq(Frames) /\ Len(chan[t]) \in Nat
           /\ heard[t] \in SUBSET Int /\ missed[t] \in Nat
           /\ \A i \in 1..Len(chan[t]) : chan[t][i] \in Frames /\ chan[t][i].seq \in Int /\ chan[t][i].skipped \in Nat
<1>1. chan[t] \in Seq(Frames) /\ missed[t] \in Nat
  BY DEF TypeInv, TypeOK
<1>2. heard[t] \in SUBSET Int
  <2>1. heard[t] \in SUBSET (0..SeqWrap-1)
    BY DEF TypeInv
  <2> QED BY <2>1, Limits
<1>3. \A f \in Frames : f.seq \in Int /\ f.skipped \in Nat
  BY Limits DEF Frames
<1> QED BY <1>1, <1>2, <1>3

\* The head and the tail of a sequence.
LEMMA Popped ==
    ASSUME NEW X, NEW c \in Seq(X), c # <<>>
    PROVE  LET d == Tail(c)
               n == Len(c)
           IN  /\ n \in Nat \ {0} /\ Head(c) = c[1] /\ c[1] \in X
               /\ d \in Seq(X) /\ Len(d) = n - 1 /\ \A i \in 1..(n - 1) : d[i] = c[i + 1]
               /\ (d # <<>> => Head(d) = d[1]) /\ (d = <<>> <=> n = 1)
<1>1. Len(c) \in Nat \ {0}
  BY EmptySeq
<1>2. Tail(c) \in Seq(X) /\ Len(Tail(c)) = Len(c) - 1 /\ \A i \in 1..Len(Tail(c)) : Tail(c)[i] = c[i + 1]
  BY HeadTailProperties
<1>3. Head(c) = c[1] /\ c[1] \in X
  BY <1>1
<1>4. Tail(c) = <<>> <=> Len(c) = 1
  <2>1. Tail(c) = <<>> => Len(Tail(c)) = 0
    BY EmptySeq
  <2>2. Tail(c) # <<>> => Len(Tail(c)) # 0
    BY <1>2, EmptySeq
  <2> QED BY <1>1, <1>2, <2>1, <2>2
<1>5. Tail(c) # <<>> => Head(Tail(c)) = Tail(c)[1]
  BY <1>2
<1> QED BY <1>1, <1>2, <1>3, <1>4, <1>5

LEMMA OfferStepwise ==
    ASSUME TypeInv, Stepwise, NEW f \in Frames, f.seq = fseq, f.skipped = skipped, NEW ss, Offer(f, ss),
           fseq' = SeqAfter(fseq), UNCHANGED <<now, heard, missed>>
    PROVE  Stepwise'
<1> DEFINE c == chan[now]
           n == Len(c)
<1>1. /\ now \in Threads /\ c \in Seq(Frames) /\ n \in Nat /\ skipped \in Nat /\ fseq \in Int
      /\ fseq' \in Int /\ missed[now] \in Nat /\ heard[now] \in SUBSET Int
      /\ \A i \in 1..n : c[i].seq \in Int
  <2>1. now \in Threads /\ skipped \in Nat /\ fseq \in 0..SeqWrap-1
    BY DEF TypeInv, TypeOK
  <2>2. fseq' \in 0..SeqWrap-1
    BY <2>1, Limits
  <2>3. /\ c \in Seq(Frames) /\ n \in Nat /\ missed[now] \in Nat /\ heard[now] \in SUBSET Int
        /\ \A i \in 1..n : c[i].seq \in Int
    BY <2>1, ThreadTypes
  <2> QED BY <2>1, <2>2, <2>3, Limits
<1>2. Follows(fseq, fseq', 0)
  BY <1>1, FollowsNext
<1>3. Unborn'
  BY <1>1, OfferIs DEF Stepwise, Unborn, Threads
<1>4. ASSUME NEW t \in Threads \ {now} PROVE (Inside(t) /\ AtHead(t))'
  BY <1>4, OfferIs DEF Stepwise, Inside, AtHead
<1>5. CASE Len(chan[now]) < FrameCap
  <2>1. chan'[now] = Append(c, f) /\ skipped' = 0
    BY <1>1, <1>5 DEF Offer, TypeInv
  <2> DEFINE d == Append(c, f)
  <2>2. /\ Len(d) = n + 1 /\ d[n + 1] = f /\ \A i \in 1..n : d[i] = c[i]
    BY <1>1
  <2>3. d # <<>> /\ (n # 0 => Head(d) = c[1] /\ Head(c) = c[1]) /\ (n = 0 => Head(d) = f) /\ (n = 0 <=> c = <<>>)
    BY <1>1
  <2> HIDE DEF d, c
  <2>4. Inside(now)'
    <3>1. SUFFICES ASSUME NEW i \in 1..n PROVE Follows(d[i].seq, d[i + 1].seq, d[i + 1].skipped)
      BY <1>1, <2>1, <2>2 DEF Inside, d
    <3>2. CASE i < n
      <4>1. i \in 1..(n - 1) /\ i + 1 \in 1..n
        BY <1>1, <3>2
      <4> QED BY <1>1, <2>2, <4>1 DEF Stepwise, Inside, c
    <3>3. CASE i = n
      <4>1. c # <<>> /\ d[i] = c[n] /\ d[i + 1] = f
        BY <1>1, <2>2, <2>3, <3>3
      <4> QED BY <4>1 DEF Stepwise, AtEnd, c
    <3> QED BY <1>1, <3>2, <3>3
  <2>5. AtHead(now)'
    <3>1. CASE n = 0
      BY <1>1, <2>1, <2>3, <3>1 DEF Stepwise, AtEnd, AtHead, c, d
    <3>2. CASE n # 0
      <4>1. c # <<>> /\ Head(d) = Head(c)
        BY <2>3, <3>2
      <4> QED BY <1>1, <2>1, <4>1 DEF Stepwise, AtHead, c, d
    <3> QED BY <3>1, <3>2
  <2>6. AtEnd'
    BY <1>1, <1>2, <2>1, <2>2, <2>3 DEF AtEnd, d
  <2> QED BY <1>3, <1>4, <2>4, <2>5, <2>6 DEF Stepwise
<1>6. CASE ~(Len(chan[now]) < FrameCap)
  <2>1. UNCHANGED chan /\ skipped' = skipped + 1
    BY <1>6 DEF Offer
  <2>2. ASSUME NEW q \in Int, NEW m \in Int, Follows(q, fseq, m) PROVE Follows(q, fseq', m + 1)
    <3>1. m + 0 + 1 = m + 1
      OBVIOUS
    <3> QED BY <1>1, <1>2, <2>2, <3>1, FollowsJoin
  <2>3. AtEnd'
    <3>1. CASE c # <<>>
      <4>1. n \in 1..n
        BY <1>1, <3>1
      <4>2. Follows(c[n].seq, fseq', skipped + 1)
        BY <1>1, <2>2, <3>1, <4>1 DEF Stepwise, AtEnd
      <4> QED BY <2>1, <3>1, <4>2 DEF AtEnd
    <3>2. CASE c = <<>>
      <4>1. \A q \in heard[now] : Follows(q, fseq', (missed[now] + skipped) + 1)
        BY <1>1, <2>2, <3>2 DEF Stepwise, AtEnd
      <4>2. (missed[now] + skipped) + 1 = missed[now] + (skipped + 1)
        BY <1>1
      <4> QED BY <2>1, <3>2, <4>1, <4>2 DEF AtEnd
    <3> QED BY <3>1, <3>2
  <2>4. (Inside(now) /\ AtHead(now))'
    BY <1>1, <2>1 DEF Stepwise, Inside, AtHead
  <2> QED BY <1>3, <1>4, <2>3, <2>4 DEF Stepwise
<1> QED BY <1>5, <1>6

LEMMA PopStepwise ==
    ASSUME TypeInv, Stepwise, NEW t \in Threads, chan[t] # <<>>, chan' = [chan EXCEPT ![t] = Tail(@)],
           heard'[t] \in SUBSET Int, missed'[t] \in Nat,
           \A q \in heard'[t], s \in Int, m \in Int :
                Follows(Head(chan[t]).seq, s, m) => Follows(q, s, missed'[t] + m),
           \A u \in Threads \ {t} : heard'[u] = heard[u] /\ missed'[u] = missed[u],
           UNCHANGED <<now, fseq, skipped>>
    PROVE  Stepwise'
<1> DEFINE c == chan[t]
           n == Len(c)
           d == Tail(c)
<1>1. /\ now \in Threads /\ c \in Seq(Frames) /\ n \in Nat \ {0} /\ skipped \in Nat /\ fseq \in Int
      /\ \A i \in 1..n : c[i].seq \in Int /\ c[i].skipped \in Nat
  <2>1. now \in Threads /\ skipped \in Nat /\ fseq \in 0..SeqWrap-1
    BY DEF TypeInv, TypeOK
  <2>2. c \in Seq(Frames) /\ \A i \in 1..n : c[i].seq \in Int /\ c[i].skipped \in Nat
    BY ThreadTypes
  <2>3. n \in Nat \ {0}
    BY <2>2, EmptySeq
  <2> QED BY <2>1, <2>2, <2>3, Limits
<1>2. /\ Head(c) = c[1] /\ Len(d) = n - 1 /\ \A i \in 1..(n - 1) : d[i] = c[i + 1]
      /\ d \in Seq(Frames) /\ (d # <<>> => Head(d) = d[1]) /\ (d = <<>> <=> n = 1)
  BY <1>1, Popped
<1>3. chan'[t] = d /\ \A u \in Threads \ {t} : chan'[u] = chan[u]
  BY DEF TypeInv
<1>4. ASSUME NEW u \in Threads \ {t} PROVE (Inside(u) /\ AtHead(u))'
  BY <1>3, <1>4 DEF Stepwise, Inside, AtHead
<1>5. Unborn'
  BY <1>1, <1>3 DEF Stepwise, Unborn, Threads
<1> HIDE DEF d, c, n
<1>6. Inside(t)'
  <2>1. SUFFICES ASSUME NEW i \in 1..(n - 2) PROVE Follows(d[i].seq, d[i + 1].seq, d[i + 1].skipped)
    <3>1. Len(chan'[t]) - 1 = n - 2 /\ chan'[t] = d
      BY <1>1, <1>2, <1>3
    <3> QED BY <3>1 DEF Inside
  <2>2. i \in 1..(n - 1) /\ i + 1 \in 1..(n - 1)
    BY <1>1
  <2>3. d[i] = c[i + 1] /\ d[i + 1] = c[(i + 1) + 1]
    BY <1>2, <2>2
  <2>4. Follows(c[i + 1].seq, c[(i + 1) + 1].seq, c[(i + 1) + 1].skipped)
    BY <2>2 DEF Stepwise, Inside, c, n
  <2> QED BY <2>3, <2>4
<1>7. AtHead(t)'
  <2>1. SUFFICES ASSUME d # <<>>, NEW q \in heard'[t] PROVE Follows(q, Head(d).seq, missed'[t] + Head(d).skipped)
    BY <1>3 DEF AtHead
  <2>2. Head(d) = c[2] /\ 1 \in 1..(n - 1) /\ 1 + 1 = 2 /\ 2 \in 1..n
    BY <1>1, <1>2, <2>1
  <2>3. Follows(c[1].seq, c[2].seq, c[2].skipped)
    BY <2>2 DEF Stepwise, Inside, c, n
  <2>4. Head(chan[t]).seq = c[1].seq /\ c[2].seq \in Int /\ c[2].skipped \in Int
    <3>1. c[2].seq \in Int /\ c[2].skipped \in Int
      BY <1>1, <2>2
    <3>2. Head(c) = c[1]
      BY <1>2
    <3> QED BY <3>1, <3>2 DEF c
  <2>5. Follows(q, c[2].seq, missed'[t] + c[2].skipped)
    BY <2>1, <2>3, <2>4
  <2> QED BY <2>2, <2>5
<1>8. AtEnd'
  <2>1. CASE t # now
    BY <1>1, <1>3, <2>1 DEF Stepwise, AtEnd
  <2>2. CASE t = now
    <3>1. Follows(c[n].seq, fseq, skipped)
      BY <2>2 DEF Stepwise, AtEnd, c, n
    <3>2. CASE d = <<>>
      <4>1. c[n] = Head(c)
        BY <1>2, <3>2
      <4>2. \A q \in heard'[now] : Follows(q, fseq, missed'[now] + skipped)
        BY <1>1, <2>2, <3>1, <4>1 DEF c
      <4> QED BY <1>3, <2>2, <3>2, <4>2 DEF AtEnd
    <3>3. CASE d # <<>>
      <4>1. n - 1 \in 1..(n - 1) /\ (n - 1) + 1 = n
        BY <1>1, <1>2, <3>3
      <4>2. d[Len(d)] = c[n]
        BY <1>2, <4>1
      <4> QED BY <1>3, <2>2, <3>1, <3>3, <4>2 DEF AtEnd
    <3> QED BY <3>2, <3>3
  <2> QED BY <2>1, <2>2
<1> QED BY <1>4, <1>5, <1>6, <1>7, <1>8 DEF Stepwise

LEMMA GapInit == Init => GapInv
<1> SUFFICES ASSUME Init PROVE GapInv
  OBVIOUS
<1>1. \A t \in Threads : chan[t] = <<>> /\ heard[t] = {}
  BY DEF Init
<1>2. now \in Threads
  BY Limits DEF Init, Threads
<1>3. \A t \in Threads : Inside(t) /\ AtHead(t)
  BY <1>1 DEF Inside, AtHead
<1>4. AtEnd /\ Unborn
  BY <1>1, <1>2 DEF AtEnd, Unborn
<1>5. GapsAreLosses
  BY Limits DEF Init, GapsAreLosses
<1> QED BY <1>3, <1>4, <1>5 DEF GapInv, Stepwise

\* Every step keeps the steps between the frame numbers.
LEMMA GapStep == TypeInv /\ GapInv /\ [Next]_vars => GapInv'
<1> SUFFICES ASSUME TypeInv, GapInv, [Next]_vars PROVE GapInv'
  OBVIOUS
<1>t. now \in Threads /\ fseq \in Int
  BY Limits DEF TypeInv, TypeOK
<1>u. UNCHANGED <<chan, heard, missed, now, fseq, skipped>> => Stepwise'
  <2>1. ASSUME UNCHANGED <<chan, heard, missed, now, fseq, skipped>> PROVE Stepwise'
    BY <2>1 DEF GapInv, Stepwise, Inside, AtHead, AtEnd, Unborn
  <2> QED BY <2>1
<1>g. UNCHANGED gap => GapsAreLosses'
  BY DEF GapInv, GapsAreLosses
<1>1. ASSUME NEW idx \in Intervals, NEW n \in BlockSizes, NEW playing \in BOOLEAN, Process(idx, n, playing)
      PROVE  GapInv'
  <2>1. UNCHANGED <<now, heard, missed, gap>> /\ fbuf < Full
    BY <1>1, ProcessIs DEF rcvVars, Between
  <2>2. CASE UNCHANGED <<fseq, skipped, chan>>
    BY <1>u, <1>g, <2>1, <2>2 DEF GapInv
  <2>3. CASE /\ streaming # None /\ fseq' = SeqAfter(fseq)
             /\ Offer(Frame(streaming, fbuf, TRUE, TotalFrames), Append(segs, NewSeg(idx, n)))
    <3> DEFINE f == Frame(streaming, fbuf, TRUE, TotalFrames)
    <3>1. TotalFrames \in Nat /\ fbuf \in 0..Full
      BY <2>1, Limits DEF TotalFrames, TypeInv, TypeOK
    <3>2. f \in Frames
      BY <2>3, <3>1, FrameTypes
    <3>3. f.seq = fseq /\ f.skipped = skipped
      BY DEF Frame
    <3> HIDE DEF f
    <3>4. Stepwise'
      BY <2>1, <2>3, <3>2, <3>3, OfferStepwise DEF GapInv, f
    <3> QED BY <1>g, <2>1, <3>4 DEF GapInv
  <2> QED BY <1>1, <2>2, <2>3, ProcessIs
<1>2. CASE Dispatch
  <2> DEFINE f == Frame(streaming, Full, FALSE, 0)
  <2>1. /\ streaming # None /\ fseq' = SeqAfter(fseq) /\ Offer(f, segs)
        /\ UNCHANGED <<now, heard, missed, gap>>
    <3>1. streaming # None
      BY <1>2, Limits DEF Dispatch, TypeInv, TypeOK
    <3> QED BY <1>2, <3>1 DEF Dispatch, rcvVars
  <2>2. Full \in 0..Full /\ 0 \in Nat
    BY Limits
  <2>3. f \in Frames
    BY <2>1, <2>2, FrameTypes
  <2>4. f.seq = fseq /\ f.skipped = skipped
    BY DEF Frame
  <2> HIDE DEF f
  <2>5. Stepwise'
    BY <2>1, <2>3, <2>4, OfferStepwise DEF GapInv
  <2> QED BY <1>g, <2>1, <2>5 DEF GapInv
<1>3. CASE Reset
  BY <1>3, <1>u, <1>g DEF Reset, ipcVars, rcvVars, GapInv
<1>4. CASE Initialize
  <2>1. /\ now' = now + 1 /\ skipped' = 0 /\ UNCHANGED <<fseq, chan, heard, missed, gap>> /\ now + 1 \in Threads
    BY <1>4, <1>t, Limits DEF Initialize, rcvVars, Threads
  <2>2. chan[now + 1] = <<>> /\ heard[now + 1] = {}
    BY <1>t, <2>1 DEF GapInv, Stepwise, Unborn, Threads
  <2>3. AtEnd' /\ Unborn'
    BY <1>t, <2>1, <2>2 DEF GapInv, Stepwise, AtEnd, Unborn, Threads
  <2>4. \A t \in Threads : (Inside(t) /\ AtHead(t))'
    BY <2>1 DEF GapInv, Stepwise, Inside, AtHead
  <2> QED BY <1>g, <2>1, <2>3, <2>4 DEF GapInv, Stepwise
<1>5. ASSUME NEW t \in Threads, Write(t) PROVE GapInv'
  <2> DEFINE f == Head(chan[t])
  <2>1. /\ chan[t] # <<>> /\ chan' = [chan EXCEPT ![t] = Tail(@)]
        /\ gap' = IF heard[t] = {} THEN gap
                  ELSE <<SeqGap(CHOOSE q \in heard[t] : TRUE, f.seq), f.skipped + missed[t]>>
        /\ heard' = [heard EXCEPT ![t] = {f.seq}] /\ missed' = [missed EXCEPT ![t] = 0]
        /\ UNCHANGED <<now, fseq, skipped>>
    BY <1>5 DEF Write, Received, cutVars
  <2>2. f.seq \in Int /\ f.skipped \in Nat /\ missed[t] \in Nat /\ heard[t] \in SUBSET Int
    BY <2>1, ThreadTypes, Popped, EmptySeq
  <2> HIDE DEF f
  <2>3. heard'[t] = {f.seq} /\ missed'[t] = 0
        /\ \A u \in Threads \ {t} : heard'[u] = heard[u] /\ missed'[u] = missed[u]
    BY <2>1 DEF TypeInv
  <2>4. \A q \in heard'[t], s \in Int, m \in Int : Follows(f.seq, s, m) => Follows(q, s, missed'[t] + m)
    BY <2>3
  <2>5. Stepwise'
    <3>1. heard'[t] \in SUBSET Int /\ missed'[t] \in Nat
      BY <2>2, <2>3
    <3> QED BY <2>1, <2>3, <2>4, <3>1, PopStepwise DEF GapInv, f
  <2>6. GapsAreLosses'
    <3>1. CASE heard[t] = {}
      BY <1>g, <2>1, <3>1
    <3>2. CASE heard[t] # {}
      <4> DEFINE q == CHOOSE q \in heard[t] : TRUE
      <4>1. q \in heard[t]
        BY <3>2
      <4> HIDE DEF q
      <4>2. Follows(q, f.seq, missed[t] + f.skipped)
        BY <2>1, <4>1 DEF GapInv, Stepwise, AtHead, f
      <4>3. SeqGap(q, f.seq) = (missed[t] + f.skipped) % SeqWrap
        BY <2>2, <4>1, <4>2, FollowsGap
      <4>4. gap'[1] = SeqGap(q, f.seq) /\ gap'[2] = f.skipped + missed[t]
        BY <2>1, <3>2 DEF q
      <4>5. f.skipped + missed[t] = missed[t] + f.skipped
        BY <2>2
      <4> QED BY <4>3, <4>4, <4>5 DEF GapsAreLosses
    <3> QED BY <3>1, <3>2
  <2> QED BY <2>5, <2>6 DEF GapInv
<1>6. ASSUME NEW t \in Threads, WriteLost(t) PROVE GapInv'
  <2> DEFINE f == Head(chan[t])
  <2>1. /\ chan[t] # <<>> /\ chan' = [chan EXCEPT ![t] = Tail(@)]
        /\ missed' = [missed EXCEPT ![t] = @ + f.skipped + 1]
        /\ UNCHANGED <<heard, gap, now, fseq, skipped>>
    BY <1>6 DEF WriteLost, Received, cutVars, rcvVars
  <2>2. f.seq \in Int /\ f.skipped \in Nat /\ missed[t] \in Nat /\ heard[t] \in SUBSET Int
    BY <2>1, ThreadTypes, Popped, EmptySeq
  <2>3. \A q \in heard[t] : Follows(q, f.seq, missed[t] + f.skipped)
    BY <2>1 DEF GapInv, Stepwise, AtHead
  <2> HIDE DEF f
  <2>4. missed'[t] = missed[t] + f.skipped + 1
        /\ \A u \in Threads \ {t} : heard'[u] = heard[u] /\ missed'[u] = missed[u]
    BY <2>1 DEF TypeInv
  <2>5. ASSUME NEW q \in heard'[t], NEW s \in Int, NEW m \in Int, Follows(f.seq, s, m)
        PROVE  Follows(q, s, missed'[t] + m)
    <3>1. q \in Int /\ Follows(q, f.seq, missed[t] + f.skipped)
      BY <2>1, <2>2, <2>3
    <3>2. Follows(q, s, (missed[t] + f.skipped) + m + 1)
      <4> DEFINE k == missed[t] + f.skipped
      <4>1. k \in Int /\ Follows(q, f.seq, k)
        BY <2>2, <3>1
      <4> HIDE DEF k
      <4>2. Follows(q, s, k + m + 1)
        BY <2>2, <2>5, <3>1, <4>1, FollowsJoin
      <4> QED BY <4>2 DEF k
    <3>3. (missed[t] + f.skipped) + m + 1 = missed'[t] + m
      BY <2>2, <2>4
    <3> QED BY <3>2, <3>3
  <2>6. Stepwise'
    <3>1. heard'[t] \in SUBSET Int /\ missed'[t] \in Nat
      BY <2>1, <2>2, <2>4
    <3> QED BY <2>1, <2>4, <2>5, <3>1, PopStepwise DEF GapInv, f
  <2> QED BY <1>g, <2>1, <2>6 DEF GapInv
<1>7. ASSUME NEW t \in Threads, Connect(t) \/ Ends(t) PROVE GapInv'
  BY <1>7, <1>u, <1>g DEF Connect, Ends, cutVars, rcvVars, GapInv
<1>8. CASE AppStops \/ AppStarts
  BY <1>8, <1>u, <1>g DEF AppStops, AppStarts, cutVars, ipcVars, rcvVars, GapInv
<1>9. CASE UNCHANGED vars
  BY <1>9, <1>u, <1>g DEF vars, cutVars, ipcVars, rcvVars, GapInv
<1> QED BY <1>1, <1>2, <1>3, <1>4, <1>5, <1>6, <1>7, <1>8, <1>9 DEF Next, Thread

\* The hole between two frame numbers that one thread delivers is what was lost between
\* them, also when frame_seq wraps and whatever initialize, reset or a dead connection
\* comes in between (frame_seq in wail-plugin-send/src/lib.rs).
THEOREM GapsAlwaysLosses == Spec => []GapsAreLosses
<1>1. GapInv => GapsAreLosses
  BY DEF GapInv
<1>2. TypeInv /\ GapInv /\ [Next]_vars => (TypeInv /\ GapInv)'
  BY TypeStep, GapStep
<1> QED BY <1>1, <1>2, TypeInit, GapInit, PTL DEF Spec

----------------------------------------------------------------------------
(* Sums                                                                    *)

LEMMA RestIs ==
    ASSUME NEW M \in Nat \ {0}, NEW k \in Nat, NEW r \in 0..(M - 1)
    PROVE  (k * M + r) % M = r
<1> DEFINE x == k * M + r
           q == x \div M
           s == x % M
<1>1. k * M \in Nat /\ x \in Nat
  OBVIOUS
<1>2. x = M * q + s /\ q \in Int /\ s \in 0..(M - 1)
  <2> HIDE DEF x
  <2> QED BY <1>1
<1> HIDE DEF q, s
<1>3. M * q = q * M /\ k * M - q * M = (k - q) * M
  BY <1>2
<1> DEFINE d == k - q
<1>4. s - r = d * M /\ d \in Int
  BY <1>1, <1>2, <1>3
<1> HIDE DEF d, x
<1>5. d = 0
  <2>1. ASSUME d >= 1 PROVE FALSE
    <3>1. d * M >= M
      BY <1>4, <2>1
    <3> QED BY <1>2, <1>4, <3>1
  <2>2. ASSUME d <= -1 PROVE FALSE
    <3>1. d * M <= -M
      BY <1>4, <2>2
    <3> QED BY <1>2, <1>4, <3>1
  <2> QED BY <1>4, <2>1, <2>2
<1>6. s = r
  BY <1>2, <1>4, <1>5
<1> QED BY <1>6 DEF s, x

(***************************************************************************)
(* MapThenSumSet takes the elements in the order of CHOOSE; when all of     *)
(* them but one have one value that makes no difference.                   *)
(***************************************************************************)
AnyOf(s) == CHOOSE x \in s : TRUE
Sums(F, S, W) == F = [s \in SUBSET S |-> IF s = {} THEN 0 ELSE W[AnyOf(s)] + F[s \ {AnyOf(s)}]]
\* The sum over s when W is a except at l, where it is b.
Weighs(S, W, a, b, l) == \A x \in S : W[x] = IF x = l THEN b ELSE a
Total(s, a, b, l) == a * Cardinality(s \ {l}) + (IF l \in s THEN b ELSE 0)

LEMMA TotalEmpty ==
    ASSUME NEW a \in Int, NEW b \in Int, NEW l
    PROVE  Total({}, a, b, l) = 0
<1>1. {} \ {l} = {} /\ l \notin {} /\ Cardinality({}) = 0
  BY FS_EmptySet
<1>2. Total({}, a, b, l) = a * 0 + 0
  BY <1>1 DEF Total
<1>3. a * 0 + 0 = 0
  OBVIOUS
<1> QED BY <1>2, <1>3

LEMMA TotalNext ==
    ASSUME NEW S, IsFiniteSet(S), NEW a \in Int, NEW b \in Int, NEW l, NEW W,
           Weighs(S, W, a, b, l),
           NEW s \in SUBSET S, s # {}
    PROVE  /\ AnyOf(s) \in s /\ s \ {AnyOf(s)} \in SUBSET S
           /\ Total(s, a, b, l) = W[AnyOf(s)] + Total(s \ {AnyOf(s)}, a, b, l)
           /\ IsFiniteSet(s) /\ Cardinality(s \ {AnyOf(s)}) + 1 = Cardinality(s) /\ Cardinality(s) \in Nat
           /\ Total(s, a, b, l) \in Int
<1> DEFINE x == AnyOf(s)
           r == s \ {x}
<1>1. x \in s /\ r \in SUBSET S
  BY DEF AnyOf
<1> HIDE DEF x
<1>2. /\ IsFiniteSet(s) /\ IsFiniteSet(r) /\ IsFiniteSet(s \ {l}) /\ IsFiniteSet(r \ {l})
      /\ Cardinality(r) = Cardinality(s) - 1
  BY <1>1, FS_Subset, FS_RemoveElement
<1>3. Cardinality(s) \in Nat /\ Cardinality(s \ {l}) \in Nat /\ Cardinality(r \ {l}) \in Nat
  BY <1>2, FS_CardinalityType
<1>4. CASE x = l
  <2>1. r \ {l} = s \ {l} /\ l \in s /\ l \notin r
    BY <1>1, <1>4
  <2>2. W[x] = b
    BY <1>1, <1>4 DEF Weighs
  <2> HIDE DEF r
  <2>3. Total(s, a, b, l) = a * Cardinality(s \ {l}) + b /\ Total(r, a, b, l) = a * Cardinality(s \ {l}) + 0
    BY <2>1 DEF Total
  <2>4. a * Cardinality(s \ {l}) \in Int
    BY <1>3
  <2>5. Total(s, a, b, l) = W[x] + Total(r, a, b, l) /\ Total(s, a, b, l) \in Int
    BY <2>2, <2>3, <2>4
  <2> QED BY <1>1, <1>2, <1>3, <2>5 DEF x, r
<1>5. CASE x # l
  <2>1. r \ {l} = (s \ {l}) \ {x} /\ (l \in r <=> l \in s) /\ x \in s \ {l}
    BY <1>1, <1>5
  <2>2. W[x] = a
    BY <1>1, <1>5 DEF Weighs
  <2> HIDE DEF r
  <2>3. Cardinality(r \ {l}) = Cardinality(s \ {l}) - 1
    BY <1>2, <2>1, FS_RemoveElement
  <2> DEFINE c == Cardinality(r \ {l})
             e == IF l \in s THEN b ELSE 0
  <2>4. Total(s, a, b, l) = a * (c + 1) + e /\ Total(r, a, b, l) = a * c + e
    <3>1. Cardinality(s \ {l}) = c + 1
      BY <1>3, <2>3
    <3> QED BY <2>1, <3>1 DEF Total
  <2>5. c \in Nat /\ e \in Int
    BY <1>3
  <2> HIDE DEF c, e
  <2>6. a * (c + 1) = a * c + a /\ a * c \in Int
    BY <2>5
  <2>7. Total(s, a, b, l) = W[x] + Total(r, a, b, l) /\ Total(s, a, b, l) \in Int
    BY <2>2, <2>4, <2>5, <2>6
  <2> QED BY <1>1, <1>2, <1>3, <2>7 DEF x, r
<1> QED BY <1>4, <1>5

LEMMA SumExists ==
    ASSUME NEW S, IsFiniteSet(S), NEW a \in Int, NEW b \in Int, NEW l, NEW W,
           Weighs(S, W, a, b, l)
    PROVE  \E F : Sums(F, S, W)
<1> DEFINE F == [s \in SUBSET S |-> Total(s, a, b, l)]
<1>1. ASSUME NEW s \in SUBSET S PROVE F[s] = IF s = {} THEN 0 ELSE W[AnyOf(s)] + F[s \ {AnyOf(s)}]
  <2>1. CASE s = {}
    BY <2>1, TotalEmpty
  <2>2. CASE s # {}
    <3>1. s \ {AnyOf(s)} \in SUBSET S /\ Total(s, a, b, l) = W[AnyOf(s)] + Total(s \ {AnyOf(s)}, a, b, l)
      BY <2>2, TotalNext
    <3> QED BY <2>2, <3>1
  <2> QED BY <2>1, <2>2
<1>2. F = [s \in SUBSET S |-> F[s]]
  OBVIOUS
<1> HIDE DEF F
<1>3. Sums(F, S, W)
  BY <1>1, <1>2 DEF Sums
<1> QED BY <1>3

LEMMA NatSet ==
    ASSUME NEW S, 0 \in S, \A n \in Nat : n \in S => n + 1 \in S
    PROVE  \A n \in Nat : n \in S
<1> SUFFICES ASSUME Nat \ S # {} PROVE FALSE
  OBVIOUS
<1>1. PICK x \in Nat \ S : \A y \in Nat \ S : ~ (<<y, x>> \in OpToRel(<, Nat))
  BY NatLessThanWellFounded, WFMin
<1>2. ASSUME NEW y \in Nat \ S PROVE ~(y < x)
  BY <1>1 DEF OpToRel
<1>3. x # 0 /\ x - 1 \in Nat /\ x - 1 < x /\ (x - 1) + 1 = x
  OBVIOUS
<1> QED BY <1>2, <1>3

LEMMA SumUnique ==
    ASSUME NEW S, IsFiniteSet(S), NEW a \in Int, NEW b \in Int, NEW l, NEW W,
           Weighs(S, W, a, b, l),
           NEW F, Sums(F, S, W)
    PROVE  F[S] = Total(S, a, b, l)
<1> DEFINE T == {n \in Nat : \A s \in SUBSET S : Cardinality(s) = n => F[s] = Total(s, a, b, l)}
<1>0. \A s \in SUBSET S : IsFiniteSet(s) /\ Cardinality(s) \in Nat
  BY FS_Subset, FS_CardinalityType
<1>1. 0 \in T
  <2> SUFFICES ASSUME NEW s \in SUBSET S, Cardinality(s) = 0 PROVE F[s] = Total(s, a, b, l)
    OBVIOUS
  <2>1. s = {}
    BY <1>0, FS_EmptySet
  <2>3. Total(s, a, b, l) = 0
    BY <2>1, TotalEmpty
  <2>4. F[s] = 0
    BY <2>1 DEF Sums
  <2> QED BY <2>3, <2>4
<1>2. ASSUME NEW n \in Nat, n \in T PROVE n + 1 \in T
  <2> SUFFICES ASSUME NEW s \in SUBSET S, Cardinality(s) = n + 1 PROVE F[s] = Total(s, a, b, l)
    OBVIOUS
  <2>1. s # {}
    BY FS_EmptySet
  <2>2. /\ s \ {AnyOf(s)} \in SUBSET S /\ Cardinality(s \ {AnyOf(s)}) + 1 = Cardinality(s)
        /\ Total(s, a, b, l) = W[AnyOf(s)] + Total(s \ {AnyOf(s)}, a, b, l)
    BY <2>1, TotalNext
  <2>3. Cardinality(s \ {AnyOf(s)}) = n
    BY <1>0, <2>2
  <2>4. F[s \ {AnyOf(s)}] = Total(s \ {AnyOf(s)}, a, b, l)
    BY <1>2, <2>2, <2>3
  <2>5. F[s] = W[AnyOf(s)] + F[s \ {AnyOf(s)}]
    BY <2>1 DEF Sums
  <2> QED BY <2>2, <2>4, <2>5
<1>3. Cardinality(S) \in T
  <2> HIDE DEF T
  <2> QED BY <1>0, <1>1, <1>2, NatSet
<1> QED BY <1>3

----------------------------------------------------------------------------
(* What an assembled interval decodes to                                   *)

\* The sum over n frames, all of one length but the last, when that counts.
LEMMA TotalIs ==
    ASSUME NEW k \in Nat, NEW a \in Int, NEW b \in Int
    PROVE  /\ Total(0..(k - 1), a, b, k) = k * a
           /\ Total(0..k, a, b, k) = k * a + b
<1>1. Cardinality(0..(k - 1)) = k
  BY FS_Interval
<1>2. (0..(k - 1)) \ {k} = 0..(k - 1) /\ (0..k) \ {k} = 0..(k - 1) /\ k \notin 0..(k - 1) /\ k \in 0..k
  OBVIOUS
<1>3. Total(0..(k - 1), a, b, k) = a * k + 0
  BY <1>1, <1>2 DEF Total
<1>4. Total(0..k, a, b, k) = a * k + b
  BY <1>1, <1>2 DEF Total
<1>5. a * k = k * a /\ a * k \in Int
  OBVIOUS
<1> QED BY <1>3, <1>4, <1>5

DecodedSum(coll, n) == MapThenSumSet(LAMBDA i : Decoded(coll[i]), 0..(n - 1))

LEMMA DecodedIs ==
    ASSUME NEW coll, NEW k \in Nat, NEW n \in Nat, NEW p \in {0} \cup 1..Full,
           \A i \in 0..(n - 1) : i # k => coll[i] \in {Missing, 0, Full},
           coll[k] = p, n \in {k, k + 1}
    PROVE  DecodedSum(coll, n) = k * Full + (IF n = k THEN 0 ELSE IF p = 0 THEN Full ELSE p)
<1> DEFINE b == IF p = 0 THEN Full ELSE p
           S == 0..(n - 1)
           W == [i \in S |-> Decoded(coll[i])]
           Rec(F) == F = [s \in SUBSET S |->
                            IF s = {} THEN 0 ELSE Decoded(coll[AnyOf(s)]) + F[s \ {AnyOf(s)}]]
           F == CHOOSE G : Rec(G)
<1>1. Full \in Nat \ {0} /\ Full \in Int /\ b \in Int /\ IsFiniteSet(S)
  BY Limits, FS_Interval
<1>2. Missing # p /\ Decoded(Full) = Full /\ Decoded(Missing) = Full /\ Decoded(0) = Full /\ Decoded(p) = b
  BY <1>1 DEF Decoded, Missing
<1>3. Weighs(S, W, Full, b, k)
  <2>1. ASSUME NEW i \in 0..(n - 1) PROVE W[i] = IF i = k THEN b ELSE Full
    BY <1>2, <2>1
  <2> QED BY <2>1 DEF Weighs
<1>4. DecodedSum(coll, n) = F[S]
  BY DEF DecodedSum, MapThenSumSet, MapThenFoldSet, AnyOf
<1>5. ASSUME NEW G PROVE Sums(G, S, W) <=> Rec(G)
  <2> HIDE DEF S
  <2>1. ASSUME NEW s \in SUBSET S, s # {} PROVE W[AnyOf(s)] = Decoded(coll[AnyOf(s)])
    BY <2>1 DEF AnyOf
  <2> HIDE DEF W
  <2>2. ASSUME NEW s \in SUBSET S
        PROVE  (IF s = {} THEN 0 ELSE W[AnyOf(s)] + G[s \ {AnyOf(s)}])
                = (IF s = {} THEN 0 ELSE Decoded(coll[AnyOf(s)]) + G[s \ {AnyOf(s)}])
    BY <2>1
  <2>3. [s \in SUBSET S |-> IF s = {} THEN 0 ELSE W[AnyOf(s)] + G[s \ {AnyOf(s)}]]
        = [s \in SUBSET S |-> IF s = {} THEN 0 ELSE Decoded(coll[AnyOf(s)]) + G[s \ {AnyOf(s)}]]
    BY <2>2, Zenon
  <2> QED BY <2>3, Zenon DEF Sums
<1> HIDE DEF S, W, Rec, b
<1>6. PICK G : Sums(G, S, W)
  BY <1>1, <1>3, SumExists
<1>7. Rec(F)
  BY <1>5, <1>6
<1> HIDE DEF F
<1>8. F[S] = Total(S, Full, b, k)
  <2>1. Sums(F, S, W)
    BY <1>5, <1>7
  <2> QED BY <1>1, <1>3, <2>1, SumUnique
<1>9. /\ Total(0..(k - 1), Full, b, k) = k * Full
      /\ Total(0..k, Full, b, k) = k * Full + b
  BY <1>1, TotalIs
<1>10. k * Full \in Int
  BY <1>1
<1>11. CASE n = k
  <2>1. S = 0..(k - 1)
    BY <1>11 DEF S
  <2> QED BY <1>4, <1>8, <1>9, <1>10, <1>11, <2>1 DEF S
<1>12. CASE n = k + 1
  <2>1. (k + 1) - 1 = k /\ n # k
    BY <1>12
  <2>2. S = 0..k
    BY <1>12, <2>1 DEF S
  <2> QED BY <1>4, <1>8, <1>9, <2>1, <2>2 DEF b, S
<1> QED BY <1>11, <1>12

(***************************************************************************)
(* The frames in flight, and what each of them says of its recording: what *)
(* is not final is full, and a final frame closes the recording with the   *)
(* rest.  The recording that streams is as long as what was cut and what   *)
(* was not cut yet.                                                        *)
(***************************************************************************)
InFlight == {f \in Frames : \E t \in Threads : \E i \in 1..Len(chan[t]) : chan[t][i] = f}

Sound(g, ss) ==
    /\ g.seg \in 1..Len(ss) /\ ss[g.seg].index = g.index
    /\ ~g.final => g.len = Full
    /\ g.final =>
        /\ g.seg < Len(ss) /\ g.len < Full /\ ss[g.seg].captured = g.number * Full + g.len
        /\ g.total = IF g.len = 0 THEN g.number ELSE g.number + 1

AllSound    == \A g \in InFlight : Sound(g, segs)
PresentIs   == streaming # None =>
                /\ Len(segs) > 0 /\ segs[Len(segs)].index = streaming
                /\ segs[Len(segs)].captured = fnum * Full + fbuf
FullPackets == \A k \in Intervals, i \in 0..MaxFrames-1 : pending[k][i] \in {Missing, 0, Full}
ResultOld   == result.seg # 0 => result.seg \in 1..(Len(segs) - 1)
LengthInv   == AllSound /\ PresentIs /\ FullPackets /\ ResultOld /\ LengthKept

LEMMA FrameFields ==
    ASSUME NEW g \in Frames
    PROVE  /\ g.seg \in Nat /\ g.number \in Nat /\ g.index \in Intervals /\ g.len \in 0..Full
           /\ g.total \in Nat /\ g.final \in BOOLEAN
BY DEF Frames

LEMMA FlightIs ==
    ASSUME TypeInv
    PROVE  \A t \in Threads, i \in Nat : i \in 1..Len(chan[t]) => chan[t][i] \in InFlight
BY ThreadTypes DEF InFlight

\* Recordings are added at the end, and only the last one grows.
Grow(ss, uu) ==
    /\ Len(ss) \in Nat /\ Len(uu) \in Nat /\ Len(ss) <= Len(uu)
    /\ \A k \in 1..Len(ss) : uu[k].index = ss[k].index /\ (k < Len(ss) => uu[k].captured = ss[k].captured)

LEMMA LostGrows ==
    ASSUME NEW ss \in Seq(Segs), NEW i
    PROVE  Grow(ss, Lost(ss, i))
<1>1. Len(ss) \in Nat /\ DOMAIN ss = 1..Len(ss)
  OBVIOUS
<1>2. /\ Len(Lost(ss, i)) = Len(ss)
      /\ \A k \in 1..Len(ss) : Lost(ss, i)[k].index = ss[k].index /\ Lost(ss, i)[k].captured = ss[k].captured
  BY <1>1, LostKeeps
<1> QED BY <1>1, <1>2 DEF Grow

LEMMA AddedGrows ==
    ASSUME NEW ss \in Seq(Segs), NEW s \in Segs
    PROVE  LET uu == Append(ss, s)
           IN  /\ uu \in Seq(Segs) /\ Len(uu) = Len(ss) + 1 /\ uu[Len(ss) + 1] = s
               /\ \A k \in 1..Len(ss) : uu[k] = ss[k]
               /\ Grow(ss, uu)
<1> DEFINE uu == Append(ss, s)
<1>1. /\ uu \in Seq(Segs) /\ Len(ss) \in Nat /\ Len(uu) = Len(ss) + 1 /\ uu[Len(ss) + 1] = s
      /\ \A k \in 1..Len(ss) : uu[k] = ss[k]
  OBVIOUS
<1> HIDE DEF uu
<1>2. Grow(ss, uu)
  BY <1>1 DEF Grow
<1> QED BY <1>1, <1>2 DEF uu

LEMMA FedGrows ==
    ASSUME NEW ss \in Seq(Segs), NEW n \in Nat
    PROVE  Grow(ss, Fed(ss, n))
<1> DEFINE L == Len(ss)
<1>1. L \in Nat /\ DOMAIN ss = 1..L
  OBVIOUS
<1>2. /\ Len(Fed(ss, n)) = L
      /\ \A k \in DOMAIN ss :
            /\ Fed(ss, n)[k].index = ss[k].index
            /\ Fed(ss, n)[k].captured = IF k = L THEN ss[k].captured + n ELSE ss[k].captured
  BY FedKeeps
<1> HIDE DEF L
<1>3. ASSUME NEW k \in 1..L, k < L PROVE Fed(ss, n)[k].captured = ss[k].captured
  <2>1. k # L
    BY <1>1, <1>3
  <2> QED BY <1>1, <1>2, <2>1
<1> QED BY <1>1, <1>2, <1>3 DEF Grow, L

LEMMA SoundGrows ==
    ASSUME NEW g \in Frames, NEW ss, NEW uu, Sound(g, ss), Grow(ss, uu)
    PROVE  Sound(g, uu)
<1>1. g.seg \in 1..Len(ss) /\ g.seg \in 1..Len(uu) /\ uu[g.seg].index = g.index
  BY DEF Sound, Grow
<1>2. CASE g.final
  BY <1>1, <1>2, FrameFields DEF Sound, Grow
<1>3. CASE ~g.final
  BY <1>1, <1>3 DEF Sound
<1> QED BY <1>2, <1>3

LEMMA LengthStays ==
    ASSUME LengthInv, Grow(segs, segs'), UNCHANGED result
    PROVE  ResultOld' /\ LengthKept'
<1>1. CASE result.seg = 0
  BY <1>1 DEF ResultOld, LengthKept
<1>2. CASE result.seg # 0
  <2>1. result.seg \in 1..(Len(segs) - 1) /\ segs'[result.seg].captured = segs[result.seg].captured
    BY <1>2 DEF LengthInv, ResultOld, Grow
  <2>2. result.seg \in 1..(Len(segs') - 1)
    BY <2>1 DEF Grow
  <2> QED BY <1>2, <2>1, <2>2 DEF LengthInv, LengthKept, ResultOld
<1> QED BY <1>1, <1>2

\* Offering and receiving bring nothing into flight but the offered frame.
LEMMA OfferFlight ==
    ASSUME TypeInv, NEW f \in Frames, NEW ss, Offer(f, ss)
    PROVE  \/ InFlight' = InFlight \cup {f} /\ segs' = ss
           \/ UNCHANGED chan /\ InFlight' = InFlight /\ segs' = Lost(ss, f.seg)
<1>1. now \in Threads /\ chan[now] \in Seq(Frames)
  BY DEF TypeInv, TypeOK
<1>2. CASE Len(chan[now]) < FrameCap
  <2> DEFINE c == chan[now]
             n == Len(c)
             d == Append(c, f)
  <2>1. chan'[now] = d /\ segs' = ss /\ \A t \in Threads \ {now} : chan'[t] = chan[t]
    BY <1>1, <1>2 DEF Offer, TypeInv
  <2>2. n \in Nat /\ Len(d) = n + 1 /\ d[n + 1] = f /\ \A i \in 1..n : d[i] = c[i]
    BY <1>1
  <2> HIDE DEF d, c
  <2>3. ASSUME NEW g \in Frames
        PROVE  (\E i \in 1..(n + 1) : d[i] = g) <=> (g = f \/ \E i \in 1..n : c[i] = g)
    <3>1. \A i \in 1..(n + 1) : i \in 1..n \/ i = n + 1
      BY <2>2
    <3>2. n + 1 \in 1..(n + 1) /\ \A i \in 1..n : i \in 1..(n + 1)
      BY <2>2
    <3> QED BY <2>2, <3>1, <3>2
  <2>4. ASSUME NEW g \in Frames PROVE g \in InFlight' <=> g \in InFlight \cup {f}
    <3>1. (\E i \in 1..Len(chan'[now]) : chan'[now][i] = g)
            <=> (g = f \/ \E i \in 1..Len(chan[now]) : chan[now][i] = g)
      BY <2>1, <2>2, <2>3 DEF c
    <3>2. \A t \in Threads \ {now} : (\E i \in 1..Len(chan'[t]) : chan'[t][i] = g)
                                      <=> (\E i \in 1..Len(chan[t]) : chan[t][i] = g)
      BY <2>1
    <3> QED BY <1>1, <3>1, <3>2 DEF InFlight
  <2>5. InFlight \subseteq Frames /\ InFlight' \subseteq Frames
    BY DEF InFlight
  <2>6. InFlight' = InFlight \cup {f}
    BY <2>4, <2>5
  <2> QED BY <2>1, <2>6
<1>3. CASE ~(Len(chan[now]) < FrameCap)
  BY <1>3 DEF Offer, InFlight
<1> QED BY <1>2, <1>3

LEMMA PopFlight ==
    ASSUME TypeInv, NEW t \in Threads, chan[t] # <<>>, chan' = [chan EXCEPT ![t] = Tail(@)]
    PROVE  /\ Head(chan[t]) \in InFlight /\ InFlight' \subseteq InFlight
           /\ InFlight \subseteq InFlight' \cup {Head(chan[t])}
<1> DEFINE c == chan[t]
           n == Len(c)
           d == Tail(c)
<1>1. c \in Seq(Frames)
  BY ThreadTypes
<1>2. /\ n \in Nat \ {0} /\ Head(c) = c[1] /\ c[1] \in Frames
      /\ Len(d) = n - 1 /\ \A i \in 1..(n - 1) : d[i] = c[i + 1]
  BY <1>1, Popped
<1>3. chan'[t] = d /\ \A u \in Threads \ {t} : chan'[u] = chan[u]
  BY DEF TypeInv
<1> HIDE DEF d, c, n
<1>4. Head(c) \in InFlight
  <2>1. 1 \in 1..n
    BY <1>2
  <2> QED BY <1>2, <2>1 DEF InFlight, c, n
<1>5. ASSUME NEW g \in Frames
      PROVE  /\ (\E i \in 1..Len(chan'[t]) : chan'[t][i] = g) => \E i \in 1..Len(chan[t]) : chan[t][i] = g
             /\ (\E i \in 1..Len(chan[t]) : chan[t][i] = g)
                    => g = Head(c) \/ \E i \in 1..Len(chan'[t]) : chan'[t][i] = g
  <2>1. \A i \in 1..(n - 1) : i + 1 \in 1..n /\ d[i] = c[i + 1]
    BY <1>2
  <2>2. \A i \in 1..n : i = 1 \/ (i - 1 \in 1..(n - 1) /\ d[i - 1] = c[i])
    <3>1. ASSUME NEW i \in 1..n, i # 1 PROVE i - 1 \in 1..(n - 1) /\ d[i - 1] = c[i]
      <4>1. i - 1 \in 1..(n - 1) /\ (i - 1) + 1 = i
        BY <1>2, <3>1
      <4> QED BY <1>2, <4>1
    <3> QED BY <3>1
  <2>3. Len(chan'[t]) = n - 1 /\ chan'[t] = d /\ Len(chan[t]) = n /\ chan[t] = c
    BY <1>2, <1>3 DEF n, c
  <2>4. (\E i \in 1..(n - 1) : d[i] = g) => \E i \in 1..n : c[i] = g
    BY <2>1
  <2>5. (\E i \in 1..n : c[i] = g) => g = Head(c) \/ \E i \in 1..(n - 1) : d[i] = g
    BY <1>2, <2>2
  <2> QED BY <2>3, <2>4, <2>5
<1>6. ASSUME NEW g \in Frames PROVE (g \in InFlight' => g \in InFlight) /\ (g \in InFlight => g \in InFlight' \cup {Head(c)})
  <2>1. g \in InFlight' => g \in InFlight
    <3>1. SUFFICES ASSUME NEW u \in Threads, \E i \in 1..Len(chan'[u]) : chan'[u][i] = g
                   PROVE  \E i \in 1..Len(chan[u]) : chan[u][i] = g
      BY DEF InFlight
    <3> QED BY <1>3, <1>5, <3>1
  <2>2. g \in InFlight => g \in InFlight' \cup {Head(c)}
    <3>1. ASSUME NEW u \in Threads, \E i \in 1..Len(chan[u]) : chan[u][i] = g, g # Head(c)
          PROVE  \E i \in 1..Len(chan'[u]) : chan'[u][i] = g
      <4>0. (\E i \in 1..Len(chan[t]) : chan[t][i] = g) => g = Head(c) \/ \E i \in 1..Len(chan'[t]) : chan'[t][i] = g
        BY <1>5, Zenon
      <4>1. CASE u = t
        BY <3>1, <4>0, <4>1, Zenon
      <4>2. CASE u # t
        BY <1>3, <3>1, <4>2
      <4> QED BY <4>1, <4>2
    <3> QED BY <3>1 DEF InFlight
  <2> QED BY <2>1, <2>2
<1> QED BY <1>4, <1>6 DEF InFlight, c

\* A frame that arrives: what stays in the assembler is full, and the interval that a
\* final frame completes decodes to what was captured.
LEMMA InsertLength ==
    ASSUME TypeInv, LengthInv, NEW f \in InFlight, NEW p \in {0, EncodedLen(f.len)}, Insert(f, p),
           UNCHANGED segs
    PROVE  FullPackets' /\ ResultOld' /\ LengthKept'
<1>1. f \in Frames /\ Sound(f, segs)
  BY DEF InFlight, LengthInv, AllSound
<1>2. /\ f.seg \in Nat /\ f.number \in Nat /\ f.index \in Intervals /\ f.len \in 0..Full
      /\ f.total \in Nat /\ f.final \in BOOLEAN
  BY <1>1, FrameFields
<1>3. Full \in Nat \ {0} /\ EncodedLen(f.len) \in 1..Full /\ EncodedLen(Full) = Full /\ MaxFrames \in Nat
  BY <1>2, EncodedIs, Limits
<1>4. CASE f.number >= MaxFrames
  <2>1. UNCHANGED <<pending, result>>
    BY <1>4 DEF Insert
  <2> QED BY <2>1 DEF LengthInv, FullPackets, ResultOld, LengthKept
<1>5. CASE ~(f.number >= MaxFrames)
  <2> DEFINE coll == [pending[f.index] EXCEPT ![f.number] = p]
  <2>1. /\ pending' = [pending EXCEPT ![f.index] = IF f.final THEN NoFrames ELSE coll]
        /\ result' = IF f.final THEN Assembled(f, coll) ELSE result
    BY <1>5 DEF Insert
  <2>2. f.number \in 0..MaxFrames-1
    BY <1>2, <1>3, <1>5
  <2>3. pending \in [Intervals -> [0..MaxFrames-1 -> Packets]]
    BY DEF TypeInv, TypeOK
  <2>4. coll[f.number] = p /\ \A i \in 0..MaxFrames-1 : i # f.number => coll[i] \in {Missing, 0, Full}
    BY <1>2, <2>2, <2>3 DEF LengthInv, FullPackets
  <2> HIDE DEF coll
  <2>5. FullPackets'
    <3>1. ASSUME NEW k \in Intervals, NEW i \in 0..MaxFrames-1, k # f.index
          PROVE  pending'[k][i] \in {Missing, 0, Full}
      BY <2>1, <2>3, <3>1 DEF LengthInv, FullPackets
    <3>2. ASSUME NEW i \in 0..MaxFrames-1 PROVE pending'[f.index][i] \in {Missing, 0, Full}
      <4>1. CASE f.final
        BY <1>2, <2>1, <2>3, <4>1 DEF NoFrames
      <4>2. CASE ~f.final
        <5>1. p \in {0, Full}
          BY <1>1, <1>3, <4>2 DEF Sound
        <5> QED BY <1>2, <2>1, <2>3, <2>4, <4>2, <5>1
      <4> QED BY <4>1, <4>2
    <3> QED BY <3>1, <3>2 DEF FullPackets
  <2>6. CASE ~f.final
    BY <2>1, <2>5, <2>6 DEF LengthInv, ResultOld, LengthKept
  <2>7. CASE f.final
    <3> DEFINE k == f.number
               n == f.total
               s == segs[f.seg]
    <3>1. f.seg \in 1..(Len(segs) - 1) /\ f.len < Full /\ s.captured = k * Full + f.len
          /\ n = IF f.len = 0 THEN k ELSE k + 1
      BY <1>1, <1>2, <2>7 DEF Sound
    <3>2. result'.seg = f.seg /\ result'.decoded = DecodedSum(coll, n)
      BY <2>1, <2>7 DEF Assembled, DecodedSum
    <3>3. k \in Nat /\ n \in Nat /\ n \in {k, k + 1} /\ p \in {0} \cup 1..Full
          /\ \A i \in 0..(n - 1) : i # k => i \in 0..MaxFrames-1
      BY <1>2, <1>3, <2>2, <3>1
    <3>4. \A i \in 0..(n - 1) : i # k => coll[i] \in {Missing, 0, Full}
      BY <2>4, <3>3
    <3>5. result'.decoded = k * Full + (IF n = k THEN 0 ELSE IF p = 0 THEN Full ELSE p)
      BY <2>4, <3>2, <3>3, <3>4, DecodedIs
    <3> HIDE DEF k, n, s
    <3>6. s.captured % Full = f.len /\ s.captured - f.len = k * Full
      <4>1. f.len \in 0..(Full - 1)
        BY <1>2, <1>3, <3>1
      <4>2. (k * Full + f.len) % Full = f.len
        BY <1>3, <3>3, <4>1, RestIs
      <4>3. k * Full \in Int
        BY <1>3, <3>3
      <4> QED BY <1>2, <3>1, <4>2, <4>3
    <3>7. result'.decoded \in IF f.len = 0 THEN {k * Full}
                              ELSE {k * Full + EncodedLen(f.len), k * Full + Full}
      <4>0. k * Full \in Int
        BY <1>3, <3>3
      <4>1. CASE f.len = 0
        <5>1. n = k
          BY <3>1, <4>1
        <5> QED BY <3>5, <4>0, <4>1, <5>1
      <4>2. CASE f.len # 0
        <5>1. n # k
          BY <3>1, <3>3, <4>2
        <5>2. result'.decoded = k * Full + (IF p = 0 THEN Full ELSE p)
          BY <3>5, <5>1
        <5> QED BY <1>3, <4>0, <4>2, <5>2
      <4> QED BY <4>1, <4>2
    <3>8. LengthKept'
      BY <3>2, <3>6, <3>7 DEF LengthKept, s
    <3>9. ResultOld'
      BY <3>1, <3>2 DEF ResultOld
    <3> QED BY <2>5, <3>8, <3>9
  <2> QED BY <2>6, <2>7
<1> QED BY <1>4, <1>5

LEMMA LengthInit == Init => LengthInv
<1> SUFFICES ASSUME Init PROVE LengthInv
  OBVIOUS
<1>1. \A t \in Threads : chan[t] = <<>> /\ Len(chan[t]) = 0
  BY DEF Init
<1>2. AllSound
  BY <1>1 DEF AllSound, InFlight
<1>3. PresentIs /\ ResultOld /\ LengthKept
  BY DEF Init, PresentIs, ResultOld, LengthKept
<1>4. FullPackets
  BY DEF Init, FullPackets, NoFrames
<1> QED BY <1>2, <1>3, <1>4 DEF LengthInv

\* Every step keeps the frames sound.
LEMMA LengthStep == TypeInv /\ LengthInv /\ [Next]_vars => LengthInv'
<1> SUFFICES ASSUME TypeInv, LengthInv, [Next]_vars PROVE LengthInv'
  OBVIOUS
<1>t. fnum \in Nat /\ fbuf \in Nat /\ segs \in Seq(Segs) /\ Len(segs) \in Nat /\ Full \in Nat \ {0}
  BY Limits DEF TypeInv, TypeOK
<1>s. \A g \in InFlight : g \in Frames /\ Sound(g, segs)
  BY DEF LengthInv, AllSound, InFlight
<1>i. UNCHANGED chan => InFlight' = InFlight
  BY DEF InFlight
<1>f. UNCHANGED pending => FullPackets'
  BY DEF LengthInv, FullPackets
<1>g. ASSUME Grow(segs, segs'), UNCHANGED <<pending, result>>, \A g \in InFlight' : g \in InFlight \/ Sound(g, segs'),
             PresentIs'
      PROVE  LengthInv'
  <2>1. \A g \in InFlight' : Sound(g, segs')
    BY <1>g, <1>s, SoundGrows
  <2> QED BY <1>f, <1>g, <2>1, LengthStays DEF LengthInv, AllSound
<1>u. UNCHANGED segs => Grow(segs, segs')
  BY <1>t DEF Grow
<1>1. ASSUME NEW idx \in Intervals, NEW n \in BlockSizes, NEW playing \in BOOLEAN, Process(idx, n, playing)
      PROVE  LengthInv'
  <2> DEFINE L == Len(segs)
             s == NewSeg(idx, n)
             uu == Append(segs, s)
  <2>1. n \in Nat /\ s \in Segs /\ s.index = idx /\ s.captured = n
    BY <1>t, SendAssumption, SegsKeep DEF NewSeg
  <2>2. /\ uu \in Seq(Segs) /\ Len(uu) = L + 1 /\ uu[L + 1] = s /\ \A k \in 1..L : uu[k] = segs[k]
        /\ Grow(segs, uu)
    BY <1>t, <2>1, AddedGrows
  <2>3. Between /\ streaming' = idx /\ UNCHANGED <<pending, result>>
    BY <1>1, ProcessIs DEF rcvVars
  <2> HIDE DEF s, uu
  <2>4. ASSUME Grow(segs, segs'), Len(segs') = L + 1, segs'[L + 1].index = idx, segs'[L + 1].captured = n,
               fnum' = 0, fbuf' = n
        PROVE  PresentIs'
    <3>1. 0 * Full + n = n
      BY <1>t, <2>1
    <3> QED BY <1>t, <2>3, <2>4, <3>1 DEF PresentIs
  <2>5. CASE /\ UNCHANGED <<fseq, skipped, chan>> /\ segs' = uu /\ fbuf' = n /\ fnum' = 0
    BY <1>g, <1>i, <2>1, <2>2, <2>3, <2>4, <2>5
  <2>6. CASE /\ UNCHANGED <<fseq, skipped, chan>> /\ streaming # None /\ streaming = idx
             /\ segs' = Fed(segs, n) /\ fbuf' = fbuf + n /\ fnum' = fnum
    <3>1. Grow(segs, segs')
      BY <1>t, <2>1, <2>6, FedGrows
    <3>2. L > 0 /\ segs[L].index = idx /\ segs[L].captured = fnum * Full + fbuf
      BY <2>6 DEF LengthInv, PresentIs
    <3>3. L \in DOMAIN segs
      BY <1>t, <3>2
    <3>4. Len(segs') = L /\ segs'[L].index = idx /\ segs'[L].captured = segs[L].captured + n
      BY <1>t, <2>1, <2>6, <3>2, <3>3, FedKeeps
    <3>5. (fnum * Full + fbuf) + n = fnum * Full + (fbuf + n)
      BY <1>t, <2>1
    <3>6. PresentIs'
      BY <2>3, <2>6, <3>2, <3>4, <3>5 DEF PresentIs
    <3> QED BY <1>g, <1>i, <2>3, <2>6, <3>1, <3>6
  <2>7. CASE /\ streaming # None /\ streaming # idx /\ fnum' = 0 /\ fbuf' = n
             /\ Offer(Frame(streaming, fbuf, TRUE, TotalFrames), uu)
    <3> DEFINE f == Frame(streaming, fbuf, TRUE, TotalFrames)
    <3>1. TotalFrames \in Nat /\ fbuf \in 0..Full /\ fbuf < Full
      BY <1>t, <2>3 DEF TotalFrames, Between
    <3>2. f \in Frames /\ f.seg = L /\ f.index = streaming /\ f.number = fnum /\ f.len = fbuf /\ f.final
          /\ f.total = TotalFrames
      BY <2>7, <3>1, FrameTypes DEF Frame
    <3> HIDE DEF f
    <3>3. L > 0 /\ segs[L].index = streaming /\ segs[L].captured = fnum * Full + fbuf
      BY <2>7 DEF LengthInv, PresentIs
    <3>4. Sound(f, uu)
      <4>1. L \in 1..Len(uu) /\ L < Len(uu) /\ uu[L] = segs[L]
        BY <1>t, <2>2, <3>3
      <4> QED BY <3>1, <3>2, <3>3, <4>1 DEF Sound, TotalFrames
    <3>5. (InFlight' = InFlight \cup {f} /\ segs' = uu) \/ (InFlight' = InFlight /\ segs' = Lost(uu, L))
      BY <2>7, <3>2, OfferFlight DEF f
    <3>6. CASE InFlight' = InFlight \cup {f} /\ segs' = uu
      BY <1>g, <2>1, <2>2, <2>3, <2>4, <2>7, <3>4, <3>6
    <3>7. CASE InFlight' = InFlight /\ segs' = Lost(uu, L)
      <4>1. Len(segs') = L + 1 /\ \A k \in 1..(L + 1) : segs'[k].index = uu[k].index /\ segs'[k].captured = uu[k].captured
        <5>1. DOMAIN uu = 1..(L + 1)
          BY <2>2
        <5> QED BY <2>2, <3>7, <5>1, LostKeeps
      <4>2. Grow(segs, segs') /\ L + 1 \in 1..(L + 1)
        BY <1>t, <2>2, <4>1 DEF Grow
      <4> QED BY <1>g, <2>1, <2>2, <2>3, <2>4, <2>7, <3>7, <4>1, <4>2
    <3> QED BY <3>5, <3>6, <3>7
  <2> QED BY <1>1, <2>5, <2>6, <2>7, ProcessIs DEF uu, s
<1>2. CASE Dispatch
  <2> DEFINE f == Frame(streaming, Full, FALSE, 0)
             L == Len(segs)
  <2>1. streaming # None /\ fbuf >= Full
    BY <1>2, <1>t DEF Dispatch, TypeInv
  <2>2. f \in Frames /\ f.seg = L /\ f.index = streaming /\ f.number = fnum /\ f.len = Full /\ ~f.final
    <3>1. Full \in 0..Full /\ 0 \in Nat
      BY <1>t
    <3> QED BY <2>1, <3>1, FrameTypes DEF Frame
  <2>3. Offer(f, segs) /\ fbuf' = fbuf - Full /\ fnum' = fnum + 1 /\ UNCHANGED <<streaming, pending, result>>
    BY <1>2 DEF Dispatch, rcvVars
  <2> HIDE DEF f
  <2>4. L > 0 /\ L \in 1..L /\ segs[L].index = streaming /\ segs[L].captured = fnum * Full + fbuf
    BY <1>t, <2>1 DEF LengthInv, PresentIs
  <2>5. Sound(f, segs)
    BY <2>2, <2>4 DEF Sound
  <2>6. (InFlight' = InFlight \cup {f} /\ segs' = segs) \/ (InFlight' = InFlight /\ segs' = Lost(segs, L))
    BY <2>2, <2>3, OfferFlight
  <2>7. Grow(segs, segs') /\ Len(segs') = L /\ segs'[L].index = segs[L].index /\ segs'[L].captured = segs[L].captured
    <3>1. L \in DOMAIN segs
      BY <1>t, <2>4
    <3> QED BY <1>t, <1>u, <2>6, <3>1, LostGrows, LostKeeps
  <2>8. PresentIs'
    <3>1. fnum * Full + fbuf = (fnum + 1) * Full + (fbuf - Full)
      BY <1>t
    <3> QED BY <2>3, <2>4, <2>7, <3>1 DEF PresentIs
  <2>9. Sound(f, segs')
    BY <2>2, <2>5, <2>7, SoundGrows
  <2> QED BY <1>g, <2>3, <2>6, <2>7, <2>8, <2>9
<1>3. CASE Reset
  BY <1>3, <1>g, <1>i, <1>u DEF Reset, ipcVars, rcvVars, PresentIs
<1>4. CASE Initialize
  BY <1>4, <1>g, <1>i, <1>u DEF Initialize, rcvVars, PresentIs
<1>5. ASSUME NEW t \in Threads, Write(t) PROVE LengthInv'
  <2> DEFINE f == Head(chan[t])
  <2>1. /\ chan[t] # <<>> /\ chan' = [chan EXCEPT ![t] = Tail(@)]
        /\ Insert(f, EncodedLen(f.len)) \/ Insert(f, 0)
        /\ UNCHANGED <<segs, streaming, fnum, fbuf>>
    BY <1>5 DEF Write, Received, cutVars
  <2>2. f \in InFlight /\ InFlight' \subseteq InFlight
    BY <2>1, PopFlight
  <2> HIDE DEF f
  <2>3. FullPackets' /\ ResultOld' /\ LengthKept'
    BY <2>1, <2>2, InsertLength
  <2>4. AllSound' /\ PresentIs'
    BY <2>1, <2>2 DEF LengthInv, AllSound, PresentIs
  <2> QED BY <2>3, <2>4 DEF LengthInv
<1>6. ASSUME NEW t \in Threads, WriteLost(t) PROVE LengthInv'
  <2> DEFINE f == Head(chan[t])
             L == Len(segs)
  <2>1. /\ chan[t] # <<>> /\ chan' = [chan EXCEPT ![t] = Tail(@)]
        /\ segs' = Lost(segs, f.seg) /\ UNCHANGED <<pending, result, streaming, fnum, fbuf>>
    BY <1>6 DEF WriteLost, Received, cutVars, rcvVars
  <2>2. InFlight' \subseteq InFlight
    BY <2>1, PopFlight
  <2> HIDE DEF f
  <2>3. Grow(segs, segs') /\ Len(segs') = L
    BY <1>t, <2>1, LostGrows, LostKeeps
  <2>4. PresentIs'
    <3>1. SUFFICES ASSUME streaming # None PROVE PresentIs'
      BY <2>1 DEF PresentIs
    <3>2. L > 0 /\ L \in DOMAIN segs
      BY <1>t, <3>1 DEF LengthInv, PresentIs
    <3>3. segs'[L].index = segs[L].index /\ segs'[L].captured = segs[L].captured
      BY <1>t, <2>1, <3>2, LostKeeps
    <3> QED BY <2>1, <2>3, <3>1, <3>3 DEF LengthInv, PresentIs
  <2> QED BY <1>g, <2>1, <2>2, <2>3, <2>4
<1>7. ASSUME NEW t \in Threads, Connect(t) \/ Ends(t) PROVE LengthInv'
  BY <1>7, <1>g, <1>i, <1>u DEF Connect, Ends, cutVars, rcvVars, LengthInv, PresentIs
<1>8. CASE AppStops \/ AppStarts
  BY <1>8, <1>g, <1>i, <1>u DEF AppStops, AppStarts, cutVars, ipcVars, rcvVars, LengthInv, PresentIs
<1>9. CASE UNCHANGED vars
  BY <1>9, <1>g, <1>i, <1>u DEF vars, cutVars, ipcVars, rcvVars, LengthInv, PresentIs
<1> QED BY <1>1, <1>2, <1>3, <1>4, <1>5, <1>6, <1>7, <1>8, <1>9 DEF Next, Thread

\* An assembled interval decodes to what its callbacks captured, for every frame size and
\* whatever was lost, concealed, restarted or sent by an old thread: process and
\* ipc_thread_send in wail-plugin-send/src/lib.rs, insert and decode_interval after them.
THEOREM LengthAlwaysKept == Spec => []LengthKept
<1>1. LengthInv => LengthKept
  BY DEF LengthInv
<1>2. TypeInv /\ LengthInv /\ [Next]_vars => (TypeInv /\ LengthInv)'
  BY TypeStep, LengthStep
<1> QED BY <1>1, <1>2, TypeInit, LengthInit, PTL DEF Spec

----------------------------------------------------------------------------
(* The order of the frames in flight                                       *)

\* x was cut before y: in an earlier recording, or earlier in the same one, which only its
\* last frame ends.
Earlier(x, y) == x.seg < y.seg \/ (x.seg = y.seg /\ ~x.final /\ x.number < y.number)

FifoOrder   == \A t \in Threads : \A a, b \in 1..Len(chan[t]) : a < b => Earlier(chan[t][a], chan[t][b])
ThreadOrder == \A t, u \in Threads : t < u =>
                 \A a \in 1..Len(chan[t]), b \in 1..Len(chan[u]) : chan[t][a].seg < chan[u][b].seg
NotYetSent  == \A t \in Threads : t > now => chan[t] = <<>>
\* All of the recording that streams is in the present thread's channel.
PresentSent ==
    streaming # None =>
        /\ \A t \in Threads : t < now => \A i \in 1..Len(chan[t]) : chan[t][i].seg < Len(segs)
        /\ \A g \in InFlight : g.seg = Len(segs) => ~g.final /\ g.number < fnum
InOrder == FifoOrder /\ ThreadOrder /\ NotYetSent /\ PresentSent

LEMMA ThreadsTyped == now \in Threads => now \in Int /\ \A t \in Threads : t \in Int
BY DEF Threads

\* A frame in flight is known by its recording and its number.
LEMMA FramesDiffer ==
    ASSUME TypeInv, InOrder, NEW x \in InFlight, NEW y \in InFlight, x.seg = y.seg, x.number = y.number
    PROVE  x = y
<1>1. PICK t \in Threads : \E i \in 1..Len(chan[t]) : chan[t][i] = x
  BY DEF InFlight
<1>2. PICK u \in Threads : \E i \in 1..Len(chan[u]) : chan[u][i] = y
  BY DEF InFlight
<1>3. PICK a \in 1..Len(chan[t]) : chan[t][a] = x
  BY <1>1
<1>4. PICK b \in 1..Len(chan[u]) : chan[u][b] = y
  BY <1>2
<1>5. x.seg \in Nat /\ x.number \in Nat /\ a \in Int /\ b \in Int /\ t \in Int /\ u \in Int
  <2>1. x \in Frames
    BY DEF InFlight
  <2> QED BY <2>1, FrameFields DEF Threads
<1>6. t = u
  <2>1. ~(t < u) /\ ~(u < t)
    BY <1>3, <1>4, <1>5 DEF InOrder, ThreadOrder
  <2> QED BY <1>5, <2>1
<1>7. ~(a < b) /\ ~(b < a)
  BY <1>3, <1>4, <1>5, <1>6 DEF InOrder, FifoOrder, Earlier
<1>8. a = b
  BY <1>5, <1>7
<1> QED BY <1>3, <1>4, <1>6, <1>8

\* Offering the next frame of the recording that streams.
LEMMA OfferInOrder ==
    ASSUME TypeInv, LengthInv, InOrder, streaming # None, UNCHANGED now,
           NEW f \in Frames, NEW ss, Offer(f, ss), f.seg = Len(segs), f.number = fnum
    PROVE  /\ (FifoOrder /\ ThreadOrder /\ NotYetSent)' /\ f \notin InFlight
           /\ \A t \in Threads : t < now => chan'[t] = chan[t]
<1>1. now \in Threads /\ chan[now] \in Seq(Frames) /\ fnum \in Nat /\ Len(segs) \in Nat
  BY DEF TypeInv, TypeOK
<1>2. \A t \in Threads \ {now} : chan'[t] = chan[t]
  BY OfferIs
<1>3. now \in Int /\ \A t \in Threads : t \in Int
  BY <1>1, ThreadsTyped
<1>4. \A t \in Threads : t < now => chan'[t] = chan[t]
  BY <1>2, <1>3
<1>5. NotYetSent'
  BY <1>1, <1>2, <1>3 DEF InOrder, NotYetSent
<1>6. f \notin InFlight
  BY <1>1 DEF InOrder, PresentSent
<1>7. \A g \in InFlight : g.seg \in Nat /\ g.number \in Nat /\ (g.seg < f.seg \/ (g.seg = f.seg /\ ~g.final /\ g.number < f.number))
  <2> SUFFICES ASSUME NEW g \in InFlight
               PROVE  /\ g.seg \in Nat /\ g.number \in Nat
                      /\ g.seg < f.seg \/ (g.seg = f.seg /\ ~g.final /\ g.number < f.number)
    OBVIOUS
  <2>1. g \in Frames /\ g.seg \in 1..Len(segs)
    BY DEF InFlight, LengthInv, AllSound, Sound
  <2>2. g.seg \in Nat /\ g.number \in Nat
    BY <2>1, FrameFields
  <2>3. g.seg = Len(segs) => ~g.final /\ g.number < fnum
    BY DEF InOrder, PresentSent
  <2> QED BY <1>1, <2>1, <2>2, <2>3
<1>8. CASE Len(chan[now]) < FrameCap
  <2> DEFINE c == chan[now]
             n == Len(c)
             d == Append(c, f)
  <2>1. chan'[now] = d
    BY <1>1, <1>8 DEF Offer, TypeInv
  <2>2. n \in Nat /\ Len(d) = n + 1 /\ d[n + 1] = f /\ \A i \in 1..n : d[i] = c[i]
    BY <1>1
  <2>3. \A i \in 1..n : c[i] \in InFlight
    BY <1>1, FlightIs
  <2>4. \A a, b \in 1..n : a < b => Earlier(c[a], c[b])
    BY <1>1 DEF InOrder, FifoOrder
  <2> HIDE DEF d, c, n
  <2>5. \A a, b \in 1..(n + 1) : a < b => Earlier(d[a], d[b])
    <3> SUFFICES ASSUME NEW a \in 1..(n + 1), NEW b \in 1..(n + 1), a < b PROVE Earlier(d[a], d[b])
      OBVIOUS
    <3>1. a \in 1..n /\ d[a] = c[a] /\ c[a] \in InFlight
      BY <2>2, <2>3
    <3>2. CASE b = n + 1
      BY <1>7, <2>2, <3>1, <3>2 DEF Earlier
    <3>3. CASE b # n + 1
      <4>1. b \in 1..n /\ d[b] = c[b]
        BY <2>2, <3>3
      <4> QED BY <2>4, <3>1, <4>1
    <3> QED BY <3>2, <3>3
  <2>6. FifoOrder'
    <3>1. \A a, b \in 1..Len(chan'[now]) : a < b => Earlier(chan'[now][a], chan'[now][b])
      BY <2>1, <2>2, <2>5
    <3>2. ASSUME NEW t \in Threads \ {now}
          PROVE  \A a, b \in 1..Len(chan'[t]) : a < b => Earlier(chan'[t][a], chan'[t][b])
      BY <1>2, <3>2 DEF InOrder, FifoOrder
    <3> QED BY <3>1, <3>2 DEF FifoOrder, Earlier
  <2>7. ThreadOrder'
    <3> SUFFICES ASSUME NEW t \in Threads, NEW u \in Threads, t < u,
                        NEW a \in 1..Len(chan'[t]), NEW b \in 1..Len(chan'[u])
                 PROVE  chan'[t][a].seg < chan'[u][b].seg
      BY DEF ThreadOrder
    <3>1. u <= now
      <4>1. SUFFICES ASSUME u > now PROVE FALSE
        BY <1>3
      <4>2. chan'[u] = <<>>
        BY <1>5, <4>1 DEF NotYetSent
      <4> QED BY <4>2
    <3>2. t < now /\ chan'[t] = chan[t] /\ a \in 1..Len(chan[t])
      BY <1>3, <1>4, <3>1
    <3>3. CASE u # now
      BY <1>2, <3>2, <3>3 DEF InOrder, ThreadOrder
    <3>4. CASE u = now
      <4>1. b \in 1..(n + 1) /\ chan'[u][b] = d[b]
        BY <2>1, <2>2, <3>4
      <4>2. CASE b = n + 1
        BY <2>2, <3>2, <4>1, <4>2 DEF InOrder, PresentSent
      <4>3. CASE b # n + 1
        <5>1. b \in 1..n /\ d[b] = c[b]
          BY <2>2, <4>1, <4>3
        <5> QED BY <1>1, <3>2, <3>4, <4>1, <5>1 DEF InOrder, ThreadOrder, c, n
      <4> QED BY <4>2, <4>3
    <3> QED BY <3>3, <3>4
  <2> QED BY <1>4, <1>5, <1>6, <2>6, <2>7
<1>9. CASE ~(Len(chan[now]) < FrameCap)
  <2>1. UNCHANGED chan
    BY <1>9 DEF Offer
  <2>2. FifoOrder' /\ ThreadOrder'
    BY <2>1 DEF InOrder, FifoOrder, ThreadOrder, Earlier
  <2> QED BY <1>4, <1>5, <1>6, <2>2
<1> QED BY <1>8, <1>9

\* What is received is gone; of the recording that a final frame ends, nothing is left.
LEMMA PopInOrder ==
    ASSUME TypeInv, InOrder, UNCHANGED now, NEW t \in Threads, chan[t] # <<>>,
           chan' = [chan EXCEPT ![t] = Tail(@)]
    PROVE  LET f == Head(chan[t])
           IN  /\ (FifoOrder /\ ThreadOrder /\ NotYetSent)'
               /\ InFlight' = InFlight \ {f}
               /\ f.final => \A g \in InFlight' : g.seg # f.seg
               /\ \A u \in Threads : \A i \in 1..Len(chan'[u]) : \E j \in 1..Len(chan[u]) : chan'[u][i] = chan[u][j]
<1> DEFINE f == Head(chan[t])
           c == chan[t]
           n == Len(c)
           d == Tail(c)
<1>1. c \in Seq(Frames) /\ \A u \in Threads : u \in Int
  BY ThreadTypes DEF Threads
<1>2. /\ n \in Nat \ {0} /\ f = c[1] /\ Len(d) = n - 1 /\ \A i \in 1..(n - 1) : d[i] = c[i + 1]
      /\ \A i \in 1..(n - 1) : i + 1 \in 1..n
  BY <1>1, Popped
<1>3. chan'[t] = d /\ \A u \in Threads \ {t} : chan'[u] = chan[u]
  BY DEF TypeInv
<1>4. /\ \A a, b \in 1..n : a < b => Earlier(c[a], c[b])
      /\ \A a \in 1..n : c[a] \in InFlight
  BY FlightIs DEF InOrder, FifoOrder
<1>5. f \in InFlight /\ InFlight' \subseteq InFlight /\ InFlight \subseteq InFlight' \cup {f}
  BY PopFlight
<1> HIDE DEF d, c, n, f
<1>6. \A u \in Threads : \A i \in 1..Len(chan'[u]) :
            \E j \in 1..Len(chan[u]) : chan'[u][i] = chan[u][j] /\ (u = t => j = i + 1 /\ i \in 1..(n - 1)) /\ (u # t => j = i)
  <2> SUFFICES ASSUME NEW u \in Threads, NEW i \in 1..Len(chan'[u])
               PROVE  \E j \in 1..Len(chan[u]) : /\ chan'[u][i] = chan[u][j]
                                                 /\ (u = t => j = i + 1 /\ i \in 1..(n - 1)) /\ (u # t => j = i)
    OBVIOUS
  <2>1. CASE u = t
    <3>1. i \in 1..(n - 1)
      BY <1>2, <1>3, <2>1
    <3>2. i + 1 \in 1..Len(chan[u]) /\ chan'[u][i] = chan[u][i + 1]
      BY <1>2, <1>3, <2>1, <3>1 DEF c, n
    <3> QED BY <2>1, <3>1, <3>2
  <2>2. CASE u # t
    <3>1. chan'[u] = chan[u]
      BY <1>3, <2>2
    <3> QED BY <2>2, <3>1
  <2> QED BY <2>1, <2>2
<1>7. ASSUME NEW g \in InFlight', g.seg = f.seg PROVE g # f /\ ~f.final
  <2>1. PICK u \in Threads : \E i \in 1..Len(chan'[u]) : chan'[u][i] = g
    BY DEF InFlight
  <2>2. PICK i \in 1..Len(chan'[u]) : chan'[u][i] = g
    BY <2>1
  <2>3. PICK j \in 1..Len(chan[u]) : chan'[u][i] = chan[u][j] /\ (u = t => j = i + 1 /\ i \in 1..(n - 1))
    BY <1>6
  <2>4. g.seg \in Nat /\ g.number \in Nat /\ f.number \in Nat
    <3>1. g \in Frames /\ f \in Frames
      BY <1>5 DEF InFlight
    <3> QED BY <3>1, FrameFields
  <2>5. 1 \in 1..Len(chan[t]) /\ chan[t][1] = f
    BY <1>2 DEF c, n
  <2>6. u = t
    <3>1. ~(u < t) /\ ~(t < u)
      BY <1>7, <2>2, <2>3, <2>4, <2>5 DEF InOrder, ThreadOrder
    <3> QED BY <1>1, <3>1
  <2>7. Earlier(f, g)
    <3>1. j \in 1..n /\ 1 \in 1..n /\ 1 < j /\ c[j] = g
      BY <1>2, <2>2, <2>3, <2>6 DEF c, n
    <3> QED BY <1>2, <1>4, <3>1
  <2> QED BY <1>7, <2>4, <2>7 DEF Earlier
<1>8. InFlight' = InFlight \ {f} /\ (f.final => \A g \in InFlight' : g.seg # f.seg)
  BY <1>5, <1>7
<1>9. FifoOrder'
  <2> SUFFICES ASSUME NEW u \in Threads, NEW a \in 1..Len(chan'[u]), NEW b \in 1..Len(chan'[u]), a < b
               PROVE  Earlier(chan'[u][a], chan'[u][b])
    BY DEF FifoOrder, Earlier
  <2>1. CASE u = t
    <3>1. a \in 1..(n - 1) /\ b \in 1..(n - 1) /\ a + 1 < b + 1
      BY <1>2, <1>3, <2>1
    <3>2. d[a] = c[a + 1] /\ d[b] = c[b + 1] /\ a + 1 \in 1..n /\ b + 1 \in 1..n
      BY <1>2, <3>1
    <3> QED BY <1>3, <1>4, <2>1, <3>1, <3>2
  <2>2. CASE u # t
    <3>1. chan'[u] = chan[u]
      BY <1>3, <2>2
    <3> QED BY <3>1 DEF InOrder, FifoOrder
  <2> QED BY <2>1, <2>2
<1>10. ThreadOrder'
  <2> SUFFICES ASSUME NEW u \in Threads, NEW v \in Threads, u < v,
                      NEW a \in 1..Len(chan'[u]), NEW b \in 1..Len(chan'[v])
               PROVE  chan'[u][a].seg < chan'[v][b].seg
    BY DEF ThreadOrder
  <2>1. PICK x \in 1..Len(chan[u]) : chan'[u][a] = chan[u][x]
    BY <1>6
  <2>2. PICK y \in 1..Len(chan[v]) : chan'[v][b] = chan[v][y]
    BY <1>6
  <2> QED BY <2>1, <2>2 DEF InOrder, ThreadOrder
<1>11. NotYetSent'
  BY <1>3 DEF InOrder, NotYetSent
<1> QED BY <1>6, <1>8, <1>9, <1>10, <1>11 DEF f

LEMMA OrderInit == Init => InOrder
<1> SUFFICES ASSUME Init PROVE InOrder
  OBVIOUS
<1>1. \A t \in Threads : chan[t] = <<>> /\ Len(chan[t]) = 0 /\ 1..Len(chan[t]) = {}
  BY DEF Init
<1>2. FifoOrder /\ ThreadOrder /\ NotYetSent
  BY <1>1 DEF FifoOrder, ThreadOrder, NotYetSent
<1>3. PresentSent
  BY DEF Init, PresentSent
<1> QED BY <1>2, <1>3 DEF InOrder

\* Every step keeps the order.
LEMMA OrderStep == TypeInv /\ LengthInv /\ InOrder /\ [Next]_vars => InOrder'
<1> SUFFICES ASSUME TypeInv, LengthInv, InOrder, [Next]_vars PROVE InOrder'
  OBVIOUS
<1>t. /\ fnum \in Nat /\ fbuf \in Nat /\ segs \in Seq(Segs) /\ Len(segs) \in Nat /\ now \in Threads
      /\ now \in Int /\ \A t \in Threads : t \in Int
  <2>1. fnum \in Nat /\ fbuf \in Nat /\ segs \in Seq(Segs) /\ now \in Threads
    BY DEF TypeInv, TypeOK
  <2> QED BY <2>1, ThreadsTyped
<1>s. \A g \in InFlight : g \in Frames /\ g.seg \in 1..Len(segs) /\ g.seg \in Nat /\ g.number \in Nat
  BY FrameFields DEF LengthInv, AllSound, InFlight, Sound
<1>f. \A t \in Threads : \A i \in 1..Len(chan[t]) : chan[t][i] \in InFlight
  BY FlightIs
<1>o. UNCHANGED <<chan, now>> => (FifoOrder /\ ThreadOrder /\ NotYetSent)' /\ InFlight' = InFlight
  <2>1. ASSUME UNCHANGED <<chan, now>> PROVE (FifoOrder /\ ThreadOrder /\ NotYetSent)' /\ InFlight' = InFlight
    BY <2>1 DEF InOrder, FifoOrder, ThreadOrder, NotYetSent, Earlier, InFlight
  <2> QED BY <2>1
<1>u. UNCHANGED <<chan, now, streaming, fnum, segs>> => InOrder'
  <2>1. ASSUME UNCHANGED <<chan, now, streaming, fnum, segs>> PROVE PresentSent'
    BY <1>o, <2>1 DEF InOrder, PresentSent
  <2> QED BY <1>o, <2>1 DEF InOrder
\* A recording begins.
<1>n. ASSUME Len(segs') = Len(segs) + 1, UNCHANGED now, \A t \in Threads : t < now => chan'[t] = chan[t],
             \A g \in InFlight' : g \in InFlight \/ g.seg = Len(segs)
      PROVE  PresentSent'
  <2>1. \A g \in InFlight' : g.seg # Len(segs')
    BY <1>n, <1>s, <1>t
  <2>2. \A t \in Threads : t < now' => \A i \in 1..Len(chan'[t]) : chan'[t][i].seg < Len(segs')
    BY <1>n, <1>s, <1>t, <1>f
  <2> QED BY <2>1, <2>2 DEF PresentSent
<1>1. ASSUME NEW idx \in Intervals, NEW n \in BlockSizes, NEW playing \in BOOLEAN, Process(idx, n, playing)
      PROVE  InOrder'
  <2> DEFINE uu == Append(segs, NewSeg(idx, n))
  <2>1. n \in Nat /\ NewSeg(idx, n) \in Segs /\ Between /\ UNCHANGED now /\ streaming' = idx
    BY <1>1, <1>t, SendAssumption, SegsKeep, ProcessIs
  <2>2. uu \in Seq(Segs) /\ Len(uu) = Len(segs) + 1
    BY <1>t, <2>1, AddedGrows
  <2> HIDE DEF uu
  <2>3. CASE UNCHANGED chan /\ segs' = uu
    BY <1>n, <1>o, <2>1, <2>2, <2>3 DEF InOrder
  <2>4. CASE UNCHANGED chan /\ streaming # None /\ segs' = Fed(segs, n) /\ fnum' = fnum
    <3>1. Len(segs') = Len(segs)
      BY <1>t, <2>1, <2>4, FedKeeps
    <3>2. PresentSent'
      BY <1>o, <2>1, <2>4, <3>1 DEF InOrder, PresentSent
    <3> QED BY <1>o, <2>1, <2>4, <3>2 DEF InOrder
  <2>5. CASE streaming # None /\ Offer(Frame(streaming, fbuf, TRUE, TotalFrames), uu)
    <3> DEFINE f == Frame(streaming, fbuf, TRUE, TotalFrames)
    <3>1. TotalFrames \in Nat /\ fbuf \in 0..Full
      BY <1>t, <2>1, Limits DEF TotalFrames, Between
    <3>2. f \in Frames /\ f.seg = Len(segs) /\ f.number = fnum
      BY <2>5, <3>1, FrameTypes DEF Frame
    <3>3. Offer(f, uu)
      BY <2>5
    <3> HIDE DEF f
    <3>4. (FifoOrder /\ ThreadOrder /\ NotYetSent)' /\ \A t \in Threads : t < now => chan'[t] = chan[t]
      BY <2>1, <2>5, <3>2, <3>3, OfferInOrder
    <3>5. \A g \in InFlight' : g \in InFlight \/ g.seg = Len(segs)
      BY <3>2, <3>3, OfferFlight
    <3>6. Len(segs') = Len(segs) + 1
      BY <2>2, <3>2, <3>3, OfferFlight, LostKeeps
    <3>7. PresentSent'
      BY <1>n, <2>1, <3>4, <3>5, <3>6
    <3> QED BY <3>4, <3>7 DEF InOrder
  <2> QED BY <1>1, <2>3, <2>4, <2>5, ProcessIs DEF uu
<1>2. CASE Dispatch
  <2> DEFINE f == Frame(streaming, Full, FALSE, 0)
  <2>1. streaming # None /\ Offer(f, segs) /\ fnum' = fnum + 1 /\ UNCHANGED <<streaming, now>>
    <3>1. streaming # None
      BY <1>2, <1>t, Limits DEF Dispatch, TypeInv
    <3> QED BY <1>2, <3>1 DEF Dispatch
  <2>2. f \in Frames /\ f.seg = Len(segs) /\ f.number = fnum /\ ~f.final
    <3>1. Full \in 0..Full /\ 0 \in Nat
      BY Limits
    <3> QED BY <2>1, <3>1, FrameTypes DEF Frame
  <2> HIDE DEF f
  <2>3. (FifoOrder /\ ThreadOrder /\ NotYetSent)' /\ \A t \in Threads : t < now => chan'[t] = chan[t]
    BY <2>1, <2>2, OfferInOrder
  <2>4. \A g \in InFlight' : g \in InFlight \/ g = f
    BY <2>1, <2>2, OfferFlight
  <2>5. Len(segs') = Len(segs)
    BY <1>t, <2>1, <2>2, OfferFlight, LostKeeps
  <2>6. PresentSent'
    <3>1. \A g \in InFlight' : g.seg = Len(segs) => ~g.final /\ g.number < fnum + 1
      BY <1>s, <1>t, <2>1, <2>2, <2>4 DEF InOrder, PresentSent
    <3> QED BY <2>1, <2>3, <2>5, <3>1 DEF InOrder, PresentSent
  <2> QED BY <2>3, <2>6 DEF InOrder
<1>3. CASE Reset
  BY <1>3, <1>o DEF Reset, ipcVars, InOrder, PresentSent
<1>4. CASE Initialize
  <2>1. now' = now + 1 /\ UNCHANGED chan /\ streaming' = None
    BY <1>4 DEF Initialize
  <2>2. (FifoOrder /\ ThreadOrder)'
    BY <2>1 DEF InOrder, FifoOrder, ThreadOrder, Earlier
  <2>3. NotYetSent'
    BY <1>t, <2>1 DEF InOrder, NotYetSent
  <2> QED BY <2>1, <2>2, <2>3 DEF InOrder, PresentSent
<1>5. ASSUME NEW t \in Threads, Write(t) \/ WriteLost(t) PROVE InOrder'
  <2>1. /\ chan[t] # <<>> /\ chan' = [chan EXCEPT ![t] = Tail(@)]
        /\ UNCHANGED <<now, streaming, fnum>>
    BY <1>5 DEF Write, WriteLost, Received, cutVars
  <2>2. /\ (FifoOrder /\ ThreadOrder /\ NotYetSent)' /\ InFlight' \subseteq InFlight
        /\ \A u \in Threads : \A i \in 1..Len(chan'[u]) : \E j \in 1..Len(chan[u]) : chan'[u][i] = chan[u][j]
    BY <2>1, PopInOrder
  <2>3. Len(segs') = Len(segs)
    BY <1>5, <1>t, LostKeeps DEF Write, WriteLost
  <2>4. PresentSent'
    <3>1. SUFFICES ASSUME streaming # None PROVE PresentSent'
      BY <2>1 DEF PresentSent
    <3>2. \A u \in Threads : u < now => \A i \in 1..Len(chan'[u]) : chan'[u][i].seg < Len(segs)
      <4> SUFFICES ASSUME NEW u \in Threads, u < now, NEW i \in 1..Len(chan'[u])
                   PROVE  chan'[u][i].seg < Len(segs)
        OBVIOUS
      <4>1. PICK j \in 1..Len(chan[u]) : chan'[u][i] = chan[u][j]
        BY <2>2
      <4> QED BY <3>1, <4>1 DEF InOrder, PresentSent
    <3>3. \A g \in InFlight' : g.seg = Len(segs) => ~g.final /\ g.number < fnum
      BY <2>2, <3>1 DEF InOrder, PresentSent
    <3> QED BY <2>1, <2>3, <3>2, <3>3 DEF PresentSent
  <2> QED BY <2>2, <2>4 DEF InOrder
<1>6. ASSUME NEW t \in Threads, Connect(t) \/ Ends(t) PROVE InOrder'
  BY <1>6, <1>u DEF Connect, Ends, cutVars
<1>7. CASE AppStops \/ AppStarts
  BY <1>7, <1>u DEF AppStops, AppStarts, cutVars, ipcVars
<1>8. CASE UNCHANGED vars
  BY <1>8, <1>u DEF vars, cutVars, ipcVars
<1> QED BY <1>1, <1>2, <1>3, <1>4, <1>5, <1>6, <1>7, <1>8 DEF Next, Thread

----------------------------------------------------------------------------
(* Counting                                                                *)

(***************************************************************************)
(* n frames of a recording were cut: what is on the way, what arrived and  *)
(* what was lost add up, for a recording whose index no other has and      *)
(* which the assembler has room for.                                       *)
(***************************************************************************)
Only(j) == \A k \in 1..Len(segs) : segs[k].index = segs[j].index => k = j
OnTheWay(j) == {i \in Nat : \E g \in InFlight : g.seg = j /\ ~g.final /\ g.number = i}
Arrived(j)  == {i \in 0..MaxFrames-1 : pending[segs[j].index][i] # Missing}
Parts(a, b, lost, n) ==
    /\ a \subseteq 0..(n - 1) /\ b \subseteq 0..(n - 1) /\ a \cap b = {}
    /\ lost = n - Cardinality(a) - Cardinality(b)
Exact(j, n) == n <= MaxFrames => Parts(OnTheWay(j), Arrived(j), segs[j].lost, n)

PresentExact == streaming # None /\ Only(Len(segs)) => Exact(Len(segs), fnum)
EndedExact   == \A g \in InFlight : g.final /\ Only(g.seg) => Exact(g.seg, g.number)
FreshEmpty   == \A k \in Intervals : (\A j \in 1..Len(segs) : segs[j].index # k) => pending[k] = NoFrames
ResultDone   == result.seg # 0 =>
                    /\ \A g \in InFlight : g.seg # result.seg
                    /\ Only(result.seg) => FramesReceivedExact
CountInv     == PresentExact /\ EndedExact /\ FreshEmpty /\ ResultDone

LEMMA PartsFinite ==
    ASSUME NEW n \in Nat, NEW a \in SUBSET (0..(n - 1))
    PROVE  IsFiniteSet(a) /\ Cardinality(a) \in Nat
<1>1. IsFiniteSet(0..(n - 1))
  BY FS_Interval
<1>2. IsFiniteSet(a)
  BY <1>1, FS_Subset
<1> QED BY <1>2, FS_CardinalityType

LEMMA PartsCut ==
    ASSUME NEW n \in Nat, NEW lost \in Int, NEW a, NEW b, Parts(a, b, lost, n)
    PROVE  /\ Parts(a \cup {n}, b, lost, n + 1)
           /\ Parts(a, b, lost + 1, n + 1)
<1>1. /\ a \in SUBSET (0..(n - 1)) /\ b \in SUBSET (0..(n - 1)) /\ a \cap b = {}
      /\ lost = n - Cardinality(a) - Cardinality(b)
  BY DEF Parts
<1>2. IsFiniteSet(a) /\ Cardinality(a) \in Nat /\ Cardinality(b) \in Nat
  BY <1>1, PartsFinite
<1>3. n \notin a /\ n \notin b
  BY <1>1
<1>4. Cardinality(a \cup {n}) = Cardinality(a) + 1
  BY <1>2, <1>3, FS_AddElement
<1>5. a \cup {n} \subseteq 0..((n + 1) - 1) /\ b \subseteq 0..((n + 1) - 1) /\ a \subseteq 0..((n + 1) - 1)
      /\ (a \cup {n}) \cap b = {}
  BY <1>1, <1>3
<1>6. /\ lost = (n + 1) - (Cardinality(a) + 1) - Cardinality(b)
      /\ lost + 1 = (n + 1) - Cardinality(a) - Cardinality(b)
  BY <1>1, <1>2
<1> QED BY <1>1, <1>4, <1>5, <1>6 DEF Parts

LEMMA PartsMoved ==
    ASSUME NEW n \in Nat, NEW lost \in Int, NEW a, NEW b, Parts(a, b, lost, n), NEW x \in a
    PROVE  /\ Parts(a \ {x}, b \cup {x}, lost, n)
           /\ Parts(a \ {x}, b, lost + 1, n)
<1>1. /\ a \in SUBSET (0..(n - 1)) /\ b \in SUBSET (0..(n - 1)) /\ a \cap b = {}
      /\ lost = n - Cardinality(a) - Cardinality(b)
  BY DEF Parts
<1>2. IsFiniteSet(a) /\ Cardinality(a) \in Nat /\ IsFiniteSet(b) /\ Cardinality(b) \in Nat
  BY <1>1, PartsFinite
<1>3. Cardinality(a \ {x}) = Cardinality(a) - 1 /\ Cardinality(b \cup {x}) = Cardinality(b) + 1
  <2>1. x \notin b
    BY <1>1
  <2> QED BY <1>2, <2>1, FS_AddElement, FS_RemoveElement
<1>4. a \ {x} \subseteq 0..(n - 1) /\ b \cup {x} \subseteq 0..(n - 1) /\ (a \ {x}) \cap (b \cup {x}) = {}
      /\ (a \ {x}) \cap b = {}
  BY <1>1
<1>5. /\ lost = n - (Cardinality(a) - 1) - (Cardinality(b) + 1)
      /\ lost + 1 = n - (Cardinality(a) - 1) - Cardinality(b)
  BY <1>1, <1>2
<1> QED BY <1>1, <1>3, <1>4, <1>5 DEF Parts

LEMMA OnlyStays ==
    ASSUME Grow(segs, segs'), NEW j \in 1..Len(segs), Only(j)'
    PROVE  Only(j)
<1>1. /\ \A k \in 1..Len(segs) : k \in 1..Len(segs') /\ segs'[k].index = segs[k].index
      /\ \A k \in 1..Len(segs') : segs'[k].index = segs'[j].index => k = j
  BY DEF Grow, Only
<1> QED BY <1>1 DEF Only

LEMMA ExactStays ==
    ASSUME NEW j, NEW n, Exact(j, n), OnTheWay(j)' = OnTheWay(j), segs'[j].index = segs[j].index,
           segs'[j].lost = segs[j].lost, pending'[segs[j].index] = pending[segs[j].index]
    PROVE  Exact(j, n)'
<1>1. Arrived(j)' = Arrived(j)
  BY DEF Arrived
<1> HIDE DEF OnTheWay, Arrived
<1> QED BY <1>1 DEF Exact

\* An offered frame is on the way unless it is final.
LEMMA OnTheWayOffered ==
    ASSUME NEW f \in Frames, InFlight' = InFlight \cup {f}, NEW j
    PROVE  OnTheWay(j)' = IF ~f.final /\ f.seg = j THEN OnTheWay(j) \cup {f.number} ELSE OnTheWay(j)
<1>1. f.number \in Nat
  BY FrameFields
<1>2. ASSUME NEW i \in Nat
      PROVE  i \in OnTheWay(j)' <=> i \in OnTheWay(j) \/ (~f.final /\ f.seg = j /\ f.number = i)
  BY DEF OnTheWay
<1>3. OnTheWay(j)' \subseteq Nat /\ OnTheWay(j) \subseteq Nat
  BY DEF OnTheWay
<1> HIDE DEF OnTheWay
<1>4. CASE ~f.final /\ f.seg = j
  <2>1. OnTheWay(j)' = OnTheWay(j) \cup {f.number}
    BY <1>1, <1>2, <1>3, <1>4
  <2> QED BY <1>4, <2>1
<1>5. CASE ~(~f.final /\ f.seg = j)
  <2>1. OnTheWay(j)' = OnTheWay(j)
    BY <1>2, <1>3, <1>5
  <2> QED BY <1>5, <2>1
<1> QED BY <1>4, <1>5

LEMMA OnTheWayPopped ==
    ASSUME TypeInv, InOrder, NEW f \in InFlight, InFlight' = InFlight \ {f}, NEW j
    PROVE  /\ OnTheWay(j)' = IF ~f.final /\ f.seg = j THEN OnTheWay(j) \ {f.number} ELSE OnTheWay(j)
           /\ ~f.final => f.number \in OnTheWay(f.seg)
<1>1. f.number \in Nat
  BY FrameFields DEF InFlight
<1>2. \A g \in InFlight : g.seg = f.seg /\ g.number = f.number => g = f
  BY FramesDiffer
<1>3. ASSUME NEW i \in Nat
      PROVE  i \in OnTheWay(j)' <=> i \in OnTheWay(j) /\ ~(~f.final /\ f.seg = j /\ f.number = i)
  <2>1. i \in OnTheWay(j)' => i \in OnTheWay(j) /\ ~(~f.final /\ f.seg = j /\ f.number = i)
    <3>1. SUFFICES ASSUME NEW g \in InFlight \ {f}, g.seg = j, ~g.final, g.number = i
                   PROVE  i \in OnTheWay(j) /\ ~(~f.final /\ f.seg = j /\ f.number = i)
      BY DEF OnTheWay
    <3> QED BY <1>2, <3>1 DEF OnTheWay
  <2>2. i \in OnTheWay(j) /\ ~(~f.final /\ f.seg = j /\ f.number = i) => i \in OnTheWay(j)'
    <3>1. SUFFICES ASSUME NEW g \in InFlight, g.seg = j, ~g.final, g.number = i,
                          ~(~f.final /\ f.seg = j /\ f.number = i)
                   PROVE  i \in OnTheWay(j)'
      BY DEF OnTheWay
    <3>2. g # f
      BY <3>1
    <3> QED BY <3>1, <3>2 DEF OnTheWay
  <2> QED BY <2>1, <2>2
<1>4. OnTheWay(j)' \subseteq Nat /\ OnTheWay(j) \subseteq Nat
  BY DEF OnTheWay
<1>5. ~f.final => f.number \in OnTheWay(f.seg)
  BY <1>1 DEF OnTheWay
<1> HIDE DEF OnTheWay
<1>6. CASE ~f.final /\ f.seg = j
  <2>1. OnTheWay(j)' = OnTheWay(j) \ {f.number}
    BY <1>1, <1>3, <1>4, <1>6
  <2> QED BY <1>5, <1>6, <2>1
<1>7. CASE ~(~f.final /\ f.seg = j)
  <2>1. OnTheWay(j)' = OnTheWay(j)
    BY <1>3, <1>4, <1>7
  <2> QED BY <1>5, <1>7, <2>1
<1> QED BY <1>6, <1>7

LEMMA CountInit == Init => CountInv
<1> SUFFICES ASSUME Init PROVE CountInv
  OBVIOUS
<1>1. \A t \in Threads : chan[t] = <<>> /\ Len(chan[t]) = 0
  BY DEF Init
<1>2. EndedExact
  BY <1>1 DEF EndedExact, InFlight
<1>3. PresentExact /\ ResultDone
  BY DEF Init, PresentExact, ResultDone
<1>4. FreshEmpty
  BY DEF Init, FreshEmpty
<1> QED BY <1>2, <1>3, <1>4 DEF CountInv

\* The recordings that have ended, and the result, when the audio thread runs: only the
\* last recording can lose or gain a frame.
LEMMA EndedStay ==
    ASSUME TypeInv, LengthInv, CountInv, Grow(segs, segs'), UNCHANGED <<pending, result>>,
           \A g \in InFlight' : g \in InFlight \/ g.seg = Len(segs),
           \A j \in 1..(Len(segs) - 1) : segs'[j].lost = segs[j].lost /\ OnTheWay(j)' = OnTheWay(j)
    PROVE  /\ FreshEmpty' /\ ResultDone'
           /\ \A g \in InFlight : g.final /\ Only(g.seg)' => Exact(g.seg, g.number)'
<1>1. Len(segs) \in Nat /\ Len(segs') \in Nat /\ Len(segs) <= Len(segs')
      /\ \A k \in 1..Len(segs) : segs'[k].index = segs[k].index
  BY DEF Grow
<1>2. FreshEmpty'
  <2> SUFFICES ASSUME NEW k \in Intervals, \A j \in 1..Len(segs') : segs'[j].index # k PROVE pending'[k] = NoFrames
    BY DEF FreshEmpty, NoFrames
  <2>1. \A j \in 1..Len(segs) : j \in 1..Len(segs') /\ segs'[j].index = segs[j].index
    BY <1>1
  <2> QED BY <2>1 DEF CountInv, FreshEmpty
<1>3. ResultDone'
  <2> DEFINE r == result.seg
  <2>1. SUFFICES ASSUME r # 0 PROVE (\A g \in InFlight' : g.seg # r) /\ (Only(r)' => FramesReceivedExact')
    BY DEF ResultDone
  <2>2. r \in 1..(Len(segs) - 1)
    BY <2>1 DEF LengthInv, ResultOld
  <2>3. \A g \in InFlight' : g.seg # r
    BY <1>1, <2>1, <2>2 DEF CountInv, ResultDone
  <2>4. ASSUME Only(r)' PROVE FramesReceivedExact'
    <3>1. Only(r)
      BY <1>1, <2>2, <2>4, OnlyStays
    <3>2. FramesReceivedExact /\ segs'[r].lost = segs[r].lost
      BY <2>1, <2>2, <3>1 DEF CountInv, ResultDone
    <3> QED BY <3>2 DEF FramesReceivedExact
  <2> QED BY <2>3, <2>4
<1>4. ASSUME NEW g \in InFlight, g.final, Only(g.seg)' PROVE Exact(g.seg, g.number)'
  <2>1. g.seg \in 1..(Len(segs) - 1) /\ g.seg \in 1..Len(segs)
    BY <1>1, <1>4 DEF LengthInv, AllSound, Sound
  <2>2. Only(g.seg)
    BY <1>4, <2>1, OnlyStays
  <2>3. Exact(g.seg, g.number)
    BY <1>4, <2>2 DEF CountInv, EndedExact
  <2> HIDE DEF Exact, OnTheWay
  <2> QED BY <1>1, <2>1, <2>3, ExactStays
<1> QED BY <1>2, <1>3, <1>4

LEMMA LostNumbers ==
    ASSUME TypeInv, NEW j \in 1..Len(segs)
    PROVE  segs[j].lost \in Nat /\ segs[j].index \in Intervals /\ j \in DOMAIN segs
<1>1. segs \in Seq(Segs) /\ Len(segs) \in Nat
  BY DEF TypeInv
<1>2. segs[j] \in Segs /\ j \in DOMAIN segs
  BY <1>1
<1> QED BY <1>2 DEF Segs

\* A recording that begins: nothing is on the way, and nothing arrived.
LEMMA FreshExact ==
    ASSUME TypeInv, CountInv, UNCHANGED pending, NEW idx \in Intervals,
           Len(segs) \in Nat, NEW j, j = Len(segs) + 1, Len(segs') = j,
           \A k \in 1..Len(segs) : segs'[k].index = segs[k].index,
           segs'[j].index = idx, segs'[j].lost = 0,
           \A g \in InFlight' : g.seg # j, Only(j)'
    PROVE  Exact(j, 0)'
<1>1. \A k \in 1..Len(segs) : segs[k].index # idx
  <2> SUFFICES ASSUME NEW k \in 1..Len(segs), segs[k].index = idx PROVE FALSE
    OBVIOUS
  <2>1. k \in 1..Len(segs') /\ k # j
    OBVIOUS
  <2>2. segs'[k].index = segs'[j].index
    OBVIOUS
  <2> QED BY <2>1, <2>2 DEF Only
<1>2. pending'[idx] = NoFrames
  BY <1>1 DEF CountInv, FreshEmpty
<1>3. Arrived(j)' = {}
  <2>1. \A i \in 0..MaxFrames-1 : pending'[idx][i] = Missing
    BY <1>2 DEF NoFrames
  <2> QED BY <2>1 DEF Arrived
<1>4. OnTheWay(j)' = {}
  BY DEF OnTheWay
<1>5. Parts({}, {}, 0, 0)
  <2>1. Cardinality({}) = 0
    BY FS_EmptySet
  <2> QED BY <2>1 DEF Parts
<1> HIDE DEF Arrived, OnTheWay
<1>6. Parts(Arrived(j)', OnTheWay(j)', segs'[j].lost, 0)
  BY <1>3, <1>4, <1>5
<1> QED BY <1>3, <1>4, <1>6 DEF Exact

LEMMA InsertIs ==
    ASSUME TypeInv, NEW f \in Frames, NEW p \in 0..Full, Insert(f, p)
    PROVE  /\ p # Missing
           /\ \A k \in Intervals \ {f.index} : pending'[k] = pending[k]
           /\ f.number >= MaxFrames => UNCHANGED <<pending, result>>
           /\ f.number < MaxFrames /\ ~f.final =>
                /\ UNCHANGED result /\ f.number \in 0..MaxFrames-1
                /\ pending'[f.index][f.number] = p
                /\ \A i \in 0..MaxFrames-1 : i # f.number => pending'[f.index][i] = pending[f.index][i]
<1>1. f.number \in Nat /\ f.index \in Intervals /\ f.final \in BOOLEAN /\ MaxFrames \in Nat
  BY FrameFields, Limits
<1>2. pending \in [Intervals -> [0..MaxFrames-1 -> Packets]]
  BY DEF TypeInv, TypeOK
<1>3. p # Missing
  BY Limits DEF Missing
<1>4. CASE f.number >= MaxFrames
  <2>1. UNCHANGED <<pending, result>> /\ ~(f.number < MaxFrames)
    BY <1>1, <1>4 DEF Insert
  <2> QED BY <1>3, <2>1
<1>5. CASE ~(f.number >= MaxFrames)
  <2> DEFINE coll == [pending[f.index] EXCEPT ![f.number] = p]
  <2>1. /\ pending' = [pending EXCEPT ![f.index] = IF f.final THEN NoFrames ELSE coll]
        /\ result' = IF f.final THEN Assembled(f, coll) ELSE result
    BY <1>5 DEF Insert
  <2>2. f.number \in 0..MaxFrames-1
    BY <1>1, <1>5
  <2>3. coll[f.number] = p /\ \A i \in 0..MaxFrames-1 : i # f.number => coll[i] = pending[f.index][i]
    BY <1>1, <1>2, <2>2
  <2> HIDE DEF coll
  <2>4. \A k \in Intervals \ {f.index} : pending'[k] = pending[k]
    BY <1>2, <2>1
  <2>5. ~f.final => UNCHANGED result /\ pending'[f.index] = coll
    BY <1>1, <1>2, <2>1
  <2> QED BY <1>3, <1>5, <2>2, <2>3, <2>4, <2>5
<1> QED BY <1>4, <1>5

\* A frame that arrives moves from what is on the way to what arrived.
LEMMA ExactArrives ==
    ASSUME TypeInv, LengthInv, InOrder, UNCHANGED segs, NEW f \in InFlight, InFlight' = InFlight \ {f},
           NEW p \in 0..Full, Insert(f, p),
           NEW j \in 1..Len(segs), NEW n \in Nat, Only(j), Exact(j, n), ~(f.final /\ f.seg = j)
    PROVE  Exact(j, n)'
<1>1. f \in Frames /\ f.seg \in 1..Len(segs) /\ segs[f.seg].index = f.index
  BY DEF InFlight, LengthInv, AllSound, Sound
<1>2. f.number \in Nat /\ f.index \in Intervals /\ MaxFrames \in Nat /\ segs[j].lost \in Nat /\ segs[j].index \in Intervals
  BY <1>1, FrameFields, LostNumbers, Limits
<1>3. CASE f.seg # j
  <2>1. segs[j].index # f.index
    BY <1>1, <1>3 DEF Only
  <2>2. pending'[segs[j].index] = pending[segs[j].index]
    BY <1>1, <1>2, <2>1, InsertIs
  <2>3. OnTheWay(j)' = OnTheWay(j)
    BY <1>3, OnTheWayPopped
  <2> HIDE DEF OnTheWay, Exact
  <2> QED BY <2>2, <2>3, ExactStays
<1>4. CASE f.seg = j
  <2> DEFINE x == f.number
  <2>1. SUFFICES ASSUME n <= MaxFrames PROVE Parts(OnTheWay(j)', Arrived(j)', segs[j].lost, n)
    BY DEF Exact
  <2>2. OnTheWay(j)' = OnTheWay(j) \ {x} /\ x \in OnTheWay(j) /\ ~f.final
    BY <1>4, OnTheWayPopped
  <2>3. Parts(OnTheWay(j), Arrived(j), segs[j].lost, n)
    BY <2>1 DEF Exact
  <2>4. x \in 0..(n - 1) /\ x < MaxFrames
    BY <1>2, <2>1, <2>2, <2>3 DEF Parts
  <2>5. /\ p # Missing /\ x \in 0..MaxFrames-1 /\ pending'[f.index][x] = p
        /\ \A i \in 0..MaxFrames-1 : i # x => pending'[f.index][i] = pending[f.index][i]
    BY <1>1, <2>2, <2>4, InsertIs
  <2>6. Arrived(j)' = Arrived(j) \cup {x}
    BY <1>1, <1>4, <2>5 DEF Arrived
  <2> HIDE DEF OnTheWay, Arrived
  <2> QED BY <1>2, <2>2, <2>3, <2>6, PartsMoved
<1> QED BY <1>3, <1>4

\* A frame lost on a dead connection is counted as lost.
LEMMA ExactLoses ==
    ASSUME TypeInv, LengthInv, InOrder, UNCHANGED pending, NEW f \in InFlight, InFlight' = InFlight \ {f},
           segs' = Lost(segs, f.seg),
           NEW j \in 1..Len(segs), NEW n \in Nat, Exact(j, n), ~(f.final /\ f.seg = j)
    PROVE  Exact(j, n)'
<1>1. segs[j].lost \in Nat /\ j \in DOMAIN segs /\ segs \in Seq(Segs)
  BY LostNumbers DEF TypeInv
<1>2. /\ segs'[j].index = segs[j].index
      /\ segs'[j].lost = IF j = f.seg THEN segs[j].lost + 1 ELSE segs[j].lost
  BY <1>1, LostKeeps
<1>3. CASE f.seg # j
  <2>1. OnTheWay(j)' = OnTheWay(j) /\ segs'[j].lost = segs[j].lost
    BY <1>2, <1>3, OnTheWayPopped
  <2> HIDE DEF OnTheWay, Exact
  <2> QED BY <1>2, <2>1, ExactStays
<1>4. CASE f.seg = j
  <2> DEFINE x == f.number
  <2>1. SUFFICES ASSUME n <= MaxFrames PROVE Parts(OnTheWay(j)', Arrived(j)', segs[j].lost + 1, n)
    BY <1>2, <1>4 DEF Exact
  <2>2. OnTheWay(j)' = OnTheWay(j) \ {x} /\ x \in OnTheWay(j)
    BY <1>4, OnTheWayPopped
  <2>3. Parts(OnTheWay(j), Arrived(j), segs[j].lost, n)
    BY <2>1 DEF Exact
  <2>4. Arrived(j)' = Arrived(j)
    BY <1>2 DEF Arrived
  <2>5. segs[j].lost \in Int
    BY <1>1
  <2> HIDE DEF OnTheWay, Arrived
  <2>6. Parts(OnTheWay(j) \ {x}, Arrived(j), segs[j].lost + 1, n)
    BY <2>2, <2>3, <2>5, PartsMoved
  <2> QED BY <2>2, <2>4, <2>6
<1> QED BY <1>3, <1>4

\* The interval that a final frame completes lacks what was lost of it.
LEMMA ResultExact ==
    ASSUME TypeInv, LengthInv, UNCHANGED segs, NEW f \in InFlight, f.final, f.number < MaxFrames,
           \A g \in InFlight \ {f} : g.seg # f.seg,
           NEW p \in 0..Full, Insert(f, p), Exact(f.seg, f.number)
    PROVE  result'.seg = f.seg /\ FramesReceivedExact'
<1> DEFINE j == f.seg
           x == f.number
           coll == [pending[f.index] EXCEPT ![x] = p]
           R == {i \in 0..f.total-1 : coll[i] # Missing}
           A == Arrived(j)
<1>1. /\ f \in Frames /\ j \in 1..Len(segs) /\ segs[j].index = f.index
      /\ f.total = IF f.len = 0 THEN x ELSE x + 1
  BY DEF InFlight, LengthInv, AllSound, Sound
<1>2. x \in Nat /\ f.index \in Intervals /\ MaxFrames \in Nat /\ segs[j].lost \in Nat /\ p # Missing /\ x \in 0..MaxFrames-1
  <2>1. x \in Nat /\ f.index \in Intervals /\ MaxFrames \in Nat /\ segs[j].lost \in Nat
    BY <1>1, FrameFields, LostNumbers, Limits
  <2> QED BY <2>1, <1>1, InsertIs, Limits
<1>3. result' = Assembled(f, coll)
  BY <1>2 DEF Insert
<1>4. result'.seg = j /\ result'.expected = f.total /\ result'.received = Cardinality(R)
  BY <1>3 DEF Assembled
<1>5. /\ coll[x] = p /\ \A i \in 0..MaxFrames-1 : i # x => coll[i] = pending[f.index][i]
  <2>1. pending[f.index] \in [0..MaxFrames-1 -> Packets]
    BY <1>2 DEF TypeInv, TypeOK
  <2> QED BY <1>2, <2>1
<1>6. OnTheWay(j) = {}
  BY DEF OnTheWay
<1>7. Parts({}, A, segs[j].lost, x)
  <2> HIDE DEF A
  <2> QED BY <1>2, <1>6 DEF Exact, A
<1>8. A \in SUBSET (0..(x - 1)) /\ segs[j].lost = x - 0 - Cardinality(A)
  BY <1>7, FS_EmptySet DEF Parts
<1>9. IsFiniteSet(A) /\ Cardinality(A) \in Nat
  BY <1>2, <1>8, PartsFinite
<1>10. \A i \in 0..(x - 1) : i \in A <=> coll[i] # Missing
  <2>1. \A i \in 0..(x - 1) : i \in 0..MaxFrames-1 /\ i # x
    BY <1>2
  <2> QED BY <1>1, <1>5, <2>1 DEF Arrived
<1> HIDE DEF coll, A
<1>11. CASE f.len = 0
  <2>1. R = A
    <3>1. 0..f.total-1 = 0..(x - 1)
      BY <1>1, <1>11
    <3> QED BY <1>8, <1>10, <3>1
  <2>2. f.total = x /\ Cardinality(R) = Cardinality(A)
    BY <1>1, <1>11, <2>1
  <2> HIDE DEF R
  <2> QED BY <1>1, <1>2, <1>4, <1>8, <1>9, <2>2 DEF FramesReceivedExact
<1>12. CASE f.len # 0
  <2>1. R = A \cup {x}
    <3>1. 0..f.total-1 = 0..(x - 1) \cup {x}
      BY <1>1, <1>2, <1>12
    <3> QED BY <1>2, <1>5, <1>8, <1>10, <3>1
  <2>2. x \notin A
    BY <1>2, <1>8
  <2>3. Cardinality(R) = Cardinality(A) + 1
    BY <1>9, <2>1, <2>2, FS_AddElement
  <2> HIDE DEF R
  <2> QED BY <1>1, <1>2, <1>4, <1>8, <1>9, <1>12, <2>3 DEF FramesReceivedExact
<1> QED BY <1>11, <1>12

LEMMA PresentNext ==
    ASSUME NEW j, NEW n, Len(segs') = j, fnum' = n, Only(j)' => Exact(j, n)'
    PROVE  PresentExact'
BY DEF PresentExact

LEMMA PresentNow ==
    ASSUME PresentExact, NEW j, NEW n, Len(segs) = j, fnum = n, streaming # None, Only(j)
    PROVE  Exact(j, n)
BY DEF PresentExact

LEMMA CountStays ==
    ASSUME CountInv, UNCHANGED <<chan, segs, pending, result>>,
           streaming' = None \/ UNCHANGED <<streaming, fnum>>
    PROVE  CountInv'
<1>1. InFlight' = InFlight
  BY DEF InFlight
<1>2. ASSUME NEW j, NEW n PROVE (Only(j)' <=> Only(j)) /\ (Exact(j, n)' <=> Exact(j, n))
  <2>1. OnTheWay(j)' = OnTheWay(j) /\ Arrived(j)' = Arrived(j)
    BY <1>1 DEF OnTheWay, Arrived
  <2>2. Only(j)' <=> Only(j)
    BY DEF Only
  <2> HIDE DEF OnTheWay, Arrived, Only
  <2> QED BY <2>1, <2>2 DEF Exact
<1> HIDE DEF Only, Exact
<1>3. EndedExact'
  BY <1>1, <1>2 DEF CountInv, EndedExact
<1>4. FreshEmpty' /\ ResultDone'
  BY <1>1, <1>2 DEF CountInv, FreshEmpty, ResultDone, FramesReceivedExact, NoFrames
<1>5. PresentExact'
  <2>1. CASE streaming' = None
    BY <2>1 DEF PresentExact
  <2>2. CASE UNCHANGED <<streaming, fnum>>
    BY <1>2, <2>2 DEF CountInv, PresentExact
  <2> QED BY <2>1, <2>2
<1> QED BY <1>3, <1>4, <1>5 DEF CountInv

\* The recording that streams has begun, and its last frame is still to be cut.
LEMMA PresentIn ==
    ASSUME TypeInv, LengthInv, InOrder, streaming # None
    PROVE  /\ Len(segs) \in Nat \ {0} /\ Len(segs) \in 1..Len(segs) /\ fnum \in Nat
           /\ \A g \in InFlight : g.seg = Len(segs) => ~g.final
<1>1. segs \in Seq(Segs) /\ Len(segs) \in Nat /\ fnum \in Nat
  BY DEF TypeInv, TypeOK
<1>2. Len(segs) > 0
  BY DEF LengthInv, PresentIs
<1> QED BY <1>1, <1>2 DEF InOrder, PresentSent

LEMMA CountProcess ==
    ASSUME TypeInv, LengthInv, InOrder, CountInv,
           NEW idx \in Intervals, NEW n \in BlockSizes, NEW playing \in BOOLEAN, Process(idx, n, playing)
    PROVE  CountInv'
<1> DEFINE uu == Append(segs, NewSeg(idx, n))
<1>1. PICK L \in Nat : L = Len(segs)
  <2>1. segs \in Seq(Segs)
    BY DEF TypeInv
  <2> QED BY <2>1
<1>2. PICK m \in Nat : m = fnum
  BY DEF TypeInv, TypeOK
<1>3. n \in Nat /\ NewSeg(idx, n) \in Segs /\ NewSeg(idx, n).index = idx /\ NewSeg(idx, n).lost = 0 /\ segs \in Seq(Segs)
  <2>1. n \in Nat /\ segs \in Seq(Segs)
    BY SendAssumption DEF TypeInv
  <2> QED BY <2>1 DEF NewSeg, Segs
<1>4. /\ uu \in Seq(Segs) /\ Len(uu) = L + 1 /\ \A k \in 1..L : uu[k] = segs[k]
      /\ uu[L + 1].index = idx /\ uu[L + 1].lost = 0 /\ Grow(segs, uu)
  BY <1>1, <1>3, AddedGrows
<1>5. /\ Between /\ streaming' = idx /\ UNCHANGED <<pending, result>>
      /\ \A g \in InFlight : g \in Frames /\ g.seg \in Nat /\ g.seg <= L
  <2>1. \A g \in InFlight : g \in Frames /\ g.seg \in 1..L
    BY <1>1 DEF InFlight, LengthInv, AllSound, Sound
  <2>2. Between /\ streaming' = idx /\ UNCHANGED <<pending, result>>
    BY ProcessIs DEF rcvVars
  <2>3. \A g \in InFlight : g \in Frames /\ g.seg \in Nat /\ g.seg <= L
    BY <2>1
  <2> QED BY <2>2, <2>3
<1>6. UNCHANGED chan => InFlight' = InFlight /\ \A j : OnTheWay(j)' = OnTheWay(j)
  BY DEF InFlight, OnTheWay
<1> HIDE DEF uu
\* A recording begins.
<1>7. ASSUME Len(segs') = L + 1, \A k \in 1..L : segs'[k].index = segs[k].index,
             segs'[L + 1].index = idx, segs'[L + 1].lost = 0, fnum' = 0,
             \A g \in InFlight' : g \in InFlight \/ g.seg = L
      PROVE  PresentExact'
  <2>1. PICK j \in Nat : j = L + 1
    OBVIOUS
  <2>2. \A g \in InFlight' : g.seg # j
    BY <1>5, <1>7, <2>1
  <2>3. Only(j)' => Exact(j, 0)'
    BY <1>1, <1>5, <1>7, <2>1, <2>2, FreshExact
  <2> QED BY <1>7, <2>1, <2>3, PresentNext
<1>8. CASE UNCHANGED chan /\ segs' = uu /\ fnum' = 0
  <2>1. PresentExact'
    BY <1>4, <1>6, <1>7, <1>8
  <2>2. FreshEmpty' /\ ResultDone' /\ EndedExact'
    <3>1. \A j \in 1..(Len(segs) - 1) : segs'[j].lost = segs[j].lost /\ OnTheWay(j)' = OnTheWay(j)
      BY <1>1, <1>4, <1>6, <1>8
    <3> HIDE DEF OnTheWay, Only, Exact
    <3>2. /\ FreshEmpty' /\ ResultDone'
          /\ \A g \in InFlight : g.final /\ Only(g.seg)' => Exact(g.seg, g.number)'
      BY <1>4, <1>5, <1>6, <1>8, <3>1, EndedStay
    <3> QED BY <1>6, <1>8, <3>2 DEF EndedExact
  <2> QED BY <2>1, <2>2 DEF CountInv
<1>9. CASE UNCHANGED chan /\ streaming # None /\ segs' = Fed(segs, n) /\ fnum' = fnum
  <2>1. Grow(segs, segs') /\ Len(segs') = L
        /\ \A k \in 1..L : segs'[k].index = segs[k].index /\ segs'[k].lost = segs[k].lost
    <3>1. Grow(segs, segs')
      BY <1>3, <1>9, FedGrows
    <3>2. /\ Len(segs') = Len(segs) /\ DOMAIN segs = 1..Len(segs)
          /\ \A k \in DOMAIN segs : segs'[k].index = segs[k].index /\ segs'[k].lost = segs[k].lost
      BY <1>3, <1>9, FedKeeps
    <3> QED BY <1>1, <3>1, <3>2
  <2>2. L \in 1..L
    BY <1>1, <1>9, PresentIn
  <2>3. Only(L)' => Exact(L, m)'
    <3>1. SUFFICES ASSUME Only(L)' PROVE Exact(L, m)'
      OBVIOUS
    <3>2. Only(L)
      BY <1>1, <2>1, <2>2, <3>1, OnlyStays
    <3>3. Exact(L, m)
      BY <1>1, <1>2, <1>9, <3>2, PresentNow DEF CountInv
    <3> HIDE DEF OnTheWay, Exact
    <3> QED BY <1>5, <1>6, <1>9, <2>1, <2>2, <3>3, ExactStays
  <2>4. PresentExact'
    BY <1>2, <1>9, <2>1, <2>3, PresentNext
  <2>5. FreshEmpty' /\ ResultDone' /\ EndedExact'
    <3>1. \A j \in 1..(Len(segs) - 1) : segs'[j].lost = segs[j].lost /\ OnTheWay(j)' = OnTheWay(j)
      BY <1>1, <1>6, <1>9, <2>1
    <3> HIDE DEF OnTheWay, Only, Exact
    <3>2. /\ FreshEmpty' /\ ResultDone'
          /\ \A g \in InFlight : g.final /\ Only(g.seg)' => Exact(g.seg, g.number)'
      BY <1>5, <1>6, <1>9, <2>1, <3>1, EndedStay
    <3> QED BY <1>6, <1>9, <3>2 DEF EndedExact
  <2> QED BY <2>4, <2>5 DEF CountInv
<1>10. CASE streaming # None /\ fnum' = 0 /\ Offer(Frame(streaming, fbuf, TRUE, TotalFrames), uu)
  <2> DEFINE f == Frame(streaming, fbuf, TRUE, TotalFrames)
  <2>1. TotalFrames \in Nat /\ fbuf \in 0..Full
    <3>1. fbuf \in Nat
      BY DEF TypeInv, TypeOK
    <3> QED BY <1>2, <1>5, <3>1, Limits DEF TotalFrames, Between
  <2>2. f \in Frames /\ f.seg = L /\ f.number = m /\ f.final
    BY <1>1, <1>2, <1>10, <2>1, FrameTypes DEF Frame
  <2>3. Offer(f, uu)
    BY <1>10
  <2> HIDE DEF f
  <2>4. L \in 1..L
    BY <1>1, <1>10, PresentIn
  <2>5. \/ InFlight' = InFlight \cup {f} /\ segs' = uu
        \/ InFlight' = InFlight /\ segs' = Lost(uu, L)
    BY <2>2, <2>3, OfferFlight
  <2>6. /\ Len(segs') = L + 1 /\ \A k \in 1..(L + 1) : segs'[k].index = uu[k].index
        /\ \A k \in 1..(L + 1) : segs'[k].lost = IF k = L /\ InFlight' = InFlight /\ segs' # uu
                                                   THEN uu[k].lost + 1 ELSE uu[k].lost
        /\ Grow(segs, segs')
    <3>1. DOMAIN uu = 1..(L + 1)
      BY <1>4
    <3>2. CASE segs' = uu
      BY <1>4, <3>2
    <3>3. CASE segs' = Lost(uu, L) /\ InFlight' = InFlight
      <4>1. /\ Len(segs') = L + 1
            /\ \A k \in 1..(L + 1) : /\ segs'[k].index = uu[k].index /\ segs'[k].captured = uu[k].captured
                                     /\ segs'[k].lost = IF k = L THEN uu[k].lost + 1 ELSE uu[k].lost
        BY <1>4, <3>1, <3>3, LostKeeps
      <4>2. Grow(segs, segs')
        BY <1>1, <1>4, <4>1 DEF Grow
      <4>3. segs' # uu
        <5>1. uu[L] \in Segs /\ L \in 1..(L + 1)
          BY <1>4, <2>4
        <5>2. uu[L].lost \in Nat
          BY <5>1 DEF Segs
        <5> QED BY <4>1, <5>1, <5>2
      <4> QED BY <3>3, <4>1, <4>2, <4>3
    <3> QED BY <2>5, <3>2, <3>3
  <2>7. \A g \in InFlight' : g \in InFlight \/ g.seg = L
    BY <2>2, <2>5
  <2>8. \A k \in 1..L : k \in 1..(L + 1) /\ segs'[k].index = segs[k].index
    BY <1>4, <2>6
  <2>9. PresentExact'
    <3>1. L + 1 \in 1..(L + 1) /\ L + 1 # L
      OBVIOUS
    <3> QED BY <1>4, <1>7, <1>10, <2>6, <2>7, <2>8, <3>1
  <2>10. \A j : OnTheWay(j)' = OnTheWay(j)
    <3>1. CASE InFlight' = InFlight
      BY <3>1 DEF OnTheWay
    <3>2. CASE InFlight' = InFlight \cup {f}
      BY <2>2, <3>2, OnTheWayOffered
    <3> QED BY <2>5, <3>1, <3>2
  <2> HIDE DEF OnTheWay, Only, Exact
  <2>11. \A j \in 1..(Len(segs) - 1) : segs'[j].lost = segs[j].lost /\ OnTheWay(j)' = OnTheWay(j)
    <3>1. \A j \in 1..(L - 1) : j \in 1..L /\ j \in 1..(L + 1) /\ j # L
      OBVIOUS
    <3> QED BY <1>1, <1>4, <2>6, <2>10, <3>1
  <2>12. /\ FreshEmpty' /\ ResultDone'
         /\ \A g \in InFlight : g.final /\ Only(g.seg)' => Exact(g.seg, g.number)'
    BY <1>1, <1>5, <2>6, <2>7, <2>11, EndedStay
  <2>13. ASSUME NEW g \in InFlight', g \notin InFlight, Only(g.seg)' PROVE Exact(g.seg, g.number)'
    <3>1. g = f /\ segs' = uu
      BY <2>5, <2>13
    <3>2. Only(L)'
      BY <2>2, <2>13, <3>1
    <3>3. Only(L)
      BY <1>1, <2>4, <2>6, <3>2, OnlyStays
    <3>4. Exact(L, m)
      BY <1>1, <1>2, <1>10, <3>3, PresentNow DEF CountInv
    <3>5. segs'[L].lost = segs[L].lost
      BY <1>4, <2>4, <3>1
    <3>6. Exact(L, m)'
      BY <1>5, <2>4, <2>8, <2>10, <3>4, <3>5, ExactStays
    <3> QED BY <2>2, <3>1, <3>6
  <2>14. EndedExact'
    BY <2>12, <2>13 DEF EndedExact
  <2> QED BY <2>9, <2>12, <2>14 DEF CountInv
<1> QED BY <1>8, <1>9, <1>10, ProcessIs DEF uu

LEMMA CountDispatch ==
    ASSUME TypeInv, LengthInv, InOrder, CountInv, Dispatch
    PROVE  CountInv'
<1> DEFINE f == Frame(streaming, Full, FALSE, 0)
<1>1. PICK L \in Nat : L = Len(segs)
  <2>1. segs \in Seq(Segs)
    BY DEF TypeInv
  <2> QED BY <2>1
<1>2. PICK m \in Nat : m = fnum
  BY DEF TypeInv, TypeOK
<1>3. /\ streaming # None /\ Offer(f, segs) /\ fnum' = fnum + 1 /\ UNCHANGED <<streaming, pending, result>>
      /\ segs \in Seq(Segs)
  <2>1. fbuf >= Full /\ Full > 0 /\ fbuf \in Nat /\ segs \in Seq(Segs)
    BY Limits DEF Dispatch, TypeInv, TypeOK
  <2>2. streaming # None
    BY <2>1, Limits DEF TypeInv
  <2> QED BY <2>1, <2>2 DEF Dispatch, rcvVars
<1>4. f \in Frames /\ f.seg = L /\ f.number = m /\ ~f.final
  <2>1. Full \in 0..Full /\ 0 \in Nat
    BY Limits
  <2> QED BY <1>1, <1>2, <1>3, <2>1, FrameTypes DEF Frame
<1> HIDE DEF f
<1>5. L \in 1..L
  BY <1>1, <1>3, PresentIn
<1>6. \/ InFlight' = InFlight \cup {f} /\ segs' = segs
      \/ InFlight' = InFlight /\ segs' = Lost(segs, L)
  BY <1>3, <1>4, OfferFlight
<1>7. /\ Grow(segs, segs') /\ Len(segs') = L
      /\ \A k \in 1..L : segs'[k].index = segs[k].index /\ (k # L => segs'[k].lost = segs[k].lost)
  <2>1. CASE segs' = segs
    BY <1>1, <2>1 DEF Grow
  <2>2. CASE segs' = Lost(segs, L)
    BY <1>1, <1>3, <2>2, LostGrows, LostKeeps
  <2> QED BY <1>6, <2>1, <2>2
<1>8. \A g \in InFlight' : g \in InFlight \/ (g.seg = L /\ ~g.final)
  BY <1>4, <1>6
<1>9. \A j : j # L => OnTheWay(j)' = OnTheWay(j)
  <2>1. CASE InFlight' = InFlight
    BY <2>1 DEF OnTheWay
  <2>2. CASE InFlight' = InFlight \cup {f}
    BY <1>4, <2>2, OnTheWayOffered
  <2> QED BY <1>6, <2>1, <2>2
<1>10. ASSUME Only(L)', m + 1 <= MaxFrames PROVE Parts(OnTheWay(L)', Arrived(L)', segs'[L].lost, m + 1)
  <2>1. Only(L)
    BY <1>1, <1>5, <1>7, <1>10, OnlyStays
  <2>2. Exact(L, m)
    BY <1>1, <1>2, <1>3, <2>1, PresentNow DEF CountInv
  <2>3. segs[L].lost \in Int
    BY <1>1, <1>5, LostNumbers
  <2>4. Parts(OnTheWay(L), Arrived(L), segs[L].lost, m)
    BY <1>2, <1>10, <2>2, Limits DEF Exact
  <2>5. Arrived(L)' = Arrived(L)
    BY <1>3, <1>5, <1>7 DEF Arrived
  <2>6. CASE InFlight' = InFlight \cup {f} /\ segs' = segs
    <3>1. OnTheWay(L)' = OnTheWay(L) \cup {m}
      BY <1>4, <2>6, OnTheWayOffered
    <3> HIDE DEF OnTheWay, Arrived
    <3>2. Parts(OnTheWay(L) \cup {m}, Arrived(L), segs[L].lost, m + 1)
      BY <2>3, <2>4, PartsCut
    <3> QED BY <2>5, <2>6, <3>1, <3>2
  <2>7. CASE InFlight' = InFlight /\ segs' = Lost(segs, L)
    <3>1. OnTheWay(L)' = OnTheWay(L)
      BY <2>7 DEF OnTheWay
    <3>2. segs'[L].lost = segs[L].lost + 1
      BY <1>1, <1>3, <1>5, <2>7, LostKeeps
    <3> HIDE DEF OnTheWay, Arrived
    <3>3. Parts(OnTheWay(L), Arrived(L), segs[L].lost + 1, m + 1)
      BY <2>3, <2>4, PartsCut
    <3> QED BY <2>5, <3>1, <3>2, <3>3
  <2> QED BY <1>6, <2>6, <2>7
<1> HIDE DEF OnTheWay, Only
<1>11. PresentExact'
  <2>1. PICK j \in Nat : j = m + 1
    OBVIOUS
  <2>2. Only(L)' => Exact(L, j)'
    BY <1>10, <2>1 DEF Exact
  <2> QED BY <1>2, <1>3, <1>7, <2>1, <2>2, PresentNext
<1> HIDE DEF Exact
<1>12. \A j \in 1..(Len(segs) - 1) : segs'[j].lost = segs[j].lost /\ OnTheWay(j)' = OnTheWay(j)
  <2>1. \A j \in 1..(L - 1) : j \in 1..L /\ j # L
    OBVIOUS
  <2> QED BY <1>1, <1>7, <1>9, <2>1
<1>13. /\ FreshEmpty' /\ ResultDone'
       /\ \A g \in InFlight : g.final /\ Only(g.seg)' => Exact(g.seg, g.number)'
  BY <1>1, <1>3, <1>7, <1>8, <1>12, EndedStay
<1>14. EndedExact'
  BY <1>8, <1>13 DEF EndedExact
<1> QED BY <1>11, <1>13, <1>14 DEF CountInv

LEMMA CountWriteLost ==
    ASSUME TypeInv, LengthInv, InOrder, CountInv, NEW t \in Threads, WriteLost(t)
    PROVE  CountInv'
<1> DEFINE f == Head(chan[t])
<1>1. PICK L \in Nat : L = Len(segs)
  <2>1. segs \in Seq(Segs)
    BY DEF TypeInv
  <2> QED BY <2>1
<1>2. PICK m \in Nat : m = fnum
  BY DEF TypeInv, TypeOK
<1>3. /\ chan[t] # <<>> /\ chan' = [chan EXCEPT ![t] = Tail(@)] /\ segs' = Lost(segs, f.seg)
      /\ UNCHANGED <<now, streaming, fnum, pending, result>> /\ segs \in Seq(Segs)
  BY DEF WriteLost, Received, cutVars, rcvVars, TypeInv
<1>4. f \in InFlight
  BY <1>3, PopFlight
<1>5. InFlight' = InFlight \ {f} /\ (f.final => \A g \in InFlight' : g.seg # f.seg)
  BY <1>3, PopInOrder
<1> HIDE DEF f
<1>6. /\ Grow(segs, segs') /\ Len(segs') = L
      /\ \A k \in 1..L : segs'[k].index = segs[k].index /\ (k # f.seg => segs'[k].lost = segs[k].lost)
  BY <1>1, <1>3, LostGrows, LostKeeps
<1>7. \A g \in InFlight : g.seg \in 1..L /\ g.number \in Nat
  BY <1>1, FrameFields DEF InFlight, LengthInv, AllSound, Sound
<1> HIDE DEF Exact, Only
<1>8. PresentExact'
  <2>1. CASE streaming = None
    BY <1>3, <2>1 DEF PresentExact
  <2>2. CASE streaming # None
    <3>1. L \in 1..L /\ ~(f.final /\ f.seg = L)
      BY <1>1, <1>4, <2>2, PresentIn
    <3>2. ASSUME Only(L)' PROVE Exact(L, m)'
      <4>1. Only(L)
        BY <1>1, <1>6, <3>1, <3>2, OnlyStays
      <4>2. Exact(L, m)
        BY <1>1, <1>2, <2>2, <4>1, PresentNow DEF CountInv
      <4> QED BY <1>1, <1>3, <1>4, <1>5, <3>1, <4>2, ExactLoses
    <3> QED BY <1>2, <1>3, <1>6, <3>2, PresentNext
  <2> QED BY <2>1, <2>2
<1>9. EndedExact'
  <2> SUFFICES ASSUME NEW g \in InFlight', g.final, Only(g.seg)' PROVE Exact(g.seg, g.number)'
    BY DEF EndedExact
  <2>1. g \in InFlight /\ ~(f.final /\ f.seg = g.seg) /\ g.seg \in 1..Len(segs) /\ g.number \in Nat
    BY <1>1, <1>5, <1>7
  <2>2. Only(g.seg)
    BY <1>6, <2>1, OnlyStays
  <2>3. Exact(g.seg, g.number)
    BY <2>1, <2>2 DEF CountInv, EndedExact
  <2> QED BY <1>3, <1>4, <1>5, <2>1, <2>3, ExactLoses
<1>10. FreshEmpty'
  <2>1. \A j \in 1..Len(segs) : j \in 1..Len(segs') /\ segs'[j].index = segs[j].index
    BY <1>1, <1>6
  <2> QED BY <1>3, <2>1 DEF CountInv, FreshEmpty, NoFrames
<1>11. ResultDone'
  <2> DEFINE r == result.seg
  <2>1. SUFFICES ASSUME r # 0 PROVE (\A g \in InFlight' : g.seg # r) /\ (Only(r)' => FramesReceivedExact')
    BY <1>3 DEF ResultDone
  <2>2. \A g \in InFlight : g.seg # r
    BY <2>1 DEF CountInv, ResultDone
  <2>3. PICK j \in 1..L : j = result.seg
    BY <1>1, <2>1 DEF LengthInv, ResultOld
  <2>4. ASSUME Only(j)' PROVE FramesReceivedExact'
    <3>1. Only(j)
      BY <1>1, <1>6, <2>3, <2>4, OnlyStays
    <3>2. FramesReceivedExact
      BY <2>1, <2>3, <3>1 DEF CountInv, ResultDone
    <3>3. segs'[j].lost = segs[j].lost
      BY <1>4, <1>6, <2>2, <2>3
    <3> QED BY <1>3, <2>3, <3>2, <3>3 DEF FramesReceivedExact
  <2> QED BY <1>3, <1>5, <2>2, <2>3, <2>4
<1> QED BY <1>8, <1>9, <1>10, <1>11 DEF CountInv

LEMMA ResultSeg ==
    ASSUME NEW f, NEW p, f.final, ~(f.number >= MaxFrames), Insert(f, p)
    PROVE  result'.seg = f.seg
BY DEF Insert, Assembled

LEMMA ResultNow ==
    ASSUME UNCHANGED segs, NEW r, result'.seg = r,
           r # 0 => (\A g \in InFlight' : g.seg # r) /\ (Only(r) => FramesReceivedExact')
    PROVE  ResultDone'
<1>1. Only(r)' <=> Only(r)
  BY DEF Only
<1> HIDE DEF FramesReceivedExact, Only
<1> QED BY <1>1 DEF ResultDone

LEMMA CountWrite ==
    ASSUME TypeInv, LengthInv, InOrder, CountInv, NEW t \in Threads, Write(t)
    PROVE  CountInv'
<1> DEFINE f == Head(chan[t])
<1>1. PICK L \in Nat : L = Len(segs)
  <2>1. segs \in Seq(Segs)
    BY DEF TypeInv
  <2> QED BY <2>1
<1>2. PICK m \in Nat : m = fnum
  BY DEF TypeInv, TypeOK
<1>3. /\ chan[t] # <<>> /\ chan' = [chan EXCEPT ![t] = Tail(@)]
      /\ Insert(f, EncodedLen(f.len)) \/ Insert(f, 0)
      /\ UNCHANGED <<now, streaming, fnum, segs>>
  BY DEF Write, Received, cutVars
<1>4. f \in InFlight
  BY <1>3, PopFlight
<1>5. InFlight' = InFlight \ {f} /\ (f.final => \A g \in InFlight' : g.seg # f.seg)
  BY <1>3, PopInOrder
<1> HIDE DEF f
<1>6. /\ f \in Frames /\ f.index \in Intervals /\ f.number \in Nat /\ f.seg \in 1..L /\ segs[f.seg].index = f.index
      /\ MaxFrames \in Nat
  BY <1>1, <1>4, FrameFields, Limits DEF InFlight, LengthInv, AllSound, Sound
<1>7. PICK p \in 0..Full : Insert(f, p)
  <2>1. f.len \in 0..Full /\ Full \in Nat
    BY <1>6, FrameFields, Limits
  <2>2. EncodedLen(f.len) \in 0..Full /\ 0 \in 0..Full
    BY <2>1, EncodedIs
  <2> QED BY <1>3, <2>2
<1>8. \A g \in InFlight : g.seg \in 1..L /\ g.number \in Nat
  BY <1>1, FrameFields DEF InFlight, LengthInv, AllSound, Sound
<1>9. \A j : Only(j)' <=> Only(j)
  BY <1>3 DEF Only
<1> HIDE DEF Exact, Only
<1>10. PresentExact'
  <2>1. CASE streaming = None
    BY <1>3, <2>1 DEF PresentExact
  <2>2. CASE streaming # None
    <3>1. L \in 1..L /\ ~(f.final /\ f.seg = L)
      BY <1>1, <1>4, <2>2, PresentIn
    <3>2. ASSUME Only(L)' PROVE Exact(L, m)'
      <4>1. Only(L)
        BY <1>9, <3>2
      <4>2. Exact(L, m)
        BY <1>1, <1>2, <2>2, <4>1, PresentNow DEF CountInv
      <4> QED BY <1>1, <1>3, <1>4, <1>5, <1>7, <3>1, <4>1, <4>2, ExactArrives
    <3>3. Len(segs') = L /\ fnum' = m
      BY <1>1, <1>2, <1>3
    <3> QED BY <3>2, <3>3, PresentNext
  <2> QED BY <2>1, <2>2
<1>11. EndedExact'
  <2> SUFFICES ASSUME NEW g \in InFlight', g.final, Only(g.seg)' PROVE Exact(g.seg, g.number)'
    BY DEF EndedExact
  <2>1. g \in InFlight /\ ~(f.final /\ f.seg = g.seg) /\ g.seg \in 1..Len(segs) /\ g.number \in Nat
    BY <1>1, <1>5, <1>8
  <2>2. Only(g.seg)
    BY <1>9
  <2>3. Exact(g.seg, g.number)
    BY <2>1, <2>2 DEF CountInv, EndedExact
  <2> QED BY <1>3, <1>4, <1>5, <1>7, <2>1, <2>2, <2>3, ExactArrives
<1>12. FreshEmpty'
  <2> SUFFICES ASSUME NEW k \in Intervals, \A j \in 1..Len(segs') : segs'[j].index # k PROVE pending'[k] = NoFrames
    BY DEF FreshEmpty, NoFrames
  <2>1. \A j \in 1..L : segs[j].index # k
    BY <1>1, <1>3
  <2>2. pending[k] = NoFrames /\ k # f.index
    BY <1>1, <1>6, <2>1 DEF CountInv, FreshEmpty
  <2> QED BY <1>6, <1>7, <2>2, InsertIs
<1>13. ResultDone'
  <2>1. CASE f.final /\ f.number < MaxFrames
    <3>1. result'.seg = f.seg
      BY <1>6, <1>7, <2>1, ResultSeg
    <3>2. Only(f.seg) => FramesReceivedExact'
      <4>1. SUFFICES ASSUME Only(f.seg) PROVE FramesReceivedExact'
        OBVIOUS
      <4>2. Exact(f.seg, f.number)
        BY <1>4, <2>1, <4>1 DEF CountInv, EndedExact
      <4>3. \A g \in InFlight \ {f} : g.seg # f.seg
        BY <1>5, <2>1
      <4> QED BY <1>3, <1>4, <1>7, <2>1, <4>2, <4>3, ResultExact
    <3> QED BY <1>5, <2>1, <3>1, <3>2, ResultNow, <1>3
  <2>2. CASE ~(f.final /\ f.number < MaxFrames)
    <3>1. UNCHANGED result
      BY <1>6, <1>7, <2>2, InsertIs
    <3>2. PICK r : r = result.seg
      OBVIOUS
    <3>3. r # 0 => (\A g \in InFlight : g.seg # r) /\ (Only(r) => FramesReceivedExact)
      BY <3>2 DEF CountInv, ResultDone
    <3>4. FramesReceivedExact => FramesReceivedExact'
      BY <1>3, <3>1 DEF FramesReceivedExact
    <3> HIDE DEF FramesReceivedExact
    <3> QED BY <1>3, <1>5, <3>1, <3>2, <3>3, <3>4, ResultNow
  <2> QED BY <2>1, <2>2
<1> QED BY <1>10, <1>11, <1>12, <1>13 DEF CountInv

\* Every step keeps the counts.
LEMMA CountStep == TypeInv /\ LengthInv /\ InOrder /\ CountInv /\ [Next]_vars => CountInv'
<1> SUFFICES ASSUME TypeInv, LengthInv, InOrder, CountInv, [Next]_vars PROVE CountInv'
  OBVIOUS
<1>1. ASSUME NEW idx \in Intervals, NEW n \in BlockSizes, NEW playing \in BOOLEAN, Process(idx, n, playing)
      PROVE  CountInv'
  BY <1>1, CountProcess
<1>2. CASE Dispatch
  BY <1>2, CountDispatch
<1>3. CASE Reset
  BY <1>3, CountStays DEF Reset, ipcVars, rcvVars
<1>4. CASE Initialize
  BY <1>4, CountStays DEF Initialize, rcvVars
<1>5. ASSUME NEW t \in Threads, Thread(t) PROVE CountInv'
  <2>1. CASE Write(t)
    BY <2>1, CountWrite
  <2>2. CASE WriteLost(t)
    BY <2>2, CountWriteLost
  <2>3. CASE Connect(t) \/ Ends(t)
    BY <2>3, CountStays DEF Connect, Ends, cutVars, rcvVars
  <2> QED BY <1>5, <2>1, <2>2, <2>3 DEF Thread
<1>6. CASE AppStops \/ AppStarts
  BY <1>6, CountStays DEF AppStops, AppStarts, cutVars, ipcVars, rcvVars
<1>7. CASE UNCHANGED vars
  BY <1>7, CountStays DEF vars, cutVars, ipcVars, rcvVars
<1> QED BY <1>1, <1>2, <1>3, <1>4, <1>5, <1>6, <1>7 DEF Next

(***************************************************************************)
(* What an assembled interval lacks is what was lost of it, if the         *)
(* interval was recorded once: no frame is lost, counted twice or taken    *)
(* for another's between process, the channels of the threads of           *)
(* wail-plugin-send/src/lib.rs and insert of frame_assembler.rs.           *)
(***************************************************************************)
THEOREM CountsAlwaysOnce == Spec => []CountsOnce
<1> DEFINE IInv == TypeInv /\ LengthInv /\ InOrder /\ CountInv
<1>1. Init => IInv
  BY TypeInit, LengthInit, OrderInit, CountInit
<1>2. IInv /\ [Next]_vars => IInv'
  BY TypeStep, LengthStep, OrderStep, CountStep
<1>3. IInv => CountsOnce
  BY DEF CountInv, ResultDone, CountsOnce, Only
<1> HIDE DEF IInv
<1> QED BY <1>1, <1>2, <1>3, PTL DEF Spec


----------------------------------------------------------------------------
(* Integers as bytes *)

\* A byte and what is left make the number.
LEMMA DivBase ==
    ASSUME NEW n \in Int
    PROVE  /\ n \div Base \in Int /\ n % Base \in 0..(Base - 1)
           /\ n = (n % Base) + Base * (n \div Base)
           /\ n \in Nat => n \div Base \in Nat
BY DEF Base

LEMMA DivComplement ==
    ASSUME NEW n \in Int
    PROVE  /\ (-1 - n) \div Base = -1 - (n \div Base)
           /\ (-1 - n) % Base = Base - 1 - (n % Base)
BY DEF Base

\* f is the function Left(n, w) defines.
Lefts(f, n, w) == f = [k \in 0..w |-> IF k = 0 THEN n ELSE f[k - 1] \div Base]

LEMMA LeftExists ==
    ASSUME NEW w \in Nat
    PROVE  \A n \in Int : \E f \in [0..w -> Int] : Lefts(f, n, w)
<1> DEFINE Some(v) == \A n \in Int : \E f \in [0..v -> Int] : Lefts(f, n, v)
           S == {v \in Nat : Some(v)}
<1>1. 0 \in S
  <2> SUFFICES ASSUME NEW n \in Int PROVE \E f \in [0..0 -> Int] : Lefts(f, n, 0)
    OBVIOUS
  <2> DEFINE f == [k \in 0..0 |-> n]
  <2>1. \A k \in 0..0 : k = 0
    OBVIOUS
  <2>2. f = [k \in 0..0 |-> IF k = 0 THEN n ELSE f[k - 1] \div Base]
    BY <2>1
  <2>3. f \in [0..0 -> Int]
    OBVIOUS
  <2> HIDE DEF f
  <2> QED BY <2>2, <2>3 DEF Lefts
<1>2. ASSUME NEW v \in Nat, v \in S PROVE v + 1 \in S
  <2>0. Some(v)
    BY <1>2
  <2> SUFFICES ASSUME NEW n \in Int PROVE \E f \in [0..(v + 1) -> Int] : Lefts(f, n, v + 1)
    <3>1. Some(v + 1)
      OBVIOUS
    <3> HIDE DEF Some
    <3> QED BY <3>1
  <2>1. PICK f \in [0..v -> Int] : Lefts(f, n, v)
    BY <2>0
  <2> DEFINE g == [k \in 0..(v + 1) |-> IF k <= v THEN f[k] ELSE f[v] \div Base]
  <2>2. ASSUME NEW k \in 0..(v + 1)
        PROVE  g[k] \in Int /\ g[k] = IF k = 0 THEN n ELSE g[k - 1] \div Base
    <3>1. f[v] \div Base \in Int /\ v \in 0..v
      BY DivBase
    <3>2. CASE k = 0
      BY <3>2, <2>1 DEF Lefts
    <3>3. CASE k # 0 /\ k <= v
      <4>1. k \in 0..v /\ k - 1 \in 0..v /\ k - 1 <= v
        BY <3>3
      <4>2. f[k] = f[k - 1] \div Base
        BY <2>1, <3>3, <4>1 DEF Lefts
      <4> QED BY <3>3, <4>1, <4>2
    <3>4. CASE k = v + 1
      BY <3>1, <3>4
    <3> QED BY <3>2, <3>3, <3>4
  <2>3. g = [k \in 0..(v + 1) |-> g[k]]
    OBVIOUS
  <2> HIDE DEF g
  <2>4. g \in [0..(v + 1) -> Int]
    BY <2>2, <2>3
  <2>5. Lefts(g, n, v + 1)
    BY <2>2, <2>3 DEF Lefts
  <2> QED BY <2>4, <2>5
<1>3. w \in S
  <2> HIDE DEF S
  <2> QED BY <1>1, <1>2, NatSet
<1> QED BY <1>3

LEMMA LeftIs ==
    ASSUME NEW w \in Nat, NEW n \in Int
    PROVE  /\ Left(n, w)[0] = n
           /\ \A k \in 1..w : Left(n, w)[k] = Left(n, w)[k - 1] \div Base
           /\ Left(n, w) \in [0..w -> Int]
<1> DEFINE left == CHOOSE left : left = [k \in 0..w |-> IF k = 0 THEN n ELSE left[k - 1] \div Base]
<1>1. PICK f \in [0..w -> Int] : Lefts(f, n, w)
  BY LeftExists
<1>2. left = [k \in 0..w |-> IF k = 0 THEN n ELSE left[k - 1] \div Base]
  BY <1>1, Zenon DEF Lefts
<1>3. Left(n, w) = left
  BY DEF Left
<1> HIDE DEF left
<1>4. left[0] = n
  BY <1>2
<1>5. ASSUME NEW k \in 1..w PROVE left[k] = left[k - 1] \div Base
  BY <1>2
<1>6. \A k \in 0..w : left[k] \in Int
  <2> DEFINE S == {k \in Nat : k <= w => left[k] \in Int}
  <2>1. 0 \in S
    BY <1>4
  <2>2. ASSUME NEW k \in Nat, k \in S PROVE k + 1 \in S
    <3> SUFFICES ASSUME k + 1 <= w PROVE left[k + 1] \in Int
      OBVIOUS
    <3>1. k + 1 \in 1..w /\ (k + 1) - 1 = k /\ left[k] \in Int
      BY <2>2
    <3>2. left[k + 1] = left[k] \div Base
      BY <1>5, <3>1
    <3> QED BY <3>1, <3>2, DivBase
  <2>3. \A k \in Nat : k \in S
    <3> HIDE DEF S
    <3> QED BY <2>1, <2>2, NatSet
  <2> QED BY <2>3
<1>7. left \in [0..w -> Int]
  <2>1. left = [k \in 0..w |-> left[k]]
    BY <1>2
  <2> QED BY <1>6, <2>1
<1> QED BY <1>3, <1>4, <1>5, <1>7

----------------------------------------------------------------------------
(* FoldRight *)

LEMMA MinIsFirst ==
    ASSUME NEW e \in Int, NEW s \in SUBSET Int, e \in s, \A y \in s : e <= y
    PROVE  Min(s) = e
<1>1. \A x \in s : (\A y \in s : x <= y) => x = e
  OBVIOUS
<1> QED BY <1>1 DEF Min

\* g computes what FoldRight does, on any set of positions, its least one first.
Folded(g, bs, D) ==
    \A s \in SUBSET D : g[s] = IF s = {} THEN 0 ELSE bs[Min(s)] + Base * g[s \ {Min(s)}]

LEMMA FoldRightExists ==
    ASSUME NEW bs \in Seq(Int)
    PROVE  \E g \in [SUBSET DOMAIN bs -> Int] : Folded(g, bs, DOMAIN bs)
<1> DEFINE N == Len(bs)
           D(k) == (N - k + 1)..N
           Upto(k) == \E g \in [SUBSET D(k) -> Int] : Folded(g, bs, D(k))
           S == {k \in Nat : k <= N => Upto(k)}
<1>0. N \in Nat /\ DOMAIN bs = 1..N /\ \A k \in 1..N : bs[k] \in Int
  OBVIOUS
<1>1. 0 \in S
  <2> DEFINE g == [s \in SUBSET D(0) |-> 0]
  <2>1. \A s \in SUBSET D(0) : s = {}
    BY <1>0
  <2>2. g \in [SUBSET D(0) -> Int] /\ \A s \in SUBSET D(0) : g[s] = 0
    OBVIOUS
  <2>3. Upto(0)
    <3> HIDE DEF g, D
    <3> QED BY <2>1, <2>2 DEF Folded
  <2> QED BY <2>3
<1>2. ASSUME NEW k \in Nat, k \in S PROVE k + 1 \in S
  <2> SUFFICES ASSUME k + 1 <= N PROVE Upto(k + 1)
    <3> HIDE DEF Upto
    <3> QED OBVIOUS
  <2>0. Upto(k)
    <3> HIDE DEF Upto
    <3> QED BY <1>2, <1>0
  <2>1. PICK g \in [SUBSET D(k) -> Int] : Folded(g, bs, D(k))
    BY <2>0
  <2> DEFINE e == N - k
             h == [s \in SUBSET D(k + 1) |-> IF e \in s THEN bs[e] + Base * g[s \ {e}] ELSE g[s]]
  <2>2. e \in 1..N /\ bs[e] \in Int /\ D(k + 1) = {e} \cup D(k) /\ e \notin D(k) /\ D(k + 1) \subseteq Int
        /\ \A y \in D(k + 1) : e <= y
    BY <1>0
  <2> HIDE DEF e, D
  <2>3. ASSUME NEW s \in SUBSET D(k + 1), e \in s
        PROVE  /\ Min(s) = e /\ s \ {e} \in SUBSET D(k) /\ s \ {e} \in SUBSET D(k + 1)
               /\ h[s] = bs[e] + Base * g[s \ {e}] /\ h[s] \in Int
               /\ h[s \ {e}] = g[s \ {e}]
    <3>1. Min(s) = e
      BY <2>2, <2>3, MinIsFirst
    <3>2. s \ {e} \in SUBSET D(k) /\ s \ {e} \in SUBSET D(k + 1)
      BY <2>2
    <3>3. g[s \ {e}] \in Int
      BY <3>2
    <3>4. bs[e] + Base * g[s \ {e}] \in Int
      BY <3>3, <2>2 DEF Base
    <3>5. h[s] = bs[e] + Base * g[s \ {e}]
      BY <2>3
    <3>6. h[s \ {e}] = g[s \ {e}]
      BY <3>2
    <3> QED BY <3>1, <3>2, <3>4, <3>5, <3>6
  <2>4. ASSUME NEW s \in SUBSET D(k + 1), e \notin s
        PROVE  s \in SUBSET D(k) /\ h[s] = g[s] /\ h[s] \in Int
    <3>1. s \in SUBSET D(k)
      BY <2>4, <2>2
    <3> QED BY <2>4, <3>1
  <2>5. h \in [SUBSET D(k + 1) -> Int]
    BY <2>3, <2>4
  <2>6. ASSUME NEW s \in SUBSET D(k + 1)
        PROVE  h[s] = IF s = {} THEN 0 ELSE bs[Min(s)] + Base * h[s \ {Min(s)}]
    <3> HIDE DEF h
    <3>1. CASE e \in s
      BY <3>1, <2>3
    <3>2. CASE e \notin s
      <4>1. s \ {Min(s)} \in SUBSET D(k + 1) /\ e \notin s \ {Min(s)}
        BY <3>2
      <4>2. h[s] = g[s] /\ h[s \ {Min(s)}] = g[s \ {Min(s)}]
        BY <3>2, <2>4, <4>1
      <4> QED BY <4>2, <2>1, <3>2, <2>4 DEF Folded
    <3> QED BY <3>1, <3>2
  <2> HIDE DEF h
  <2> QED BY <2>5, <2>6 DEF Folded
<1>3. \A k \in Nat : k \in S
  <2> HIDE DEF S
  <2> QED BY <1>1, <1>2, NatSet
<1>4. Upto(N)
  <2> HIDE DEF Upto
  <2> QED BY <1>0, <1>3
<1>5. D(N) = DOMAIN bs
  BY <1>0
<1> HIDE DEF D
<1> QED BY <1>4, <1>5

\* What a fold of bytes computes: the number whose remainders they are.
LEMMA UnsignedIs ==
    ASSUME NEW w \in Nat, NEW bs \in Seq(Int), Len(bs) = w, NEW M, \A k \in 0..w : M[k] \in Int,
           M[w] = 0, \A k \in 1..w : M[k - 1] = bs[k] + Base * M[k]
    PROVE  Unsigned(bs) = M[0]
<1> DEFINE D == DOMAIN bs
           iter == CHOOSE iter : iter = [s \in SUBSET D |->
                       IF s = {} THEN 0 ELSE bs[Min(s)] + Base * iter[s \ {Min(s)}]]
<1>0. D = 1..w
  OBVIOUS
<1>1. PICK g \in [SUBSET D -> Int] : Folded(g, bs, D)
  BY FoldRightExists
<1>2. g = [s \in SUBSET D |-> IF s = {} THEN 0 ELSE bs[Min(s)] + Base * g[s \ {Min(s)}]]
  BY <1>1 DEF Folded
<1>3. iter = [s \in SUBSET D |-> IF s = {} THEN 0 ELSE bs[Min(s)] + Base * iter[s \ {Min(s)}]]
  BY <1>2, Zenon
<1>4. Unsigned(bs) = iter[D]
  BY DEF Unsigned, FoldRight, MapThenFoldSet
<1> HIDE DEF iter
<1> DEFINE S == {k \in Nat : k <= w => iter[(w - k + 1)..w] = M[w - k]}
<1>5. 0 \in S
  <2>1. (w - 0 + 1)..w = {} /\ {} \in SUBSET D /\ w - 0 = w
    OBVIOUS
  <2>2. iter[{}] = 0
    BY <1>3
  <2> QED BY <2>1, <2>2
<1>6. ASSUME NEW k \in Nat, k \in S PROVE k + 1 \in S
  <2> SUFFICES ASSUME k + 1 <= w PROVE iter[(w - (k + 1) + 1)..w] = M[w - (k + 1)]
    OBVIOUS
  <2> DEFINE e == w - k
             s == e..w
  <2>1. w - (k + 1) + 1 = e /\ w - (k + 1) = e - 1 /\ e \in 1..w /\ s \ {e} = (w - k + 1)..w
        /\ s \in SUBSET Int /\ e \in s /\ (\A y \in s : e <= y) /\ e \in Int
    OBVIOUS
  <2>2. s \in SUBSET D /\ s # {}
    <3>1. s \subseteq 1..w
      OBVIOUS
    <3> QED BY <1>0, <2>1, <3>1
  <2>3. iter[(w - k + 1)..w] = M[e]
    BY <1>6
  <2> HIDE DEF e, s
  <2>4. Min(s) = e
    BY <2>1, MinIsFirst
  <2>5. iter[s] = bs[e] + Base * iter[s \ {e}]
    BY <1>3, <2>2, <2>4
  <2>6. iter[s \ {e}] = M[e]
    BY <2>1, <2>3
  <2>7. M[e - 1] = bs[e] + Base * M[e]
    BY <2>1
  <2>8. iter[s] = M[e - 1]
    BY <2>5, <2>6, <2>7
  <2> QED BY <2>1, <2>8 DEF s
<1>7. w \in S
  <2> HIDE DEF S
  <2> QED BY <1>5, <1>6, NatSet
<1>8. iter[1..w] = M[0]
  <2>1. w - w + 1 = 1 /\ w - w = 0
    OBVIOUS
  <2> QED BY <1>7, <2>1
<1> QED BY <1>0, <1>4, <1>8

LEMMA BytesAre ==
    ASSUME NEW w \in Nat, NEW n \in Int
    PROVE  /\ Bytes(n, w) \in Seq(Byte) /\ Bytes(n, w) \in Seq(Int) /\ Len(Bytes(n, w)) = w
           /\ \A k \in 1..w : Bytes(n, w)[k] = Left(n, w)[k - 1] % Base
<1> DEFINE L == Left(n, w)
<1>1. \A k \in 1..w : L[k - 1] % Base \in Byte
  <2>1. \A k \in 1..w : L[k - 1] \in Int
    BY LeftIs
  <2> HIDE DEF L
  <2> QED BY <2>1, DivBase DEF Byte
<1>2. Bytes(n, w) = [k \in 1..w |-> L[k - 1] % Base]
  BY DEF Bytes
<1> HIDE DEF L
<1>3. [k \in 1..w |-> L[k - 1] % Base] \in Seq(Byte)
  BY <1>1
<1>4. Byte \subseteq Int
  BY DEF Byte, Base
<1>5. Bytes(n, w) \in Seq(Int)
  BY <1>2, <1>3, <1>4, SeqMonotonic
<1> QED BY <1>2, <1>3, <1>5 DEF L

(***************************************************************************)
(* from_le_bytes gives back what to_le_bytes was given, if it fits.        *)
(***************************************************************************)
LEMMA LeftBytes ==
    ASSUME NEW w \in Nat, NEW n \in Int, Left(n, w)[w] = 0
    PROVE  Unsigned(Bytes(n, w)) = n
<1> DEFINE L == Left(n, w)
           bs == Bytes(n, w)
<1>1. /\ L[0] = n /\ L[w] = 0 /\ \A k \in 0..w : L[k] \in Int
      /\ \A k \in 1..w : L[k] = L[k - 1] \div Base
  BY LeftIs
<1>2. /\ bs \in Seq(Int) /\ Len(bs) = w /\ \A k \in 1..w : bs[k] = L[k - 1] % Base
  BY BytesAre
<1> HIDE DEF L, bs
<1>3. ASSUME NEW k \in 1..w PROVE L[k - 1] = bs[k] + Base * L[k]
  <2>1. k - 1 \in 0..w
    OBVIOUS
  <2>2. L[k - 1] = (L[k - 1] % Base) + Base * (L[k - 1] \div Base)
    BY <1>1, <2>1, DivBase
  <2> QED BY <1>1, <1>2, <2>2
<1>4. Unsigned(bs) = L[0]
  BY <1>1, <1>2, <1>3, UnsignedIs
<1> QED BY <1>1, <1>4 DEF bs

(***************************************************************************)
(* from_le_bytes undoes to_le_bytes for every u16, u32 and u64 that wire.rs *)
(* and ipc.rs write, whatever the number of bytes.                         *)
(***************************************************************************)
THEOREM UnsignedRoundTrip ==
    ASSUME NEW w \in Nat, NEW n \in UInt(w)
    PROVE  Unsigned(Bytes(n, w)) = n
BY LeftBytes DEF UInt

(***************************************************************************)
(* The same for an interval index, an i64 in two's complement: one before  *)
(* interval 0 comes back negative.                                         *)
(***************************************************************************)
THEOREM SignedRoundTrip ==
    ASSUME NEW w \in Nat \ {0}, NEW n \in SInt(w)
    PROVE  Signed(Bytes(n, w)) = n
<1> DEFINE L == Left(n, w)
           bs == Bytes(n, w)
           M == [k \in 0..w |-> -1 - L[k]]
           cs == [k \in DOMAIN bs |-> Base - 1 - bs[k]]
<1>0. n \in Int /\ L[w - 1] \in -128..127 /\ w \in 1..w /\ w - 1 \in 0..w /\ w \in Nat
  BY DEF SInt, Base
<1>1. /\ L[0] = n /\ \A k \in 0..w : L[k] \in Int
      /\ \A k \in 1..w : L[k] = L[k - 1] \div Base
  BY <1>0, LeftIs
<1>2. /\ bs \in Seq(Int) /\ Len(bs) = w /\ \A k \in 1..w : bs[k] = L[k - 1] % Base
  BY <1>0, BytesAre
<1>3. Last(bs) = L[w - 1] % Base /\ L[w] = L[w - 1] \div Base
  BY <1>0, <1>1, <1>2 DEF Last
<1>4. CASE L[w - 1] \in 0..127
  <2>1. L[w - 1] % Base = L[w - 1] /\ L[w - 1] \div Base = 0 /\ Base \div 2 = 128
    BY <1>4 DEF Base
  <2>2. Signed(bs) = Unsigned(bs)
    BY <1>3, <1>4, <2>1 DEF Signed
  <2> QED BY <1>0, <1>3, <2>1, <2>2, LeftBytes
<1>5. CASE L[w - 1] \in -128..(-1)
  <2>1. L[w - 1] % Base = L[w - 1] + 256 /\ L[w - 1] \div Base = -1 /\ Base \div 2 = 128
    BY <1>5 DEF Base
  <2>2. Signed(bs) = -1 - Unsigned(cs)
    BY <1>3, <1>5, <2>1 DEF Signed
  <2>3. cs = [k \in 1..w |-> Base - 1 - bs[k]] /\ cs \in Seq(Int) /\ Len(cs) = w
    BY <1>2 DEF Base
  <2>4. /\ M[0] = -1 - n /\ M[w] = 0 /\ \A k \in 0..w : M[k] = -1 - L[k] /\ M[k] \in Int
    BY <1>0, <1>1, <1>3, <2>1
  <2>5. \A k \in 1..w : cs[k] = Base - 1 - bs[k]
    BY <2>3
  <2> HIDE DEF L, bs, M, cs
  <2>6. ASSUME NEW k \in 1..w PROVE M[k - 1] = cs[k] + Base * M[k]
    <3>1. k - 1 \in 0..w /\ k \in 0..w
      OBVIOUS
    <3>2. L[k - 1] = (L[k - 1] % Base) + Base * (L[k - 1] \div Base) /\ L[k - 1] \in Int
          /\ L[k - 1] % Base \in Int /\ L[k - 1] \div Base \in Int
      BY <1>1, <3>1, DivBase
    <3>3. L[k - 1] = bs[k] + Base * L[k] /\ bs[k] \in Int /\ L[k] \in Int
      BY <1>1, <1>2, <3>2
    <3>4. cs[k] = Base - 1 - bs[k] /\ M[k - 1] = -1 - L[k - 1] /\ M[k] = -1 - L[k]
      BY <2>4, <2>5, <3>1
    <3> QED BY <3>3, <3>4 DEF Base
  <2>7. Unsigned(cs) = M[0]
    BY <1>0, <2>3, <2>4, <2>6, UnsignedIs
  <2>8. Signed(bs) = n
    BY <1>0, <2>2, <2>4, <2>7
  <2> QED BY <2>8 DEF bs
<1> QED BY <1>0, <1>4, <1>5

----------------------------------------------------------------------------
(* Slices *)

LEMMA SliceIs ==
    ASSUME NEW b \in Seq(Int), NEW from \in Nat, NEW n \in Nat, from + n <= Len(b)
    PROVE  /\ Slice(b, from, n) \in Seq(Int) /\ Len(Slice(b, from, n)) = n
           /\ \A k \in 1..n : Slice(b, from, n)[k] = b[from + k]
<1>1. Len(b) \in Nat /\ \A i \in (from + 1)..(from + n) : b[i] \in Int
  OBVIOUS
<1>2. /\ SubSeq(b, from + 1, from + n) \in Seq(Int)
      /\ Len(SubSeq(b, from + 1, from + n)) = IF from + 1 <= from + n THEN (from + n) - (from + 1) + 1 ELSE 0
      /\ \A i \in 1..((from + n) - (from + 1) + 1) : SubSeq(b, from + 1, from + n)[i] = b[(from + 1) + i - 1]
  BY <1>1, SubSeqProperties
<1>3. (from + n) - (from + 1) + 1 = n /\ \A i \in 1..n : (from + 1) + i - 1 = from + i
  OBVIOUS
<1>4. Len(SubSeq(b, from + 1, from + n)) = n
  BY <1>2, <1>3
<1> QED BY <1>2, <1>3, <1>4 DEF Slice

LEMMA SlicesAre ==
    ASSUME NEW b \in Seq(Int)
    PROVE  \A from, n \in Nat :
              from + n <= Len(b) => /\ Slice(b, from, n) \in Seq(Int) /\ Len(Slice(b, from, n)) = n
                                    /\ \A k \in 1..n : Slice(b, from, n)[k] = b[from + k]
BY SliceIs

LEMMA FromIs ==
    ASSUME NEW b \in Seq(Int), NEW from \in Nat, from <= Len(b)
    PROVE  From(b, from) = Slice(b, from, Len(b) - from)
<1>1. from + (Len(b) - from) = Len(b)
  OBVIOUS
<1> QED BY <1>1 DEF From, Slice

\* q begins with p.
Starts(q, p) == Len(p) <= Len(q) /\ \A k \in 1..Len(p) : q[k] = p[k]

LEMMA StartsSlice ==
    ASSUME NEW q \in Seq(Int), NEW p \in Seq(Int), Starts(q, p), NEW from \in Nat, NEW n \in Nat,
           from + n <= Len(p)
    PROVE  Slice(q, from, n) = Slice(p, from, n)
<1>1. /\ Slice(p, from, n) \in Seq(Int) /\ Len(Slice(p, from, n)) = n
      /\ \A k \in 1..n : Slice(p, from, n)[k] = p[from + k]
  BY SliceIs
<1>2. Len(p) <= Len(q) /\ Len(p) \in Nat /\ Len(q) \in Nat
  BY DEF Starts
<1>3. /\ Slice(q, from, n) \in Seq(Int) /\ Len(Slice(q, from, n)) = n
      /\ \A k \in 1..n : Slice(q, from, n)[k] = q[from + k]
  <2>1. from + n <= Len(q)
    BY <1>2
  <2> QED BY <2>1, SliceIs
<1>4. \A k \in 1..n : q[from + k] = p[from + k]
  <2>1. \A k \in 1..n : from + k \in 1..Len(p)
    BY <1>2
  <2> QED BY <2>1 DEF Starts
<1> DEFINE a == Slice(p, from, n)
           b == Slice(q, from, n)
<1>5. a \in Seq(Int) /\ b \in Seq(Int) /\ Len(a) = n /\ Len(b) = n /\ \A k \in 1..n : b[k] = a[k]
  BY <1>1, <1>3, <1>4
<1> HIDE DEF a, b
<1>6. b = a
  BY <1>5, SeqEqual
<1> QED BY <1>6 DEF a, b

LEMMA StartsAll ==
    ASSUME NEW p \in Seq(Int)
    PROVE  Slice(p, 0, Len(p)) = p /\ Starts(p, p)
<1>1. Len(p) \in Nat /\ 0 + Len(p) <= Len(p) /\ 0 \in Nat
  OBVIOUS
<1>2. /\ Slice(p, 0, Len(p)) \in Seq(Int) /\ Len(Slice(p, 0, Len(p))) = Len(p)
      /\ \A k \in 1..Len(p) : Slice(p, 0, Len(p))[k] = p[0 + k]
  BY <1>1, SliceIs
<1>3. \A k \in 1..Len(p) : 0 + k = k
  OBVIOUS
<1> DEFINE a == Slice(p, 0, Len(p))
<1> HIDE DEF a
<1>4. a \in Seq(Int) /\ Len(a) = Len(p) /\ \A k \in 1..Len(p) : a[k] = p[k]
  BY <1>2, <1>3 DEF a
<1>5. a = p
  BY <1>4, SeqEqual
<1> QED BY <1>1, <1>5 DEF a, Starts

LEMMA StartsTrans ==
    ASSUME NEW p \in Seq(Int), NEW q \in Seq(Int), NEW r \in Seq(Int), Starts(q, p), Starts(r, q)
    PROVE  Starts(r, p)
BY DEF Starts

LEMMA Joined ==
    ASSUME NEW x \in Seq(Int), NEW y \in Seq(Int)
    PROVE  /\ x \o y \in Seq(Int) /\ Len(x \o y) = Len(x) + Len(y) /\ Len(x) \in Nat /\ Len(y) \in Nat
           /\ Starts(x \o y, x)
           /\ Slice(x \o y, 0, Len(x)) = x
           /\ Slice(x \o y, Len(x), Len(y)) = y
           /\ From(x \o y, Len(x)) = y
<1> DEFINE z == x \o y
<1>1. /\ z \in Seq(Int) /\ Len(z) = Len(x) + Len(y)
      /\ \A i \in 1..(Len(x) + Len(y)) : z[i] = IF i <= Len(x) THEN x[i] ELSE y[i - Len(x)]
  BY ConcatProperties
<1>2. Len(x) \in Nat /\ Len(y) \in Nat
  OBVIOUS
<1> HIDE DEF z
<1>3. Starts(z, x)
  BY <1>1, <1>2 DEF Starts
<1>4. Slice(z, 0, Len(x)) = x
  <2>1. 0 + Len(x) <= Len(x)
    BY <1>2
  <2>2. Slice(z, 0, Len(x)) = Slice(x, 0, Len(x))
    BY <1>1, <1>2, <1>3, <2>1, StartsSlice
  <2> QED BY <2>2, StartsAll
<1>5. Slice(z, Len(x), Len(y)) = y
  <2>1. /\ Slice(z, Len(x), Len(y)) \in Seq(Int) /\ Len(Slice(z, Len(x), Len(y))) = Len(y)
        /\ \A k \in 1..Len(y) : Slice(z, Len(x), Len(y))[k] = z[Len(x) + k]
    <3>1. Len(x) + Len(y) <= Len(z)
      BY <1>1, <1>2
    <3> QED BY <1>1, <1>2, <3>1, SliceIs
  <2>2. \A k \in 1..Len(y) : z[Len(x) + k] = y[k]
    <3>1. ASSUME NEW k \in 1..Len(y) PROVE z[Len(x) + k] = y[k]
      <4>1. Len(x) + k \in 1..(Len(x) + Len(y)) /\ ~(Len(x) + k <= Len(x)) /\ (Len(x) + k) - Len(x) = k
        BY <1>2
      <4> QED BY <1>1, <4>1
    <3> QED BY <3>1
  <2> DEFINE a == Slice(z, Len(x), Len(y))
  <2> HIDE DEF a
  <2>3. a \in Seq(Int) /\ Len(a) = Len(y) /\ \A k \in 1..Len(y) : a[k] = y[k]
    BY <2>1, <2>2 DEF a
  <2>4. a = y
    BY <2>3, SeqEqual
  <2> QED BY <2>4 DEF a
<1>6. From(z, Len(x)) = y
  <2>1. Len(z) - Len(x) = Len(y) /\ Len(x) <= Len(z)
    BY <1>1, <1>2
  <2>2. From(z, Len(x)) = Slice(z, Len(x), Len(z) - Len(x))
    BY <1>1, <1>2, <2>1, FromIs
  <2> QED BY <1>5, <2>1, <2>2
<1> QED BY <1>1, <1>2, <1>3, <1>4, <1>5, <1>6 DEF z

\* What is cut out of a beginning stays where it is.
LEMMA StillThere ==
    ASSUME NEW x \in Seq(Int), NEW y \in Seq(Int), NEW r \in Seq(Int), Starts(r, x \o y)
    PROVE  Starts(r, x) /\ Slice(r, Len(x), Len(y)) = y
<1>1. /\ x \o y \in Seq(Int) /\ Len(x \o y) = Len(x) + Len(y) /\ Len(x) \in Nat /\ Len(y) \in Nat
      /\ Starts(x \o y, x) /\ Slice(x \o y, Len(x), Len(y)) = y
  BY Joined
<1> DEFINE z == x \o y
<1> HIDE DEF z
<1>2. z \in Seq(Int) /\ Starts(r, z) /\ Starts(z, x) /\ Slice(z, Len(x), Len(y)) = y
      /\ Len(x) + Len(y) <= Len(z) /\ Len(x) \in Nat /\ Len(y) \in Nat
  BY <1>1 DEF z
<1>3. Starts(r, x)
  BY <1>2, StartsTrans
<1>4. Slice(r, Len(x), Len(y)) = Slice(z, Len(x), Len(y))
  BY <1>2, StartsSlice
<1> QED BY <1>2, <1>3, <1>4

LEMMA StartsSlices ==
    ASSUME NEW q \in Seq(Int), NEW p \in Seq(Int), Starts(q, p)
    PROVE  \A from, n \in Nat : from + n <= Len(p) => Slice(q, from, n) = Slice(p, from, n)
BY StartsSlice

\* z is x with y behind it.
Grown(z, x, y) ==
    /\ z \in Seq(Int) /\ Len(z) = Len(x) + Len(y) /\ Starts(z, x)
    /\ Slice(z, 0, Len(x)) = x /\ Slice(z, Len(x), Len(y)) = y /\ From(z, Len(x)) = y

LEMMA Grows ==
    ASSUME NEW x \in Seq(Int), NEW y \in Seq(Int)
    PROVE  Grown(x \o y, x, y)
BY Joined DEF Grown

LEMMA GrowsOn ==
    ASSUME NEW x, NEW y, NEW p, Grown(p, x, y), NEW z \in Seq(Int)
    PROVE  Grown(p \o z, p, z)
BY Grows DEF Grown

LEMMA Assoc ==
    ASSUME NEW s \in Seq(Int), NEW t \in Seq(Int), NEW u \in Seq(Int)
    PROVE  (s \o t) \o u = s \o (t \o u)
BY ConcatAssociative

\* Six parts one behind another, put together from either end.
ToTheLeft(y, n, q, l, o, m) == y \o n \o q \o l \o o \o m
ToTheRight(y, n, q, l, o, m) == y \o (n \o (q \o (l \o (o \o m))))

LEMMA Regroup ==
    ASSUME NEW y \in Seq(Int), NEW n \in Seq(Int), NEW q \in Seq(Int), NEW l \in Seq(Int),
           NEW o \in Seq(Int), NEW m \in Seq(Int)
    PROVE  ToTheLeft(y, n, q, l, o, m) = ToTheRight(y, n, q, l, o, m)
<1> DEFINE F(a, b) == a \o b
<1>1. \A a, b \in Seq(Int) : F(a, b) \in Seq(Int)
  BY ConcatProperties
<1>2. \A a, b, c \in Seq(Int) : F(F(a, b), c) = F(a, F(b, c))
  BY Assoc
<1> HIDE DEF F
<1>3. /\ F(o, m) \in Seq(Int) /\ F(l, F(o, m)) \in Seq(Int) /\ F(q, F(l, F(o, m))) \in Seq(Int)
      /\ F(y, n) \in Seq(Int) /\ F(F(y, n), q) \in Seq(Int) /\ F(F(F(y, n), q), l) \in Seq(Int)
  BY <1>1
<1>4. F(F(F(F(F(y, n), q), l), o), m) = F(F(F(F(y, n), q), l), F(o, m))
  BY <1>2, <1>3
<1>5. F(F(F(F(y, n), q), l), F(o, m)) = F(F(F(y, n), q), F(l, F(o, m)))
  BY <1>2, <1>3
<1>6. F(F(F(y, n), q), F(l, F(o, m))) = F(F(y, n), F(q, F(l, F(o, m))))
  BY <1>2, <1>3
<1>7. F(F(y, n), F(q, F(l, F(o, m)))) = F(y, F(n, F(q, F(l, F(o, m)))))
  BY <1>2, <1>3
<1>8. F(F(F(F(F(y, n), q), l), o), m) = F(y, F(n, F(q, F(l, F(o, m)))))
  BY <1>4, <1>5, <1>6, <1>7
<1> QED BY <1>8 DEF F, ToTheLeft, ToTheRight

----------------------------------------------------------------------------
(* WAIF frames: the fields of a header lie where decode looks for them *)

LEMMA Numbers ==
    ASSUME NEW w \in Nat
    PROVE  /\ \A n \in UInt(w) : n \in Int /\ Unsigned(Bytes(n, w)) = n
           /\ \A n \in SInt(w) : n \in Int
           /\ w > 0 => \A n \in SInt(w) : Signed(Bytes(n, w)) = n
<1>1. \A n \in UInt(w) : n \in Int
  BY DEF UInt
<1>2. \A n \in SInt(w) : n \in Int
  BY DEF SInt
<1> QED BY <1>1, <1>2, UnsignedRoundTrip, SignedRoundTrip

LEMMA ShortFits ==
    ASSUME NEW n \in Nat, n < Base * Base
    PROVE  n \in UInt(2) /\ n % (Base * Base) = n
<1>1. n \in Int /\ Left(n, 2)[0] = n /\ Left(n, 2)[1] = Left(n, 2)[0] \div Base
      /\ Left(n, 2)[2] = Left(n, 2)[1] \div Base
  <2>1. /\ Left(n, 2)[0] = n /\ \A k \in 1..2 : Left(n, 2)[k] = Left(n, 2)[k - 1] \div Base
    <3>1. 2 \in Nat /\ n \in Int
      OBVIOUS
    <3> QED BY <3>1, LeftIs
  <2>2. 1 \in 1..2 /\ 2 \in 1..2 /\ 1 - 1 = 0 /\ 2 - 1 = 1
    OBVIOUS
  <2> QED BY <2>1, <2>2
<1>2. (n \div Base) \div Base = 0
  BY DEF Base
<1>3. n % (Base * Base) = n
  BY DEF Base
<1> QED BY <1>1, <1>2, <1>3 DEF UInt

\* The flags and the metadata of a frame, as encode writes them.
FlagByte(f) == (IF f.channels = 2 THEN 1 ELSE 0) + (IF f.final THEN 2 ELSE 0)
Meta(f) ==
    IF f.final THEN Bytes(f.rate, 4) \o Bytes(f.total, 4) \o Bytes(f.bpm, 8) \o Bytes(f.quantum, 8)
                    \o Bytes(f.bars, 4)
    ELSE <<>>

LEMMA FlagsTell ==
    ASSUME NEW f \in AudioFrames, NEW b, b[5] = FlagByte(f)
    PROVE  FlagFinal(b) = f.final /\ (IF b[5] % 2 = 1 THEN 2 ELSE 1) = f.channels
<1>1. f.channels \in {1, 2} /\ f.final \in BOOLEAN
  BY DEF AudioFrames
<1>2. b[5] \in 0..3 /\ b[5] = (IF f.channels = 2 THEN 1 ELSE 0) + (IF f.final THEN 2 ELSE 0)
  BY <1>1 DEF FlagByte
<1>3. (b[5] % 2 = 1) <=> f.channels = 2
  BY <1>1, <1>2
<1>4. ((b[5] \div 2) % 2 = 1) <=> f.final
  BY <1>1, <1>2
<1>5. FlagFinal(b) <=> f.final
  BY <1>4 DEF FlagFinal
<1>6. FlagFinal(b) \in BOOLEAN
  BY DEF FlagFinal
<1>7. FlagFinal(b) = f.final
  BY <1>1, <1>5, <1>6
<1> QED BY <1>1, <1>3, <1>7

\* What the lemmas need of the fields' types.
FrameTyped(f) ==
    /\ f.index \in Int /\ f.stream \in Int /\ f.number \in Int /\ f.seq \in Int /\ f.rate \in Int
    /\ f.total \in Int /\ f.bpm \in Int /\ f.quantum \in Int /\ f.bars \in Int
    /\ f.opus \in Seq(Int) /\ Len(f.opus) \in Nat /\ Len(f.opus) < Base * Base

LEMMA WaifTypes ==
    ASSUME NEW f \in AudioFrames
    PROVE  FrameTyped(f)
<1>1. /\ f.index \in SInt(8) /\ f.stream \in UInt(2) /\ f.number \in UInt(4) /\ f.seq \in UInt(4)
      /\ f.rate \in UInt(4) /\ f.total \in UInt(4) /\ f.bpm \in UInt(8) /\ f.quantum \in UInt(8)
      /\ f.bars \in UInt(4) /\ f.opus \in Seq(Byte) /\ Len(f.opus) < Base * Base
  BY DEF AudioFrames
<1>2. f.opus \in Seq(Int) /\ Len(f.opus) \in Nat
  <2>1. Byte \subseteq Int
    BY DEF Byte, Base
  <2> DEFINE o == f.opus
  <2>2. o \in Seq(Byte)
    BY <1>1
  <2> HIDE DEF o
  <2>3. o \in Seq(Int)
    BY <2>1, <2>2, SeqMonotonic
  <2>4. Len(o) \in Nat
    BY <2>3
  <2> QED BY <2>3, <2>4 DEF o
<1>3. \A w \in Nat : (\A n \in UInt(w) : n \in Int) /\ (\A n \in SInt(w) : n \in Int)
  BY Numbers
<1>4. 2 \in Nat /\ 4 \in Nat /\ 8 \in Nat
  OBVIOUS
<1> QED BY <1>1, <1>2, <1>3, <1>4 DEF FrameTyped

\* The metadata of a final frame, field by field.
MetaSays(m, f) ==
    /\ m \in Seq(Int) /\ Len(m) = FinalExtra
    /\ Slice(m, 0, 4) = Bytes(f.rate, 4) /\ Slice(m, 4, 4) = Bytes(f.total, 4)
    /\ Slice(m, 8, 8) = Bytes(f.bpm, 8) /\ Slice(m, 16, 8) = Bytes(f.quantum, 8)
    /\ Slice(m, 24, 4) = Bytes(f.bars, 4)

LEMMA MetaIs ==
    ASSUME NEW f, FrameTyped(f), f.final
    PROVE  MetaSays(Meta(f), f)
<1> DEFINE a == Bytes(f.rate, 4)
           b == Bytes(f.total, 4)
           c == Bytes(f.bpm, 8)
           d == Bytes(f.quantum, 8)
           e == Bytes(f.bars, 4)
<1>1. /\ a \in Seq(Int) /\ b \in Seq(Int) /\ c \in Seq(Int) /\ d \in Seq(Int) /\ e \in Seq(Int)
      /\ Len(a) = 4 /\ Len(b) = 4 /\ Len(c) = 8 /\ Len(d) = 8 /\ Len(e) = 4
  BY BytesAre DEF FrameTyped
<1>2. Meta(f) = a \o b \o c \o d \o e
  BY DEF Meta
<1> HIDE DEF a, b, c, d, e
<1> DEFINE p2 == a \o b
           p3 == p2 \o c
           p4 == p3 \o d
           p5 == p4 \o e
<1>3. Meta(f) = p5
  BY <1>2
<1>4. Grown(p2, a, b)
  BY <1>1, Grows
<1>5. Grown(p3, p2, c)
  <2> HIDE DEF p2
  <2> QED BY <1>1, <1>4, GrowsOn
<1>6. Grown(p4, p3, d)
  <2> HIDE DEF p2, p3
  <2> QED BY <1>1, <1>5, GrowsOn
<1>7. Grown(p5, p4, e)
  <2> HIDE DEF p2, p3, p4
  <2> QED BY <1>1, <1>6, GrowsOn
<1> HIDE DEF p2, p3, p4, p5
<1>8. /\ p2 \in Seq(Int) /\ Len(p2) = 8 /\ Slice(p2, 0, 4) = a /\ Slice(p2, 4, 4) = b
      /\ p3 \in Seq(Int) /\ Len(p3) = 16 /\ Slice(p3, 8, 8) = c /\ Starts(p3, p2)
      /\ p4 \in Seq(Int) /\ Len(p4) = 24 /\ Slice(p4, 16, 8) = d /\ Starts(p4, p3)
      /\ p5 \in Seq(Int) /\ Len(p5) = 28 /\ Slice(p5, 24, 4) = e /\ Starts(p5, p4)
  BY <1>1, <1>4, <1>5, <1>6, <1>7 DEF Grown
<1>9. Starts(p5, p3) /\ Starts(p5, p2)
  BY <1>8, StartsTrans
<1>10. /\ \A from, n \in Nat : from + n <= Len(p2) => Slice(p5, from, n) = Slice(p2, from, n)
       /\ \A from, n \in Nat : from + n <= Len(p3) => Slice(p5, from, n) = Slice(p3, from, n)
       /\ \A from, n \in Nat : from + n <= Len(p4) => Slice(p5, from, n) = Slice(p4, from, n)
  BY <1>8, <1>9, StartsSlices
<1>11. Slice(p5, 0, 4) = a /\ Slice(p5, 4, 4) = b /\ Slice(p5, 8, 8) = c /\ Slice(p5, 16, 8) = d
  BY <1>8, <1>10
<1> QED BY <1>3, <1>8, <1>11 DEF MetaSays, FinalExtra, a, b, c, d, e

\* A frame, part by part, when its index is of the eight bytes i.
FrameSays(b, f, i) ==
    /\ b \in Seq(Int) /\ Len(b) = HeaderSize + Len(f.opus) + Len(Meta(f))
    /\ Slice(b, 0, 4) = Magic /\ b[5] = FlagByte(f)
    /\ Slice(b, 5, 2) = Bytes(f.stream, 2) /\ Slice(b, 7, 8) = i
    /\ Slice(b, 15, 4) = Bytes(f.number, 4) /\ Slice(b, 19, 4) = Bytes(f.seq, 4)
    /\ Slice(b, 23, 2) = Bytes(Len(f.opus), 2)
    /\ Slice(b, HeaderSize, Len(f.opus)) = f.opus
    /\ From(b, HeaderSize + Len(f.opus)) = Meta(f)
    /\ f.final => MetaSays(Meta(f), f)
    /\ ~f.final => Meta(f) = <<>>

\* The bytes before the index, those up to the end of it, and all of them.
Before(f) == Magic \o <<FlagByte(f)>> \o Bytes(f.stream, 2)
Waif(f, i) ==
    Before(f) \o i \o Bytes(f.number, 4) \o Bytes(f.seq, 4) \o Bytes(Len(f.opus), 2) \o f.opus \o Meta(f)

LEMMA WaifIs ==
    ASSUME NEW f \in AudioFrames, NEW i \in Seq(Int), Len(i) = 8
    PROVE  FrameSays(Waif(f, i), f, i) /\ Before(f) \in Seq(Int) /\ Len(Before(f)) = 7
<1> DEFINE fl == <<FlagByte(f)>>
           s  == Bytes(f.stream, 2)
           n  == Bytes(f.number, 4)
           q  == Bytes(f.seq, 4)
           l  == Bytes(Len(f.opus), 2)
           o  == f.opus
           m  == Meta(f)
<1>0. FrameTyped(f) /\ f.final \in BOOLEAN
  BY WaifTypes DEF AudioFrames
<1>1. /\ s \in Seq(Int) /\ n \in Seq(Int) /\ q \in Seq(Int) /\ l \in Seq(Int) /\ o \in Seq(Int)
      /\ Len(s) = 2 /\ Len(n) = 4 /\ Len(q) = 4 /\ Len(l) = 2 /\ Len(o) \in Nat
  <2>1. \A k \in Int, v \in Nat : Bytes(k, v) \in Seq(Int) /\ Len(Bytes(k, v)) = v
    BY BytesAre
  <2>2. /\ f.stream \in Int /\ f.number \in Int /\ f.seq \in Int /\ Len(f.opus) \in Int
        /\ f.opus \in Seq(Int) /\ Len(f.opus) \in Nat
    BY <1>0 DEF FrameTyped
  <2> QED BY <2>1, <2>2
<1>2. /\ fl \in Seq(Int) /\ Len(fl) = 1 /\ fl[1] = FlagByte(f)
      /\ Magic \in Seq(Int) /\ Len(Magic) = 4
  <2>1. FlagByte(f) \in Int
    BY DEF FlagByte
  <2> HIDE DEF FlagByte
  <2> QED BY <2>1 DEF Magic
<1>3. m \in Seq(Int) /\ Len(m) \in Nat /\ (f.final => MetaSays(m, f)) /\ (~f.final => m = <<>>)
  <2>1. CASE f.final
    <3>1. MetaSays(m, f)
      BY <1>0, <2>1, MetaIs
    <3> QED BY <2>1, <3>1 DEF MetaSays
  <2>2. CASE ~f.final
    BY <2>2 DEF Meta
  <2> QED BY <2>1, <2>2
<1> DEFINE p1 == Magic \o fl
           p2 == p1 \o s
           p3 == p2 \o i
           p4 == p3 \o n
           p5 == p4 \o q
           p6 == p5 \o l
           p7 == p6 \o o
           p8 == p7 \o m
<1>20. p2 = Before(f) /\ p8 = Waif(f, i)
  BY DEF Before, Waif
<1> HIDE DEF fl, s, n, q, l, o, m
<1>4. Grown(p1, Magic, fl)
  BY <1>2, Grows
<1>5. Grown(p2, p1, s)
  <2> HIDE DEF p1
  <2> QED BY <1>1, <1>4, GrowsOn
<1>6. Grown(p3, p2, i)
  <2> HIDE DEF p1, p2
  <2> QED BY <1>1, <1>5, GrowsOn
<1>7. Grown(p4, p3, n)
  <2> HIDE DEF p1, p2, p3
  <2> QED BY <1>1, <1>6, GrowsOn
<1>8. Grown(p5, p4, q)
  <2> HIDE DEF p1, p2, p3, p4
  <2> QED BY <1>1, <1>7, GrowsOn
<1>9. Grown(p6, p5, l)
  <2> HIDE DEF p1, p2, p3, p4, p5
  <2> QED BY <1>1, <1>8, GrowsOn
<1>10. Grown(p7, p6, o)
  <2> HIDE DEF p1, p2, p3, p4, p5, p6
  <2> QED BY <1>1, <1>9, GrowsOn
<1>11. Grown(p8, p7, m)
  <2> HIDE DEF p1, p2, p3, p4, p5, p6, p7
  <2> QED BY <1>3, <1>10, GrowsOn
<1> HIDE DEF p1, p2, p3, p4, p5, p6, p7, p8
<1>12. /\ p1 \in Seq(Int) /\ Len(p1) = 5 /\ Slice(p1, 0, 4) = Magic /\ Slice(p1, 4, 1) = fl
       /\ p2 \in Seq(Int) /\ Len(p2) = 7 /\ Slice(p2, 5, 2) = s /\ Starts(p2, p1)
       /\ p3 \in Seq(Int) /\ Len(p3) = 15 /\ Slice(p3, 7, 8) = i /\ Starts(p3, p2)
  BY <1>1, <1>2, <1>4, <1>5, <1>6 DEF Grown
<1>13. /\ p4 \in Seq(Int) /\ Len(p4) = 19 /\ Slice(p4, 15, 4) = n /\ Starts(p4, p3)
       /\ p5 \in Seq(Int) /\ Len(p5) = 23 /\ Slice(p5, 19, 4) = q /\ Starts(p5, p4)
       /\ p6 \in Seq(Int) /\ Len(p6) = 25 /\ Slice(p6, 23, 2) = l /\ Starts(p6, p5)
  BY <1>1, <1>7, <1>8, <1>9, <1>12 DEF Grown
<1>14. /\ p7 \in Seq(Int) /\ Len(p7) = 25 + Len(o) /\ Slice(p7, 25, Len(o)) = o /\ Starts(p7, p6)
       /\ p8 \in Seq(Int) /\ Len(p8) = 25 + Len(o) + Len(m) /\ From(p8, 25 + Len(o)) = m /\ Starts(p8, p7)
  BY <1>1, <1>3, <1>10, <1>11, <1>13 DEF Grown
<1>15. /\ Starts(p8, p6) /\ Starts(p8, p5) /\ Starts(p8, p4) /\ Starts(p8, p3)
       /\ Starts(p8, p2) /\ Starts(p8, p1)
  BY <1>12, <1>13, <1>14, StartsTrans
<1>16. /\ \A from, k \in Nat : from + k <= Len(p1) => Slice(p8, from, k) = Slice(p1, from, k)
       /\ \A from, k \in Nat : from + k <= Len(p2) => Slice(p8, from, k) = Slice(p2, from, k)
       /\ \A from, k \in Nat : from + k <= Len(p3) => Slice(p8, from, k) = Slice(p3, from, k)
       /\ \A from, k \in Nat : from + k <= Len(p4) => Slice(p8, from, k) = Slice(p4, from, k)
       /\ \A from, k \in Nat : from + k <= Len(p5) => Slice(p8, from, k) = Slice(p5, from, k)
       /\ \A from, k \in Nat : from + k <= Len(p6) => Slice(p8, from, k) = Slice(p6, from, k)
       /\ \A from, k \in Nat : from + k <= Len(p7) => Slice(p8, from, k) = Slice(p7, from, k)
  <2>1. /\ p1 \in Seq(Int) /\ p2 \in Seq(Int) /\ p3 \in Seq(Int) /\ p4 \in Seq(Int) /\ p5 \in Seq(Int)
        /\ p6 \in Seq(Int) /\ p7 \in Seq(Int) /\ p8 \in Seq(Int) /\ Starts(p8, p7)
    BY <1>12, <1>13, <1>14
  <2> QED BY <2>1, <1>15, StartsSlices
<1>17. /\ Slice(p8, 0, 4) = Magic /\ Slice(p8, 4, 1) = fl /\ Slice(p8, 5, 2) = s
       /\ Slice(p8, 7, 8) = i /\ Slice(p8, 15, 4) = n /\ Slice(p8, 19, 4) = q
       /\ Slice(p8, 23, 2) = l /\ Slice(p8, 25, Len(o)) = o
  <2>1. Slice(p8, 0, 4) = Magic /\ Slice(p8, 4, 1) = fl /\ Slice(p8, 5, 2) = s /\ Slice(p8, 7, 8) = i
    BY <1>12, <1>16
  <2>2. Slice(p8, 15, 4) = n /\ Slice(p8, 19, 4) = q /\ Slice(p8, 23, 2) = l
    BY <1>13, <1>16
  <2>3. 25 \in Nat /\ Len(o) \in Nat /\ 25 + Len(o) <= Len(p7)
    BY <1>1, <1>14
  <2>4. Slice(p8, 25, Len(o)) = Slice(p7, 25, Len(o))
    BY <1>16, <2>3
  <2> QED BY <1>14, <2>1, <2>2, <2>4
<1>18. p8[5] = FlagByte(f)
  <2>1. 4 \in Nat /\ 1 \in Nat /\ 4 + 1 <= Len(p8) /\ 1 \in 1..1 /\ 4 + 1 = 5
    BY <1>1, <1>3, <1>14
  <2>2. Slice(p8, 4, 1)[1] = p8[4 + 1]
    BY <1>14, <2>1, SliceIs
  <2> QED BY <1>2, <1>17, <2>1, <2>2
<1> QED BY <1>3, <1>12, <1>14, <1>17, <1>18, <1>20 DEF FrameSays, HeaderSize, s, n, q, l, o, m

\* A record with all of these fields, and the set of it alone.
Whole(i, s, n, q, c, o, z, r, t, b, u, a) ==
    [index |-> i, stream |-> s, number |-> n, seq |-> q, channels |-> c, opus |-> o, final |-> z,
     rate |-> r, total |-> t, bpm |-> b, quantum |-> u, bars |-> a]
Wholes(i, s, n, q, c, o, z, r, t, b, u, a) ==
    [index : {i}, stream : {s}, number : {n}, seq : {q}, channels : {c}, opus : {o}, final : {z},
     rate : {r}, total : {t}, bpm : {b}, quantum : {u}, bars : {a}]

LEMMA WholeIs ==
    ASSUME NEW i, NEW s, NEW n, NEW q, NEW c, NEW o, NEW z, NEW r, NEW t, NEW b, NEW u, NEW a,
           NEW x \in Wholes(i, s, n, q, c, o, z, r, t, b, u, a)
    PROVE  x = Whole(i, s, n, q, c, o, z, r, t, b, u, a)
BY DEF Whole, Wholes

LEMMA PlainIs ==
    ASSUME NEW i, NEW s, NEW n, NEW q, NEW c, NEW o, NEW j
    PROVE  [AudioFrame(i, s, n, q, c, o) EXCEPT !.index = j] = AudioFrame(j, s, n, q, c, o)
<1> DEFINE f == AudioFrame(i, s, n, q, c, o)
<1>1. f \in Wholes(i, s, n, q, c, o, FALSE, 0, 0, 0, 0, 0)
  BY DEF AudioFrame, Wholes
<1> HIDE DEF f
<1>2. [f EXCEPT !.index = j] \in Wholes(j, s, n, q, c, o, FALSE, 0, 0, 0, 0, 0)
  BY <1>1 DEF Wholes
<1>3. [f EXCEPT !.index = j] = Whole(j, s, n, q, c, o, FALSE, 0, 0, 0, 0, 0)
  BY <1>2, WholeIs
<1> QED BY <1>3 DEF AudioFrame, Whole, f

\* A frame with the metadata of its interval, as DecodeWaif adds it.
Finished(f, r, t, b, u, a) ==
    [f EXCEPT !.final = TRUE, !.rate = r, !.total = t, !.bpm = b, !.quantum = u, !.bars = a]

\* A frame that is final.
Final(i, s, n, q, c, o, r, t, b, u, a) == Whole(i, s, n, q, c, o, TRUE, r, t, b, u, a)

LEMMA FinalIs ==
    ASSUME NEW i, NEW s, NEW n, NEW q, NEW c, NEW o, NEW r, NEW t, NEW b, NEW u, NEW a
    PROVE  Finished(AudioFrame(i, s, n, q, c, o), r, t, b, u, a)
             = Final(i, s, n, q, c, o, r, t, b, u, a)
<1> DEFINE f == AudioFrame(i, s, n, q, c, o)
<1>1. f \in Wholes(i, s, n, q, c, o, FALSE, 0, 0, 0, 0, 0)
  BY DEF AudioFrame, Wholes
<1> HIDE DEF f
<1> DEFINE g == [f EXCEPT !.final = TRUE, !.rate = r, !.total = t, !.bpm = b, !.quantum = u, !.bars = a]
<1>2. g \in Wholes(i, s, n, q, c, o, TRUE, r, t, b, u, a)
  BY <1>1 DEF Wholes
<1>3. g = Final(i, s, n, q, c, o, r, t, b, u, a)
  <2> HIDE DEF g
  <2> QED BY <1>2, WholeIs DEF Final
<1> QED BY <1>3 DEF f, Finished

LEMMA IndexIs ==
    ASSUME NEW f \in AudioFrames, NEW j
    PROVE  [f EXCEPT !.index = j]
             = Whole(j, f.stream, f.number, f.seq, f.channels, f.opus, f.final, f.rate, f.total, f.bpm,
                     f.quantum, f.bars)
BY DEF AudioFrames, Whole

\* The application's index in the bytes of a frame.
LEMMA RewrittenIs ==
    ASSUME NEW f \in AudioFrames, NEW at \in Int
    PROVE  /\ EncodeWaif(f) = Waif(f, Bytes(f.index, 8))
           /\ RewriteIndex(EncodeWaif(f), at) = Waif(f, Bytes(at, 8))
<1> DEFINE i  == Bytes(f.index, 8)
           j  == Bytes(at, 8)
           p  == Before(f)
           n  == Bytes(f.number, 4)
           q  == Bytes(f.seq, 4)
           l  == Bytes(Len(f.opus), 2)
           o  == f.opus
           m  == Meta(f)
           b  == Waif(f, i)
           r  == n \o (q \o (l \o (o \o m)))
<1>0. FrameTyped(f)
  BY WaifTypes
<1>1. EncodeWaif(f) = b
  <2>1. Len(f.opus) % (Base * Base) = Len(f.opus)
    BY <1>0, ShortFits DEF FrameTyped
  <2> QED BY <2>1 DEF EncodeWaif, Waif, Before, Meta, FlagByte
<1>2. \A k \in Int, v \in Nat : Bytes(k, v) \in Seq(Int) /\ Len(Bytes(k, v)) = v
  BY BytesAre
<1>3. /\ i \in Seq(Int) /\ Len(i) = 8 /\ j \in Seq(Int) /\ Len(j) = 8
      /\ n \in Seq(Int) /\ q \in Seq(Int) /\ l \in Seq(Int) /\ o \in Seq(Int)
  <2>1. /\ f.index \in Int /\ f.number \in Int /\ f.seq \in Int /\ Len(f.opus) \in Int /\ f.opus \in Seq(Int)
    BY <1>0 DEF FrameTyped
  <2> QED BY <1>2, <2>1
<1>4. /\ p \in Seq(Int) /\ Len(p) = 7
      /\ FrameSays(Waif(f, i), f, i) /\ FrameSays(Waif(f, j), f, j)
  BY <1>3, WaifIs
<1>5. m \in Seq(Int)
  <2>1. CASE f.final
    BY <1>4, <2>1 DEF FrameSays, MetaSays
  <2>2. CASE ~f.final
    BY <2>2 DEF Meta
  <2> QED BY <2>1, <2>2
<1> HIDE DEF n, q, l, o, m, p, i, j
<1>6. ASSUME NEW x \in Seq(Int)
      PROVE  p \o x \o n \o q \o l \o o \o m = (p \o x) \o r /\ p \o x \in Seq(Int) /\ r \in Seq(Int)
  <2> DEFINE y == p \o x
  <2>1. y \in Seq(Int) /\ r \in Seq(Int)
    BY <1>3, <1>4, <1>5
  <2> HIDE DEF y
  <2>2. y \o n \o q \o l \o o \o m = y \o r
    <3>1. /\ n \in Seq(Int) /\ q \in Seq(Int) /\ l \in Seq(Int) /\ o \in Seq(Int) /\ m \in Seq(Int)
      BY <1>3, <1>5
    <3>2. ToTheLeft(y, n, q, l, o, m) = ToTheRight(y, n, q, l, o, m)
      BY <2>1, <3>1, Regroup
    <3> QED BY <3>2 DEF ToTheLeft, ToTheRight
  <2> QED BY <2>1, <2>2 DEF y
<1>7. \A x : Waif(f, x) = p \o x \o n \o q \o l \o o \o m
  BY DEF Waif, p, n, q, l, o, m
<1> DEFINE h == p \o i
<1>8. b = h \o r /\ h \in Seq(Int) /\ r \in Seq(Int) /\ Waif(f, j) = (p \o j) \o r
  BY <1>3, <1>6, <1>7
<1>9. Grown(h, p, i) /\ Len(h) = 15
  <2>1. Grown(h, p, i)
    BY <1>3, <1>4, Grows
  <2> HIDE DEF h
  <2> QED BY <1>3, <1>4, <2>1 DEF Grown
<1> HIDE DEF h, r
<1>10. Grown(b, h, r)
  BY <1>8, Grows
<1>11. IsWaif(b)
  <2>1. Len(b) >= HeaderSize
    BY <1>0, <1>4, <1>5 DEF FrameSays, FrameTyped, HeaderSize, m
  <2> QED BY <1>4, <2>1 DEF FrameSays, IsWaif
<1> HIDE DEF b
<1>12. From(b, 15) = r
  BY <1>9, <1>10 DEF Grown
<1>13. Slice(b, 0, 7) = p
  <2>1. b \in Seq(Int) /\ Starts(b, h) /\ h \in Seq(Int) /\ Slice(h, 0, 7) = p
    BY <1>4, <1>9, <1>10 DEF Grown
  <2>2. \A from, k \in Nat : from + k <= Len(h) => Slice(b, from, k) = Slice(h, from, k)
    BY <2>1, StartsSlices
  <2>3. Slice(b, 0, 7) = Slice(h, 0, 7)
    BY <1>9, <2>2
  <2> QED BY <2>1, <2>3
<1>14. RewriteIndex(b, at) = (p \o j) \o r
  BY <1>11, <1>12, <1>13 DEF RewriteIndex, j
<1> QED BY <1>1, <1>8, <1>14 DEF b, i, j

\* What the decoders make of a frame whose index has been rewritten, or not.
LEMMA WaifTells ==
    ASSUME NEW f \in AudioFrames, NEW at \in SInt(8), NEW b, b = Waif(f, Bytes(at, 8))
    PROVE  /\ b \in Seq(Int) /\ IsWaif(b) /\ FlagFinal(b) = f.final
           /\ Signed(Slice(b, 7, 8)) = at /\ Unsigned(Slice(b, 5, 2)) = f.stream
           /\ Unsigned(Slice(b, 15, 4)) = f.number /\ Unsigned(Slice(b, 19, 4)) = f.seq
           /\ (IF b[5] % 2 = 1 THEN 2 ELSE 1) = f.channels
           /\ OpusLen(b) = Len(f.opus) /\ MetaStart(b) = HeaderSize + Len(f.opus)
           /\ FrameSays(b, f, Bytes(at, 8)) /\ Len(f.opus) \in Nat
<1> DEFINE j == Bytes(at, 8)
<1>0. FrameTyped(f) /\ at \in Int
  BY WaifTypes DEF SInt
<1>1. j \in Seq(Int) /\ Len(j) = 8
  BY <1>0, BytesAre
<1>2. FrameSays(b, f, j)
  BY <1>1, WaifIs
<1> HIDE DEF j
<1>3. /\ b \in Seq(Int) /\ Len(b) = HeaderSize + Len(f.opus) + Len(Meta(f))
      /\ Slice(b, 0, 4) = Magic /\ b[5] = FlagByte(f)
      /\ Slice(b, 5, 2) = Bytes(f.stream, 2) /\ Slice(b, 7, 8) = j
      /\ Slice(b, 15, 4) = Bytes(f.number, 4) /\ Slice(b, 19, 4) = Bytes(f.seq, 4)
      /\ Slice(b, 23, 2) = Bytes(Len(f.opus), 2)
  BY <1>2 DEF FrameSays
<1>4. /\ f.stream \in UInt(2) /\ f.number \in UInt(4) /\ f.seq \in UInt(4)
  BY DEF AudioFrames
<1>5. Len(f.opus) \in Nat /\ Len(f.opus) \in UInt(2)
  BY <1>0, ShortFits DEF FrameTyped
<1>6. /\ \A n \in UInt(2) : Unsigned(Bytes(n, 2)) = n
      /\ \A n \in UInt(4) : Unsigned(Bytes(n, 4)) = n
  BY Numbers
<1>7. Signed(j) = at
  BY SignedRoundTrip DEF j
<1>8. /\ Unsigned(Slice(b, 5, 2)) = f.stream /\ Unsigned(Slice(b, 15, 4)) = f.number
      /\ Unsigned(Slice(b, 19, 4)) = f.seq /\ Unsigned(Slice(b, 23, 2)) = Len(f.opus)
  BY <1>3, <1>4, <1>5, <1>6
<1>9. IsWaif(b)
  <2>1. Meta(f) \in Seq(Int)
    <3>1. CASE f.final
      BY <1>2, <3>1 DEF FrameSays, MetaSays
    <3>2. CASE ~f.final
      <4>1. Meta(f) = <<>>
        BY <1>2, <3>2 DEF FrameSays
      <4> QED BY <4>1
    <3> QED BY <3>1, <3>2
  <2>2. Len(Meta(f)) \in Nat
    BY <2>1
  <2>3. Len(b) >= HeaderSize
    BY <1>3, <1>5, <2>2 DEF HeaderSize
  <2> QED BY <1>3, <2>3 DEF IsWaif
<1>10. FlagFinal(b) = f.final /\ (IF b[5] % 2 = 1 THEN 2 ELSE 1) = f.channels
  BY <1>3, FlagsTell
<1>11. OpusLen(b) = Len(f.opus) /\ MetaStart(b) = HeaderSize + Len(f.opus)
  BY <1>8 DEF OpusLen, MetaStart
<1> QED BY <1>2, <1>3, <1>5, <1>7, <1>8, <1>9, <1>10, <1>11 DEF j

LEMMA MetaTells ==
    ASSUME NEW f \in AudioFrames, NEW m, MetaSays(m, f)
    PROVE  /\ Unsigned(Slice(m, 0, 4)) = f.rate /\ Unsigned(Slice(m, 4, 4)) = f.total
           /\ Unsigned(Slice(m, 8, 8)) = f.bpm /\ Unsigned(Slice(m, 16, 8)) = f.quantum
           /\ Unsigned(Slice(m, 24, 4)) = f.bars /\ Len(m) = FinalExtra
<1>1. /\ f.rate \in UInt(4) /\ f.total \in UInt(4) /\ f.bpm \in UInt(8) /\ f.quantum \in UInt(8)
      /\ f.bars \in UInt(4)
  BY DEF AudioFrames
<1>2. /\ \A n \in UInt(4) : Unsigned(Bytes(n, 4)) = n
      /\ \A n \in UInt(8) : Unsigned(Bytes(n, 8)) = n
  BY Numbers
<1> QED BY <1>1, <1>2 DEF MetaSays

\* The index, the fields and the metadata of a frame that is final.
LEMMA WaifDecoded ==
    ASSUME NEW f \in AudioFrames, NEW at \in SInt(8), NEW b, b = Waif(f, Bytes(at, 8))
    PROVE  DecodeWaif(b) = [Said(f) EXCEPT !.index = at]
<1> DEFINE g == AudioFrame(at, f.stream, f.number, f.seq, f.channels, f.opus)
           m == From(b, MetaStart(b))
<1>1. /\ b \in Seq(Int) /\ IsWaif(b) /\ FlagFinal(b) = f.final
      /\ Signed(Slice(b, 7, 8)) = at /\ Unsigned(Slice(b, 5, 2)) = f.stream
      /\ Unsigned(Slice(b, 15, 4)) = f.number /\ Unsigned(Slice(b, 19, 4)) = f.seq
      /\ (IF b[5] % 2 = 1 THEN 2 ELSE 1) = f.channels
      /\ OpusLen(b) = Len(f.opus) /\ MetaStart(b) = HeaderSize + Len(f.opus)
      /\ FrameSays(b, f, Bytes(at, 8)) /\ Len(f.opus) \in Nat
  BY WaifTells
<1>2. Slice(b, HeaderSize, OpusLen(b)) = f.opus /\ m = Meta(f)
  BY <1>1 DEF FrameSays
<1>3. f.final \in BOOLEAN
  BY DEF AudioFrames
<1>4. Meta(f) \in Seq(Int) /\ (f.final => MetaSays(Meta(f), f))
  <2>1. CASE f.final
    BY <1>1, <2>1 DEF FrameSays, MetaSays
  <2>2. CASE ~f.final
    <3>1. Meta(f) = <<>>
      BY <1>1, <2>2 DEF FrameSays
    <3> QED BY <2>2, <3>1
  <2> QED BY <2>1, <2>2
<1>5. Len(Meta(f)) \in Nat
  BY <1>4
<1>6. ~(Len(b) < MetaStart(b))
  <2>1. Len(b) = HeaderSize + Len(f.opus) + Len(Meta(f))
    BY <1>1 DEF FrameSays
  <2> QED BY <1>1, <1>5, <2>1 DEF HeaderSize
<1> DEFINE h == AudioFrame(Signed(Slice(b, 7, 8)), Unsigned(Slice(b, 5, 2)), Unsigned(Slice(b, 15, 4)),
                           Unsigned(Slice(b, 19, 4)), IF b[5] % 2 = 1 THEN 2 ELSE 1,
                           Slice(b, HeaderSize, OpusLen(b)))
<1>7. h = g
  BY <1>1, <1>2
<1>8. DecodeWaif(b) =
        IF ~IsWaif(b) \/ Len(b) < MetaStart(b) THEN Nothing
        ELSE IF ~FlagFinal(b) THEN h
        ELSE IF Len(m) < FinalExtra THEN Nothing
        ELSE [h EXCEPT !.final = TRUE,
                       !.rate = Unsigned(Slice(m, 0, 4)), !.total = Unsigned(Slice(m, 4, 4)),
                       !.bpm = Unsigned(Slice(m, 8, 8)), !.quantum = Unsigned(Slice(m, 16, 8)),
                       !.bars = Unsigned(Slice(m, 24, 4))]
  BY DEF DecodeWaif
<1> HIDE DEF h, m
<1>9. CASE ~f.final
  <2>1. DecodeWaif(b) = g
    BY <1>1, <1>6, <1>7, <1>8, <1>9
  <2>2. Said(f) = AudioFrame(f.index, f.stream, f.number, f.seq, f.channels, f.opus)
    BY <1>9 DEF Said
  <2> QED BY <2>1, <2>2, PlainIs
<1>10. CASE f.final
  <2>1. /\ Unsigned(Slice(m, 0, 4)) = f.rate /\ Unsigned(Slice(m, 4, 4)) = f.total
        /\ Unsigned(Slice(m, 8, 8)) = f.bpm /\ Unsigned(Slice(m, 16, 8)) = f.quantum
        /\ Unsigned(Slice(m, 24, 4)) = f.bars /\ Len(m) = FinalExtra
    <3>1. MetaSays(m, f)
      BY <1>2, <1>4, <1>10
    <3> QED BY <3>1, MetaTells
  <2>2. ~(Len(m) < FinalExtra)
    BY <2>1 DEF FinalExtra
  <2>3. DecodeWaif(b) =
          [h EXCEPT !.final = TRUE,
                    !.rate = Unsigned(Slice(m, 0, 4)), !.total = Unsigned(Slice(m, 4, 4)),
                    !.bpm = Unsigned(Slice(m, 8, 8)), !.quantum = Unsigned(Slice(m, 16, 8)),
                    !.bars = Unsigned(Slice(m, 24, 4))]
    BY <1>1, <1>6, <1>8, <1>10, <2>2
  <2>4. DecodeWaif(b) = Finished(g, f.rate, f.total, f.bpm, f.quantum, f.bars)
    BY <1>7, <2>1, <2>3 DEF Finished
  <2>5. DecodeWaif(b) = Whole(at, f.stream, f.number, f.seq, f.channels, f.opus, TRUE, f.rate, f.total,
                              f.bpm, f.quantum, f.bars)
    <3>1. Finished(g, f.rate, f.total, f.bpm, f.quantum, f.bars)
            = Final(at, f.stream, f.number, f.seq, f.channels, f.opus, f.rate, f.total, f.bpm, f.quantum,
                    f.bars)
      BY FinalIs
    <3> QED BY <2>4, <3>1 DEF Final
  <2>6. Said(f) = f /\ f.final = TRUE
    BY <1>3, <1>10 DEF Said
  <2>7. [f EXCEPT !.index = at] = Whole(at, f.stream, f.number, f.seq, f.channels, f.opus, TRUE, f.rate,
                                        f.total, f.bpm, f.quantum, f.bars)
    BY <2>6, IndexIs
  <2> QED BY <2>5, <2>6, <2>7
<1> QED BY <1>3, <1>9, <1>10

(***************************************************************************)
(* decode of wire.rs gives back every frame that encode can write, with    *)
(* its metadata if it is final, also after the application has put its own *)
(* interval index into the bytes (rewrite_waif_interval_index).            *)
(***************************************************************************)
THEOREM WaifRoundTrip ==
    ASSUME NEW f \in AudioFrames, NEW at \in SInt(8)
    PROVE  /\ DecodeWaif(EncodeWaif(f)) = Said(f)
           /\ DecodeWaif(RewriteIndex(EncodeWaif(f), at)) = [Said(f) EXCEPT !.index = at]
<1>1. f.index \in SInt(8) /\ f.index \in Int /\ at \in Int
  BY DEF AudioFrames, SInt
<1>2. /\ EncodeWaif(f) = Waif(f, Bytes(f.index, 8))
      /\ RewriteIndex(EncodeWaif(f), at) = Waif(f, Bytes(at, 8))
  BY <1>1, RewrittenIs
<1>3. DecodeWaif(EncodeWaif(f)) = [Said(f) EXCEPT !.index = f.index]
  BY <1>1, <1>2, WaifDecoded
<1>4. [Said(f) EXCEPT !.index = f.index] = Said(f)
  <2>1. CASE f.final
    <3>1. Said(f) = f
      BY <2>1 DEF Said
    <3>2. [f EXCEPT !.index = f.index] = f
      BY DEF AudioFrames
    <3> QED BY <3>1, <3>2
  <2>2. CASE ~f.final
    <3>1. Said(f) = AudioFrame(f.index, f.stream, f.number, f.seq, f.channels, f.opus)
      BY <2>2 DEF Said
    <3> QED BY <3>1, PlainIs
  <2> QED BY <2>1, <2>2
<1>5. DecodeWaif(RewriteIndex(EncodeWaif(f), at)) = [Said(f) EXCEPT !.index = at]
  BY <1>2, WaifDecoded
<1> QED BY <1>3, <1>4, <1>5

LEMMA PeekIs ==
    ASSUME NEW f \in AudioFrames
    PROVE  /\ Peek(EncodeWaif(f)) = Header(f.index, f.stream, f.number, f.seq, f.final, Said(f).total)
           /\ EncodeWaif(f) \in Seq(Int) /\ Len(EncodeWaif(f)) >= HeaderSize
           /\ Len(EncodeWaif(f)) <= HeaderSize + Base * Base + FinalExtra
<1> DEFINE b == EncodeWaif(f)
           at == f.index
<1>1. f.index \in SInt(8) /\ f.index \in Int /\ f.final \in BOOLEAN
  BY DEF AudioFrames, SInt
<1>2. b = Waif(f, Bytes(f.index, 8))
  BY <1>1, RewrittenIs
<1> HIDE DEF b
<1>3. /\ b \in Seq(Int) /\ IsWaif(b) /\ FlagFinal(b) = f.final
      /\ Signed(Slice(b, 7, 8)) = at /\ Unsigned(Slice(b, 5, 2)) = f.stream
      /\ Unsigned(Slice(b, 15, 4)) = f.number /\ Unsigned(Slice(b, 19, 4)) = f.seq
      /\ OpusLen(b) = Len(f.opus) /\ MetaStart(b) = HeaderSize + Len(f.opus)
      /\ FrameSays(b, f, Bytes(at, 8)) /\ Len(f.opus) \in Nat
  BY <1>1, <1>2, WaifTells
<1>4. Len(b) >= HeaderSize
  BY <1>3 DEF IsWaif
<1>5. Len(b) = HeaderSize + Len(f.opus) + Len(Meta(f)) /\ Len(f.opus) < Base * Base
      /\ From(b, HeaderSize + Len(f.opus)) = Meta(f)
  BY <1>3 DEF FrameSays, AudioFrames
<1> DEFINE header(t) == Header(Signed(Slice(b, 7, 8)), Unsigned(Slice(b, 5, 2)), Unsigned(Slice(b, 15, 4)),
                               Unsigned(Slice(b, 19, 4)), FlagFinal(b), t)
<1>6. \A t : header(t) = Header(f.index, f.stream, f.number, f.seq, f.final, t)
  BY <1>3
<1>7. Peek(b) =
        IF ~IsWaif(b) THEN Nothing
        ELSE IF ~FlagFinal(b) THEN header(0)
        ELSE IF Len(b) < MetaStart(b) + FinalExtra THEN Nothing
        ELSE header(Unsigned(Slice(b, MetaStart(b) + 4, 4)))
  BY DEF Peek
<1> HIDE DEF header
<1>8. CASE ~f.final
  <2>1. Peek(b) = header(0)
    BY <1>3, <1>7, <1>8
  <2>2. Said(f).total = 0
    BY <1>8 DEF Said, AudioFrame
  <2>3. Meta(f) = <<>>
    BY <1>8 DEF Meta
  <2>4. Len(b) <= HeaderSize + Base * Base + FinalExtra
    <3>1. Len(Meta(f)) = 0
      BY <2>3
    <3> QED BY <1>3, <1>5, <3>1 DEF HeaderSize, Base, FinalExtra
  <2> QED BY <1>3, <1>4, <1>6, <2>1, <2>2, <2>4 DEF b
<1>9. CASE f.final
  <2>1. MetaSays(Meta(f), f)
    BY <1>3, <1>9 DEF FrameSays
  <2>2. Len(Meta(f)) = FinalExtra /\ Slice(Meta(f), 4, 4) = Bytes(f.total, 4) /\ Meta(f) \in Seq(Int)
    BY <2>1 DEF MetaSays
  <2>3. ~(Len(b) < MetaStart(b) + FinalExtra) /\ Len(b) <= HeaderSize + Base * Base + FinalExtra
    <3>1. Len(b) = 25 + Len(f.opus) + 28 /\ MetaStart(b) = 25 + Len(f.opus)
      BY <1>3, <1>5, <2>2 DEF HeaderSize, FinalExtra
    <3>2. Len(f.opus) \in Nat /\ Len(f.opus) < Base * Base
      BY <1>3, <1>5
    <3> QED BY <3>1, <3>2 DEF HeaderSize, FinalExtra, Base
  <2>4. Peek(b) = header(Unsigned(Slice(b, MetaStart(b) + 4, 4)))
    BY <1>3, <1>7, <1>9, <2>3
  <2>5. Slice(b, MetaStart(b) + 4, 4) = Slice(Meta(f), 4, 4)
    <3> DEFINE k == HeaderSize + Len(f.opus)
               m == Meta(f)
    <3>1. k \in Nat /\ k <= Len(b) /\ Len(b) - k = 28 /\ k + (Len(b) - k) <= Len(b) /\ Len(b) - k \in Nat
      BY <1>3, <1>5, <2>2 DEF HeaderSize, FinalExtra
    <3>2. m = Slice(b, k, Len(b) - k)
      BY <1>3, <1>5, <3>1, FromIs
    <3>3. m \in Seq(Int) /\ Len(m) = 28 /\ \A i \in 1..28 : m[i] = b[k + i]
      <4> HIDE DEF k, m
      <4>1. m = Slice(b, k, 28) /\ k + 28 <= Len(b) /\ 28 \in Nat
        BY <3>1, <3>2
      <4> QED BY <1>3, <3>1, <4>1, SliceIs
    <3>4. MetaStart(b) + 4 = k + 4
      BY <1>3
    <3> HIDE DEF k, m
    <3> DEFINE x == Slice(b, k + 4, 4)
               y == Slice(m, 4, 4)
    <3>5. k + 4 \in Nat /\ (k + 4) + 4 <= Len(b) /\ 4 \in Nat /\ 4 + 4 <= Len(m)
      BY <3>1, <3>3
    <3>6. /\ x \in Seq(Int) /\ Len(x) = 4 /\ \A i \in 1..4 : x[i] = b[(k + 4) + i]
          /\ y \in Seq(Int) /\ Len(y) = 4 /\ \A i \in 1..4 : y[i] = m[4 + i]
      BY <1>3, <3>3, <3>5, SliceIs
    <3> HIDE DEF x, y
    <3>7. \A i \in 1..4 : x[i] = y[i]
      <4>1. ASSUME NEW i \in 1..4 PROVE x[i] = y[i]
        <5>1. 4 + i \in 1..28 /\ k + (4 + i) = (k + 4) + i
          BY <3>1
        <5> QED BY <3>3, <3>6, <5>1
      <4> QED BY <4>1
    <3>8. x = y
      BY <3>6, <3>7, SeqEqual
    <3> QED BY <3>4, <3>8 DEF x, y, m
  <2>6. Unsigned(Slice(b, MetaStart(b) + 4, 4)) = f.total
    <3>1. f.total \in UInt(4)
      BY DEF AudioFrames
    <3> QED BY <2>2, <2>5, <3>1, UnsignedRoundTrip
  <2>7. Said(f) = f
    BY <1>9 DEF Said
  <2> QED BY <1>3, <1>4, <1>6, <2>3, <2>4, <2>6, <2>7 DEF b
<1> QED BY <1>1, <1>8, <1>9

----------------------------------------------------------------------------
(* Messages *)

LEMMA ShortIs ==
    ASSUME NEW s \in Text
    PROVE  Short(s) \in Seq(Int) /\ Len(Short(s)) \in 0..ShortMax
<1>1. s \in Seq(Int) /\ Len(s) \in Nat
  <2>1. Byte \subseteq Int
    BY DEF Byte, Base
  <2>2. s \in Seq(Byte)
    BY DEF Text
  <2>3. s \in Seq(Int)
    BY <2>1, <2>2, SeqMonotonic
  <2> QED BY <2>3
<1>2. CASE Len(s) > ShortMax
  <2>1. Short(s) = SubSeq(s, 1, 255)
    BY <1>2 DEF Short, ShortMax
  <2>2. SubSeq(s, 1, 255) = Slice(s, 0, 255)
    BY DEF Slice
  <2>3. Slice(s, 0, 255) \in Seq(Int) /\ Len(Slice(s, 0, 255)) = 255
    <3>1. s \in Seq(Int) /\ 0 \in Nat /\ 255 \in Nat /\ 0 + 255 <= Len(s)
      BY <1>1, <1>2 DEF ShortMax
    <3> DEFINE n == 255
    <3>2. n \in Nat /\ 0 + n <= Len(s)
      BY <3>1
    <3> HIDE DEF n
    <3>3. Slice(s, 0, n) \in Seq(Int) /\ Len(Slice(s, 0, n)) = n
      BY <3>1, <3>2, SliceIs
    <3> QED BY <3>3 DEF n
  <2>4. Short(s) \in Seq(Int) /\ Len(Short(s)) = 255
    BY <2>1, <2>2, <2>3
  <2> QED BY <2>4 DEF ShortMax
<1>3. CASE ~(Len(s) > ShortMax)
  <2>1. Short(s) = s
    BY <1>3 DEF Short
  <2>2. Len(s) \in 0..ShortMax
    <3> DEFINE n == Len(s)
    <3> HIDE DEF n
    <3>1. n \in Nat /\ ~(n > 255)
      BY <1>1, <1>3 DEF ShortMax, n
    <3>2. n \in 0..255
      BY <3>1
    <3> QED BY <3>2 DEF ShortMax, n
  <2> QED BY <1>1, <2>1, <2>2
<1> QED BY <1>2, <1>3

\* A field read back from where it was put.
FieldSays(b, at, s) ==
    /\ b[at + 1] = Len(Short(s)) /\ FieldAt(b, at) = Short(s)
    /\ After(b, at) = at + 1 + Len(Short(s)) /\ HasField(b, at)

LEMMA FieldIs ==
    ASSUME NEW x \in Seq(Int), NEW s \in Text
    PROVE  /\ Field(s) \in Seq(Int) /\ x \o Field(s) \in Seq(Int)
           /\ Len(Field(s)) = 1 + Len(Short(s))
           /\ Len(x \o Field(s)) = Len(x) + 1 + Len(Short(s))
           /\ \A b \in Seq(Int) : Starts(b, x \o Field(s)) => FieldSays(b, Len(x), s)
<1> DEFINE c == Short(s)
           n == Len(c)
           l == <<n>>
           y == x \o l
           z == y \o c
<1>1. c \in Seq(Int) /\ n \in 0..255 /\ n \in Nat
  BY ShortIs DEF ShortMax
<1>2. Field(s) = l \o c
  BY DEF Field
<1> HIDE DEF c
<1>3. l \in Seq(Int) /\ Len(l) = 1 /\ l[1] = n
  <2> HIDE DEF n
  <2> QED BY <1>1
<1> HIDE DEF l
<1>4. Grown(y, x, l)
  BY <1>3, Grows
<1>5. Grown(z, y, c)
  <2> HIDE DEF y
  <2> QED BY <1>1, <1>4, GrowsOn
<1>6. Grown(l \o c, l, c)
  BY <1>1, <1>3, Grows
<1>7. z = x \o (l \o c)
  BY <1>1, <1>3, Assoc
<1>8. x \o Field(s) = z
  BY <1>2, <1>7
<1> HIDE DEF y, z, n
<1>9. Len(x) \in Nat /\ y \in Seq(Int) /\ Len(y) = Len(x) + 1 /\ Starts(y, x)
  BY <1>3, <1>4 DEF Grown
<1>10. z \in Seq(Int) /\ Len(z) = Len(x) + 1 + n /\ Starts(z, y) /\ Slice(z, Len(y), n) = c
  BY <1>5, <1>9 DEF Grown, n
<1>11. Field(s) \in Seq(Int) /\ Len(Field(s)) = 1 + n
  BY <1>2, <1>3, <1>6 DEF Grown, n
<1>12. ASSUME NEW b \in Seq(Int), Starts(b, z)
       PROVE  FieldSays(b, Len(x), s)
  <2>1. Len(b) \in Nat /\ Len(z) <= Len(b) /\ Len(y) <= Len(z)
    BY <1>12, <1>10, <1>9 DEF Starts
  <2>2. b[Len(x) + 1] = n
    <3>1. Slice(y, Len(x), 1) = l
      BY <1>3, <1>4 DEF Grown
    <3>2. Len(x) + 1 \in 1..Len(y) /\ Len(x) + 1 <= Len(y) /\ 1 \in Nat /\ 1 \in 1..1
      BY <1>9
    <3>3. Slice(y, Len(x), 1)[1] = y[Len(x) + 1]
      BY <1>9, <3>2, SliceIs
    <3>4. Starts(b, y)
      BY <1>9, <1>10, <1>12, StartsTrans
    <3>5. b[Len(x) + 1] = y[Len(x) + 1]
      BY <3>2, <3>4 DEF Starts
    <3> QED BY <1>3, <3>1, <3>3, <3>5
  <2>3. Slice(b, Len(x) + 1, n) = c
    <3>1. Len(x) + 1 \in Nat /\ (Len(x) + 1) + n <= Len(z)
      BY <1>1, <1>9, <1>10
    <3>2. Slice(b, Len(x) + 1, n) = Slice(z, Len(x) + 1, n)
      BY <1>1, <1>10, <1>12, <3>1, StartsSlice
    <3> QED BY <1>9, <1>10, <3>2
  <2>4. FieldAt(b, Len(x)) = c
    BY <2>2, <2>3 DEF FieldAt
  <2>5. After(b, Len(x)) = Len(x) + 1 + n
    BY <2>2 DEF After
  <2>6. HasField(b, Len(x))
    BY <1>1, <1>9, <1>10, <2>1, <2>5 DEF HasField
  <2> QED BY <2>2, <2>4, <2>5, <2>6 DEF FieldSays, c, n
<1> QED BY <1>8, <1>10, <1>11, <1>12 DEF n, c

\* z is a message of this tag, and its first field is s.
Headed(z, tag, s) ==
    /\ z \in Seq(Int) /\ Tag(z) = tag /\ z[1] = tag /\ Tagged(z, tag) /\ Len(z) >= 2
    /\ FieldAt(z, 1) = Short(s) /\ After(z, 1) = 2 + Len(Short(s))

\* The bytes up to the end of the first field.
FirstField(tag, s) == <<tag>> \o Field(s)

LEMMA HeadIs ==
    ASSUME NEW tag \in Int, NEW s \in Text
    PROVE  /\ FirstField(tag, s) \in Seq(Int) /\ Len(FirstField(tag, s)) = 2 + Len(Short(s))
           /\ Len(Short(s)) \in 0..ShortMax
           /\ \A z \in Seq(Int) : Starts(z, FirstField(tag, s)) => Headed(z, tag, s)
<1> DEFINE t == <<tag>>
           x == t \o Field(s)
           n == Len(Short(s))
<1>1. t \in Seq(Int) /\ Len(t) = 1 /\ t[1] = tag
  OBVIOUS
<1>2. n \in 0..255 /\ n \in Nat
  BY ShortIs DEF ShortMax
<1> HIDE DEF t
<1>3. /\ x \in Seq(Int) /\ Len(x) = Len(t) + 1 + n /\ Field(s) \in Seq(Int)
      /\ \A b \in Seq(Int) : Starts(b, x) => FieldSays(b, Len(t), s)
  BY <1>1, FieldIs
<1>4. Starts(x, t)
  BY <1>1, <1>3, Joined
<1> HIDE DEF x, n
<1>5. Len(x) = 2 + n
  BY <1>1, <1>2, <1>3
<1>6. ASSUME NEW z \in Seq(Int), Starts(z, x)
      PROVE  Headed(z, tag, s)
  <2>1. FieldSays(z, 1, s)
    BY <1>1, <1>3, <1>6
  <2>2. Len(z) \in Nat /\ Len(z) >= 2
    BY <1>2, <1>5, <1>6 DEF Starts
  <2>3. z[1] = tag
    <3>1. Starts(z, t)
      BY <1>1, <1>3, <1>4, <1>6, StartsTrans
    <3> QED BY <1>1, <3>1 DEF Starts
  <2>4. z # <<>>
    BY <2>2
  <2>5. Tag(z) = tag
    BY <2>3, <2>4 DEF Tag
  <2>6. Tagged(z, tag)
    BY <2>1, <2>2, <2>3 DEF Tagged, FieldSays
  <2>7. After(z, 1) = 2 + n
    BY <1>2, <2>1 DEF FieldSays, n
  <2> QED BY <2>1, <2>2, <2>3, <2>5, <2>6, <2>7 DEF Headed, FieldSays, n
<1> QED BY <1>2, <1>3, <1>5, <1>6 DEF FirstField, x, t, n, ShortMax

\* A message of one field, one of two fields, and one of a field and bytes.
LEMMA OneField ==
    ASSUME NEW tag \in Int, NEW s \in Text
    PROVE  /\ Headed(FirstField(tag, s), tag, s)
           /\ Len(FirstField(tag, s)) <= 1000 /\ Len(FirstField(tag, s)) \in Nat
<1>1. /\ FirstField(tag, s) \in Seq(Int) /\ Len(FirstField(tag, s)) = 2 + Len(Short(s))
      /\ Len(Short(s)) \in 0..ShortMax
      /\ \A z \in Seq(Int) : Starts(z, FirstField(tag, s)) => Headed(z, tag, s)
  BY HeadIs
<1>2. Starts(FirstField(tag, s), FirstField(tag, s))
  BY <1>1, StartsAll
<1> DEFINE n == Len(FirstField(tag, s))
           k == Len(Short(s))
<1> HIDE DEF n, k
<1>3. n = 2 + k /\ k \in 0..255
  BY <1>1 DEF n, k, ShortMax
<1>4. n \in Nat /\ n <= 1000
  BY <1>3
<1> QED BY <1>1, <1>2, <1>4 DEF n

LEMMA FieldAndBytes ==
    ASSUME NEW tag \in Int, NEW s \in Text, NEW r \in Seq(Int)
    PROVE  LET z == FirstField(tag, s) \o r
           IN  /\ Headed(z, tag, s) /\ From(z, After(z, 1)) = r
               /\ Len(z) \in Nat /\ Len(r) \in Nat /\ Len(z) <= 1000 + Len(r)
<1> DEFINE x == FirstField(tag, s)
           z == x \o r
<1>1. /\ x \in Seq(Int) /\ Len(x) = 2 + Len(Short(s)) /\ Len(Short(s)) \in 0..ShortMax
      /\ \A b \in Seq(Int) : Starts(b, x) => Headed(b, tag, s)
  BY HeadIs
<1> HIDE DEF x
<1>2. /\ z \in Seq(Int) /\ Len(z) = Len(x) + Len(r) /\ Len(r) \in Nat /\ Starts(z, x)
      /\ From(z, Len(x)) = r
  BY <1>1, Joined
<1> HIDE DEF z
<1>3. Headed(z, tag, s)
  BY <1>1, <1>2
<1>4. After(z, 1) = Len(x)
  BY <1>1, <1>3 DEF Headed
<1>5. Len(z) \in Nat /\ Len(z) <= 1000 + Len(r)
  <2> DEFINE n == Len(z)
             k == Len(Short(s))
             l == Len(r)
  <2> HIDE DEF n, k, l
  <2>1. n = 2 + k + l /\ k \in 0..255 /\ l \in Nat
    BY <1>1, <1>2 DEF n, k, l, ShortMax
  <2>2. n \in Nat /\ n <= 1000 + l
    BY <2>1
  <2> QED BY <2>2 DEF n, l
<1> QED BY <1>2, <1>3, <1>4, <1>5 DEF z, x

LEMMA TwoFields ==
    ASSUME NEW tag \in Int, NEW s \in Text, NEW t \in Text
    PROVE  LET z == FirstField(tag, s) \o Field(t)
           IN  /\ Headed(z, tag, s) /\ HasField(z, After(z, 1)) /\ FieldAt(z, After(z, 1)) = Short(t)
               /\ Len(z) <= 2000 /\ Len(z) \in Nat
<1> DEFINE x == FirstField(tag, s)
           z == x \o Field(t)
<1>1. /\ x \in Seq(Int) /\ Len(x) = 2 + Len(Short(s)) /\ Len(Short(s)) \in 0..ShortMax
      /\ \A b \in Seq(Int) : Starts(b, x) => Headed(b, tag, s)
  BY HeadIs
<1> HIDE DEF x
<1>2. /\ Field(t) \in Seq(Int) /\ z \in Seq(Int) /\ Len(z) = Len(x) + 1 + Len(Short(t))
      /\ \A b \in Seq(Int) : Starts(b, z) => FieldSays(b, Len(x), t)
  BY <1>1, FieldIs
<1>3. Starts(z, x)
  BY <1>1, <1>2, Joined
<1> HIDE DEF z
<1>4. Headed(z, tag, s)
  BY <1>1, <1>2, <1>3
<1>5. FieldSays(z, Len(x), t)
  BY <1>2, StartsAll
<1>6. After(z, 1) = Len(x)
  BY <1>1, <1>4 DEF Headed
<1>7. Len(Short(t)) \in 0..ShortMax
  BY ShortIs
<1>8. Len(z) <= 2000 /\ Len(z) \in Nat
  <2> DEFINE n == Len(z)
             k == Len(Short(s))
             l == Len(Short(t))
  <2> HIDE DEF n, k, l
  <2>1. n = 2 + k + 1 + l /\ k \in 0..255 /\ l \in 0..255
    BY <1>1, <1>2, <1>7 DEF n, k, l, ShortMax
  <2>2. n \in Nat /\ n <= 2000
    BY <2>1
  <2> QED BY <2>2 DEF n
<1> QED BY <1>4, <1>5, <1>6, <1>8 DEF FieldSays, z, x

LEMMA SomethingIs ==
    /\ \A a : [peer |-> a] # Nothing
    /\ \A a : [wire |-> a] # Nothing
    /\ \A a, b : [peer |-> a, identity |-> b] # Nothing
    /\ \A a, b : [peer |-> a, name |-> b] # Nothing
    /\ \A a, b : [peer |-> a, wire |-> b] # Nothing
<1>1. DOMAIN Nothing = {}
  BY DEF Nothing
<1>2. \A a : [peer |-> a] # Nothing
  <2> SUFFICES ASSUME NEW a PROVE [peer |-> a] # Nothing
    OBVIOUS
  <2>1. DOMAIN [peer |-> a] = {"peer"}
    OBVIOUS
  <2> QED BY <1>1, <2>1
<1>3. \A a : [wire |-> a] # Nothing
  <2> SUFFICES ASSUME NEW a PROVE [wire |-> a] # Nothing
    OBVIOUS
  <2>1. DOMAIN [wire |-> a] = {"wire"}
    OBVIOUS
  <2> QED BY <1>1, <2>1
<1>4. \A a, b : [peer |-> a, identity |-> b] # Nothing
  <2> SUFFICES ASSUME NEW a, NEW b PROVE [peer |-> a, identity |-> b] # Nothing
    OBVIOUS
  <2>1. DOMAIN [peer |-> a, identity |-> b] = {"peer", "identity"}
    OBVIOUS
  <2> QED BY <1>1, <2>1
<1>5. \A a, b : [peer |-> a, name |-> b] # Nothing
  <2> SUFFICES ASSUME NEW a, NEW b PROVE [peer |-> a, name |-> b] # Nothing
    OBVIOUS
  <2>1. DOMAIN [peer |-> a, name |-> b] = {"peer", "name"}
    OBVIOUS
  <2> QED BY <1>1, <2>1
<1>6. \A a, b : [peer |-> a, wire |-> b] # Nothing
  <2> SUFFICES ASSUME NEW a, NEW b PROVE [peer |-> a, wire |-> b] # Nothing
    OBVIOUS
  <2>1. DOMAIN [peer |-> a, wire |-> b] = {"peer", "wire"}
    OBVIOUS
  <2> QED BY <1>1, <2>1
<1> QED BY <1>2, <1>3, <1>4, <1>5, <1>6

\* A payload a frame can carry.
PayloadMax == 100000
Fits(p) == p \in Seq(Int) /\ Len(p) \in Nat /\ Len(p) <= PayloadMax

LEMMA JoinedIs ==
    ASSUME NEW m \in [what : {"joined"}, peer : Text, identity : Text]
    PROVE  Fits(Encode(m)) /\ Heard(Encode(m)) = Meant(m)
<1> DEFINE z == FirstField(TagPeerJoined, m.peer) \o Field(m.identity)
           r == [what |-> "joined", peer |-> Short(m.peer), identity |-> Short(m.identity)]
<1>1. m.peer \in Text /\ m.identity \in Text /\ m.what = "joined"
  OBVIOUS
<1>2. Encode(m) = z
  BY <1>1 DEF Encode, EncodePeerJoined, FirstField
<1>3. TagPeerJoined \in Int
  BY DEF TagPeerJoined
<1>4. /\ Headed(z, TagPeerJoined, m.peer) /\ HasField(z, After(z, 1))
      /\ FieldAt(z, After(z, 1)) = Short(m.identity) /\ Len(z) <= 2000 /\ Len(z) \in Nat
  BY <1>1, <1>3, TwoFields
<1> HIDE DEF z
<1>5. DecodePeerJoined(z) = [peer |-> Short(m.peer), identity |-> Short(m.identity)]
  BY <1>4 DEF DecodePeerJoined, Headed
<1>6. Heard(z) = <<r>>
  <2>1. Tag(z) = TagPeerJoined
    BY <1>4 DEF Headed
  <2>2. DecodePeerJoined(z) # Nothing
    BY <1>5, SomethingIs
  <2>3. Heard(z) = <<[what |-> "joined", peer |-> DecodePeerJoined(z).peer,
                      identity |-> DecodePeerJoined(z).identity]>>
    BY <2>1, <2>2 DEF Heard, TagPeerJoined, TagPeerLeft, TagPeerName, TagAudio
  <2> QED BY <1>5, <2>3
<1>7. Meant(m) = <<r>>
  <2>1. [m EXCEPT !.peer = Short(@), !.identity = Short(@)] = r
    <3> DEFINE g == [m EXCEPT !.peer = Short(@), !.identity = Short(@)]
    <3>1. g \in [what : {"joined"}, peer : {Short(m.peer)}, identity : {Short(m.identity)}]
      OBVIOUS
    <3> HIDE DEF g
    <3>2. g = r
      BY <3>1
    <3> QED BY <3>2 DEF g
  <2>2. Meant(m) = <<[m EXCEPT !.peer = Short(@), !.identity = Short(@)]>>
    BY <1>1 DEF Meant
  <2> QED BY <2>1, <2>2
<1>8. Fits(z)
  <2>1. Len(z) <= PayloadMax
    BY <1>4 DEF PayloadMax
  <2> QED BY <1>4, <2>1 DEF Fits, Headed
<1> QED BY <1>2, <1>6, <1>7, <1>8

LEMMA LeftHeard ==
    ASSUME NEW m \in [what : {"left"}, peer : Text]
    PROVE  Fits(Encode(m)) /\ Heard(Encode(m)) = Meant(m)
<1> DEFINE z == FirstField(TagPeerLeft, m.peer)
           r == [what |-> "left", peer |-> Short(m.peer)]
<1>1. m.peer \in Text /\ m.what = "left"
  OBVIOUS
<1>2. Encode(m) = z
  BY <1>1 DEF Encode, EncodePeerLeft, FirstField
<1>3. TagPeerLeft \in Int
  BY DEF TagPeerLeft
<1>4. Headed(z, TagPeerLeft, m.peer) /\ Len(z) <= 1000 /\ Len(z) \in Nat
  BY <1>1, <1>3, OneField
<1> HIDE DEF z
<1>5. DecodePeerLeft(z) = [peer |-> Short(m.peer)]
  BY <1>4 DEF DecodePeerLeft, Headed
<1>6. Heard(z) = <<r>>
  <2>1. Tag(z) = TagPeerLeft
    BY <1>4 DEF Headed
  <2>2. DecodePeerLeft(z) # Nothing
    BY <1>5, SomethingIs
  <2>3. Heard(z) = <<[what |-> "left", peer |-> DecodePeerLeft(z).peer]>>
    BY <2>1, <2>2 DEF Heard, TagPeerJoined, TagPeerLeft, TagPeerName, TagAudio
  <2> QED BY <1>5, <2>3
<1>7. Meant(m) = <<r>>
  <2>1. [m EXCEPT !.peer = Short(@)] = r
    OBVIOUS
  <2>2. Meant(m) = <<[m EXCEPT !.peer = Short(@)]>>
    BY <1>1 DEF Meant
  <2> QED BY <2>1, <2>2
<1>8. Fits(z)
  <2>1. Len(z) <= PayloadMax
    BY <1>4 DEF PayloadMax
  <2> QED BY <1>4, <2>1 DEF Fits, Headed
<1> QED BY <1>2, <1>6, <1>7, <1>8

LEMMA NameHeard ==
    ASSUME NEW m \in [what : {"name"}, peer : Text, name : Text]
    PROVE  Fits(Encode(m)) /\ Heard(Encode(m)) = Meant(m)
<1> DEFINE z == FirstField(TagPeerName, m.peer) \o Field(m.name)
           r == [what |-> "name", peer |-> Short(m.peer), name |-> Short(m.name)]
<1>1. m.peer \in Text /\ m.name \in Text /\ m.what = "name"
  OBVIOUS
<1>2. Encode(m) = z
  BY <1>1 DEF Encode, EncodePeerName, FirstField
<1>3. TagPeerName \in Int
  BY DEF TagPeerName
<1>4. /\ Headed(z, TagPeerName, m.peer) /\ HasField(z, After(z, 1))
      /\ FieldAt(z, After(z, 1)) = Short(m.name) /\ Len(z) <= 2000 /\ Len(z) \in Nat
  BY <1>1, <1>3, TwoFields
<1> HIDE DEF z
<1>5. DecodePeerName(z) = [peer |-> Short(m.peer), name |-> Short(m.name)]
  BY <1>4 DEF DecodePeerName, Headed
<1>6. Heard(z) = <<r>>
  <2>1. Tag(z) = TagPeerName
    BY <1>4 DEF Headed
  <2>2. DecodePeerName(z) # Nothing
    BY <1>5, SomethingIs
  <2>3. Heard(z) = <<[what |-> "name", peer |-> DecodePeerName(z).peer, name |-> DecodePeerName(z).name]>>
    BY <2>1, <2>2 DEF Heard, TagPeerJoined, TagPeerLeft, TagPeerName, TagAudio
  <2> QED BY <1>5, <2>3
<1>7. Meant(m) = <<r>>
  <2>1. [m EXCEPT !.peer = Short(@), !.name = Short(@)] = r
    <3> DEFINE g == [m EXCEPT !.peer = Short(@), !.name = Short(@)]
    <3>1. g \in [what : {"name"}, peer : {Short(m.peer)}, name : {Short(m.name)}]
      OBVIOUS
    <3> HIDE DEF g
    <3>2. g = r
      BY <3>1
    <3> QED BY <3>2 DEF g
  <2>2. Meant(m) = <<[m EXCEPT !.peer = Short(@), !.name = Short(@)]>>
    BY <1>1 DEF Meant
  <2> QED BY <2>1, <2>2
<1>8. Fits(z)
  <2>1. Len(z) <= PayloadMax
    BY <1>4 DEF PayloadMax
  <2> QED BY <1>4, <2>1 DEF Fits, Headed
<1> QED BY <1>2, <1>6, <1>7, <1>8

\* A frame decodes to a record.
LEMMA SaidIs ==
    ASSUME NEW f \in AudioFrames, NEW at
    PROVE  [Said(f) EXCEPT !.index = at] # Nothing
<1> DEFINE g == [Said(f) EXCEPT !.index = at]
<1>1. DOMAIN Nothing = {}
  BY DEF Nothing
<1>2. DOMAIN g = DOMAIN Said(f)
  OBVIOUS
<1>3. "index" \in DOMAIN Said(f)
  <2>1. f.final \in BOOLEAN /\ "index" \in DOMAIN f
    BY DEF AudioFrames
  <2>2. CASE f.final
    BY <2>1, <2>2 DEF Said
  <2>3. CASE ~f.final
    <3>1. Said(f) = AudioFrame(f.index, f.stream, f.number, f.seq, f.channels, f.opus)
      BY <2>3 DEF Said
    <3>2. "index" \in DOMAIN AudioFrame(f.index, f.stream, f.number, f.seq, f.channels, f.opus)
      BY DEF AudioFrame
    <3> QED BY <3>1, <3>2
  <2> QED BY <2>1, <2>2, <2>3
<1> QED BY <1>1, <1>2, <1>3

\* Bytes as long as a frame can be.
Wired(w) == w \in Seq(Int) /\ Len(w) \in Nat /\ Len(w) <= 70000 /\ Len(w) >= 1

LEMMA WireIs ==
    ASSUME NEW f \in AudioFrames, NEW at \in Int
    PROVE  Wired(RewriteIndex(EncodeWaif(f), at)) /\ Wired(EncodeWaif(f))
<1> DEFINE z == RewriteIndex(EncodeWaif(f), at)
           y == EncodeWaif(f)
<1>1. f.index \in Int
  BY DEF AudioFrames, SInt
<1>2. y = Waif(f, Bytes(f.index, 8)) /\ z = Waif(f, Bytes(at, 8))
  BY <1>1, RewrittenIs
<1>3. \A i \in Int : Bytes(i, 8) \in Seq(Int) /\ Len(Bytes(i, 8)) = 8
  BY BytesAre
<1>4. FrameSays(Waif(f, Bytes(f.index, 8)), f, Bytes(f.index, 8)) /\ FrameSays(Waif(f, Bytes(at, 8)), f, Bytes(at, 8))
  BY <1>1, <1>3, WaifIs
<1> HIDE DEF y, z
<1>5. FrameSays(y, f, Bytes(f.index, 8)) /\ FrameSays(z, f, Bytes(at, 8))
  BY <1>2, <1>4
<1>6. y \in Seq(Int) /\ Len(y) >= HeaderSize /\ Len(y) <= HeaderSize + Base * Base + FinalExtra
  BY PeekIs DEF y
<1>7. z \in Seq(Int) /\ Len(z) = Len(y)
  BY <1>5 DEF FrameSays
<1>8. Len(y) \in Nat /\ Len(y) <= 70000 /\ Len(y) >= 1
  <2> DEFINE n == Len(y)
  <2>1. n \in Nat /\ n >= 25 /\ n <= 25 + 256 * 256 + 28
    BY <1>6 DEF HeaderSize, Base, FinalExtra
  <2> HIDE DEF n
  <2>2. n \in Nat /\ n <= 70000 /\ n >= 1
    BY <2>1
  <2> QED BY <2>2 DEF n
<1> QED BY <1>6, <1>7, <1>8 DEF y, z, Wired

LEMMA AudioHeard ==
    ASSUME NEW m \in [what : {"audio"}, peer : Text, frame : AudioFrames, at : SInt(8)]
    PROVE  Fits(Encode(m)) /\ Heard(Encode(m)) = Meant(m)
<1> DEFINE w == RewriteIndex(EncodeWaif(m.frame), m.at)
           z == FirstField(TagAudio, m.peer) \o w
           g == [Said(m.frame) EXCEPT !.index = m.at]
           r == [what |-> "audio", peer |-> Short(m.peer), frame |-> g]
<1>1. m.peer \in Text /\ m.frame \in AudioFrames /\ m.at \in SInt(8) /\ m.at \in Int /\ m.what = "audio"
  BY DEF SInt
<1>2. Encode(m) = z
  BY <1>1 DEF Encode, EncodeAudio, FirstField
<1>3. TagAudio \in Int
  BY DEF TagAudio
<1>4. w \in Seq(Int) /\ Len(w) \in Nat /\ Len(w) <= 70000
  <2>1. \A f \in AudioFrames, i \in Int : Wired(RewriteIndex(EncodeWaif(f), i))
    BY WireIs
  <2>2. Wired(w)
    BY <1>1, <2>1, Zenon
  <2> QED BY <2>2 DEF Wired
<1>5. DecodeWaif(w) = g
  BY <1>1, WaifRoundTrip
<1>6. g # Nothing
  BY <1>1, SaidIs
<1>7. Meant(m) = <<r>>
  BY <1>1 DEF Meant
<1> HIDE DEF w, g
<1>8. /\ Headed(z, TagAudio, m.peer) /\ From(z, After(z, 1)) = w
      /\ Len(z) \in Nat /\ Len(z) <= 1000 + Len(w)
  BY <1>1, <1>3, <1>4, FieldAndBytes
<1> HIDE DEF z
<1>9. DecodeAudio(z) = [peer |-> Short(m.peer), wire |-> w]
  BY <1>8 DEF DecodeAudio, Headed
<1>10. Heard(z) = <<r>>
  <2>1. Tag(z) = TagAudio
    BY <1>8 DEF Headed
  <2>2. DecodeAudio(z) # Nothing
    BY <1>9, SomethingIs
  <2>3. DecodeAudio(z).peer = Short(m.peer) /\ DecodeAudio(z).wire = w
    BY <1>9
  <2>4. Heard(z) = IF DecodeWaif(DecodeAudio(z).wire) = Nothing THEN <<>>
                   ELSE <<[what |-> "audio", peer |-> DecodeAudio(z).peer,
                           frame |-> DecodeWaif(DecodeAudio(z).wire)]>>
    BY <2>1, <2>2 DEF Heard, TagPeerJoined, TagPeerLeft, TagPeerName, TagAudio
  <2> QED BY <1>5, <1>6, <2>3, <2>4
<1>11. Fits(z)
  <2>1. Len(z) <= PayloadMax
    <3> DEFINE n == Len(z)
               k == Len(w)
    <3>1. n <= 1000 + k /\ k <= 70000 /\ n \in Nat /\ k \in Nat
      BY <1>4, <1>8
    <3> HIDE DEF n, k
    <3>2. n <= 100000
      BY <3>1
    <3> QED BY <3>2 DEF n, PayloadMax
  <2> QED BY <1>8, <2>1 DEF Fits, Headed
<1> QED BY <1>2, <1>7, <1>10, <1>11

\* A byte with bytes behind it.
LEMMA BehindTag ==
    ASSUME NEW tag \in Int, NEW w \in Seq(Int)
    PROVE  LET z == <<tag>> \o w
           IN  /\ z \in Seq(Int) /\ Len(z) = 1 + Len(w) /\ Len(w) \in Nat /\ z[1] = tag /\ Tag(z) = tag
               /\ From(z, 1) = w
<1> DEFINE t == <<tag>>
           z == t \o w
<1>1. t \in Seq(Int) /\ Len(t) = 1 /\ t[1] = tag
  OBVIOUS
<1> HIDE DEF t
<1>2. /\ z \in Seq(Int) /\ Len(z) = Len(t) + Len(w) /\ Len(w) \in Nat /\ Starts(z, t)
      /\ From(z, Len(t)) = w
  BY <1>1, Joined
<1> HIDE DEF z
<1>3. z[1] = tag
  BY <1>1, <1>2 DEF Starts
<1>4. z # <<>>
  BY <1>1, <1>2
<1>5. Tag(z) = tag
  BY <1>3, <1>4 DEF Tag
<1> QED BY <1>1, <1>2, <1>3, <1>5 DEF z, t

LEMMA FrameHeard ==
    ASSUME NEW m \in [what : {"frame"}, frame : AudioFrames]
    PROVE  Fits(Encode(m)) /\ Relayed(Encode(m)) = Meant(m)
<1> DEFINE w == EncodeWaif(m.frame)
           z == <<TagAudioFrame>> \o w
           h == Header(m.frame.index, m.frame.stream, m.frame.number, m.frame.seq, m.frame.final,
                       Said(m.frame).total)
           r == [what |-> "frame", header |-> h]
<1>1. m.frame \in AudioFrames /\ m.what = "frame"
  OBVIOUS
<1>2. Encode(m) = z
  BY <1>1 DEF Encode, EncodeAudioFrame
<1>3. TagAudioFrame \in Int
  BY DEF TagAudioFrame
<1>4. w \in Seq(Int) /\ Len(w) \in Nat /\ Len(w) <= 70000 /\ Len(w) >= 1
  <2>1. 0 \in Int
    OBVIOUS
  <2> QED BY <1>1, <2>1, WireIs DEF Wired
<1>5. Peek(w) = h
  BY <1>1, PeekIs
<1>6. Meant(m) = <<r>>
  BY <1>1 DEF Meant
<1> HIDE DEF w, h
<1>7. z \in Seq(Int) /\ Len(z) = 1 + Len(w) /\ z[1] = TagAudioFrame /\ From(z, 1) = w
  BY <1>3, <1>4, BehindTag
<1> HIDE DEF z
<1>8. Len(z) \in Nat /\ Len(z) >= 2 /\ Len(z) <= 100000
  <2> DEFINE n == Len(z)
             k == Len(w)
  <2>1. n = 1 + k /\ k <= 70000 /\ k >= 1 /\ k \in Nat
    BY <1>4, <1>7
  <2> HIDE DEF n, k
  <2>2. n \in Nat /\ n >= 2 /\ n <= 100000
    BY <2>1
  <2> QED BY <2>2 DEF n
<1>9. DecodeAudioFrame(z) = [wire |-> w]
  BY <1>7, <1>8 DEF DecodeAudioFrame
<1>10. Relayed(z) = <<r>>
  <2>1. DecodeAudioFrame(z) # Nothing /\ DecodeAudioFrame(z).wire = w
    BY <1>9, SomethingIs
  <2> QED BY <1>5, <2>1 DEF Relayed
<1> QED BY <1>2, <1>6, <1>7, <1>8, <1>10 DEF Fits, PayloadMax

LEMMA MetricsHeard ==
    ASSUME NEW m \in [what : {"metrics"}, failures : UInt(8)]
    PROVE  Fits(Encode(m)) /\ Relayed(Encode(m)) = Meant(m)
<1> DEFINE w == Bytes(m.failures, 8)
           z == <<TagMetrics>> \o w
<1>1. m.what = "metrics" /\ m.failures \in Int
  BY DEF UInt
<1>2. Encode(m) = z
  BY <1>1 DEF Encode, EncodeMetrics
<1>3. TagMetrics \in Int
  BY DEF TagMetrics
<1>4. w \in Seq(Int) /\ Len(w) = 8
  BY <1>1, BytesAre
<1>5. Meant(m) = <<>>
  BY <1>1 DEF Meant
<1> HIDE DEF w
<1>6. z \in Seq(Int) /\ Len(z) = 1 + Len(w) /\ z[1] = TagMetrics
  BY <1>3, <1>4, BehindTag
<1> HIDE DEF z
<1>7. DecodeAudioFrame(z) = Nothing
  BY <1>6 DEF DecodeAudioFrame, TagMetrics, TagAudioFrame
<1>8. Relayed(z) = <<>>
  BY <1>7 DEF Relayed
<1>9. Fits(z)
  BY <1>4, <1>6 DEF Fits, PayloadMax
<1> QED BY <1>2, <1>5, <1>8, <1>9

----------------------------------------------------------------------------
(* Sequences of sequences, joined *)

\* The first n of them.
Flat(ss, n) == FlattenSeq([k \in 1..n |-> ss[k]])

\* h[k] is the first k of ss, one behind another.
Chain(h, ss, n, T) ==
    /\ h \in [0..n -> Seq(T)] /\ h[0] = <<>>
    /\ \A k \in 1..n : h[k] = h[k - 1] \o ss[k]

LEMMA ChainExists ==
    ASSUME NEW T, NEW ss \in Seq(Seq(T))
    PROVE  \E h : Chain(h, ss, Len(ss), T)
<1> DEFINE Some(v) == v <= Len(ss) => \E h : Chain(h, ss, v, T)
           S == {v \in Nat : Some(v)}
<1>1. 0 \in S
  <2> DEFINE h == [k \in 0..0 |-> <<>>]
  <2>1. h \in [0..0 -> Seq(T)] /\ h[0] = <<>>
    <3>1. <<>> \in Seq(T)
      OBVIOUS
    <3> QED BY <3>1
  <2>2. Chain(h, ss, 0, T)
    BY <2>1 DEF Chain
  <2> QED BY <2>2
<1>2. ASSUME NEW n \in Nat, n \in S PROVE n + 1 \in S
  <2> SUFFICES ASSUME n + 1 <= Len(ss) PROVE \E h : Chain(h, ss, n + 1, T)
    OBVIOUS
  <2>1. PICK h : Chain(h, ss, n, T)
    BY <1>2
  <2> DEFINE g == [k \in 0..(n + 1) |-> IF k = n + 1 THEN h[n] \o ss[n + 1] ELSE h[k]]
  <2>2. h[n] \in Seq(T) /\ ss[n + 1] \in Seq(T)
    <3>1. n + 1 \in 1..Len(ss) /\ n \in 0..n
      OBVIOUS
    <3> QED BY <2>1, <3>1 DEF Chain
  <2>3. h[n] \o ss[n + 1] \in Seq(T)
    BY <2>2, ConcatProperties
  <2>4. \A k \in 0..(n + 1) : g[k] \in Seq(T)
    <3> SUFFICES ASSUME NEW k \in 0..(n + 1) PROVE g[k] \in Seq(T)
      OBVIOUS
    <3>1. CASE k = n + 1
      BY <2>3, <3>1
    <3>2. CASE k # n + 1
      <4>1. k \in 0..n /\ g[k] = h[k]
        BY <3>2
      <4> QED BY <2>1, <4>1 DEF Chain
    <3> QED BY <3>1, <3>2
  <2>5. g \in [0..(n + 1) -> Seq(T)]
    BY <2>4
  <2>6. g[0] = <<>>
    BY <2>1 DEF Chain
  <2>7. ASSUME NEW k \in 1..(n + 1) PROVE g[k] = g[k - 1] \o ss[k]
    <3>1. k - 1 \in 0..(n + 1) /\ k - 1 # n + 1 /\ k \in 0..(n + 1)
      OBVIOUS
    <3>2. g[k - 1] = h[k - 1]
      BY <3>1
    <3>3. CASE k = n + 1
      <4>1. g[k] = h[n] \o ss[n + 1]
        BY <3>1, <3>3
      <4>2. k - 1 = n
        BY <3>3
      <4> QED BY <3>2, <3>3, <4>1, <4>2
    <3>4. CASE k # n + 1
      <4>1. k \in 1..n /\ g[k] = h[k]
        BY <3>1, <3>4
      <4>2. h[k] = h[k - 1] \o ss[k]
        BY <2>1, <4>1 DEF Chain
      <4> QED BY <3>2, <4>1, <4>2
    <3> QED BY <3>3, <3>4
  <2>8. Chain(g, ss, n + 1, T)
    <3> HIDE DEF g
    <3> QED BY <2>5, <2>6, <2>7 DEF Chain
  <2> QED BY <2>8
<1>3. \A v \in Nat : v \in S
  <2> HIDE DEF S
  <2> QED BY <1>1, <1>2, NatSet
<1>4. Len(ss) \in Nat
  OBVIOUS
<1> QED BY <1>3, <1>4

LEMMA FlatIs ==
    ASSUME NEW T, NEW ss \in Seq(Seq(T)), NEW h, Chain(h, ss, Len(ss), T), NEW n \in 0..Len(ss)
    PROVE  Flat(ss, n) = h[n]
<1> DEFINE s == [k \in 1..n |-> ss[k]]
<1>1. Len(s) = n /\ \A k \in 1..n : s[k] = ss[k]
  OBVIOUS
<1>2. n \in Nat /\ Len(ss) \in Nat
  OBVIOUS
<1>3. CASE n = 0
  <2>1. Flat(ss, n) = s
    BY <1>1, <1>3 DEF Flat, FlattenSeq
  <2>2. s = <<>>
    BY <1>3
  <2>3. h[0] = <<>>
    BY DEF Chain
  <2> QED BY <1>3, <2>1, <2>2, <2>3
<1>4. CASE n # 0
  <2> HIDE DEF s
  <2> DEFINE Flattens(f) == f = [i \in 1..n |-> IF i = 1 THEN s[i] ELSE f[i - 1] \o s[i]]
             flatten == CHOOSE flatten :
                 flatten = [i \in 1..Len(s) |-> IF i = 1 THEN s[i] ELSE flatten[i - 1] \o s[i]]
  <2>1. Flattens([i \in 1..n |-> h[i]])
    <3> DEFINE f == [i \in 1..n |-> h[i]]
    <3>1. ASSUME NEW i \in 1..n
          PROVE  f[i] = IF i = 1 THEN s[i] ELSE f[i - 1] \o s[i]
      <4>1. i \in 1..Len(ss) /\ ss[i] = s[i] /\ ss[i] \in Seq(T) /\ f[i] = h[i]
        BY <1>1, <1>2
      <4>2. h[i] = h[i - 1] \o ss[i]
        BY <4>1 DEF Chain
      <4>3. CASE i = 1
        <5>1. h[i - 1] = <<>>
          BY <4>3 DEF Chain
        <5>2. <<>> \o ss[i] = ss[i]
          BY <4>1, ConcatEmptySeq
        <5> QED BY <4>1, <4>2, <4>3, <5>1, <5>2
      <4>4. CASE i # 1
        <5>1. i - 1 \in 1..n /\ f[i - 1] = h[i - 1]
          BY <4>4
        <5> QED BY <4>1, <4>2, <4>4, <5>1
      <4> QED BY <4>3, <4>4
    <3>2. f = [i \in 1..n |-> f[i]]
      OBVIOUS
    <3> HIDE DEF f
    <3>3. [i \in 1..n |-> f[i]] = [i \in 1..n |-> IF i = 1 THEN s[i] ELSE f[i - 1] \o s[i]]
      BY <3>1
    <3> QED BY <3>2, <3>3 DEF f
  <2>2. flatten = [i \in 1..Len(s) |-> IF i = 1 THEN s[i] ELSE flatten[i - 1] \o s[i]]
    <3> HIDE DEF Flattens
    <3>1. \E f : Flattens(f)
      BY <2>1
    <3>2. \E f : f = [i \in 1..Len(s) |-> IF i = 1 THEN s[i] ELSE f[i - 1] \o s[i]]
      BY <1>1, <3>1 DEF Flattens
    <3> QED BY <3>2, Zenon
  <2>3. Flat(ss, n) = flatten[n]
    <3>1. Flat(ss, n) = FlattenSeq(s)
      BY DEF Flat, s
    <3>2. FlattenSeq(s) = flatten[Len(s)]
      BY <1>1, <1>4 DEF FlattenSeq
    <3> QED BY <1>1, <3>1, <3>2
  <2> HIDE DEF flatten
  <2>4. ASSUME NEW i \in 1..n
        PROVE  flatten[i] = IF i = 1 THEN s[i] ELSE flatten[i - 1] \o s[i]
    BY <1>1, <2>2
  <2> DEFINE S == {k \in Nat : k + 1 <= n => flatten[k + 1] = h[k + 1]}
  <2>5. 0 \in S
    <3>1. 1 \in 1..n /\ 1 \in 1..Len(ss) /\ 1 - 1 = 0
      BY <1>2, <1>4
    <3>2. flatten[1] = s[1] /\ s[1] = ss[1] /\ ss[1] \in Seq(T)
      BY <1>1, <2>4, <3>1
    <3>3. h[1] = <<>> \o ss[1]
      BY <3>1 DEF Chain
    <3>4. h[1] = ss[1]
      BY <3>2, <3>3, ConcatEmptySeq
    <3> QED BY <3>2, <3>4
  <2>6. ASSUME NEW k \in Nat, k \in S PROVE k + 1 \in S
    <3> SUFFICES ASSUME (k + 1) + 1 <= n PROVE flatten[(k + 1) + 1] = h[(k + 1) + 1]
      OBVIOUS
    <3> DEFINE j == (k + 1) + 1
    <3>1. j \in 1..n /\ j # 1 /\ j - 1 = k + 1 /\ j \in 1..Len(ss) /\ k + 1 <= n
      BY <1>2
    <3> HIDE DEF j
    <3>2. flatten[j] = flatten[j - 1] \o s[j] /\ s[j] = ss[j]
      BY <1>1, <2>4, <3>1
    <3>3. h[j] = h[j - 1] \o ss[j]
      BY <3>1 DEF Chain
    <3>4. flatten[k + 1] = h[k + 1]
      BY <2>6, <3>1
    <3>5. flatten[j] = h[j]
      BY <3>1, <3>2, <3>3, <3>4
    <3> QED BY <3>5 DEF j
  <2>7. \A k \in Nat : k \in S
    <3> HIDE DEF S
    <3> QED BY <2>5, <2>6, NatSet
  <2>8. flatten[n] = h[n]
    <3>1. n - 1 \in Nat /\ (n - 1) + 1 = n
      BY <1>2, <1>4
    <3>2. n - 1 \in S
      BY <2>7, <3>1
    <3>3. (n - 1) + 1 <= n => flatten[(n - 1) + 1] = h[(n - 1) + 1]
      BY <3>2
    <3> QED BY <1>2, <3>1, <3>3
  <2> QED BY <2>3, <2>8
<1> QED BY <1>3, <1>4

LEMMA FlatSteps ==
    ASSUME NEW T, NEW ss \in Seq(Seq(T))
    PROVE  /\ \A n \in 0..Len(ss) : Flat(ss, n) \in Seq(T)
           /\ Flat(ss, 0) = <<>>
           /\ \A n \in 0..Len(ss) : n < Len(ss) => Flat(ss, n + 1) = Flat(ss, n) \o ss[n + 1]
<1>1. PICK h : Chain(h, ss, Len(ss), T)
  BY ChainExists
<1>2. Len(ss) \in Nat
  OBVIOUS
<1>3. \A n \in 0..Len(ss) : Flat(ss, n) = h[n]
  BY <1>1, FlatIs
<1>4. \A n \in 0..Len(ss) : h[n] \in Seq(T)
  BY <1>1 DEF Chain
<1>5. Flat(ss, 0) = <<>>
  <2>1. 0 \in 0..Len(ss)
    BY <1>2
  <2>2. h[0] = <<>>
    BY <1>1 DEF Chain
  <2> QED BY <1>3, <2>1, <2>2
<1>6. ASSUME NEW n \in 0..Len(ss), n < Len(ss)
      PROVE  Flat(ss, n + 1) = Flat(ss, n) \o ss[n + 1]
  <2>1. n + 1 \in 0..Len(ss) /\ n + 1 \in 1..Len(ss) /\ (n + 1) - 1 = n
    BY <1>2, <1>6
  <2>2. h[n + 1] = h[(n + 1) - 1] \o ss[n + 1]
    BY <1>1, <2>1 DEF Chain
  <2> QED BY <1>3, <2>1, <2>2
<1> QED BY <1>3, <1>4, <1>5, <1>6

\* What is joined so far begins all of it.
LEMMA FlatRest ==
    ASSUME NEW T, NEW ss \in Seq(Seq(T)), NEW i \in 0..Len(ss)
    PROVE  \E r \in Seq(T) : Flat(ss, Len(ss)) = Flat(ss, i) \o r
<1> DEFINE N == Len(ss)
           Some(v) == \E r \in Seq(T) : Flat(ss, i + v) = Flat(ss, i) \o r
           S == {v \in Nat : i + v <= N => Some(v)}
<1>1. /\ \A n \in 0..N : Flat(ss, n) \in Seq(T)
      /\ \A n \in 0..N : n < N => Flat(ss, n + 1) = Flat(ss, n) \o ss[n + 1]
      /\ N \in Nat /\ i \in Nat /\ i <= N
  BY FlatSteps
<1>2. 0 \in S
  <2>1. <<>> \in Seq(T) /\ i + 0 = i
    BY <1>1
  <2>2. Flat(ss, i) = Flat(ss, i) \o <<>>
    BY <1>1, ConcatEmptySeq
  <2>3. Some(0)
    BY <2>1, <2>2
  <2> QED BY <2>3
<1>3. ASSUME NEW v \in Nat, v \in S PROVE v + 1 \in S
  <2>1. CASE i + (v + 1) <= N
    <3>1. Some(v)
      <4>1. i + v <= N
        BY <1>1, <2>1
      <4> HIDE DEF Some, N
      <4> QED BY <1>3, <4>1
    <3>2. PICK r \in Seq(T) : Flat(ss, i + v) = Flat(ss, i) \o r
      BY <3>1
    <3> DEFINE n == i + v
    <3>3. n \in 0..N /\ n < N /\ i + (v + 1) = n + 1 /\ n + 1 \in 1..N
      BY <1>1, <2>1
    <3>4. Flat(ss, n) = Flat(ss, i) \o r
      BY <3>2
    <3> HIDE DEF n
    <3>5. Flat(ss, n + 1) = Flat(ss, n) \o ss[n + 1]
      <4> HIDE DEF N
      <4> QED BY <1>1, <3>3
    <3>6. ss[n + 1] \in Seq(T)
      BY <3>3
    <3>7. Flat(ss, i) \in Seq(T)
      <4> HIDE DEF N
      <4>1. i \in 0..N
        BY <1>1
      <4> QED BY <1>1, <4>1
    <3> DEFINE a == Flat(ss, i)
               b == ss[n + 1]
    <3>8. a \in Seq(T) /\ b \in Seq(T)
      BY <3>6, <3>7
    <3>9. Flat(ss, n + 1) = (a \o r) \o b
      BY <3>4, <3>5
    <3> HIDE DEF a, b
    <3>10. (a \o r) \o b = a \o (r \o b)
      BY <3>8, ConcatAssociative
    <3>11. r \o b \in Seq(T)
      BY <3>8, ConcatProperties
    <3>12. Flat(ss, i + (v + 1)) = a \o (r \o b)
      BY <3>3, <3>9, <3>10
    <3>13. Some(v + 1)
      BY <3>11, <3>12 DEF a
    <3> HIDE DEF Some
    <3> QED BY <3>13
  <2>2. CASE ~(i + (v + 1) <= N)
    <3> HIDE DEF Some
    <3> QED BY <2>2
  <2> QED BY <2>1, <2>2
<1>4. \A v \in Nat : v \in S
  <2> HIDE DEF S
  <2> QED BY <1>2, <1>3, NatSet
<1>5. Some(N - i)
  <2>1. N - i \in Nat /\ i + (N - i) <= N
    BY <1>1
  <2>2. N - i \in S
    BY <1>4, <2>1
  <2> HIDE DEF Some
  <2> QED BY <2>1, <2>2
<1>6. i + (N - i) = N
  BY <1>1
<1> QED BY <1>5, <1>6

LEMMA PrefixIs ==
    ASSUME NEW T, NEW a \in Seq(T), NEW r \in Seq(T)
    PROVE  IsPrefix(a, a \o r)
<1> DEFINE z == a \o r
<1>1. z \in Seq(T) /\ Len(z) = Len(a) + Len(r) /\ Len(a) \in Nat /\ Len(r) \in Nat
  BY ConcatProperties
<1>2. \A i \in 1..Len(a) : z[i] = a[i]
  <2>1. \A i \in 1..(Len(a) + Len(r)) : z[i] = IF i <= Len(a) THEN a[i] ELSE r[i - Len(a)]
    BY ConcatProperties
  <2> HIDE DEF z
  <2> QED BY <1>1, <2>1
<1> HIDE DEF z
<1>3. SubSeq(a, 1, Len(a)) = SubSeq(z, 1, Len(a))
  <2> DEFINE x == SubSeq(a, 1, Len(a))
             y == SubSeq(z, 1, Len(a))
             n == Len(a)
  <2>0. n \in Nat /\ n <= Len(z) /\ n <= Len(a)
    BY <1>1
  <2> HIDE DEF n
  <2>1. x = [i \in 1..n |-> a[i]]
    BY <2>0 DEF n
  <2>2. y = [i \in 1..n |-> z[i]]
    BY <1>1, <2>0 DEF n
  <2> HIDE DEF x, y
  <2>3. \A i \in 1..n : a[i] = z[i]
    BY <1>2 DEF n
  <2>4. x = y
    BY <2>1, <2>2, <2>3
  <2> QED BY <2>4 DEF x, y
<1>4. Len(a) <= Len(z)
  BY <1>1
<1> QED BY <1>3, <1>4 DEF IsPrefix, z

----------------------------------------------------------------------------
(* Length-prefixed frames: next_frame cuts the stream where it was put together *)

\* One sequence behind another.
Cat(s, t) == s \o t

LEMMA Shift ==
    ASSUME NEW s \in Seq(Int), NEW t \in Seq(Int), NEW u \in Seq(Int)
    PROVE  Cat(Cat(s, t), u) = Cat(s, Cat(t, u)) /\ Cat(s, t) \in Seq(Int)
BY Assoc, ConcatProperties DEF Cat

LEMMA Cancel ==
    ASSUME NEW x \in Seq(Int), NEW y \in Seq(Int), NEW z \in Seq(Int), x \o y = x \o z
    PROVE  y = z
<1>1. From(x \o y, Len(x)) = y
  BY Joined
<1>2. From(x \o z, Len(x)) = z
  BY Joined
<1> QED BY <1>1, <1>2

LEMMA SplitAt ==
    ASSUME NEW b \in Seq(Int), NEW k \in Nat, k <= Len(b)
    PROVE  /\ Slice(b, 0, k) \in Seq(Int) /\ From(b, k) \in Seq(Int)
           /\ b = Slice(b, 0, k) \o From(b, k)
<1> DEFINE x == Slice(b, 0, k)
           y == From(b, k)
           z == x \o y
           l == Len(b) - k
<1>1. Len(b) \in Nat /\ l \in Nat /\ k + l = Len(b) /\ k + l <= Len(b) /\ 0 \in Nat /\ 0 + k <= Len(b)
  OBVIOUS
<1>2. y = Slice(b, k, l)
  BY FromIs
<1> HIDE DEF l
<1>3. x \in Seq(Int) /\ Len(x) = k /\ \A i \in 1..k : x[i] = b[0 + i]
  BY <1>1, SliceIs
<1>4. y \in Seq(Int) /\ Len(y) = l /\ \A i \in 1..l : y[i] = b[k + i]
  <2>1. k \in Nat /\ l \in Nat /\ k + l <= Len(b)
    BY <1>1
  <2>2. \A from, n \in Nat :
           from + n <= Len(b) => /\ Slice(b, from, n) \in Seq(Int) /\ Len(Slice(b, from, n)) = n
                                 /\ \A i \in 1..n : Slice(b, from, n)[i] = b[from + i]
    BY SlicesAre
  <2> HIDE DEF y
  <2> QED BY <1>2, <2>1, <2>2
<1> HIDE DEF x, y
<1>5. z \in Seq(Int) /\ Len(z) = k + l
      /\ \A i \in 1..(k + l) : z[i] = IF i <= k THEN x[i] ELSE y[i - k]
  <2>1. z \in Seq(Int) /\ Len(z) = Len(x) + Len(y)
        /\ \A i \in 1..(Len(x) + Len(y)) : z[i] = IF i <= Len(x) THEN x[i] ELSE y[i - Len(x)]
    BY <1>3, <1>4, ConcatProperties
  <2> HIDE DEF z
  <2>2. Len(x) = k /\ Len(y) = l
    BY <1>3, <1>4
  <2> QED BY <2>1, <2>2
<1> HIDE DEF z
<1>6. \A i \in 1..Len(b) : z[i] = b[i]
  <2> SUFFICES ASSUME NEW i \in 1..Len(b) PROVE z[i] = b[i]
    OBVIOUS
  <2>1. CASE i <= k
    <3>1. i \in 1..k /\ 0 + i = i /\ i \in 1..(k + l)
      BY <1>1, <2>1
    <3> QED BY <1>3, <1>5, <2>1, <3>1
  <2>2. CASE ~(i <= k)
    <3>1. i - k \in 1..l /\ k + (i - k) = i /\ i \in 1..(k + l)
      BY <1>1, <2>2
    <3>2. z[i] = y[i - k]
      BY <1>5, <2>2, <3>1
    <3>3. y[i - k] = b[k + (i - k)]
      BY <1>4, <3>1
    <3> QED BY <3>1, <3>2, <3>3
  <2> QED BY <2>1, <2>2
<1>7. z = b
  BY <1>1, <1>5, <1>6, SeqEqual
<1> QED BY <1>3, <1>4, <1>7 DEF z, x, y

LEMMA LengthFits ==
    ASSUME NEW n \in Nat, n <= PayloadMax
    PROVE  n \in UInt(4)
<1>1. /\ Left(n, 4)[0] = n /\ \A k \in 1..4 : Left(n, 4)[k] = Left(n, 4)[k - 1] \div Base
      /\ Left(n, 4) \in [0..4 -> Int]
  <2>1. 4 \in Nat /\ n \in Int
    OBVIOUS
  <2> QED BY <2>1, LeftIs
<1> DEFINE L == Left(n, 4)
<1> HIDE DEF L
<1>2. L[0] = n /\ L[1] = L[0] \div 256 /\ L[2] = L[1] \div 256 /\ L[3] = L[2] \div 256 /\ L[4] = L[3] \div 256
  BY <1>1 DEF L, Base
<1>3. L[1] \in Int /\ L[1] >= 0 /\ L[1] <= 400
  BY <1>2 DEF PayloadMax
<1>4. L[2] \in Int /\ L[2] >= 0 /\ L[2] <= 1
  BY <1>2, <1>3
<1>5. L[3] = 0
  BY <1>2, <1>4
<1>6. L[4] = 0
  BY <1>2, <1>5
<1> QED BY <1>6 DEF UInt, L

LEMMA FrameIs ==
    ASSUME NEW p, Fits(p)
    PROVE  /\ EncodeFrame(p) \in Seq(Int) /\ Len(EncodeFrame(p)) = 4 + Len(p)
           /\ Unsigned(Slice(EncodeFrame(p), 0, 4)) = Len(p)
           /\ Slice(EncodeFrame(p), 4, Len(p)) = p
<1> DEFINE n == Len(p)
           h == Bytes(n, 4)
           e == h \o p
<1>1. p \in Seq(Int) /\ n \in Nat /\ n <= PayloadMax
  BY DEF Fits
<1>2. n \in UInt(4) /\ n \in Int
  <2> HIDE DEF n
  <2> QED BY <1>1, LengthFits
<1> HIDE DEF n
<1>3. h \in Seq(Int) /\ Len(h) = 4 /\ Unsigned(h) = n
  BY <1>2, BytesAre, UnsignedRoundTrip
<1> HIDE DEF h
<1>4. Grown(e, h, p)
  BY <1>1, <1>3, Grows
<1> HIDE DEF e
<1>5. EncodeFrame(p) = e
  BY DEF EncodeFrame, e, h, n
<1> QED BY <1>3, <1>4, <1>5 DEF Grown, n

\* What the buffer holds is the beginning of a frame, or begins with one.
Heads(b, e) == \A k \in 1..Len(b) : k <= Len(e) => b[k] = e[k]

LEMMA HeadsFrame ==
    ASSUME NEW p, Fits(p), NEW b \in Seq(Int), Heads(b, EncodeFrame(p))
    PROVE  /\ ~Oversized(b)
           /\ Len(b) >= 4 => Declared(b) = Len(p)
           /\ HasFrame(b) <=> Len(b) >= Len(EncodeFrame(p))
<1> DEFINE e == EncodeFrame(p)
           n == Len(p)
<1>1. e \in Seq(Int) /\ Len(e) = 4 + n /\ Unsigned(Slice(e, 0, 4)) = n /\ n \in Nat /\ n <= 100000
  BY FrameIs DEF Fits, PayloadMax
<1> HIDE DEF e, n
<1>2. Heads(b, e)
  BY DEF e
<1>3. ASSUME Len(b) >= 4 PROVE Declared(b) = n
  <2> DEFINE x == Slice(b, 0, 4)
             y == Slice(e, 0, 4)
  <2>0. \A s \in Seq(Int) : Len(s) >= 4 => /\ Slice(s, 0, 4) \in Seq(Int) /\ Len(Slice(s, 0, 4)) = 4
                                           /\ \A i \in 1..4 : Slice(s, 0, 4)[i] = s[0 + i]
    <3> SUFFICES ASSUME NEW s \in Seq(Int), Len(s) >= 4
                 PROVE  /\ Slice(s, 0, 4) \in Seq(Int) /\ Len(Slice(s, 0, 4)) = 4
                        /\ \A i \in 1..4 : Slice(s, 0, 4)[i] = s[0 + i]
      OBVIOUS
    <3>1. 0 \in Nat /\ 4 \in Nat /\ 0 + 4 <= Len(s)
      OBVIOUS
    <3> QED BY <3>1, SliceIs
  <2>1. x \in Seq(Int) /\ Len(x) = 4 /\ \A i \in 1..4 : x[i] = b[0 + i]
    BY <1>3, <2>0
  <2>2. y \in Seq(Int) /\ Len(y) = 4 /\ \A i \in 1..4 : y[i] = e[0 + i]
    <3>1. Len(e) >= 4
      BY <1>1
    <3>2. e \in Seq(Int)
      BY <1>1
    <3> QED BY <2>0, <3>1, <3>2
  <2> HIDE DEF x, y
  <2>3. \A i \in 1..4 : x[i] = y[i]
    <3> SUFFICES ASSUME NEW i \in 1..4 PROVE x[i] = y[i]
      OBVIOUS
    <3>1. i \in 1..Len(b) /\ i <= Len(e) /\ 0 + i = i
      BY <1>1, <1>3
    <3>2. b[i] = e[i]
      BY <1>2, <3>1 DEF Heads
    <3> QED BY <2>1, <2>2, <3>1, <3>2
  <2>4. x = y
    BY <2>1, <2>2, <2>3, SeqEqual
  <2> QED BY <1>1, <2>4 DEF Declared, x, y
<1>4. ~Oversized(b)
  BY <1>1, <1>3 DEF Oversized, MaxFrameSize
<1>5. HasFrame(b) <=> Len(b) >= Len(e)
  <2>1. Len(b) \in Nat
    OBVIOUS
  <2>2. CASE Len(b) >= 4
    BY <1>1, <1>3, <1>4, <2>1, <2>2 DEF HasFrame
  <2>3. CASE ~(Len(b) >= 4)
    BY <1>1, <2>1, <2>3 DEF HasFrame
  <2> QED BY <2>2, <2>3
<1> QED BY <1>3, <1>4, <1>5 DEF e, n

\* The buffer, with what is under way behind it, begins with a frame.
LEMMA FrameAhead ==
    ASSUME NEW p, Fits(p), NEW b \in Seq(Int), NEW s \in Seq(Int), NEW r \in Seq(Int),
           Cat(b, s) = Cat(EncodeFrame(p), r)
    PROVE  /\ ~Oversized(b)
           /\ s = <<>> => HasFrame(b)
           /\ HasFrame(b) => /\ Payload(b) = p /\ AfterFrame(b) \in Seq(Int)
                             /\ Cat(AfterFrame(b), s) = r
<1> DEFINE e == EncodeFrame(p)
           w == b \o s
           n == Len(p)
<1>1. e \in Seq(Int) /\ Len(e) = 4 + n /\ Slice(e, 4, n) = p /\ n \in Nat
  BY FrameIs DEF Fits
<1> HIDE DEF e, n
<1>2. w \in Seq(Int) /\ Starts(w, b) /\ Len(w) = Len(b) + Len(s) /\ Len(b) \in Nat /\ Len(s) \in Nat
  BY Joined
<1>3. w = e \o r
  BY DEF e, Cat
<1> HIDE DEF w
<1>4. Starts(w, e) /\ Len(w) = Len(e) + Len(r) /\ Len(r) \in Nat
  BY <1>1, <1>3, Joined
<1>5. Heads(b, e)
  <2> SUFFICES ASSUME NEW k \in 1..Len(b), k <= Len(e) PROVE b[k] = e[k]
    BY DEF Heads
  <2>1. k \in 1..Len(e)
    BY <1>1, <1>2
  <2>2. w[k] = b[k]
    BY <1>2 DEF Starts
  <2>3. w[k] = e[k]
    BY <1>4, <2>1 DEF Starts
  <2> QED BY <2>2, <2>3
<1>6. ~Oversized(b) /\ (Len(b) >= 4 => Declared(b) = n) /\ (HasFrame(b) <=> Len(b) >= Len(e))
  BY <1>5, HeadsFrame DEF e, n
<1>7. s = <<>> => HasFrame(b)
  <2> SUFFICES ASSUME s = <<>> PROVE HasFrame(b)
    OBVIOUS
  <2>1. Len(s) = 0
    OBVIOUS
  <2>2. Len(b) >= Len(e)
    BY <1>1, <1>2, <1>4, <2>1
  <2> QED BY <1>6, <2>2
<1>8. ASSUME HasFrame(b)
      PROVE  Payload(b) = p /\ AfterFrame(b) \in Seq(Int) /\ AfterFrame(b) \o s = r
  <2> DEFINE k == 4 + n
             a == From(b, k)
  <2>1. Len(b) >= k /\ Declared(b) = n /\ k \in Nat /\ k <= Len(b) /\ Len(e) = k
    BY <1>1, <1>2, <1>6, <1>8
  <2>2. Payload(b) = p
    <3>1. Payload(b) = Slice(b, 4, n)
      BY <2>1 DEF Payload
    <3>2. Slice(w, 4, n) = Slice(b, 4, n)
      BY <1>1, <1>2, <2>1, StartsSlices
    <3>3. Slice(w, 4, n) = Slice(e, 4, n)
      <4>1. \A from, i \in Nat : from + i <= Len(e) => Slice(w, from, i) = Slice(e, from, i)
        BY <1>1, <1>2, <1>4, StartsSlices
      <4>2. 4 \in Nat /\ 4 + n <= Len(e)
        BY <1>1
      <4> QED BY <1>1, <4>1, <4>2
    <3> QED BY <1>1, <3>1, <3>2, <3>3
  <2>3. AfterFrame(b) = a
    BY <2>1 DEF AfterFrame
  <2>4. Slice(b, 0, k) = e
    <3>1. 0 \in Nat /\ 0 + k <= Len(b) /\ 0 + k <= Len(e)
      BY <2>1
    <3>2. Slice(w, 0, k) = Slice(b, 0, k)
      BY <1>2, <2>1, <3>1, StartsSlices
    <3>3. Slice(w, 0, k) = Slice(e, 0, k)
      <4>1. \A from, i \in Nat : from + i <= Len(e) => Slice(w, from, i) = Slice(e, from, i)
        BY <1>1, <1>2, <1>4, StartsSlices
      <4> QED BY <2>1, <3>1, <4>1
    <3>4. Slice(e, 0, k) = e
      BY <1>1, <2>1, StartsAll
    <3> QED BY <3>2, <3>3, <3>4
  <2> HIDE DEF k
  <2>5. b = e \o a /\ a \in Seq(Int)
    <3>1. b = Slice(b, 0, k) \o From(b, k) /\ From(b, k) \in Seq(Int)
      BY <2>1, SplitAt
    <3> QED BY <2>4, <3>1
  <2> HIDE DEF a
  <2>6. w = (e \o a) \o s
    BY <2>5 DEF w
  <2>7. (e \o a) \o s = e \o (a \o s)
    <3>1. Cat(Cat(e, a), s) = Cat(e, Cat(a, s))
      BY <1>1, <2>5, Shift
    <3> QED BY <3>1 DEF Cat
  <2>8. a \o s \in Seq(Int)
    BY <2>5, ConcatProperties
  <2>9. a \o s = r
    <3> DEFINE y == a \o s
    <3>1. y \in Seq(Int) /\ e \o y = e \o r
      BY <1>3, <2>6, <2>7, <2>8
    <3> HIDE DEF y
    <3>2. y = r
      BY <1>1, <3>1, Cancel
    <3> QED BY <3>2 DEF y
  <2> QED BY <2>2, <2>3, <2>5, <2>9
<1> QED BY <1>6, <1>7, <1>8 DEF Cat

\* All that is left is part of a frame.
LEMMA FrameTorn ==
    ASSUME NEW p, Fits(p), NEW n \in Nat, n < Len(EncodeFrame(p)), NEW b \in Seq(Int), NEW s \in Seq(Int),
           b \o s = Slice(EncodeFrame(p), 0, n)
    PROVE  ~Oversized(b) /\ ~HasFrame(b)
<1> DEFINE e == EncodeFrame(p)
           w == b \o s
<1>1. e \in Seq(Int) /\ n < Len(e) /\ Len(e) \in Nat
  BY FrameIs
<1>2. Heads(b, e) => (~Oversized(b) /\ (HasFrame(b) <=> Len(b) >= Len(e)))
  BY HeadsFrame
<1> HIDE DEF e
<1>3. w \in Seq(Int) /\ Starts(w, b) /\ Len(w) = Len(b) + Len(s) /\ Len(b) \in Nat /\ Len(s) \in Nat
  BY Joined
<1>4. w = Slice(e, 0, n)
  BY DEF e
<1> HIDE DEF w
<1>5. Len(w) = n /\ \A k \in 1..n : w[k] = e[0 + k]
  <2>1. 0 \in Nat /\ 0 + n <= Len(e)
    BY <1>1
  <2> QED BY <1>1, <1>4, <2>1, SliceIs
<1>6. Heads(b, e)
  <2> SUFFICES ASSUME NEW k \in 1..Len(b), k <= Len(e) PROVE b[k] = e[k]
    BY DEF Heads
  <2>1. k \in 1..n /\ 0 + k = k
    BY <1>3, <1>5
  <2>2. w[k] = b[k]
    BY <1>3 DEF Starts
  <2> QED BY <1>5, <2>1, <2>2
<1>7. ~(Len(b) >= Len(e))
  BY <1>1, <1>3, <1>5
<1> QED BY <1>2, <1>6, <1>7

\* Nothing is left.
LEMMA NothingAhead ==
    ASSUME NEW b \in Seq(Int), NEW s \in Seq(Int), b \o s = <<>>
    PROVE  ~Oversized(b) /\ ~HasFrame(b)
<1>1. Len(b \o s) = Len(b) + Len(s) /\ Len(b) \in Nat /\ Len(s) \in Nat
  BY Joined
<1>2. Len(b \o s) = 0
  OBVIOUS
<1>3. Len(b) = 0
  BY <1>1, <1>2
<1> QED BY <1>3 DEF Oversized, HasFrame

----------------------------------------------------------------------------
(* What is written, as bytes and as what the reader learns of it *)

\* What a plugin's connection may carry, a message as it travels, the first n messages as
\* they travel and as they are heard, and all that can be heard at once.
Messages(p) == IF p = "recv" THEN ToRecv ELSE ToSend
Wire(m) == EncodeFrame(Encode(m))
Sent(ws, n) == Flat([k \in DOMAIN ws |-> Wire(ws[k])], n)
Learnt(ws, n) == Flat([k \in DOMAIN ws |-> Meant(ws[k])], n)
Things == {Meant(m)[1] : m \in ToRecv \cup ToSend}

\* What a write that failed has left, if anything.
Torn == {<<>>} \cup UNION {{Slice(Wire(m), 0, n) : n \in 0..(Len(Wire(m)) - 1)} : m \in ToRecv}

\* The first i messages, the buffer and what is under way are all that was written, and what was
\* torn behind it.
Level(ws, i, b, s, t) == Sent(ws, i) \o (b \o s) = Sent(ws, Len(ws)) \o t

\* The inductive invariant of LinkSpec.
LinkInv ==
    /\ plugin \in {"recv", "send"} /\ stage \in {"closed", "handshake", "open", "dropped"}
    /\ written \in Seq(Messages(plugin)) /\ buf \in Seq(Int) /\ sock \in Seq(Int)
    /\ stage = "closed" => ~HasFrame(buf)
    /\ stage = "handshake" =>
          buf = <<>> /\ taken = <<>> /\ sock = Handshake \o Sent(written, Len(written))
    /\ \E i \in 0..Len(written) :
          /\ taken = Learnt(written, i)
          /\ stage \in {"open", "dropped"} =>
                \E t \in Torn : (stage = "open" => t = <<>>) /\ Level(written, i, buf, sock, t)

LEMMA MessageIs ==
    ASSUME NEW p \in {"recv", "send"}, NEW m \in Messages(p)
    PROVE  /\ Fits(Encode(m))
           /\ p = "recv" => Heard(Encode(m)) = Meant(m)
           /\ p # "recv" => Relayed(Encode(m)) = Meant(m)
<1>1. CASE p = "recv"
  <2>1. m \in ToRecv
    BY <1>1 DEF Messages
  <2>2. \/ m \in [what : {"joined"}, peer : Text, identity : Text]
        \/ m \in [what : {"left"}, peer : Text]
        \/ m \in [what : {"name"}, peer : Text, name : Text]
        \/ m \in [what : {"audio"}, peer : Text, frame : AudioFrames, at : SInt(8)]
    BY <2>1, LinkAssumption, Zenon
  <2>3. Fits(Encode(m)) /\ Heard(Encode(m)) = Meant(m)
    BY <2>2, JoinedIs, LeftHeard, NameHeard, AudioHeard, Zenon
  <2> QED BY <1>1, <2>3
<1>2. CASE p = "send"
  <2>1. m \in ToSend
    BY <1>2 DEF Messages
  <2>2. \/ m \in [what : {"frame"}, frame : AudioFrames]
        \/ m \in [what : {"metrics"}, failures : UInt(8)]
    BY <2>1, LinkAssumption, Zenon
  <2>3. Fits(Encode(m)) /\ Relayed(Encode(m)) = Meant(m)
    BY <2>2, FrameHeard, MetricsHeard, Zenon
  <2> QED BY <1>2, <2>3
<1> QED BY <1>1, <1>2

LEMMA MeantIs ==
    ASSUME NEW m \in ToRecv \cup ToSend
    PROVE  Meant(m) \in Seq(Things)
<1>1. \/ m \in [what : {"joined"}, peer : Text, identity : Text]
      \/ m \in [what : {"left"}, peer : Text]
      \/ m \in [what : {"name"}, peer : Text, name : Text]
      \/ m \in [what : {"audio"}, peer : Text, frame : AudioFrames, at : SInt(8)]
      \/ m \in [what : {"frame"}, frame : AudioFrames]
      \/ m \in [what : {"metrics"}, failures : UInt(8)]
  BY LinkAssumption, Zenon
<1>2. m.what \in {"joined", "left", "name", "audio", "frame", "metrics"}
  <2>1. CASE m \in [what : {"joined"}, peer : Text, identity : Text]
    BY <2>1
  <2>2. CASE m \in [what : {"left"}, peer : Text]
    BY <2>2
  <2>3. CASE m \in [what : {"name"}, peer : Text, name : Text]
    BY <2>3
  <2>4. CASE m \in [what : {"audio"}, peer : Text, frame : AudioFrames, at : SInt(8)]
    BY <2>4
  <2>5. CASE m \in [what : {"frame"}, frame : AudioFrames]
    BY <2>5
  <2>6. CASE m \in [what : {"metrics"}, failures : UInt(8)]
    BY <2>6
  <2> QED BY <1>1, <2>1, <2>2, <2>3, <2>4, <2>5, <2>6
<1>3. Meant(m) = <<>> \/ \E r : Meant(m) = <<r>>
  <2>1. CASE m.what = "joined"
    BY <2>1 DEF Meant
  <2>2. CASE m.what = "left"
    BY <2>2 DEF Meant
  <2>3. CASE m.what = "name"
    BY <2>3 DEF Meant
  <2>4. CASE m.what = "audio"
    BY <2>4 DEF Meant
  <2>5. CASE m.what = "frame"
    BY <2>5 DEF Meant
  <2>6. CASE m.what = "metrics"
    BY <2>6 DEF Meant
  <2> QED BY <1>2, <2>1, <2>2, <2>3, <2>4, <2>5, <2>6
<1>4. CASE Meant(m) = <<>>
  BY <1>4
<1>5. CASE \E r : Meant(m) = <<r>>
  <2>1. PICK r : Meant(m) = <<r>>
    BY <1>5
  <2>2. Meant(m)[1] = r
    BY <2>1
  <2>3. r \in Things
    BY <2>2 DEF Things
  <2> QED BY <2>1, <2>3
<1> QED BY <1>3, <1>4, <1>5

LEMMA WireFits ==
    ASSUME NEW p \in {"recv", "send"}, NEW m \in Messages(p)
    PROVE  Wire(m) \in Seq(Int) /\ Len(Wire(m)) \in Nat /\ Meant(m) \in Seq(Things)
<1>1. Wire(m) \in Seq(Int)
  BY MessageIs, FrameIs DEF Wire
<1>2. m \in ToRecv \cup ToSend
  BY DEF Messages
<1> QED BY <1>1, <1>2, MeantIs

LEMMA SentIs ==
    ASSUME NEW p \in {"recv", "send"}, NEW ws \in Seq(Messages(p))
    PROVE  /\ Len(ws) \in Nat /\ \A k \in 1..Len(ws) : ws[k] \in Messages(p)
           /\ Sent(ws, 0) = <<>> /\ Learnt(ws, 0) = <<>>
           /\ \A n \in 0..Len(ws) :
                 /\ Sent(ws, n) \in Seq(Int) /\ Learnt(ws, n) \in Seq(Things)
                 /\ IsPrefix(Learnt(ws, n), Learnt(ws, Len(ws)))
                 /\ \E r \in Seq(Int) : Sent(ws, Len(ws)) = Sent(ws, n) \o r
                 /\ n < Len(ws) => /\ Sent(ws, n + 1) = Sent(ws, n) \o Wire(ws[n + 1])
                                   /\ Learnt(ws, n + 1) = Learnt(ws, n) \o Meant(ws[n + 1])
<1> DEFINE N == Len(ws)
           ss == [k \in DOMAIN ws |-> Wire(ws[k])]
           ls == [k \in DOMAIN ws |-> Meant(ws[k])]
<1>1. N \in Nat /\ DOMAIN ws = 1..N /\ \A k \in 1..N : ws[k] \in Messages(p)
  OBVIOUS
<1>2. \A k \in 1..N : Wire(ws[k]) \in Seq(Int) /\ Meant(ws[k]) \in Seq(Things)
  BY <1>1, WireFits
<1> HIDE DEF N
<1>3. ss \in Seq(Seq(Int)) /\ Len(ss) = N /\ \A k \in 1..N : ss[k] = Wire(ws[k])
  BY <1>1, <1>2
<1>4. ls \in Seq(Seq(Things)) /\ Len(ls) = N /\ \A k \in 1..N : ls[k] = Meant(ws[k])
  BY <1>1, <1>2
<1>5. \A n : Sent(ws, n) = Flat(ss, n) /\ Learnt(ws, n) = Flat(ls, n)
  BY DEF Sent, Learnt
<1> HIDE DEF ss, ls
<1>6. /\ \A n \in 0..N : Flat(ss, n) \in Seq(Int)
      /\ Flat(ss, 0) = <<>>
      /\ \A n \in 0..N : n < N => Flat(ss, n + 1) = Flat(ss, n) \o ss[n + 1]
  <2> DEFINE T == Int
  <2>1. ss \in Seq(Seq(T))
    BY <1>3
  <2> HIDE DEF T
  <2>2. /\ \A n \in 0..N : Flat(ss, n) \in Seq(T)
        /\ Flat(ss, 0) = <<>>
        /\ \A n \in 0..N : n < N => Flat(ss, n + 1) = Flat(ss, n) \o ss[n + 1]
    BY <1>3, <2>1, FlatSteps
  <2> QED BY <2>2 DEF T
<1>7. /\ \A n \in 0..N : Flat(ls, n) \in Seq(Things)
      /\ Flat(ls, 0) = <<>>
      /\ \A n \in 0..N : n < N => Flat(ls, n + 1) = Flat(ls, n) \o ls[n + 1]
  BY <1>4, FlatSteps
<1>8. \A n \in 0..N : \E r \in Seq(Int) : Flat(ss, N) = Flat(ss, n) \o r
  <2> DEFINE T == Int
  <2>1. ss \in Seq(Seq(T))
    BY <1>3
  <2> HIDE DEF T
  <2>2. \A n \in 0..N : \E r \in Seq(T) : Flat(ss, N) = Flat(ss, n) \o r
    BY <1>3, <2>1, FlatRest
  <2> QED BY <2>2 DEF T
<1>9. \A n \in 0..N : IsPrefix(Flat(ls, n), Flat(ls, N))
  <2> SUFFICES ASSUME NEW n \in 0..N PROVE IsPrefix(Flat(ls, n), Flat(ls, N))
    OBVIOUS
  <2>1. PICK r \in Seq(Things) : Flat(ls, N) = Flat(ls, n) \o r
    BY <1>4, FlatRest
  <2>2. Flat(ls, n) \in Seq(Things)
    BY <1>7
  <2> DEFINE a == Flat(ls, n)
  <2> HIDE DEF a
  <2>3. IsPrefix(a, a \o r)
    BY <2>2, PrefixIs DEF a
  <2> QED BY <2>1, <2>3 DEF a
<1>10. \A n \in 0..N : n < N => ss[n + 1] = Wire(ws[n + 1]) /\ ls[n + 1] = Meant(ws[n + 1])
  BY <1>1, <1>3, <1>4
<1>11. Sent(ws, 0) = <<>> /\ Learnt(ws, 0) = <<>>
  BY <1>5, <1>6, <1>7
<1>12. ASSUME NEW n \in 0..N
       PROVE  /\ Sent(ws, n) \in Seq(Int) /\ Learnt(ws, n) \in Seq(Things)
              /\ IsPrefix(Learnt(ws, n), Learnt(ws, N))
              /\ \E r \in Seq(Int) : Sent(ws, N) = Sent(ws, n) \o r
  BY <1>5, <1>6, <1>7, <1>8, <1>9
<1>13. ASSUME NEW n \in 0..N, n < N
       PROVE  /\ Sent(ws, n + 1) = Sent(ws, n) \o Wire(ws[n + 1])
              /\ Learnt(ws, n + 1) = Learnt(ws, n) \o Meant(ws[n + 1])
  BY <1>5, <1>6, <1>7, <1>10, <1>13
<1> QED BY <1>1, <1>11, <1>12, <1>13 DEF N

\* What is written later does not change what was written before.
LEMMA SentStays ==
    ASSUME NEW p \in {"recv", "send"}, NEW ws \in Seq(Messages(p)), NEW m \in Messages(p)
    PROVE  /\ Append(ws, m) \in Seq(Messages(p)) /\ Len(Append(ws, m)) = Len(ws) + 1
           /\ \A n \in 0..Len(ws) : /\ Sent(Append(ws, m), n) = Sent(ws, n)
                                    /\ Learnt(Append(ws, m), n) = Learnt(ws, n)
           /\ Sent(Append(ws, m), Len(ws) + 1) = Sent(ws, Len(ws)) \o Wire(m)
<1> DEFINE vs == Append(ws, m)
           N == Len(ws)
<1>1. /\ vs \in Seq(Messages(p)) /\ Len(vs) = N + 1 /\ N \in Nat /\ DOMAIN ws = 1..N
      /\ DOMAIN vs = 1..(N + 1) /\ vs[N + 1] = m /\ \A k \in 1..N : vs[k] = ws[k]
  OBVIOUS
<1> HIDE DEF vs, N
<1>2. ASSUME NEW n \in 0..N PROVE Sent(vs, n) = Sent(ws, n) /\ Learnt(vs, n) = Learnt(ws, n)
  <2> DEFINE ss == [k \in DOMAIN ws |-> Wire(ws[k])]
             tt == [k \in DOMAIN vs |-> Wire(vs[k])]
             ls == [k \in DOMAIN ws |-> Meant(ws[k])]
             mm == [k \in DOMAIN vs |-> Meant(vs[k])]
  <2>1. \A k \in 1..n : k \in 1..N /\ k \in DOMAIN ws /\ k \in DOMAIN vs /\ vs[k] = ws[k]
    BY <1>1
  <2>2. \A k \in 1..n : ss[k] = tt[k] /\ ls[k] = mm[k]
    BY <2>1
  <2>3. Flat(ss, n) = FlattenSeq([k \in 1..n |-> ss[k]]) /\ Flat(tt, n) = FlattenSeq([k \in 1..n |-> tt[k]])
        /\ Flat(ls, n) = FlattenSeq([k \in 1..n |-> ls[k]]) /\ Flat(mm, n) = FlattenSeq([k \in 1..n |-> mm[k]])
    BY DEF Flat
  <2>4. Sent(ws, n) = Flat(ss, n) /\ Sent(vs, n) = Flat(tt, n) /\ Learnt(ws, n) = Flat(ls, n)
        /\ Learnt(vs, n) = Flat(mm, n)
    BY DEF Sent, Learnt
  <2> HIDE DEF ss, tt, ls, mm
  <2>5. [k \in 1..n |-> ss[k]] = [k \in 1..n |-> tt[k]] /\ [k \in 1..n |-> ls[k]] = [k \in 1..n |-> mm[k]]
    BY <2>2
  <2> QED BY <2>3, <2>4, <2>5
<1>3. Sent(vs, N + 1) = Sent(ws, N) \o Wire(m)
  <2>1. N \in 0..(N + 1) /\ N < N + 1 /\ N \in 0..N
    BY <1>1
  <2>2. Sent(vs, N + 1) = Sent(vs, N) \o Wire(vs[N + 1])
    BY <1>1, <2>1, SentIs
  <2> QED BY <1>1, <1>2, <2>1, <2>2
<1> QED BY <1>1, <1>2, <1>3 DEF vs, N

LEMMA TornIs ==
    ASSUME NEW t \in Torn
    PROVE  /\ t \in Seq(Int)
           /\ \A b, s \in Seq(Int) : b \o s = t => ~Oversized(b) /\ ~HasFrame(b)
<1>1. CASE t = <<>>
  BY <1>1, NothingAhead
<1>2. CASE t # <<>>
  <2>0. PICK m \in ToRecv : t \in {Slice(Wire(m), 0, n) : n \in 0..(Len(Wire(m)) - 1)}
    BY <1>2, Zenon DEF Torn
  <2>1. PICK n \in 0..(Len(Wire(m)) - 1) : t = Slice(Wire(m), 0, n)
    BY <2>0
  <2>2. Fits(Encode(m))
    <3>1. m \in Messages("recv")
      BY DEF Messages
    <3> QED BY <3>1, MessageIs
  <2>3. Wire(m) \in Seq(Int)
    BY <2>2, FrameIs DEF Wire
  <2>4. n \in Nat /\ n < Len(Wire(m)) /\ 0 + n <= Len(Wire(m)) /\ 0 \in Nat
    BY <2>3
  <2>5. t \in Seq(Int)
    BY <2>1, <2>3, <2>4, SliceIs
  <2>6. \A b, s \in Seq(Int) : b \o s = t => ~Oversized(b) /\ ~HasFrame(b)
    BY <2>1, <2>2, <2>4, FrameTorn DEF Wire
  <2> QED BY <2>5, <2>6
<1> QED BY <1>1, <1>2

LEMMA LevelTells ==
    ASSUME NEW p \in {"recv", "send"}, NEW ws \in Seq(Messages(p)), NEW i \in 0..Len(ws),
           NEW b \in Seq(Int), NEW s \in Seq(Int), NEW t \in Torn, Level(ws, i, b, s, t)
    PROVE  /\ ~Oversized(b)
           /\ s = <<>> /\ ~HasFrame(b) => i = Len(ws)
           /\ HasFrame(b) => /\ i < Len(ws) /\ Payload(b) = Encode(ws[i + 1])
                             /\ AfterFrame(b) \in Seq(Int) /\ Level(ws, i + 1, AfterFrame(b), s, t)
<1> DEFINE N == Len(ws)
           a == Sent(ws, i)
           z == Sent(ws, N)
<1>1. N \in Nat /\ i \in 0..N /\ N \in 0..N /\ a \in Seq(Int) /\ z \in Seq(Int) /\ t \in Seq(Int)
      /\ b \o s \in Seq(Int)
  BY SentIs, TornIs, ConcatProperties
<1>2. a \o (b \o s) = z \o t
  BY DEF Level
<1>3. CASE i = N
  <2>1. b \o s = t
    <3> DEFINE x == b \o s
    <3>1. x \in Seq(Int) /\ a \o x = a \o t
      BY <1>1, <1>2, <1>3
    <3> HIDE DEF x, a
    <3>2. a \in Seq(Int) /\ t \in Seq(Int)
      BY <1>1
    <3>3. x = t
      BY <3>1, <3>2, Cancel
    <3> QED BY <3>3 DEF x
  <2>2. ~Oversized(b) /\ ~HasFrame(b)
    BY <2>1, TornIs
  <2> QED BY <1>3, <2>2
<1>4. CASE i # N
  <2> DEFINE m == ws[i + 1]
             y == Sent(ws, i + 1)
             w == Wire(m)
  <2>1. i < N /\ i + 1 \in 0..N /\ i + 1 \in 1..N /\ i \in Nat
    BY <1>1, <1>4
  <2>2. m \in Messages(p)
    BY <2>1
  <2>3. Fits(Encode(m)) /\ w = EncodeFrame(Encode(m)) /\ w \in Seq(Int)
    BY <2>2, MessageIs, WireFits DEF Wire
  <2>4. y = a \o w
    BY <1>1, <2>1, SentIs
  <2>5. PICK r \in Seq(Int) : z = y \o r
    BY <2>1, SentIs
  <2>6. y \in Seq(Int)
    BY <2>1, SentIs
  <2> DEFINE q == r \o t
             x == b \o s
  <2>7. q \in Seq(Int) /\ x \in Seq(Int)
    BY <1>1, <2>5, ConcatProperties
  <2> HIDE DEF N, a, z, m, y, w
  <2>8. z \o t = y \o q
    <3>1. t \in Seq(Int)
      BY <1>1
    <3>2. (y \o r) \o t = y \o (r \o t)
      BY <3>1, <2>5, <2>6, Assoc
    <3> QED BY <3>2, <2>5
  <2> HIDE DEF q, x
  <2>9. y \o q = a \o (w \o q)
    <3>1. a \in Seq(Int) /\ w \in Seq(Int) /\ q \in Seq(Int)
      BY <1>1, <2>3, <2>7
    <3>2. Cat(Cat(a, w), q) = Cat(a, Cat(w, q))
      BY <3>1, Shift
    <3> QED BY <2>4, <3>2 DEF Cat
  <2>10. x = w \o q
    <3> DEFINE u == w \o q
    <3>1. u \in Seq(Int)
      BY <2>3, <2>7, ConcatProperties
    <3>2. a \o x = a \o u
      BY <1>2, <2>8, <2>9 DEF x
    <3> HIDE DEF u
    <3>3. x = u
      BY <1>1, <2>7, <3>1, <3>2, Cancel
    <3> QED BY <3>3 DEF u
  <2>11. Fits(Encode(m)) /\ Cat(b, s) = Cat(EncodeFrame(Encode(m)), q)
    BY <2>3, <2>10 DEF x, Cat
  <2>12. /\ ~Oversized(b)
         /\ s = <<>> => HasFrame(b)
         /\ HasFrame(b) => /\ Payload(b) = Encode(m) /\ AfterFrame(b) \in Seq(Int)
                           /\ Cat(AfterFrame(b), s) = q
    BY <2>7, <2>11, FrameAhead
  <2>13. ASSUME HasFrame(b) PROVE Level(ws, i + 1, AfterFrame(b), s, t)
    BY <2>8, <2>12, <2>13 DEF Level, y, z, N, Cat
  <2> QED BY <2>1, <2>12, <2>13 DEF m, N
<1> QED BY <1>3, <1>4

\* A read moves bytes from one to the other.
LEMMA LevelReads ==
    ASSUME NEW ws, NEW i, NEW b \in Seq(Int), NEW s \in Seq(Int), NEW t, Level(ws, i, b, s, t),
           NEW k \in Nat, k <= Len(s)
    PROVE  /\ b \o Slice(s, 0, k) \in Seq(Int) /\ From(s, k) \in Seq(Int)
           /\ Level(ws, i, b \o Slice(s, 0, k), From(s, k), t)
<1> DEFINE x == Slice(s, 0, k)
           y == From(s, k)
<1>1. x \in Seq(Int) /\ y \in Seq(Int) /\ s = x \o y
  BY SplitAt
<1> HIDE DEF x, y
<1>2. b \o x \in Seq(Int) /\ (b \o x) \o y = b \o (x \o y)
  BY <1>1, Assoc, ConcatProperties
<1>3. Level(ws, i, b \o x, y, t)
  BY <1>1, <1>2 DEF Level
<1> QED BY <1>1, <1>2, <1>3 DEF x, y

\* A write, or what is left of one, goes behind what is under way.
LEMMA LevelGrows ==
    ASSUME NEW p \in {"recv", "send"}, NEW ws \in Seq(Messages(p)), NEW i \in 0..Len(ws),
           NEW b \in Seq(Int), NEW s \in Seq(Int), Level(ws, i, b, s, <<>>), NEW t \in Seq(Int)
    PROVE  /\ s \o t \in Seq(Int)
           /\ Level(ws, i, b, s \o t, t)
<1> DEFINE a == Sent(ws, i)
           z == Sent(ws, Len(ws))
           x == b \o s
<1>1. a \in Seq(Int) /\ z \in Seq(Int) /\ x \in Seq(Int)
  <2>1. Len(ws) \in 0..Len(ws)
    BY SentIs
  <2> QED BY <2>1, SentIs, ConcatProperties
<1>2. a \o x = z
  <2>1. a \o x = z \o <<>>
    BY DEF Level
  <2> HIDE DEF z
  <2> QED BY <1>1, <2>1, ConcatEmptySeq
<1>3. x = Cat(b, s) /\ z = Cat(a, x)
  BY <1>2 DEF Cat
<1> HIDE DEF a, z, x
<1>4. Cat(x, t) = Cat(b, Cat(s, t)) /\ Cat(s, t) \in Seq(Int)
  BY <1>3, Shift
<1>5. Cat(z, t) = Cat(a, Cat(x, t))
  BY <1>1, <1>3, Shift
<1>6. Cat(a, Cat(b, Cat(s, t))) = Cat(z, t)
  BY <1>4, <1>5
<1> QED BY <1>4, <1>6 DEF a, z, Level, Cat

LEMMA LevelWrites ==
    ASSUME NEW p \in {"recv", "send"}, NEW ws \in Seq(Messages(p)), NEW i \in 0..Len(ws),
           NEW b \in Seq(Int), NEW s \in Seq(Int), Level(ws, i, b, s, <<>>), NEW m \in Messages(p)
    PROVE  s \o Wire(m) \in Seq(Int) /\ Level(Append(ws, m), i, b, s \o Wire(m), <<>>)
<1> DEFINE vs == Append(ws, m)
           u == s \o Wire(m)
<1>1. Wire(m) \in Seq(Int)
  BY WireFits
<1>2. u \in Seq(Int) /\ Sent(ws, i) \o (b \o u) = Sent(ws, Len(ws)) \o Wire(m)
  <2> DEFINE t == Wire(m)
  <2>1. t \in Seq(Int)
    BY <1>1
  <2> HIDE DEF t
  <2>2. s \o t \in Seq(Int) /\ Level(ws, i, b, s \o t, t)
    BY <2>1, LevelGrows
  <2> QED BY <2>2 DEF t, Level
<1>3. /\ vs \in Seq(Messages(p)) /\ Len(vs) = Len(ws) + 1 /\ Sent(vs, i) = Sent(ws, i)
      /\ Sent(vs, Len(ws) + 1) = Sent(ws, Len(ws)) \o Wire(m)
  BY SentStays
<1> HIDE DEF vs, u
<1>4. Sent(vs, Len(vs)) \in Seq(Int)
  <2>1. Len(vs) \in 0..Len(vs)
    BY <1>3
  <2> QED BY <1>3, <2>1, SentIs
<1>5. Sent(vs, Len(vs)) \o <<>> = Sent(vs, Len(vs))
  BY <1>4, ConcatEmptySeq
<1>6. Level(vs, i, b, u, <<>>)
  BY <1>2, <1>3, <1>5 DEF Level
<1> QED BY <1>2, <1>6 DEF vs, u

----------------------------------------------------------------------------
(* The invariant *)

LEMMA HandshakeIs == Handshake \in Seq(Int)
<1>1. StreamIndex \in Int /\ 2 \in Nat
  BY LinkAssumption DEF UInt
<1>2. Bytes(StreamIndex, 2) \in Seq(Int)
  BY <1>1, BytesAre
<1>3. <<0>> \in Seq(Int)
  OBVIOUS
<1> QED BY <1>2, <1>3, ConcatProperties DEF Handshake

LEMMA LinkStarts == LinkInit => LinkInv
<1> SUFFICES ASSUME LinkInit PROVE LinkInv
  OBVIOUS
<1>1. plugin \in {"recv", "send"} /\ stage = "closed" /\ sock = <<>> /\ buf = <<>> /\ written = <<>> /\ taken = <<>>
  BY DEF LinkInit
<1>2. written \in Seq(Messages(plugin)) /\ buf \in Seq(Int) /\ sock \in Seq(Int) /\ 0 \in 0..Len(written)
  BY <1>1
<1>3. ~HasFrame(buf)
  BY <1>1 DEF HasFrame
<1>4. taken = Learnt(written, 0)
  BY <1>1, <1>2, SentIs
<1> QED BY <1>1, <1>2, <1>3, <1>4 DEF LinkInv

LEMMA LinkOpens == LinkInv /\ OpenConnection => LinkInv'
<1> SUFFICES ASSUME LinkInv, OpenConnection PROVE LinkInv'
  OBVIOUS
<1>1. /\ plugin' = plugin /\ plugin \in {"recv", "send"} /\ buf' = <<>> /\ written' = <<>> /\ taken' = <<>>
      /\ \/ stage' = "handshake" /\ sock' = Handshake
         \/ stage' = "open" /\ sock' = <<>>
  BY DEF OpenConnection, LinkInv
<1>2. <<>> \in Seq(Messages(plugin)) /\ <<>> \in Seq(Int) /\ 0 \in 0..Len(<<>>) /\ Len(<<>>) = 0
  OBVIOUS
<1>3. Sent(<<>>, 0) = <<>> /\ Learnt(<<>>, 0) = <<>>
  BY <1>1, <1>2, SentIs
<1>4. Handshake \in Seq(Int) /\ Handshake \o <<>> = Handshake
  BY HandshakeIs, ConcatEmptySeq
<1>5. Level(<<>>, 0, <<>>, <<>>, <<>>)
  BY <1>2, <1>3 DEF Level
<1>6. <<>> \in Torn
  BY DEF Torn
<1>7. stage' = "handshake" => sock' = Handshake \o Sent(written', Len(written'))
  BY <1>1, <1>2, <1>3, <1>4
<1>8. stage' \in {"closed", "handshake", "open", "dropped"} /\ stage' # "closed" /\ sock' \in Seq(Int)
  BY <1>1, <1>2, <1>4
<1>9. /\ 0 \in 0..Len(written') /\ taken' = Learnt(written', 0)
      /\ stage' \in {"open", "dropped"} =>
            \E t \in Torn : (stage' = "open" => t = <<>>) /\ Level(written', 0, buf', sock', t)
  BY <1>1, <1>2, <1>3, <1>5, <1>6
<1> QED BY <1>1, <1>2, <1>7, <1>8, <1>9 DEF LinkInv

LEMMA LinkHandshakes == LinkInv /\ TakeHandshake => LinkInv'
<1> SUFFICES ASSUME LinkInv, TakeHandshake PROVE LinkInv'
  OBVIOUS
<1>1. /\ stage = "handshake" /\ stage' = "open" /\ sock' = From(sock, Len(Handshake))
      /\ plugin' = plugin /\ buf' = buf /\ written' = written /\ taken' = taken
  BY DEF TakeHandshake
<1>2. /\ plugin \in {"recv", "send"} /\ written \in Seq(Messages(plugin)) /\ buf = <<>> /\ taken = <<>>
      /\ buf \in Seq(Int) /\ sock = Handshake \o Sent(written, Len(written))
  BY <1>1 DEF LinkInv
<1> DEFINE z == Sent(written, Len(written))
<1>3. Len(written) \in 0..Len(written) /\ 0 \in 0..Len(written)
  BY <1>2
<1>4. z \in Seq(Int) /\ Sent(written, 0) = <<>> /\ Learnt(written, 0) = <<>>
  BY <1>2, <1>3, SentIs
<1>5. Handshake \in Seq(Int)
  BY HandshakeIs
<1>6. sock' = z
  <2> HIDE DEF z
  <2>1. From(Handshake \o z, Len(Handshake)) = z
    BY <1>4, <1>5, Joined
  <2> QED BY <1>1, <1>2, <2>1 DEF z
<1>7. Level(written, 0, buf, z, <<>>)
  <2>1. <<>> \o z = z /\ z \o <<>> = z
    <3> HIDE DEF z
    <3> QED BY <1>4, ConcatEmptySeq
  <2> QED BY <1>2, <1>4, <2>1 DEF Level
<1>8. <<>> \in Torn
  BY DEF Torn
<1>9. /\ 0 \in 0..Len(written') /\ taken' = Learnt(written', 0)
      /\ stage' \in {"open", "dropped"} =>
            \E t \in Torn : (stage' = "open" => t = <<>>) /\ Level(written', 0, buf', sock', t)
  BY <1>1, <1>2, <1>3, <1>4, <1>6, <1>7, <1>8
<1>10. sock' \in Seq(Int)
  BY <1>4, <1>6
<1> QED BY <1>1, <1>2, <1>9, <1>10 DEF LinkInv

\* The parts of the invariant that hold while messages are read.
LEMMA LinkBehind ==
    ASSUME LinkInv, stage \in {"open", "dropped"}
    PROVE  /\ plugin \in {"recv", "send"} /\ written \in Seq(Messages(plugin))
           /\ buf \in Seq(Int) /\ sock \in Seq(Int)
           /\ \E i \in 0..Len(written), t \in Torn :
                 /\ taken = Learnt(written, i) /\ (stage = "open" => t = <<>>)
                 /\ Level(written, i, buf, sock, t)
BY DEF LinkInv

LEMMA LinkAgain ==
    ASSUME plugin' \in {"recv", "send"}, written' \in Seq(Messages(plugin')),
           buf' \in Seq(Int), sock' \in Seq(Int), stage' \in {"open", "dropped"},
           NEW i \in 0..Len(written'), NEW t \in Torn, taken' = Learnt(written', i),
           stage' = "open" => t = <<>>, Level(written', i, buf', sock', t)
    PROVE  LinkInv'
<1>1. \E j \in 0..Len(written') :
          /\ taken' = Learnt(written', j)
          /\ stage' \in {"open", "dropped"} =>
                \E u \in Torn : (stage' = "open" => u = <<>>) /\ Level(written', j, buf', sock', u)
  OBVIOUS
<1>2. stage' # "closed" /\ stage' # "handshake" /\ stage' \in {"closed", "handshake", "open", "dropped"}
  OBVIOUS
<1> QED BY <1>1, <1>2 DEF LinkInv

LEMMA LinkReads == LinkInv /\ Read => LinkInv'
<1> SUFFICES ASSUME LinkInv, Read PROVE LinkInv'
  OBVIOUS
<1>1. /\ stage \in {"open", "dropped"} /\ plugin' = plugin /\ stage' = stage /\ written' = written
      /\ taken' = taken
  BY DEF Read
<1>2. /\ plugin \in {"recv", "send"} /\ written \in Seq(Messages(plugin))
      /\ buf \in Seq(Int) /\ sock \in Seq(Int)
      /\ \E i \in 0..Len(written), t \in Torn :
            /\ taken = Learnt(written, i) /\ (stage = "open" => t = <<>>)
            /\ Level(written, i, buf, sock, t)
  BY <1>1, LinkBehind
<1>3. PICK i \in 0..Len(written), t \in Torn :
         /\ taken = Learnt(written, i) /\ (stage = "open" => t = <<>>)
         /\ Level(written, i, buf, sock, t)
  BY <1>2
<1>4. PICK k \in Nat : k <= Len(sock) /\ buf' = Kept(buf \o Slice(sock, 0, k)) /\ sock' = From(sock, k)
  <2>1. PICK n \in Chunks : LET k == IF n < Len(sock) THEN n ELSE Len(sock)
                            IN  buf' = Kept(buf \o Slice(sock, 0, k)) /\ sock' = From(sock, k)
    BY DEF Read
  <2> DEFINE k == IF n < Len(sock) THEN n ELSE Len(sock)
  <2>2. n \in Nat /\ Len(sock) \in Nat
    BY <1>2, LinkAssumption
  <2>3. k \in Nat /\ k <= Len(sock)
    BY <2>2
  <2>4. buf' = Kept(buf \o Slice(sock, 0, k)) /\ sock' = From(sock, k)
    BY <2>1
  <2> HIDE DEF k
  <2> QED BY <2>3, <2>4
<1> DEFINE b == buf \o Slice(sock, 0, k)
           s == From(sock, k)
<1>5. b \in Seq(Int) /\ s \in Seq(Int) /\ Level(written, i, b, s, t)
  BY <1>2, <1>3, <1>4, LevelReads
<1> HIDE DEF b, s
<1>6. ~Oversized(b)
  BY <1>2, <1>5, LevelTells
<1>7. buf' = b /\ sock' = s
  BY <1>4, <1>6 DEF Kept, b, s
<1> QED BY <1>1, <1>2, <1>3, <1>5, <1>7, LinkAgain

\* A connection that is closed has no frame left; one whose handshake is still under way has
\* none yet.
LEMMA FrameOpen ==
    ASSUME LinkInv, HasFrame(buf)
    PROVE  stage \in {"open", "dropped"}
<1>1. stage \in {"closed", "handshake", "open", "dropped"} /\ stage # "closed"
  BY DEF LinkInv
<1>2. ~HasFrame(<<>>)
  BY DEF HasFrame
<1>3. stage # "handshake"
  BY <1>2 DEF LinkInv
<1> QED BY <1>1, <1>3

LEMMA LinkTakes == LinkInv /\ Take => LinkInv'
<1> SUFFICES ASSUME LinkInv, Take PROVE LinkInv'
  OBVIOUS
<1>1. /\ HasFrame(buf) /\ plugin' = plugin /\ stage' = stage /\ sock' = sock /\ written' = written
      /\ buf' = Kept(AfterFrame(buf))
      /\ taken' = taken \o IF plugin = "recv" THEN Heard(Payload(buf)) ELSE Relayed(Payload(buf))
  BY DEF Take
<1>2. stage \in {"open", "dropped"}
  BY <1>1, FrameOpen
<1>3. /\ plugin \in {"recv", "send"} /\ written \in Seq(Messages(plugin))
      /\ buf \in Seq(Int) /\ sock \in Seq(Int)
      /\ \E i \in 0..Len(written), t \in Torn :
            /\ taken = Learnt(written, i) /\ (stage = "open" => t = <<>>)
            /\ Level(written, i, buf, sock, t)
  BY <1>2, LinkBehind
<1>4. PICK i \in 0..Len(written), t \in Torn :
         /\ taken = Learnt(written, i) /\ (stage = "open" => t = <<>>)
         /\ Level(written, i, buf, sock, t)
  BY <1>3
<1> DEFINE a == AfterFrame(buf)
           m == written[i + 1]
<1>5. i < Len(written) /\ Payload(buf) = Encode(m) /\ a \in Seq(Int) /\ Level(written, i + 1, a, sock, t)
  BY <1>1, <1>3, <1>4, LevelTells
<1>6. i + 1 \in 0..Len(written) /\ i + 1 \in 1..Len(written)
  BY <1>3, <1>5
<1>7. m \in Messages(plugin)
  BY <1>3, <1>6
<1> HIDE DEF a, m
<1>8. ~Oversized(a)
  BY <1>3, <1>5, <1>6, LevelTells
<1>9. buf' = a
  BY <1>1, <1>8 DEF Kept, a
<1>10. taken' = Learnt(written, i + 1)
  <2>1. taken' = taken \o Meant(m)
    BY <1>1, <1>3, <1>5, <1>7, MessageIs
  <2>2. Learnt(written, i + 1) = Learnt(written, i) \o Meant(m)
    BY <1>3, <1>5, SentIs DEF m
  <2> QED BY <1>4, <2>1, <2>2
<1>11. /\ plugin' \in {"recv", "send"} /\ written' \in Seq(Messages(plugin')) /\ buf' \in Seq(Int)
       /\ sock' \in Seq(Int) /\ stage' \in {"open", "dropped"} /\ i + 1 \in 0..Len(written')
       /\ taken' = Learnt(written', i + 1) /\ (stage' = "open" => t = <<>>)
       /\ Level(written', i + 1, buf', sock', t)
  BY <1>1, <1>2, <1>3, <1>4, <1>5, <1>6, <1>9, <1>10
<1> QED BY <1>11, LinkAgain

LEMMA LinkWrites == ASSUME NEW m \in Messages(plugin) PROVE LinkInv /\ WriteMessage(m) => LinkInv'
<1> SUFFICES ASSUME LinkInv, WriteMessage(m) PROVE LinkInv'
  OBVIOUS
<1>1. /\ stage \in {"handshake", "open"} /\ plugin' = plugin /\ stage' = stage /\ buf' = buf /\ taken' = taken
      /\ sock' = sock \o Wire(m) /\ written' = Append(written, m)
  BY DEF WriteMessage, Wire
<1>2. /\ plugin \in {"recv", "send"} /\ written \in Seq(Messages(plugin))
      /\ buf \in Seq(Int) /\ sock \in Seq(Int)
  BY DEF LinkInv
<1>3. /\ written' \in Seq(Messages(plugin)) /\ Len(written') = Len(written) + 1 /\ Len(written) \in Nat
      /\ \A n \in 0..Len(written) : /\ Sent(written', n) = Sent(written, n)
                                    /\ Learnt(written', n) = Learnt(written, n)
      /\ Sent(written', Len(written')) = Sent(written, Len(written)) \o Wire(m)
  <2>1. /\ Append(written, m) \in Seq(Messages(plugin)) /\ Len(Append(written, m)) = Len(written) + 1
        /\ \A n \in 0..Len(written) : /\ Sent(Append(written, m), n) = Sent(written, n)
                                      /\ Learnt(Append(written, m), n) = Learnt(written, n)
        /\ Sent(Append(written, m), Len(written) + 1) = Sent(written, Len(written)) \o Wire(m)
    BY <1>2, SentStays
  <2> QED BY <1>1, <1>2, <2>1
<1>4. CASE stage = "open"
  <2>1. PICK i \in 0..Len(written), t \in Torn :
           taken = Learnt(written, i) /\ t = <<>> /\ Level(written, i, buf, sock, t)
    BY <1>4, LinkBehind
  <2>2. Level(written, i, buf, sock, <<>>)
    BY <2>1
  <2>3. sock' \in Seq(Int) /\ Level(written', i, buf, sock', <<>>)
    BY <1>1, <1>2, <2>2, LevelWrites
  <2>4. <<>> \in Torn
    BY DEF Torn
  <2>5. i \in 0..Len(written') /\ taken' = Learnt(written', i)
    BY <1>1, <1>3, <2>1
  <2>6. /\ plugin' \in {"recv", "send"} /\ written' \in Seq(Messages(plugin')) /\ buf' \in Seq(Int)
        /\ sock' \in Seq(Int) /\ stage' \in {"open", "dropped"} /\ Level(written', i, buf', sock', <<>>)
    BY <1>1, <1>2, <1>3, <1>4, <2>3
  <2> QED BY <2>4, <2>5, <2>6, LinkAgain
<1>5. CASE stage = "handshake"
  <2>1. buf = <<>> /\ taken = <<>> /\ sock = Handshake \o Sent(written, Len(written))
    BY <1>5 DEF LinkInv
  <2> DEFINE z == Sent(written, Len(written))
             w == Wire(m)
             h == Handshake
  <2>2. z \in Seq(Int) /\ w \in Seq(Int)
    <3>1. Len(written) \in 0..Len(written)
      BY <1>2
    <3> QED BY <1>2, <3>1, SentIs, WireFits
  <2>3. h \in Seq(Int)
    BY HandshakeIs
  <2>4. Cat(Cat(h, z), w) = Cat(h, Cat(z, w)) /\ Cat(h, z) \in Seq(Int)
    <3> HIDE DEF z, w, h
    <3> QED BY <2>2, <2>3, Shift
  <2>5. Cat(Cat(h, z), w) \in Seq(Int)
    <3> HIDE DEF z, w, h
    <3> QED BY <2>2, <2>4, Shift
  <2>6. sock' = Cat(Cat(h, z), w) /\ Sent(written', Len(written')) = Cat(z, w)
    BY <1>1, <1>3, <2>1 DEF Cat
  <2>7. sock' = Handshake \o Sent(written', Len(written')) /\ sock' \in Seq(Int)
    BY <2>4, <2>5, <2>6 DEF Cat
  <2>8. 0 \in 0..Len(written') /\ taken' = Learnt(written', 0)
    <3>1. 0 \in 0..Len(written) /\ 0 \in 0..Len(written')
      BY <1>3
    <3>2. Learnt(written, 0) = <<>>
      BY <1>2, SentIs
    <3> QED BY <1>1, <1>3, <2>1, <3>1, <3>2
  <2>9. stage' = "handshake" /\ buf' = <<>> /\ taken' = <<>> /\ buf' \in Seq(Int)
    BY <1>1, <1>2, <1>5, <2>1
  <2>10. /\ plugin' \in {"recv", "send"} /\ written' \in Seq(Messages(plugin'))
         /\ stage' \in {"closed", "handshake", "open", "dropped"} /\ stage' # "closed"
         /\ stage' \notin {"open", "dropped"}
    BY <1>1, <1>2, <1>3, <2>9
  <2> QED BY <2>7, <2>8, <2>9, <2>10 DEF LinkInv
<1> QED BY <1>1, <1>4, <1>5

LEMMA LinkTears == ASSUME NEW m \in ToRecv PROVE LinkInv /\ Tear(m) => LinkInv'
<1> SUFFICES ASSUME LinkInv, Tear(m) PROVE LinkInv'
  OBVIOUS
<1>1. /\ stage = "open" /\ stage' = "dropped" /\ plugin' = plugin /\ buf' = buf /\ written' = written
      /\ taken' = taken
  BY DEF Tear
<1>2. PICK n \in Tears : n < Len(Wire(m)) /\ sock' = sock \o Slice(Wire(m), 0, n)
  BY DEF Tear, Wire
<1>3. /\ plugin \in {"recv", "send"} /\ written \in Seq(Messages(plugin))
      /\ buf \in Seq(Int) /\ sock \in Seq(Int)
  BY DEF LinkInv
<1> DEFINE t == Slice(Wire(m), 0, n)
<1>4. t \in Torn
  <2>1. Wire(m) \in Seq(Int)
    <3>1. m \in Messages("recv")
      BY DEF Messages
    <3> QED BY <3>1, WireFits
  <2>2. n \in Nat
    BY LinkAssumption
  <2>3. Len(Wire(m)) \in Nat
    BY <2>1
  <2>4. n \in 0..(Len(Wire(m)) - 1)
    BY <1>2, <2>2, <2>3
  <2>5. t \in {Slice(Wire(m), 0, k) : k \in 0..(Len(Wire(m)) - 1)}
    BY <2>4
  <2> QED BY <2>5 DEF Torn
<1>5. t \in Seq(Int)
  BY <1>4, TornIs
<1> HIDE DEF t
<1>6. PICK i \in 0..Len(written), u \in Torn :
         taken = Learnt(written, i) /\ u = <<>> /\ Level(written, i, buf, sock, u)
  BY <1>1, LinkBehind
<1>7. Level(written, i, buf, sock, <<>>)
  BY <1>6
<1>8. sock' \in Seq(Int) /\ Level(written, i, buf, sock', t)
  <2>1. sock' = sock \o t
    BY <1>2 DEF t
  <2> QED BY <1>3, <1>5, <1>7, <2>1, LevelGrows
<1>9. /\ plugin' \in {"recv", "send"} /\ written' \in Seq(Messages(plugin')) /\ buf' \in Seq(Int)
      /\ sock' \in Seq(Int) /\ stage' \in {"open", "dropped"} /\ i \in 0..Len(written')
      /\ taken' = Learnt(written', i) /\ stage' # "open" /\ Level(written', i, buf', sock', t)
  BY <1>1, <1>3, <1>6, <1>8
<1> QED BY <1>4, <1>9, LinkAgain

LEMMA LinkCloses == LinkInv /\ Close => LinkInv'
<1> SUFFICES ASSUME LinkInv, Close PROVE LinkInv'
  OBVIOUS
<1>1. /\ ~HasFrame(buf) /\ stage' = "closed" /\ sock' = <<>> /\ plugin' = plugin /\ buf' = buf
      /\ written' = written /\ taken' = taken
  BY DEF Close
<1>2. /\ plugin \in {"recv", "send"} /\ written \in Seq(Messages(plugin)) /\ buf \in Seq(Int)
      /\ \E i \in 0..Len(written) : taken = Learnt(written, i)
  BY DEF LinkInv
<1>3. sock' \in Seq(Int) /\ ~HasFrame(buf')
  BY <1>1
<1>4. \E i \in 0..Len(written') :
         /\ taken' = Learnt(written', i)
         /\ stage' \in {"open", "dropped"} =>
               \E t \in Torn : (stage' = "open" => t = <<>>) /\ Level(written', i, buf', sock', t)
  BY <1>1, <1>2
<1> QED BY <1>1, <1>2, <1>3, <1>4 DEF LinkInv

LEMMA LinkKeeps == LinkInv /\ [LinkNext]_linkVars => LinkInv'
<1> SUFFICES ASSUME LinkInv, [LinkNext]_linkVars PROVE LinkInv'
  OBVIOUS
<1>1. CASE OpenConnection
  BY <1>1, LinkOpens
<1>2. CASE TakeHandshake
  BY <1>2, LinkHandshakes
<1>3. CASE Read
  BY <1>3, LinkReads
<1>4. CASE Take
  BY <1>4, LinkTakes
<1>5. CASE Close
  BY <1>5, LinkCloses
<1>6. ASSUME NEW m \in Messages(plugin), WriteMessage(m) PROVE LinkInv'
  BY <1>6, LinkWrites
<1>7. ASSUME NEW m \in Messages(plugin), Tear(m) PROVE LinkInv'
  <2>1. m \in ToRecv
    BY <1>7 DEF Tear, Messages
  <2> QED BY <1>7, <2>1, LinkTears
<1>8. CASE UNCHANGED linkVars
  <2>1. /\ plugin' = plugin /\ stage' = stage /\ sock' = sock /\ buf' = buf /\ written' = written
        /\ taken' = taken
    BY <1>8 DEF linkVars
  <2> QED BY <2>1 DEF LinkInv
<1> QED BY <1>1, <1>2, <1>3, <1>4, <1>5, <1>6, <1>7, <1>8 DEF LinkNext, Messages

LEMMA LinkTells == LinkInv => ArrivesWhole
<1> SUFFICES ASSUME LinkInv PROVE ArrivesWhole
  OBVIOUS
<1>1. /\ plugin \in {"recv", "send"} /\ written \in Seq(Messages(plugin)) /\ buf \in Seq(Int)
      /\ sock \in Seq(Int) /\ \E i \in 0..Len(written) : taken = Learnt(written, i)
  BY DEF LinkInv
<1>2. AllMeant = Learnt(written, Len(written))
  <2> DEFINE ls == [k \in DOMAIN written |-> Meant(written[k])]
  <2>1. DOMAIN written = 1..Len(written)
    BY <1>1
  <2>2. [k \in 1..Len(written) |-> ls[k]] = ls
    BY <2>1
  <2>3. AllMeant = FlattenSeq(ls) /\ Learnt(written, Len(written)) = Flat(ls, Len(written))
    BY DEF AllMeant, Learnt
  <2> HIDE DEF ls
  <2> QED BY <2>2, <2>3 DEF Flat
<1>3. IsPrefix(taken, AllMeant)
  BY <1>1, <1>2, SentIs
<1>4. ASSUME stage \in {"open", "dropped"}, sock = <<>>, ~HasFrame(buf)
      PROVE  taken = AllMeant
  <2>1. PICK i \in 0..Len(written), t \in Torn : taken = Learnt(written, i) /\ Level(written, i, buf, sock, t)
    BY <1>4, LinkBehind
  <2>2. i = Len(written)
    BY <1>1, <1>4, <2>1, LevelTells
  <2> QED BY <1>2, <2>1, <2>2
<1> QED BY <1>3, <1>4 DEF ArrivesWhole

(***************************************************************************)
(* IpcRecvBuffer and the messages of ipc.rs and wire.rs, over a connection *)
(* that only keeps the order of its bytes: however reads cut them, and      *)
(* whatever a write that failed left behind, the reader learns what was    *)
(* written, in order, and all of it once no byte is under way.             *)
(***************************************************************************)
THEOREM WholeArrival == LinkSpec => []ArrivesWhole
<1>1. LinkInit => LinkInv
  BY LinkStarts
<1>2. LinkInv /\ [LinkNext]_linkVars => LinkInv'
  BY LinkKeeps
<1>3. LinkInv => ArrivesWhole
  BY LinkTells
<1> QED BY <1>1, <1>2, <1>3, PTL DEF LinkSpec
=============================================================================
