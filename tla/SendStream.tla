----------------------------- MODULE SendStream -----------------------------
(***************************************************************************)
(* From the audio callback of the send plugin to an assembled interval.    *)
(*                                                                         *)
(*   - wail-plugin-send/src/lib.rs: the audio thread records into the ring, *)
(*     cuts the input into 20 ms frames and offers each to a bounded       *)
(*     channel; one IPC thread per initialize() encodes and writes them;   *)
(*   - wail-audio/src/ring.rs, process(): of the recording only the record *)
(*     buffers are kept, the send plugin discards what was recorded;       *)
(*   - wail-audio/src/frame_assembler.rs: the receiver of the frames.      *)
(*                                                                         *)
(* Audio is counted in samples per channel.  The way from the socket to    *)
(* the assembler (application, relay) is external: in order, nothing lost. *)
(* A recording is what the callbacks feed between two resets of the frame  *)
(* number; "segs" keeps, for the properties only, what became of each.     *)
(***************************************************************************)
EXTENDS Integers, Sequences, FiniteSetsExt

CONSTANTS
    Full,           \* samples in a full frame, opus_frame_size
    BlockSizes,     \* samples in one callback
    Intervals,      \* interval indices
    FrameCap,       \* capacity of the frame channel, 512 in the code
    ReturnCap,      \* capacity of the buffer return channel, 8 in the code
    SeqWrap,        \* frame_seq wraps here, at 2^32 in the code
    MaxFrames,      \* MAX_FRAMES_PER_INTERVAL, 10000 in the code
    None,           \* no interval
    MaxThreads,     \* bound: calls of initialize
    MaxCalls,       \* bound: callbacks
    MaxTroubles     \* bound: resets, initializes, restarts of the transport, stops of the
                    \* application and frames the encoder refuses, all together

ASSUME SendAssumption ==
    /\ Full \in Nat \ {0} /\ Full % 8 = 0
    /\ BlockSizes \subseteq Nat \ {0}
    /\ {FrameCap, ReturnCap, SeqWrap, MaxFrames, MaxThreads} \subseteq Nat \ {0}
    /\ {MaxCalls, MaxTroubles} \subseteq Nat
    /\ None \notin Intervals

VARIABLES
    wasPlaying,                         \* was_playing, as a set: empty at first
    current,                            \* the ring's current_interval
    recBuf, spare, recorded, returns,   \* record_slot and spare_record have a buffer,
                                        \* record_pos > 0, buffers in the return channel
    streaming, fnum, fseq, fbuf,        \* streaming_*, length of frame_buffer
    skipped,                            \* frames lost at the channel since the last kept
    now,                                \* the thread of the last initialize
    chan, link,                         \* by thread: its channel, its connection
    heard, missed,                      \* by thread: last frame_seq delivered (a set),
                                        \* frames lost since
    appUp,                              \* the application listens
    pending, result, gap,               \* the assembler, its last interval, the last gap
    segs, calls, troubles

ringVars == <<current, recBuf, spare, recorded, returns>>
cutVars  == <<streaming, fnum, fseq, fbuf, skipped>>
ipcVars  == <<chan, link, heard, missed>>
rcvVars  == <<pending, result, gap>>
used     == <<calls, troubles>>
vars == <<wasPlaying, ringVars, cutVars, now, ipcVars, appUp, rcvVars, segs, used>>

Threads == 1..MaxThreads
Missing == -1
Packets == {Missing} \cup 0..Full       \* an opus packet by the samples it decodes to, 0 empty
Frames == [index : Intervals, number : Nat, seq : 0..SeqWrap-1, len : 0..Full, final : BOOLEAN,
           total : Nat, seg : Nat, skipped : Nat]
EmptyPackets == [i \in 0..MaxFrames-1 |-> 0]    \* mutant: a hole is an empty packet
NoFrames == [i \in 0..MaxFrames-1 |-> Missing]

Init ==
    /\ wasPlaying = {} /\ current = None
    /\ recBuf = TRUE /\ spare = TRUE /\ recorded = FALSE /\ returns = 1
    /\ streaming = None /\ fnum = 0 /\ fseq = 0 /\ fbuf = 0 /\ skipped = 0
    /\ now = 1
    /\ chan = [t \in Threads |-> <<>>]
    /\ heard = [t \in Threads |-> {}] /\ missed = [t \in Threads |-> 0]
    /\ link = [t \in Threads |-> IF t = 1 THEN "down" ELSE "unborn"]
    /\ appUp = TRUE
    /\ pending = [k \in Intervals |-> NoFrames]
    /\ result = [seg |-> 0] /\ gap = <<0, 0>>
    /\ segs = <<>> /\ calls = 0 /\ troubles = 0

Trouble == troubles < MaxTroubles /\ troubles' = troubles + 1

----------------------------------------------------------------------------
(* The recording half of the ring: process() and the swap of its buffers,   *)
(* and the return of a completed buffer by the plugin.  "before" is the     *)
(* current interval, None after a restart.                                  *)

NeverReturned(n) == n                   \* mutant: the buffer is dropped
Returned(n) == IF n < ReturnCap THEN n + 1 ELSE n

RingProcess(before, some, idx) ==
    LET take  == ~spare /\ returns > 0                  \* spare replenished first
        ready == spare \/ take
        left  == IF take THEN returns - 1 ELSE returns
        crossed == before # None /\ before # idx
        swap  == crossed /\ some
    IN  /\ current' = idx
        /\ recBuf' = IF swap THEN ready ELSE recBuf
        /\ spare' = (ready /\ ~swap)
        /\ returns' = IF swap THEN Returned(left) ELSE left
        /\ recorded' = (recBuf' \/ (some /\ ~crossed))

RingReset ==
    /\ current' = None /\ recBuf' = TRUE /\ spare' = TRUE /\ recorded' = FALSE
    /\ UNCHANGED returns

----------------------------------------------------------------------------
(* process: the frames                                                     *)

Lost(ss, i) == [ss EXCEPT ![i].lost = @ + 1]

\* try_send to the current thread's channel, with ss the recordings so far.
Offer(f, ss) ==
    IF Len(chan[now]) < FrameCap
      THEN /\ chan' = [chan EXCEPT ![now] = Append(@, f)]
           /\ skipped' = 0 /\ segs' = ss
      ELSE /\ skipped' = skipped + 1 /\ segs' = Lost(ss, f.seg)
           /\ UNCHANGED chan

FrameNumberAsSeq(q) == (fnum + 1) % SeqWrap  \* mutant: starts again at each boundary
SeqUnwrapped(q) == q + 1                    \* mutant: + for wrapping_add
SeqAfter(q) == (q + 1) % SeqWrap
SeqGap(q, r) == (r - q - 1) % SeqWrap

Frame(idx, n, final, total) ==
    [index |-> idx, number |-> fnum, seq |-> fseq, len |-> n, final |-> final,
     total |-> total, seg |-> Len(segs), skipped |-> skipped]

CountFinal == fnum + 1                  \* mutant: an empty final frame counts too

\* total_frames: a final frame counts only when it carries samples.
TotalFrames == IF fbuf = 0 THEN fnum ELSE fnum + 1

NewSeg(idx, n) == [index |-> idx, captured |-> n, lost |-> 0]
Fed(ss, n) == [ss EXCEPT ![Len(ss)].captured = @ + n]

\* The frames of the previous callback are dispatched: the audio thread is free.
Between == fbuf < Full

\* One callback with n samples, at a beat that lies in interval idx.
Process(idx, n, playing) ==
    LET restarted == wasPlaying = {FALSE} /\ playing
        before == IF restarted THEN None ELSE streaming
        flush  == before # None /\ before # idx
    IN  /\ Between /\ calls < MaxCalls
        /\ IF restarted THEN Trouble ELSE UNCHANGED troubles
        /\ calls' = calls + 1
        /\ wasPlaying' = {playing}
        /\ RingProcess(IF restarted THEN None ELSE current, recorded /\ ~restarted, idx)
        /\ streaming' = idx
        /\ fbuf' = IF restarted \/ flush THEN n ELSE fbuf + n
        /\ fnum' = IF restarted \/ flush THEN 0 ELSE fnum
        /\ IF flush
             THEN /\ Offer(Frame(before, fbuf, TRUE, TotalFrames), Append(segs, NewSeg(idx, n)))
                  /\ fseq' = SeqAfter(fseq)
             ELSE /\ segs' = IF before = None THEN Append(segs, NewSeg(idx, n)) ELSE Fed(segs, n)
                  /\ UNCHANGED <<fseq, skipped, chan>>
        /\ UNCHANGED <<now, link, heard, missed, appUp, rcvVars>>

\* One turn of the loop that dispatches full frames.
Dispatch ==
    /\ fbuf >= Full
    /\ fbuf' = fbuf - Full
    /\ Offer(Frame(streaming, Full, FALSE, 0), segs)
    /\ fseq' = SeqAfter(fseq) /\ fnum' = fnum + 1
    /\ UNCHANGED <<wasPlaying, ringVars, streaming, now, link, heard, missed, appUp, rcvVars, used>>

Reset ==
    /\ Between /\ Trouble
    /\ wasPlaying' = {} /\ RingReset
    /\ streaming' = None /\ fnum' = 0 /\ fbuf' = 0
    /\ UNCHANGED <<fseq, skipped, now, ipcVars, appUp, rcvVars, segs, calls>>

\* A new ring, a new channel and a new thread; was_playing and frame_seq stay.  The
\* old channel is closed: its thread drains it.
Initialize ==
    /\ Between /\ now < MaxThreads /\ Trouble
    /\ current' = None /\ recBuf' = TRUE /\ spare' = TRUE /\ recorded' = FALSE /\ returns' = 1
    /\ streaming' = None /\ fnum' = 0 /\ fbuf' = 0 /\ skipped' = 0
    /\ now' = now + 1
    /\ link' = [link EXCEPT ![now + 1] = "down"]
    /\ UNCHANGED <<wasPlaying, fseq, chan, heard, missed, appUp, rcvVars, segs, calls>>

----------------------------------------------------------------------------
(* encode_frame, FrameAssembler::insert, decode_interval                   *)

\* The smallest Opus frame that holds n samples: 2.5, 5, 10 or 20 ms.
EncodedLen(n) ==
    IF n > Full \div 2 THEN Full
    ELSE IF n > Full \div 4 THEN Full \div 2
    ELSE IF n > Full \div 8 THEN Full \div 4
    ELSE Full \div 8

\* decode_interval conceals a missing packet, and an empty one, with a full frame.
Decoded(p) == IF p \in {Missing, 0} THEN Full ELSE p

Assembled(f, coll) ==
    [seg      |-> f.seg,
     expected |-> f.total,
     received |-> Cardinality({i \in 0..f.total-1 : coll[i] # Missing}),
     decoded  |-> MapThenSumSet(LAMBDA i : Decoded(coll[i]), 0..f.total-1)]

Insert(f, packet) ==
    LET coll == [pending[f.index] EXCEPT ![f.number] = packet] IN
    IF f.number >= MaxFrames
      THEN UNCHANGED <<pending, result>>
      ELSE /\ pending' = [pending EXCEPT ![f.index] = IF f.final THEN NoFrames ELSE coll]
           /\ result' = IF f.final THEN Assembled(f, coll) ELSE result

----------------------------------------------------------------------------
(* ipc_thread_send                                                         *)

Connect(t) ==
    /\ link[t] = "down" /\ appUp
    /\ link' = [link EXCEPT ![t] = "up"]
    /\ UNCHANGED <<wasPlaying, ringVars, cutVars, now, chan, heard, missed, appUp, rcvVars, segs, used>>

Received(t) == chan[t] # <<>> /\ chan' = [chan EXCEPT ![t] = Tail(@)]

\* The frame is written and arrives.  What the encoder refuses goes out empty.
Write(t) ==
    LET f == Head(chan[t]) IN
    /\ link[t] = "up" /\ Received(t)
    /\ \/ Insert(f, EncodedLen(f.len)) /\ UNCHANGED troubles
       \/ Insert(f, 0) /\ Trouble
    /\ gap' = IF heard[t] = {} THEN gap
               ELSE <<SeqGap(CHOOSE q \in heard[t] : TRUE, f.seq), f.skipped + missed[t]>>
    /\ heard' = [heard EXCEPT ![t] = {f.seq}] /\ missed' = [missed EXCEPT ![t] = 0]
    /\ UNCHANGED <<wasPlaying, ringVars, cutVars, now, link, appUp, segs, calls>>

\* The other end is gone: the write fails, or fills the socket and is lost too.
WriteLost(t) ==
    LET f == Head(chan[t]) IN
    /\ link[t] = "broken" /\ Received(t)
    /\ link' \in {link, [link EXCEPT ![t] = "down"]}
    /\ missed' = [missed EXCEPT ![t] = @ + f.skipped + 1]
    /\ segs' = Lost(segs, f.seg)
    /\ UNCHANGED <<wasPlaying, ringVars, cutVars, now, heard, appUp, rcvVars, used>>

\* mutant: Disconnected is taken for a lost connection
EndsByReconnect(t) ==
    /\ t < now /\ link[t] \in {"up", "broken"} /\ chan[t] = <<>>
    /\ link' = [link EXCEPT ![t] = "down"]
    /\ UNCHANGED <<wasPlaying, ringVars, cutVars, now, chan, heard, missed, appUp, rcvVars, segs, used>>

\* Disconnected: the sender is dropped and the channel is empty.
Ends(t) ==
    /\ t < now /\ link[t] \in {"up", "broken"} /\ chan[t] = <<>>
    /\ link' = [link EXCEPT ![t] = "ended"]
    /\ UNCHANGED <<wasPlaying, ringVars, cutVars, now, chan, heard, missed, appUp, rcvVars, segs, used>>

AppStops ==
    /\ appUp /\ Trouble
    /\ appUp' = FALSE
    /\ link' = [t \in Threads |-> IF link[t] = "up" THEN "broken" ELSE link[t]]
    /\ UNCHANGED <<wasPlaying, ringVars, cutVars, now, chan, heard, missed, rcvVars, segs, calls>>

AppStarts ==
    /\ ~appUp /\ appUp' = TRUE
    /\ UNCHANGED <<wasPlaying, ringVars, cutVars, now, ipcVars, rcvVars, segs, used>>

Thread(t) == Connect(t) \/ Write(t) \/ WriteLost(t) \/ Ends(t)

Next ==
    \/ \E idx \in Intervals, n \in BlockSizes, playing \in BOOLEAN : Process(idx, n, playing)
    \/ Dispatch \/ Reset \/ Initialize
    \/ \E t \in Threads : Thread(t)
    \/ AppStops \/ AppStarts

\* The operating system runs every thread; nothing is assumed of the application.
Spec == Init /\ [][Next]_vars /\ \A t \in Threads : WF_vars(Thread(t))

----------------------------------------------------------------------------
(* Properties                                                              *)

\* The frame buffer holds less than a full frame and the callback being cut: it is
\* bounded whatever the channel does, since a frame that is not sent is cut all the same.
HoldsLittle == fbuf < Full \/ \E n \in BlockSizes : fbuf < Full + n

\* Every variable has its type, the frame buffer and the channels hold what they may, and
\* sequence numbers stay below the wrap.
TypeOK ==
    /\ HoldsLittle
    /\ wasPlaying \in SUBSET BOOLEAN /\ {current, streaming} \subseteq Intervals \cup {None}
    /\ {recBuf, spare, recorded, appUp} \subseteq BOOLEAN /\ returns \in 0..ReturnCap
    /\ {fnum, fbuf, skipped} \subseteq Nat /\ fseq \in 0..SeqWrap-1 /\ now \in Threads
    /\ \A t \in Threads :
        /\ chan[t] \in Seq(Frames) /\ Len(chan[t]) <= FrameCap
        /\ link[t] \in {"unborn", "down", "up", "broken", "ended"}
    /\ pending \in [Intervals -> [0..MaxFrames-1 -> Packets]]

\* Recording is never skipped: when a callback begins the ring can write, and at a
\* boundary it will find a spare buffer, in place or on the way back.
RecordingNeverSkipped == recBuf /\ (spare \/ returns > 0)

\* An assembled interval decodes to what its callbacks captured, in full frames, with
\* only the last one rounded up, to the Opus frame that holds it or to a concealed one:
\* no silence between frames, whatever was lost, restarted or sent by an old thread.
LengthKept ==
    result.seg # 0 =>
        LET s == segs[result.seg]
            rest == s.captured % Full
            body == s.captured - rest
        IN  result.decoded \in IF rest = 0 THEN {body} ELSE {body + EncodedLen(rest), body + Full}

\* The hole between two frame numbers delivered by one thread is the number of frames
\* of the stream lost in between, at the full channel or at a dead connection.
GapsAreLosses == gap[1] = gap[2] % SeqWrap

\* What an assembled interval lacks is what was lost of it.
FramesReceivedExact ==
    result.seg # 0 => result.expected - result.received = segs[result.seg].lost

\* That holds when the interval was recorded once.
CountsOnce ==
    (result.seg # 0 /\ \A j \in 1..Len(segs) : segs[j].index = segs[result.seg].index => j = result.seg)
        => FramesReceivedExact

\* The thread of an earlier initialize drains its channel and ends, if the application
\* stays up in the end.
OldThreadEnds ==
    \A t \in Threads : <>[]appUp => [](t < now => <>(link[t] = "ended"))
=============================================================================
