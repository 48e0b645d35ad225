----------------------------- MODULE PluginWire -----------------------------
(***************************************************************************)
(* The bytes that plugins and application exchange, wail-audio/src/ipc.rs   *)
(* and wire.rs: WAIF audio frames, the tagged messages that carry them and *)
(* the peer events, and the length-prefixed frames around those.  A decoder *)
(* gives Nothing where the code gives None or an error.                    *)
(*                                                                         *)
(* A string is its bytes; a floating-point number is the integer of its     *)
(* bits.  The Go application has the same formats in ipc.go and wire.go.   *)
(***************************************************************************)
EXTENDS Integers, Sequences, SequencesExt

Base == 256
Byte == 0..(Base - 1)
Nothing == <<>>

\* What is left of an integer when its low bytes are taken off, w times.
Left(n, w) ==
    LET left[k \in 0..w] == IF k = 0 THEN n ELSE left[k - 1] \div Base
    IN  left

\* The integers of w bytes: u16, u32 and u64, and i64 in two's complement.
UInt(w) == {n \in Nat : Left(n, w)[w] = 0}
SInt(w) == {n \in Int : Left(n, w)[w - 1] \in -(Base \div 2)..(Base \div 2 - 1)}

\* to_le_bytes of an integer of w bytes, and from_le_bytes.
Bytes(n, w) == [k \in 1..w |-> Left(n, w)[k - 1] % Base]
Unsigned(bs) == FoldRight(LAMBDA b, n : b + Base * n, bs, 0)
Signed(bs) ==
    IF Last(bs) < Base \div 2 THEN Unsigned(bs)
    ELSE -1 - Unsigned([k \in DOMAIN bs |-> Base - 1 - bs[k]])

\* data[from..from + n] of the code, which counts from 0.
Slice(bs, from, n) == SubSeq(bs, from + 1, from + n)
From(bs, from) == SubSeq(bs, from + 1, Len(bs))

----------------------------------------------------------------------------
(* wire.rs: a frame of 20 ms, with the metadata of the interval if final   *)

Magic == <<87, 65, 73, 70>>             \* "WAIF"
HeaderSize == 25
FinalExtra == 28

AudioFrame(index, stream, number, seq, channels, opus) ==
    [index |-> index, stream |-> stream, number |-> number, seq |-> seq, channels |-> channels,
     opus |-> opus, final |-> FALSE, rate |-> 0, total |-> 0, bpm |-> 0, quantum |-> 0, bars |-> 0]

\* The struct AudioFrame, with one or two channels and an Opus packet whose length two bytes
\* can say.
AudioFrames ==
    {f \in [index : SInt(8), stream : UInt(2), number : UInt(4), seq : UInt(4), channels : {1, 2},
            opus : Seq(Byte), final : BOOLEAN, rate : UInt(4), total : UInt(4), bpm : UInt(8),
            quantum : UInt(8), bars : UInt(4)] :
        Len(f.opus) < Base * Base}

EncodeWaif(f) ==
    Magic
    \o <<(IF f.channels = 2 THEN 1 ELSE 0) + (IF f.final THEN 2 ELSE 0)>>
    \o Bytes(f.stream, 2) \o Bytes(f.index, 8) \o Bytes(f.number, 4) \o Bytes(f.seq, 4)
    \o Bytes(Len(f.opus) % (Base * Base), 2) \o f.opus
    \o IF f.final
         THEN Bytes(f.rate, 4) \o Bytes(f.total, 4) \o Bytes(f.bpm, 8) \o Bytes(f.quantum, 8)
              \o Bytes(f.bars, 4)
         ELSE <<>>

IsWaif(b) == Len(b) >= HeaderSize /\ Slice(b, 0, 4) = Magic
FlagFinal(b) == (b[5] \div 2) % 2 = 1
OpusLen(b) == Unsigned(Slice(b, 23, 2))
MetaStart(b) == HeaderSize + OpusLen(b)

DecodeWaif(b) ==
    LET meta == From(b, MetaStart(b))
        f == AudioFrame(Signed(Slice(b, 7, 8)), Unsigned(Slice(b, 5, 2)), Unsigned(Slice(b, 15, 4)),
                        Unsigned(Slice(b, 19, 4)), IF b[5] % 2 = 1 THEN 2 ELSE 1,
                        Slice(b, HeaderSize, OpusLen(b)))
    IN  IF ~IsWaif(b) \/ Len(b) < MetaStart(b) THEN Nothing
        ELSE IF ~FlagFinal(b) THEN f
        ELSE IF Len(meta) < FinalExtra THEN Nothing
        ELSE [f EXCEPT !.final = TRUE,
                       !.rate = Unsigned(Slice(meta, 0, 4)), !.total = Unsigned(Slice(meta, 4, 4)),
                       !.bpm = Unsigned(Slice(meta, 8, 8)), !.quantum = Unsigned(Slice(meta, 16, 8)),
                       !.bars = Unsigned(Slice(meta, 24, 4))]

\* peek_waif_header reads a header and leaves the rest; an index is rewritten in place.
Header(index, stream, number, seq, final, total) ==
    [index |-> index, stream |-> stream, number |-> number, seq |-> seq, final |-> final, total |-> total]
Peek(b) ==
    LET header(total) == Header(Signed(Slice(b, 7, 8)), Unsigned(Slice(b, 5, 2)),
                                Unsigned(Slice(b, 15, 4)), Unsigned(Slice(b, 19, 4)), FlagFinal(b), total)
    IN  IF ~IsWaif(b) THEN Nothing
        ELSE IF ~FlagFinal(b) THEN header(0)
        ELSE IF Len(b) < MetaStart(b) + FinalExtra THEN Nothing
        ELSE header(Unsigned(Slice(b, MetaStart(b) + 4, 4)))
RewriteIndex(b, index) ==
    IF IsWaif(b) THEN Slice(b, 0, 7) \o Bytes(index, 8) \o From(b, 15) ELSE b

----------------------------------------------------------------------------
(* ipc.rs: tagged messages; a string longer than a byte can say is cut     *)

TagAudio == 1
TagPeerJoined == 2
TagPeerLeft == 3
TagPeerName == 4
TagAudioFrame == 5
TagMetrics == 6

\* The tag of a payload; 0, which is none, of an empty one.
Tag(payload) == IF payload = <<>> THEN 0 ELSE payload[1]

ShortMax == 255
Short(s) == IF Len(s) > ShortMax THEN SubSeq(s, 1, ShortMax) ELSE s
Field(s) == <<Len(Short(s))>> \o Short(s)

EncodeAudio(peer, wire) == <<TagAudio>> \o Field(peer) \o wire
EncodePeerJoined(peer, identity) == <<TagPeerJoined>> \o Field(peer) \o Field(identity)
EncodePeerLeft(peer) == <<TagPeerLeft>> \o Field(peer)
EncodePeerName(peer, name) == <<TagPeerName>> \o Field(peer) \o Field(name)
EncodeAudioFrame(wire) == <<TagAudioFrame>> \o wire
EncodeMetrics(failures) == <<TagMetrics>> \o Bytes(failures, 8)

\* A field whose length byte stands at an index of the code; whether all of it is there.
FieldAt(b, at) == Slice(b, at + 1, b[at + 1])
After(b, at) == at + 1 + b[at + 1]
HasField(b, at) == Len(b) > at /\ Len(b) >= After(b, at)
Tagged(b, tag) == Len(b) >= 2 /\ b[1] = tag /\ HasField(b, 1)

DecodeAudio(b) ==
    IF Tagged(b, TagAudio) THEN [peer |-> FieldAt(b, 1), wire |-> From(b, After(b, 1))] ELSE Nothing
DecodePeerJoined(b) ==
    IF Tagged(b, TagPeerJoined) /\ HasField(b, After(b, 1))
      THEN [peer |-> FieldAt(b, 1), identity |-> FieldAt(b, After(b, 1))] ELSE Nothing
DecodePeerLeft(b) == IF Tagged(b, TagPeerLeft) THEN [peer |-> FieldAt(b, 1)] ELSE Nothing
DecodePeerName(b) ==
    IF Tagged(b, TagPeerName) /\ HasField(b, After(b, 1))
      THEN [peer |-> FieldAt(b, 1), name |-> FieldAt(b, After(b, 1))] ELSE Nothing
DecodeAudioFrame(b) == IF Len(b) >= 2 /\ b[1] = TagAudioFrame THEN [wire |-> From(b, 1)] ELSE Nothing
DecodeMetrics(b) ==
    IF Len(b) >= 9 /\ b[1] = TagMetrics THEN [failures |-> Unsigned(Slice(b, 1, 8))] ELSE Nothing

----------------------------------------------------------------------------
(* ipc.rs: frames, and the buffer that cuts them out of a byte stream      *)

MaxFrameSize == 16 * 1024 * 1024

EncodeFrame(payload) == Bytes(Len(payload), 4) \o payload

Declared(buf) == Unsigned(Slice(buf, 0, 4))
Oversized(buf) == Len(buf) >= 4 /\ Declared(buf) > MaxFrameSize
HasFrame(buf) == Len(buf) >= 4 /\ ~Oversized(buf) /\ Len(buf) >= 4 + Declared(buf)

\* next_frame: the payload it returns, and what the buffer holds after it; a buffer that
\* begins with a length that cannot be is thrown away.
Payload(buf) == Slice(buf, 4, Declared(buf))
AfterPayload(buf) == From(buf, Declared(buf))       \* mutant: the header is not consumed
AfterFrame(buf) == From(buf, 4 + Declared(buf))
Kept(buf) == IF Oversized(buf) THEN <<>> ELSE buf
=============================================================================
