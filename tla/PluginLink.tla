----------------------------- MODULE PluginLink -----------------------------
(***************************************************************************)
(* A TCP connection between a plugin and the application.  On that of a    *)
(* receive plugin (wail-plugin-recv) the application writes peer events    *)
(* and remote audio and the plugin's IPC thread reads; on that of a send   *)
(* plugin (wail-plugin-send) the IPC thread writes its frames and the      *)
(* application reads.  TCP keeps the order of the bytes and nothing else:  *)
(* a read returns any part of what is there.                               *)
(*                                                                         *)
(* The application's ends are external: ipc.go and session.go.             *)
(***************************************************************************)
EXTENDS PluginWire

CONSTANTS
    ToRecv, ToSend,     \* what may be written on the connection of either plugin
    StreamIndex,        \* the send plugin's stream
    Chunks,             \* how much a read may return, at most
    Tears,              \* bound: how much of a frame a write may leave behind when it fails
    MaxWritten,         \* bound: messages on a connection
    MaxConns            \* bound: connections

Text == Seq(Byte)
ASSUME LinkAssumption ==
    /\ ToRecv \subseteq [what : {"joined"}, peer : Text, identity : Text]
                   \cup [what : {"left"}, peer : Text]
                   \cup [what : {"name"}, peer : Text, name : Text]
                   \cup [what : {"audio"}, peer : Text, frame : AudioFrames, at : SInt(8)]
    /\ ToSend \subseteq [what : {"frame"}, frame : AudioFrames]
                   \cup [what : {"metrics"}, failures : UInt(8)]
    /\ StreamIndex \in UInt(2)
    /\ {MaxWritten, MaxConns} \cup Chunks \cup Tears \subseteq Nat

VARIABLES
    plugin,     \* whose connection it is
    stage,      \* "closed", "handshake", "open"; "dropped" by the writer and still open
    sock,       \* bytes under way
    buf,        \* the reader's IpcRecvBuffer
    written,    \* messages written on this connection, whole
    taken,      \* messages the reader has decoded on this connection
    conns       \* connections so far

linkVars == <<plugin, stage, sock, buf, written, taken, conns>>

LinkInit ==
    /\ plugin \in {"recv", "send"} /\ stage = "closed" /\ conns = 0
    /\ sock = <<>> /\ buf = <<>> /\ written = <<>> /\ taken = <<>>

\* A message as bytes.  The application has put its own interval index into remote audio.
Encode(m) ==
    CASE m.what = "joined"  -> EncodePeerJoined(m.peer, m.identity)
      [] m.what = "left"    -> EncodePeerLeft(m.peer)
      [] m.what = "name"    -> EncodePeerName(m.peer, m.name)
      [] m.what = "audio"   -> EncodeAudio(m.peer, RewriteIndex(EncodeWaif(m.frame), m.at))
      [] m.what = "frame"   -> EncodeAudioFrame(EncodeWaif(m.frame))
      [] m.what = "metrics" -> EncodeMetrics(m.failures)

----------------------------------------------------------------------------

\* A send plugin says who it is and which stream it sends; a new connection has a new buffer.
Handshake == <<0>> \o Bytes(StreamIndex, 2)
OpenConnection ==
    /\ stage = "closed" /\ conns < MaxConns /\ conns' = conns + 1
    /\ IF plugin = "send" THEN stage' = "handshake" /\ sock' = Handshake
                          ELSE stage' = "open" /\ sock' = <<>>
    /\ buf' = <<>> /\ written' = <<>> /\ taken' = <<>>
    /\ UNCHANGED plugin

\* The plugin writes the handshake at once; that it arrives in parts more than 200 ms apart,
\* where the application stops waiting for the stream, is left out.
TakeHandshake ==
    /\ stage = "handshake" /\ Len(sock) >= Len(Handshake)
    /\ stage' = "open" /\ sock' = From(sock, Len(Handshake))
    /\ UNCHANGED <<plugin, buf, written, taken, conns>>

WriteMessage(m) ==
    /\ stage \in {"handshake", "open"} /\ Len(written) < MaxWritten
    /\ sock' = sock \o EncodeFrame(Encode(m)) /\ written' = Append(written, m)
    /\ UNCHANGED <<plugin, stage, buf, taken, conns>>

\* The write deadline of a broadcast passes with part of the frame written.  The connection
\* is taken from the pool: nothing is written on it again, and nobody closes it.
Tear(m) ==
    /\ plugin = "recv" /\ stage = "open" /\ stage' = "dropped"
    /\ \E n \in Tears : n < Len(EncodeFrame(Encode(m))) /\ sock' = sock \o Slice(EncodeFrame(Encode(m)), 0, n)
    /\ UNCHANGED <<plugin, buf, written, taken, conns>>

\* One read, when the frames that came before are taken.
Read ==
    /\ stage \in {"open", "dropped"} /\ sock # <<>> /\ ~HasFrame(buf)
    /\ \E n \in Chunks :
          LET k == IF n < Len(sock) THEN n ELSE Len(sock)
          IN  buf' = Kept(buf \o Slice(sock, 0, k)) /\ sock' = From(sock, k)
    /\ UNCHANGED <<plugin, stage, written, taken, conns>>

\* What a payload says to its reader, by its tag: nothing if it does not decode, or if the
\* reader has no use for it.
Heard(p) ==
    LET joined == DecodePeerJoined(p)  left == DecodePeerLeft(p)  name == DecodePeerName(p)
        audio == DecodeAudio(p)
    IN  CASE Tag(p) = TagPeerJoined /\ joined # Nothing ->
                <<[what |-> "joined", peer |-> joined.peer, identity |-> joined.identity]>>
          [] Tag(p) = TagPeerLeft /\ left # Nothing -> <<[what |-> "left", peer |-> left.peer]>>
          [] Tag(p) = TagPeerName /\ name # Nothing -> <<[what |-> "name", peer |-> name.peer, name |-> name.name]>>
          [] Tag(p) = TagAudio /\ audio # Nothing ->
                IF DecodeWaif(audio.wire) = Nothing THEN <<>>
                ELSE <<[what |-> "audio", peer |-> audio.peer, frame |-> DecodeWaif(audio.wire)]>>
          [] OTHER -> <<>>
Relayed(p) ==
    IF DecodeAudioFrame(p) = Nothing THEN <<>>
    ELSE <<[what |-> "frame", header |-> Peek(DecodeAudioFrame(p).wire)]>>

\* One turn of the loop over next_frame; the channel to the session loop, which drops a
\* frame when it is full, is left out.
Take ==
    /\ HasFrame(buf) /\ buf' = Kept(AfterFrame(buf))
    /\ taken' = taken \o IF plugin = "recv" THEN Heard(Payload(buf)) ELSE Relayed(Payload(buf))
    /\ UNCHANGED <<plugin, stage, sock, written, conns>>

\* Either side ends the connection, with what is under way and what is in the buffer.
Close ==
    /\ stage # "closed" /\ ~HasFrame(buf)
    /\ stage' = "closed" /\ sock' = <<>>
    /\ UNCHANGED <<plugin, buf, written, taken, conns>>

LinkNext ==
    \/ OpenConnection \/ TakeHandshake \/ Read \/ Take \/ Close
    \/ \E m \in IF plugin = "recv" THEN ToRecv ELSE ToSend : WriteMessage(m) \/ Tear(m)

LinkSpec == LinkInit /\ [][LinkNext]_linkVars

----------------------------------------------------------------------------

\* What is said of a frame: its metadata only if it is final.
Said(f) ==
    IF f.final THEN f ELSE AudioFrame(f.index, f.stream, f.number, f.seq, f.channels, f.opus)

\* What the reader is meant to learn of a message.
Meant(m) ==
    CASE m.what = "joined" -> <<[m EXCEPT !.peer = Short(@), !.identity = Short(@)]>>
      [] m.what = "left"   -> <<[m EXCEPT !.peer = Short(@)]>>
      [] m.what = "name"   -> <<[m EXCEPT !.peer = Short(@), !.name = Short(@)]>>
      [] m.what = "audio"  -> <<[what |-> "audio", peer |-> Short(m.peer),
                                 frame |-> [Said(m.frame) EXCEPT !.index = m.at]]>>
      [] m.what = "frame"  -> <<[what |-> "frame",
                                 header |-> Header(m.frame.index, m.frame.stream, m.frame.number,
                                                   m.frame.seq, m.frame.final, Said(m.frame).total)]>>
      [] OTHER -> <<>>
AllMeant == FlattenSeq([k \in DOMAIN written |-> Meant(written[k])])

\* Wherever reads cut the byte stream, and whatever a failed write or an earlier connection
\* left behind, the reader learns what was written, in order and nothing else; and when no
\* byte is under way it has learnt all of it.
ArrivesWhole ==
    /\ IsPrefix(taken, AllMeant)
    /\ stage \in {"open", "dropped"} /\ sock = <<>> /\ ~HasFrame(buf) => taken = AllMeant
=============================================================================
