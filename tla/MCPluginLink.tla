---------------------------- MODULE MCPluginLink ----------------------------
(***************************************************************************)
(* An instance of PluginLink for TLC: a peer with an empty identity and a  *)
(* name that is too long, frames before interval 0, without audio, stereo  *)
(* and final.  Metrics is a message that no plugin of this version sends:  *)
(* the application reads past it.                                          *)
(***************************************************************************)
EXTENDS PluginLink

P == <<112, 49>>
Plain == [AudioFrame(-3, 1, 0, 65536, 1, <<7, 0, 0, 0>>) EXCEPT !.rate = 48000, !.bpm = 120]
Ended == [AudioFrame(4, 258, 399, 70000, 2, <<>>) EXCEPT
             !.final = TRUE, !.rate = 48000, !.total = 400, !.bpm = 120, !.quantum = 4, !.bars = 4]
MCToRecv == {[what |-> "joined", peer |-> P, identity |-> <<>>],
             [what |-> "left", peer |-> P],
             [what |-> "name", peer |-> P, name |-> [i \in 1..256 |-> i % 2]],
             [what |-> "audio", peer |-> P, frame |-> Plain, at |-> 5],
             [what |-> "audio", peer |-> P, frame |-> Ended, at |-> -1]}
MCToSend == {[what |-> "frame", frame |-> Plain], [what |-> "frame", frame |-> Ended],
             [what |-> "metrics", failures |-> 300]}
=============================================================================
