---------------------------- MODULE MCRecvPlugin ----------------------------
(***************************************************************************)
(* An instance of RecvPlugin for TLC: one peer with two streams, the first *)
(* of which sends through three intervals, and one peer with one stream;   *)
(* two slots, one fewer than streams.                                      *)
(***************************************************************************)
EXTENDS RecvPlugin

CONSTANTS p1, p2, i1, i2

MCSources == {<<p1, 0>>, <<p1, 1>>, <<p2, 0>>}
MCBlocks  == (<<p1, 0>> :> 5) @@ (<<p1, 1>> :> 1) @@ (<<p2, 0>> :> 1)
Own       == (p1 :> i1) @@ (p2 :> i2)

\* The audio thread keeps up: one item waits at most, in either channel; and no
\* stream is far ahead of another that still sends.
Calm ==
    /\ Len(events) + Len(frames) <= 1
    /\ \A x, y \in Sources : sent[y] < MaxBlocks[y] => sent[x] - sent[y] <= 1
=============================================================================
