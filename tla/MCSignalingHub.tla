--------------------------- MODULE MCSignalingHub ---------------------------
(***************************************************************************)
(* Instances of SignalingHub for TLC.                                      *)
(***************************************************************************)
EXTENDS SignalingHub, TLC

\* Connections, peers and room objects are interchangeable (safety runs only).
Symmetry == Permutations(Conns) \cup Permutations(RoomObjs) \cup Permutations(PeerIds)

\* The state bound of the largest run: two goroutines in the middle of a join
\* or a leave at a time, the third connection idle or waiting for a message.
FewBusy == Cardinality({c \in Conns : pc[c] \notin {"idle", "ready"}}) <= 2
=============================================================================
