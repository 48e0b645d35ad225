---------------------------- MODULE MCSendStream ----------------------------
(***************************************************************************)
(* An instance of SendStream for TLC: frames of eight samples, callbacks    *)
(* that leave every kind of rest, two intervals and two threads.            *)
(***************************************************************************)
EXTENDS SendStream

MCIntervals == {0, 1}
MCBlocks == {3, 8}
=============================================================================
