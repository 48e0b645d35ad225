-------------------------- MODULE MCHelloExchange --------------------------
(***************************************************************************)
(* Symmetry for the safety run of HelloExchange.                           *)
(***************************************************************************)
EXTENDS HelloExchange, TLC

Symmetry == Permutations(Apps)
=============================================================================
