--------------------------- MODULE MCPeerRegistry ---------------------------
(***************************************************************************)
(* An instance of PeerRegistry for TLC: two sessions of one installation   *)
(* and one of another, more streams than slots.                            *)
(***************************************************************************)
EXTENDS PeerRegistry, TLC

CONSTANTS p1, p2, p3, i1, i2

MCIdentityOf == (p1 :> i1) @@ (p2 :> i1) @@ (p3 :> i2)
=============================================================================
