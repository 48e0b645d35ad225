-------------------------- MODULE MCTwoMachineTest --------------------------
(***************************************************************************)
(* An instance of TwoMachineTest for TLC: an interval has more frames than *)
(* the channels for audio hold, and each audio phase has one.              *)
(***************************************************************************)
EXTENDS TwoMachineTest

CONSTANTS a, b
MCPeers == {a, b}
Seventh == {"reconnect"}
=============================================================================
