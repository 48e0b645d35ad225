--------------------------- MODULE MCTestSession ---------------------------
(***************************************************************************)
(* An instance of TestSession for TLC: a client that leaves the room and   *)
(* comes back, with a clock that misses ticks, and a validator that stops  *)
(* and starts its transport.  Either has a script, or the other.           *)
(***************************************************************************)
EXTENDS TestSession

CONSTANTS a, b
MCPeers == {a, b}
Comes == [p \in MCPeers |-> IF p = a THEN <<"leave", "rejoin">> ELSE <<>>]
Stops == [p \in MCPeers |-> IF p = b THEN <<"stable", "stop", "resume">> ELSE <<>>]
MCScripts == {Comes, Stops}
MCValidators == {b}
MCSpans == [p \in MCPeers |-> IF p = a THEN {1, 2} ELSE {1}]
MCMaxBeat == [p \in MCPeers |-> IF p = a THEN 1 ELSE 3]
MCStartBeat == [p \in MCPeers |-> IF p = a THEN -1 ELSE 1]

\* The bound on what is under way at a time: two queues that hold something.
FewQueues ==
    Cardinality({c \in Conns : outSync[c] # <<>>}) + Cardinality({c \in Conns : outAudio[c] # <<>>})
    + Cardinality({c \in Conns : wire[c] # <<>>}) <= 2
=============================================================================
