---------------------------- MODULE RoomDirectory ----------------------------
(***************************************************************************)
(* What the relay promises about rooms, without its tables, locks and      *)
(* lookups: each room seats at most one connection per peer id, a          *)
(* connection has at most one seat and loses it only by leaving or to a    *)
(* connection with its peer id, whoever comes or goes is announced to all  *)
(* who are seated, with a list for the newcomer, and a session runs while  *)
(* a room seats two or more.                                               *)
(***************************************************************************)
EXTENDS Naturals, FiniteSets

CONSTANTS Conns, PeerIds, RoomNames, NoConn

VARIABLES
    status,     \* of each connection: "off", "on" or "leaving"
    members,    \* who sits where: [RoomNames -> [PeerIds -> Conns or NoConn]]
    roster,     \* by connection: its list, corrected by the announcements made to it
    meeting     \* the rooms with a running session

dirVars == <<status, members, roster, meeting>>

NoMembers  == [p \in PeerIds |-> NoConn]
Present(n) == {p \in PeerIds : members[n][p] # NoConn}
Seated(c)  == \E n \in RoomNames, p \in PeerIds : members[n][p] = c
\* The connections in room n other than the one at seat p.
Company(n, p) == {members[n][q] : q \in Present(n) \ {p}}

Convene(n, crowd) == IF Cardinality(crowd) >= 2 THEN meeting \cup {n} ELSE meeting \ {n}

\* c opens, starts leaving or is closed; from a seat it can only start leaving.
Move(c, s) ==
    /\ status' = [status EXCEPT ![c] = s]
    /\ Seated(c) => status[c] = "on" /\ s = "leaving"
    /\ UNCHANGED <<members, roster, meeting>>

\* c takes seat p of room n; a connection that was sitting there loses it.
Admit(c, n, p) ==
    /\ status[c] = "on"
    /\ ~Seated(c)
    /\ members' = [members EXCEPT ![n] = [@ EXCEPT ![p] = c]]
    /\ roster' = [d \in Conns |->
                    IF d = c THEN Present(n) \ {p}
                    ELSE IF d \in Company(n, p) THEN roster[d] \cup {p}
                    ELSE IF d = members[n][p] THEN {}
                    ELSE roster[d]]
    /\ meeting' = Convene(n, Present(n) \cup {p})
    /\ UNCHANGED status

\* c, on its way out, gives its seat up.
Dismiss(c, n, p) ==
    /\ status[c] = "leaving"
    /\ members[n][p] = c
    /\ members' = [members EXCEPT ![n] = [@ EXCEPT ![p] = NoConn]]
    /\ roster' = [d \in Conns |->
                    IF d = c THEN {}
                    ELSE IF d \in Company(n, p) THEN roster[d] \ {p}
                    ELSE roster[d]]
    /\ meeting' = Convene(n, Present(n) \ {p})
    /\ UNCHANGED status

CloseDown ==
    /\ status' = [c \in Conns |-> "off"]
    /\ members' = [n \in RoomNames |-> NoMembers]
    /\ roster' = [c \in Conns |-> {}]
    /\ meeting' = {}

DirInit ==
    /\ status = [c \in Conns |-> "off"]
    /\ members = [n \in RoomNames |-> NoMembers]
    /\ roster = [c \in Conns |-> {}]
    /\ meeting = {}

DirNext ==
    \/ \E c \in Conns, s \in {"off", "on", "leaving"} : Move(c, s)
    \/ \E c \in Conns, n \in RoomNames, p \in PeerIds :
         Admit(c, n, p) \/ Dismiss(c, n, p)
    \/ CloseDown

DirSpec == DirInit /\ [][DirNext]_dirVars
=============================================================================
