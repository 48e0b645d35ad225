------------------------- MODULE SignalingHubProofs -------------------------
(***************************************************************************)
(* What the room registry keeps true for any number of connections, peers, *)
(* rooms and join messages, and, at the end, that it implements            *)
(* RoomDirectory: each of its steps is one step of the directory or none.  *)
(***************************************************************************)
EXTENDS SignalingHub, FiniteSetTheorems, TLAPS

USE DEF Joining, Leaving, Handling

----------------------------------------------------------------------------
(* Type correctness.                                                       *)

LEMMA InitTypeOK == Init => TypeOK
  BY HubAssumption, NobodyAssumption DEF Init, TypeOK, Types, LocalsOf, Vacant

LEMMA RestartTypeOK == ASSUME TypeOK, NEW kept \in SUBSET Rows, Restart(kept)
                       PROVE  TypeOK'
<1>1. Types'
  BY HubAssumption DEF Restart, TypeOK, Types, Vacant
<1>2. \A d \in Conns : LocalsOf(d)'
  BY DEF Restart, LocalsOf
<1> QED BY <1>1, <1>2 DEF TypeOK

LEMMA StartLeaveTypeOK ==
  ASSUME TypeOK, NEW c \in Conns, NEW then \in {"idle", "ready", "auth"},
         pc[c] \in {"ready", "panic"}, StartLeave(c, then),
         joins' \in [Conns -> 0 .. MaxJoins],
         req' \in [Conns -> Request \cup {NoRequest}],
         \A d \in Conns \ {c} : req'[d] = req[d],
         then = "auth" => req'[c] \in Request
  PROVE  TypeOK'
<1>1. CASE me[c] = Nobody \/ rooms[me[c].room] = NoRoom
  <2>1. Finish(c, then)
    BY <1>1 DEF StartLeave
  <2>2. Types'
    BY <2>1 DEF StartLeave, Finish, TypeOK, Types, roomVars, dbVars
  <2>3. \A d \in Conns : LocalsOf(d)'
    BY <2>1 DEF StartLeave, Finish, TypeOK, Types, LocalsOf
  <2> QED BY <2>2, <2>3 DEF TypeOK
<1>2. CASE ~(me[c] = Nobody \/ rooms[me[c].room] = NoRoom)
  <2>1. me[c] \in Identity /\ rooms[me[c].room] \in RoomObjs
    BY <1>2 DEF TypeOK, Types, Identity
  <2>2. Types'
    BY <1>2, <2>1 DEF StartLeave, Goto, TypeOK, Types, roomVars, dbVars, listVars
  <2>3. \A d \in Conns : LocalsOf(d)'
    BY <1>2, <2>1, HubAssumption DEF StartLeave, Goto, TypeOK, Types, LocalsOf
  <2> QED BY <2>2, <2>3 DEF TypeOK
<1> QED BY <1>1, <1>2

LEMMA ReadTypeOK ==
  ASSUME TypeOK, NEW c \in Conns,
         \/ Connect(c) \/ ReadLeave(c) \/ ReadError(c) \/ Unwind(c)
         \/ \E m \in Request : ReadJoin(c, m)
  PROVE  TypeOK'
<1>1. CASE Connect(c)
  <2>1. Types'
    BY <1>1 DEF Connect, Goto, TypeOK, Types, roomVars, dbVars, listVars
  <2>2. \A d \in Conns : LocalsOf(d)'
    BY <1>1 DEF Connect, Goto, TypeOK, Types, LocalsOf
  <2> QED BY <2>1, <2>2 DEF TypeOK
<1>2. CASE ReadLeave(c)
  BY <1>2, StartLeaveTypeOK DEF ReadLeave, TypeOK, Types
<1>3. CASE ReadError(c) \/ Unwind(c)
  <2>1. joins' \in [Conns -> 0 .. MaxJoins]
    BY <1>3, HubAssumption DEF ReadError, Unwind, TypeOK, Types
  <2>2. req' \in [Conns -> Request \cup {NoRequest}] /\ req' = req
    BY <1>3 DEF ReadError, Unwind, TypeOK, Types
  <2> QED BY <1>3, <2>1, <2>2, StartLeaveTypeOK DEF ReadError, Unwind
<1>4. ASSUME NEW m \in Request, ReadJoin(c, m)
      PROVE  TypeOK'
  <2>1. joins' \in [Conns -> 0 .. MaxJoins]
    BY <1>4, HubAssumption DEF ReadJoin, TypeOK, Types
  <2>2. /\ req' \in [Conns -> Request \cup {NoRequest}]
        /\ \A d \in Conns \ {c} : req'[d] = req[d]
        /\ req'[c] \in Request
    BY <1>4 DEF ReadJoin, TypeOK, Types
  <2> QED BY <1>4, <2>1, <2>2, StartLeaveTypeOK DEF ReadJoin
<1> QED BY <1>1, <1>2, <1>3, <1>4

LEMMA JoinStepTypeOK ==
  ASSUME TypeOK, NEW c \in Conns,
         \/ CheckPassword(c) \/ CheckCapacity(c) \/ InsertRoomRow(c)
         \/ UpsertPeerRow(c) \/ LookupRoom(c)
         \/ \E ro \in RoomObjs : CreateRoom(c, ro)
  PROVE  TypeOK'
<1>0. /\ req[c] \in Request
      /\ req[c].room \in RoomNames /\ req[c].peer \in PeerIds
      /\ req[c].password \in Passwords /\ req[c].streams \in StreamCounts
  <2>1. pc[c] \in Joining
    BY DEF CheckPassword, CheckCapacity, InsertRoomRow, UpsertPeerRow, LookupRoom, CreateRoom
  <2>2. req[c] \in Request
    BY <2>1 DEF TypeOK, LocalsOf
  <2> QED BY <2>2 DEF Request
<1>1. CASE CheckPassword(c)
  <2>8. Types'
    BY <1>1 DEF CheckPassword, Refuse, Goto, roomVars, dbVars, listVars, TypeOK, Types
  <2>9. \A d \in Conns : LocalsOf(d)'
    BY <1>1, <1>0 DEF CheckPassword, Refuse, Goto, TypeOK, Types, LocalsOf
  <2> QED BY <2>8, <2>9 DEF TypeOK
<1>2. CASE CheckCapacity(c)
  <2>8. Types'
    BY <1>2 DEF CheckCapacity, Refuse, Goto, roomVars, dbVars, listVars, TypeOK, Types
  <2>9. \A d \in Conns : LocalsOf(d)'
    BY <1>2, <1>0 DEF CheckCapacity, Refuse, Goto, TypeOK, Types, LocalsOf
  <2> QED BY <2>8, <2>9 DEF TypeOK
<1>3. CASE InsertRoomRow(c)
  <2>8. Types'
    BY <1>3, <1>0 DEF InsertRoomRow, Goto, roomVars, connVars, listVars, TypeOK, Types
  <2>9. \A d \in Conns : LocalsOf(d)'
    BY <1>3, <1>0 DEF InsertRoomRow, Goto, connVars, TypeOK, Types, LocalsOf
  <2> QED BY <2>8, <2>9 DEF TypeOK
<1>4. CASE UpsertPeerRow(c)
  <2>1. peerRows' \in [RoomNames -> [PeerIds -> StreamCounts \cup {0}]]
    BY <1>0, <1>4 DEF UpsertPeerRow, TypeOK, Types
  <2>8. Types'
    BY <1>4, <2>1 DEF UpsertPeerRow, Goto, roomVars, connVars, listVars, TypeOK, Types
  <2>9. \A d \in Conns : LocalsOf(d)'
    BY <1>4, <1>0 DEF UpsertPeerRow, Goto, connVars, TypeOK, Types, LocalsOf
  <2> QED BY <2>8, <2>9 DEF TypeOK
<1>5. CASE LookupRoom(c)
  <2>8. Types'
    BY <1>5, <1>0 DEF LookupRoom, Goto, roomVars, dbVars, connVars, listVars, TypeOK, Types
  <2>9. \A d \in Conns : LocalsOf(d)'
    BY <1>5, <1>0 DEF LookupRoom, Goto, connVars, TypeOK, Types, LocalsOf
  <2> QED BY <2>8, <2>9 DEF TypeOK
<1>6. CASE \E ro \in RoomObjs : CreateRoom(c, ro)
  <2>8. Types'
    BY <1>6, <1>0 DEF CreateRoom, Goto, dbVars, connVars, listVars, TypeOK, Types
  <2>9. \A d \in Conns : LocalsOf(d)'
    BY <1>6, <1>0, HubAssumption DEF CreateRoom, Goto, connVars, TypeOK, Types, LocalsOf
  <2> QED BY <2>8, <2>9 DEF TypeOK
<1> QED BY <1>1, <1>2, <1>3, <1>4, <1>5, <1>6

LEMMA PlusMinus ==
    ASSUME NEW f \in [Conns -> SUBSET PeerIds], NEW S, NEW p \in PeerIds
    PROVE  /\ Plus(f, S, p) \in [Conns -> SUBSET PeerIds]
           /\ Minus(f, S, p) \in [Conns -> SUBSET PeerIds]
           /\ \A d \in Conns :
                /\ Plus(f, S, p)[d] = IF d \in S THEN f[d] \cup {p} ELSE f[d]
                /\ Minus(f, S, p)[d] = IF d \in S THEN f[d] \ {p} ELSE f[d]
BY DEF Plus, Minus

LEMMA EnterRoomTypeOK == ASSUME TypeOK, NEW c \in Conns, EnterRoom(c)
                         PROVE  TypeOK'
<1>1. ref[c] \in RoomObjs /\ req[c] \in Request /\ req[c].peer \in PeerIds
  BY DEF EnterRoom, TypeOK, Types, LocalsOf, Request
<1>2. Seat(c) \in [PeerIds -> Conns \cup {NoConn}]
  BY <1>1 DEF Seat, TypeOK, Types
<1>3. /\ connMap' \in [RoomObjs -> [PeerIds -> Conns \cup {NoConn}]]
      /\ snap' \in [RoomObjs -> [PeerIds -> Conns \cup {NoConn}]]
  BY <1>1, <1>2 DEF EnterRoom, TypeOK, Types
<1>4. session' \in [RoomObjs -> SUBSET PeerIds]
  BY <1>1 DEF EnterRoom, TypeOK, Types, Occupied
<1>5. /\ list' \in [Conns -> SUBSET PeerIds] /\ view' \in [Conns -> SUBSET PeerIds]
      /\ came' \in [Conns -> SUBSET PeerIds] /\ went' \in [Conns -> SUBSET PeerIds]
  <2>1. Listed(c) \subseteq PeerIds
    BY DEF Listed, Peers, Occupied
  <2> DEFINE near == Others(ref[c], req[c].peer)
             early == Unanswered(near)
  <2> HIDE DEF near, early
  <2>2. /\ Plus(view, near \ early, req[c].peer) \in [Conns -> SUBSET PeerIds]
        /\ Minus(came, near, req[c].peer) \in [Conns -> SUBSET PeerIds]
        /\ Minus(went, near, req[c].peer) \in [Conns -> SUBSET PeerIds]
    <3>1. /\ view \in [Conns -> SUBSET PeerIds] /\ came \in [Conns -> SUBSET PeerIds]
          /\ went \in [Conns -> SUBSET PeerIds]
      BY DEF TypeOK, Types
    <3>2. Plus(view, near \ early, req[c].peer) \in [Conns -> SUBSET PeerIds]
      BY <1>1, <3>1, PlusMinus
    <3>3. Minus(came, near, req[c].peer) \in [Conns -> SUBSET PeerIds]
      BY <1>1, <3>1, PlusMinus
    <3>4. Minus(went, near, req[c].peer) \in [Conns -> SUBSET PeerIds]
      BY <1>1, <3>1, PlusMinus
    <3> QED BY <3>2, <3>3, <3>4
  <2>3. Plus(Minus(came, near, req[c].peer), early, req[c].peer) \in [Conns -> SUBSET PeerIds]
    BY <1>1, <2>2, PlusMinus
  <2>4. /\ list' = [list EXCEPT ![c] = Listed(c)]
        /\ view' = [Plus(view, near \ early, req[c].peer) EXCEPT ![c] = {}]
        /\ came' = [Plus(Minus(came, near, req[c].peer), early, req[c].peer) EXCEPT ![c] = {}]
        /\ went' = [Minus(went, near, req[c].peer) EXCEPT ![c] = {}]
    BY DEF EnterRoom, near, early
  <2> QED BY <2>1, <2>2, <2>3, <2>4 DEF TypeOK, Types
<1>6. open' \in [Conns -> BOOLEAN]
  BY DEF EnterRoom, TypeOK, Types
<1>7. Types'
  BY <1>3, <1>4, <1>5, <1>6 DEF EnterRoom, Goto, TypeOK, Types, dbVars
<1>8. \A d \in Conns : LocalsOf(d)'
  BY <1>1 DEF EnterRoom, Goto, TypeOK, Types, LocalsOf
<1> QED BY <1>7, <1>8 DEF TypeOK

LEMMA ReleaseTypeOK ==
  ASSUME TypeOK, NEW c \in Conns, ref[c] # NoRoom, Release(c)
  PROVE  /\ connMap' \in [RoomObjs -> [PeerIds -> Conns \cup {NoConn}]]
         /\ snap' \in [RoomObjs -> [PeerIds -> Conns \cup {NoConn}]]
         /\ session' \in [RoomObjs -> SUBSET PeerIds]
         /\ wedged' \subseteq RoomObjs
<1>1. Vacant \in [PeerIds -> Conns \cup {NoConn}]
  BY DEF Vacant
<1>2. CASE LastHold(c)
  BY <1>1, <1>2 DEF Release, Wipe, TypeOK, Types
<1>3. CASE ~LastHold(c)
  BY <1>3 DEF Release, TypeOK, Types
<1> QED BY <1>2, <1>3

LEMMA EnterPanicsTypeOK == ASSUME TypeOK, NEW c \in Conns, EnterPanics(c)
                           PROVE  TypeOK'
<1>1. ref[c] \in RoomObjs /\ req[c].peer \in PeerIds
  BY DEF EnterPanics, TypeOK, Types, LocalsOf, Request
<1>2. /\ connMap' \in [RoomObjs -> [PeerIds -> Conns \cup {NoConn}]]
      /\ snap' \in [RoomObjs -> [PeerIds -> Conns \cup {NoConn}]]
      /\ session' \in [RoomObjs -> SUBSET PeerIds]
      /\ wedged' \subseteq RoomObjs
  <2>1. CASE LastHold(c)
    BY <2>1, ReleaseTypeOK, <1>1, HubAssumption DEF EnterPanics, Release
  <2>2. CASE ~LastHold(c)
    <3>1. connMap' = [connMap EXCEPT ![ref[c]][req[c].peer] = NoConn]
      BY <2>2 DEF EnterPanics
    <3>2. wedged' = wedged \cup {ref[c]} /\ snap' = snap /\ session' = session
      BY <2>2 DEF EnterPanics
    <3> QED BY <1>1, <3>1, <3>2 DEF TypeOK, Types
  <2> QED BY <2>1, <2>2
<1>3. Types'
  BY <1>2 DEF EnterPanics, Goto, TypeOK, Types, dbVars, listVars
<1>4. \A d \in Conns : LocalsOf(d)'
  BY DEF EnterPanics, Goto, TypeOK, Types, LocalsOf
<1> QED BY <1>3, <1>4 DEF TypeOK

LEMMA SendJoinOkTypeOK == ASSUME TypeOK, NEW c \in Conns, SendJoinOk(c)
                          PROVE  TypeOK'
<1>1. req[c] \in Request /\ ref[c] # NoRoom
  BY DEF SendJoinOk, TypeOK, LocalsOf
<1>2. [room |-> req[c].room, peer |-> req[c].peer] \in Identity
  BY <1>1 DEF Request, Identity
<1>3. Types'
  BY <1>1, <1>2, ReleaseTypeOK DEF SendJoinOk, Goto, TypeOK, Types, dbVars
<1>4. \A d \in Conns : LocalsOf(d)'
  BY DEF SendJoinOk, Goto, TypeOK, Types, LocalsOf
<1> QED BY <1>3, <1>4 DEF TypeOK

LEMMA GiveUpTypes ==
  ASSUME TypeOK, NEW ro \in RoomObjs, NEW p \in PeerIds, GiveUp(ro, p)
  PROVE  /\ connMap' \in [RoomObjs -> [PeerIds -> Conns \cup {NoConn}]]
         /\ snap' \in [RoomObjs -> [PeerIds -> Conns \cup {NoConn}]]
         /\ session' \in [RoomObjs -> SUBSET PeerIds]
         /\ list' \in [Conns -> SUBSET PeerIds] /\ view' \in [Conns -> SUBSET PeerIds]
         /\ came' \in [Conns -> SUBSET PeerIds] /\ went' \in [Conns -> SUBSET PeerIds]
<1>1. [connMap[ro] EXCEPT ![p] = NoConn] \in [PeerIds -> Conns \cup {NoConn}]
  BY DEF TypeOK, Types
<1>2. /\ connMap' \in [RoomObjs -> [PeerIds -> Conns \cup {NoConn}]]
      /\ snap' \in [RoomObjs -> [PeerIds -> Conns \cup {NoConn}]]
  BY <1>1 DEF GiveUp, TypeOK, Types
<1>3. session' \in [RoomObjs -> SUBSET PeerIds]
  BY DEF GiveUp, SessionAfter, TypeOK, Types
<1>4. /\ list' \in [Conns -> SUBSET PeerIds] /\ view' \in [Conns -> SUBSET PeerIds]
      /\ came' \in [Conns -> SUBSET PeerIds] /\ went' \in [Conns -> SUBSET PeerIds]
  <2> DEFINE rest == Others(ro, p)
             early == Unanswered(rest)
  <2>1. /\ view \in [Conns -> SUBSET PeerIds] /\ came \in [Conns -> SUBSET PeerIds]
        /\ went \in [Conns -> SUBSET PeerIds] /\ list \in [Conns -> SUBSET PeerIds]
    BY DEF TypeOK, Types
  <2>2. /\ view' = Minus(view, rest \ early, p) /\ came' = Minus(came, rest, p)
        /\ went' = Plus(Minus(went, rest, p), early, p) /\ list' = list
    BY DEF GiveUp
  <2> HIDE DEF rest, early
  <2>3. Minus(view, rest \ early, p) \in [Conns -> SUBSET PeerIds]
    BY <2>1, PlusMinus
  <2>4. Minus(came, rest, p) \in [Conns -> SUBSET PeerIds]
    BY <2>1, PlusMinus
  <2>5. Minus(went, rest, p) \in [Conns -> SUBSET PeerIds]
    BY <2>1, PlusMinus
  <2>6. Plus(Minus(went, rest, p), early, p) \in [Conns -> SUBSET PeerIds]
    BY <2>5, PlusMinus
  <2> QED BY <2>1, <2>2, <2>3, <2>4, <2>6
<1> QED BY <1>2, <1>3, <1>4

LEMMA LeaveStepTypeOK ==
  ASSUME TypeOK, NEW c \in Conns,
         \/ ExitRoom(c) \/ DeletePeerRow(c)
         \/ CheckEmpty(c) \/ DeleteRoom(c) \/ DeleteRoomRow(c)
  PROVE  TypeOK'
<1>0. me[c] \in Identity /\ me[c].room \in RoomNames /\ me[c].peer \in PeerIds
  <2>1. pc[c] \in Leaving
    BY DEF ExitRoom, DeletePeerRow, CheckEmpty, DeleteRoom, DeleteRoomRow
  <2>2. me[c] \in Identity
    BY <2>1 DEF TypeOK, LocalsOf
  <2> QED BY <2>2 DEF Identity
<1>a. after[c] \in {"idle", "ready", "auth"}
  BY DEF TypeOK, Types
<1>1. CASE ExitRoom(c)
  <2>1. ref[c] \in RoomObjs
    BY <1>1 DEF ExitRoom, TypeOK, Types, LocalsOf
  <2>2. CASE connMap[ref[c]][me[c].peer] = c
    <3>1. GiveUp(ref[c], me[c].peer)
      BY <1>1, <2>2 DEF ExitRoom
    <3>2. Types'
      BY <1>0, <1>1, <2>1, <3>1, GiveUpTypes DEF ExitRoom, Goto, TypeOK, Types, dbVars, connVars
    <3>3. \A d \in Conns : LocalsOf(d)'
      BY <1>1 DEF ExitRoom, Goto, connVars, TypeOK, Types, LocalsOf
    <3> QED BY <3>2, <3>3 DEF TypeOK
  <2>3. CASE connMap[ref[c]][me[c].peer] # c
    <3>1. Types'
      BY <1>1, <2>3 DEF ExitRoom, Goto, TypeOK, Types, dbVars, connVars, listVars
    <3>2. \A d \in Conns : LocalsOf(d)'
      BY <1>1 DEF ExitRoom, Goto, connVars, TypeOK, Types, LocalsOf
    <3> QED BY <3>1, <3>2 DEF TypeOK
  <2> QED BY <2>2, <2>3
<1>2. CASE DeletePeerRow(c)
  <2>1. peerRows' \in [RoomNames -> [PeerIds -> StreamCounts \cup {0}]]
    BY <1>0, <1>2 DEF DeletePeerRow, TypeOK, Types
  <2>8. Types'
    BY <1>2, <2>1 DEF DeletePeerRow, Goto, roomVars, connVars, listVars, TypeOK, Types
  <2>9. \A d \in Conns : LocalsOf(d)'
    BY <1>2 DEF DeletePeerRow, Goto, connVars, TypeOK, Types, LocalsOf
  <2> QED BY <2>8, <2>9 DEF TypeOK
<1>3. CASE CheckEmpty(c)
  <2>1. ref[c] # NoRoom
    BY <1>3 DEF CheckEmpty, TypeOK, LocalsOf
  <2>2. /\ connMap' \in [RoomObjs -> [PeerIds -> Conns \cup {NoConn}]]
        /\ snap' \in [RoomObjs -> [PeerIds -> Conns \cup {NoConn}]]
        /\ session' \in [RoomObjs -> SUBSET PeerIds]
        /\ wedged' \subseteq RoomObjs
    BY <1>3, <2>1, ReleaseTypeOK DEF CheckEmpty
  <2>3. CASE Peers(ref[c]) = {}
    <3>1. Types'
      BY <1>3, <2>2, <2>3 DEF CheckEmpty, Goto, TypeOK, Types, dbVars, listVars
    <3>2. \A d \in Conns : LocalsOf(d)'
      BY <1>3, <2>3 DEF CheckEmpty, Goto, TypeOK, Types, LocalsOf
    <3> QED BY <3>1, <3>2 DEF TypeOK
  <2>4. CASE Peers(ref[c]) # {}
    <3>0. Finish(c, after[c]) /\ UNCHANGED <<rooms, dbVars, req, joins>> /\ pc[c] = "sweep"
      BY <1>3, <2>4 DEF CheckEmpty
    <3>1. Types'
      BY <1>a, <3>0, <2>2 DEF Finish, TypeOK, Types, dbVars
    <3>2. \A d \in Conns : LocalsOf(d)'
      BY <1>a, <3>0 DEF Finish, TypeOK, Types, LocalsOf
    <3> QED BY <3>1, <3>2 DEF TypeOK
  <2> QED BY <2>3, <2>4
<1>4. CASE DeleteRoom(c)
  <2>8. Types'
    BY <1>4, <1>0 DEF DeleteRoom, Goto, dbVars, connVars, listVars, TypeOK, Types
  <2>9. \A d \in Conns : LocalsOf(d)'
    BY <1>4 DEF DeleteRoom, Goto, connVars, TypeOK, Types, LocalsOf
  <2> QED BY <2>8, <2>9 DEF TypeOK
<1>5. CASE DeleteRoomRow(c)
  <2>8. Types'
    BY <1>5, <1>0, <1>a DEF DeleteRoomRow, Finish, roomVars, TypeOK, Types
  <2>9. \A d \in Conns : LocalsOf(d)'
    BY <1>5, <1>a DEF DeleteRoomRow, Finish, TypeOK, Types, LocalsOf
  <2> QED BY <2>8, <2>9 DEF TypeOK
<1> QED BY <1>1, <1>2, <1>3, <1>4, <1>5

LEMMA StutterTypeOK == TypeOK /\ UNCHANGED vars => TypeOK'
  BY DEF TypeOK, Types, LocalsOf, vars, roomVars, dbVars, connVars, listVars

\* Type correctness: in every state the registry, the tables and the goroutines'
\* locals have their types, and a goroutine that is inside join or leave has the
\* locals that the rest of join or leave uses.
THEOREM TypeCorrect == Spec => []TypeOK
<1>1. TypeOK /\ [Next]_vars => TypeOK'
  <2> SUFFICES ASSUME TypeOK, [Next]_vars PROVE TypeOK'
    OBVIOUS
  <2>1. ASSUME NEW c \in Conns,
               \/ Connect(c) \/ ReadLeave(c) \/ ReadError(c)
               \/ \E m \in Request : ReadJoin(c, m)
        PROVE  TypeOK'
    BY <2>1, ReadTypeOK
  <2>2. ASSUME NEW c \in Conns, Step(c)
        PROVE  TypeOK'
    BY <2>2, JoinStepTypeOK, EnterRoomTypeOK, EnterPanicsTypeOK, SendJoinOkTypeOK,
       LeaveStepTypeOK, ReadTypeOK DEF Step
  <2>3. ASSUME NEW kept \in SUBSET Rows, Restart(kept)
        PROVE  TypeOK'
    BY <2>3, RestartTypeOK
  <2>4. CASE UNCHANGED vars
    BY <2>4, StutterTypeOK
  <2> QED BY <2>1, <2>2, <2>3, <2>4 DEF Next
<1> QED BY InitTypeOK, <1>1, PTL DEF Spec

----------------------------------------------------------------------------
(* Rooms are coherent.                                                     *)

LEMMA SeatCount ==
  ASSUME NEW few, NEW many, Occupied(few) \subseteq Occupied(many)
  PROVE  /\ Cardinality(Occupied(few)) \in Nat
         /\ Cardinality(Occupied(many)) \in Nat
         /\ Cardinality(Occupied(few)) <= Cardinality(Occupied(many))
<1>1. IsFiniteSet(Occupied(many))
  BY FS_Subset, HubAssumption DEF Occupied
<1> QED BY <1>1, FS_Subset, FS_CardinalityType

LEMMA VacantCoherent ==
  ASSUME NEW ro \in RoomObjs,
         connMap'[ro] = Vacant, snap'[ro] = Vacant, session'[ro] = {}
  PROVE  Coherent(ro)'
<1>1. Occupied(Vacant) = {}
  BY DEF Occupied, Vacant
<1>2. Cardinality(Occupied(Vacant)) = 0
  BY <1>1, FS_EmptySet
<1> QED BY <1>1, <1>2 DEF Coherent, Peers

LEMMA WipeCoherent ==
  ASSUME TypeOK, RoomCoherent, NEW ro \in RoomObjs, Wipe(ro)
  PROVE  RoomCoherent'
<1> SUFFICES ASSUME NEW o \in RoomObjs, o \notin wedged' PROVE Coherent(o)'
  BY DEF RoomCoherent
<1>1. CASE o = ro
  BY <1>1, VacantCoherent DEF Wipe, TypeOK, Types
<1>2. CASE o # ro
  <2>1. connMap'[o] = connMap[o] /\ snap'[o] = snap[o] /\ session'[o] = session[o]
    BY <1>2 DEF Wipe, TypeOK, Types
  <2> QED BY <1>2, <2>1 DEF Wipe, RoomCoherent, Coherent, Peers
<1> QED BY <1>1, <1>2

LEMMA EnterCoherent ==
  ASSUME TypeOK, RoomCoherent, NEW c \in Conns, EnterRoom(c)
  PROVE  RoomCoherent'
<1>0. ref[c] \in RoomObjs /\ req[c].peer \in PeerIds
  BY DEF EnterRoom, TypeOK, Types, LocalsOf, Request
<1>1. PICK ro \in RoomObjs, p \in PeerIds : ro = ref[c] /\ p = req[c].peer
  BY <1>0
<1> DEFINE present == Occupied(Seat(c))
<1>2. Seat(c)[p] = c /\ c # NoConn /\ \A q \in PeerIds \ {p} : Seat(c)[q] = connMap[ro][q]
  BY <1>1, HubAssumption DEF Seat, TypeOK, Types
<1>3. present = Peers(ro) \cup {p}
  BY <1>1, <1>2 DEF Occupied, Peers
<1>4. connMap'[ro] = Seat(c) /\ snap'[ro] = Seat(c) /\ Peers(ro)' = present
  BY <1>1 DEF EnterRoom, TypeOK, Types, Peers
<1>5. session'[ro] = IF Cardinality(present) < 2 THEN session[ro]
                     ELSE IF session[ro] = {} THEN present ELSE session[ro] \cup {p}
  BY <1>1 DEF EnterRoom, TypeOK, Types
<1>6. Coherent(ro) /\ wedged' = wedged
  BY <1>1 DEF RoomCoherent, EnterRoom
<1>7. /\ Cardinality(Peers(ro)) \in Nat /\ Cardinality(present) \in Nat
      /\ Cardinality(Peers(ro)) <= Cardinality(present)
  BY <1>3, SeatCount DEF Peers
<1>8. Coherent(ro)'
  <2>1. CASE Cardinality(present) < 2
    BY <1>4, <1>5, <1>6, <1>7, <2>1 DEF Coherent
  <2>2. CASE ~(Cardinality(present) < 2)
    <3>1. session'[ro] # {} /\ present \subseteq session'[ro]
      BY <1>3, <1>5, <1>6, <2>2 DEF Coherent
    <3>2. Cardinality(present) >= 2
      BY <1>7, <2>2
    <3> QED BY <1>4, <3>1, <3>2 DEF Coherent
  <2> QED BY <2>1, <2>2
<1>9. ASSUME NEW o \in RoomObjs \ {ro}, o \notin wedged
      PROVE  Coherent(o)'
  <2>1. connMap'[o] = connMap[o] /\ snap'[o] = snap[o] /\ session'[o] = session[o]
    BY <1>1 DEF EnterRoom, TypeOK, Types
  <2> QED BY <1>9, <2>1 DEF RoomCoherent, Coherent, Peers
<1> QED BY <1>6, <1>8, <1>9 DEF RoomCoherent

LEMMA PanicCoherent ==
  ASSUME TypeOK, RoomCoherent, NEW c \in Conns, EnterPanics(c)
  PROVE  RoomCoherent'
<1>1. ref[c] \in RoomObjs
  BY DEF EnterPanics, TypeOK, Types, LocalsOf
<1>2. CASE LastHold(c)
  BY <1>1, <1>2, WipeCoherent DEF EnterPanics
<1>3. CASE ~LastHold(c)
  <2> SUFFICES ASSUME NEW o \in RoomObjs, o \notin wedged' PROVE Coherent(o)'
    BY DEF RoomCoherent
  <2>1. o # ref[c] /\ o \notin wedged
    BY <1>3 DEF EnterPanics
  <2>2. connMap'[o] = connMap[o] /\ snap'[o] = snap[o] /\ session'[o] = session[o]
    BY <1>1, <1>3, <2>1 DEF EnterPanics, TypeOK, Types
  <2> QED BY <2>1, <2>2 DEF RoomCoherent, Coherent, Peers
<1> QED BY <1>2, <1>3

LEMMA GiveUpCoherent ==
  ASSUME TypeOK, RoomCoherent, NEW ro \in RoomObjs, NEW p \in PeerIds, GiveUp(ro, p),
         ro \notin wedged, wedged' = wedged
  PROVE  RoomCoherent'
<1> DEFINE left == [connMap[ro] EXCEPT ![p] = NoConn]
<1>1. Occupied(left) \subseteq Peers(ro)
  BY DEF Occupied, Peers, TypeOK, Types
<1>2. connMap'[ro] = left /\ snap'[ro] = left /\ Peers(ro)' = Occupied(left)
  BY DEF GiveUp, TypeOK, Types, Peers
<1>3. session'[ro] = IF Cardinality(Occupied(left)) < 2 THEN {} ELSE session[ro]
  BY DEF GiveUp, SessionAfter, TypeOK, Types
<1>4. /\ Cardinality(Peers(ro)) \in Nat /\ Cardinality(Occupied(left)) \in Nat
      /\ Cardinality(Occupied(left)) <= Cardinality(Peers(ro))
  BY <1>1, SeatCount DEF Peers
<1>5. Coherent(ro)
  BY DEF RoomCoherent
<1>6. Coherent(ro)'
  BY <1>1, <1>2, <1>3, <1>4, <1>5 DEF Coherent
<1>7. ASSUME NEW o \in RoomObjs \ {ro}, o \notin wedged
      PROVE  Coherent(o)'
  <2>1. connMap'[o] = connMap[o] /\ snap'[o] = snap[o] /\ session'[o] = session[o]
    BY DEF GiveUp, TypeOK, Types
  <2> QED BY <1>7, <2>1 DEF RoomCoherent, Coherent, Peers
<1> QED BY <1>6, <1>7 DEF RoomCoherent

LEMMA ReleaseCoherent ==
  ASSUME TypeOK, RoomCoherent, NEW c \in Conns, Release(c), ref[c] \in RoomObjs
  PROVE  RoomCoherent'
<1>1. CASE LastHold(c)
  BY <1>1, WipeCoherent DEF Release
<1>2. CASE ~LastHold(c)
  BY <1>2 DEF Release, RoomCoherent, Coherent, Peers
<1> QED BY <1>1, <1>2

\* Rooms are coherent: whatever goroutines join, leave and evict in whatever
\* order, a room's lock-free snapshot is its map, and the session that starts
\* with the second peer ends with the last but one and lists everybody present.
THEOREM RoomsCoherent == Spec => []RoomCoherent
<1>1. Init => RoomCoherent
  <2> SUFFICES ASSUME Init, NEW ro \in RoomObjs PROVE Coherent(ro)
    BY DEF RoomCoherent
  <2>1. connMap[ro] = Vacant /\ snap[ro] = Vacant /\ session[ro] = {}
    BY DEF Init
  <2>2. Occupied(Vacant) = {}
    BY DEF Occupied, Vacant
  <2>3. Cardinality(Occupied(Vacant)) = 0
    BY <2>2, FS_EmptySet
  <2> QED BY <2>1, <2>2, <2>3 DEF Coherent, Peers
<1>2. TypeOK /\ RoomCoherent /\ [Next]_vars => RoomCoherent'
  <2> SUFFICES ASSUME TypeOK, RoomCoherent, [Next]_vars PROVE RoomCoherent'
    OBVIOUS
  <2>1. CASE UNCHANGED <<connMap, snap, session, wedged>>
    BY <2>1 DEF RoomCoherent, Coherent, Peers
  <2>2. ASSUME NEW c \in Conns, EnterRoom(c)
        PROVE  RoomCoherent'
    BY <2>2, EnterCoherent
  <2>3. ASSUME NEW c \in Conns, SendJoinOk(c) \/ CheckEmpty(c)
        PROVE  RoomCoherent'
    <3>1. ref[c] \in RoomObjs
      BY <2>3 DEF SendJoinOk, CheckEmpty, TypeOK, Types, LocalsOf
    <3> QED BY <2>3, <3>1, ReleaseCoherent DEF SendJoinOk, CheckEmpty
  <2>4. ASSUME NEW c \in Conns, ExitRoom(c)
        PROVE  RoomCoherent'
    <3>1. ref[c] \in RoomObjs /\ me[c].peer \in PeerIds
      BY <2>4 DEF ExitRoom, TypeOK, Types, LocalsOf, Identity
    <3>2. CASE connMap[ref[c]][me[c].peer] = c
      BY <2>4, <3>1, <3>2, GiveUpCoherent DEF ExitRoom
    <3> QED BY <2>1, <2>4, <3>2 DEF ExitRoom
  <2>5. ASSUME NEW kept \in SUBSET Rows, Restart(kept)
        PROVE  RoomCoherent'
    BY <2>5, VacantCoherent DEF Restart, RoomCoherent
  <2>6. ASSUME NEW c \in Conns, Connect(c) \/ ReadLeave(c) \/ ReadError(c)
                                \/ Unwind(c) \/ \E m \in Request : ReadJoin(c, m)
        PROVE  UNCHANGED <<connMap, snap, session, wedged>>
    BY <2>6 DEF Connect, ReadLeave, ReadError, Unwind, ReadJoin, StartLeave, roomVars
  <2>7. ASSUME NEW c \in Conns,
               \/ CheckPassword(c) \/ CheckCapacity(c) \/ InsertRoomRow(c)
               \/ UpsertPeerRow(c) \/ LookupRoom(c)
               \/ \E ro \in RoomObjs : CreateRoom(c, ro)
               \/ DeletePeerRow(c) \/ DeleteRoom(c) \/ DeleteRoomRow(c)
        PROVE  UNCHANGED <<connMap, snap, session, wedged>>
    BY <2>7 DEF CheckPassword, CheckCapacity, InsertRoomRow, UpsertPeerRow, LookupRoom,
                CreateRoom, DeletePeerRow, DeleteRoom, DeleteRoomRow, roomVars
  <2>8. UNCHANGED vars => UNCHANGED <<connMap, snap, session, wedged>>
    BY DEF vars, roomVars
  <2>9. ASSUME NEW c \in Conns, EnterPanics(c)
        PROVE  RoomCoherent'
    BY <2>9, PanicCoherent
  <2> QED BY <2>1, <2>2, <2>3, <2>4, <2>5, <2>6, <2>7, <2>8, <2>9 DEF Next, Step
<1> QED BY <1>1, <1>2, TypeCorrect, PTL DEF Spec

----------------------------------------------------------------------------
(* Empty rooms are swept.                                                  *)

\* The room name that the goroutine of c works on while it holds a room.
LEMMA NameFrame ==
  ASSUME TypeOK, RoomsWellNamed, NEW c \in Conns,
         \A n \in RoomNames : rooms'[n] \in {rooms[n], NoRoom},
         \A d \in Conns \ {c} : /\ pc'[d] = pc[d] /\ ref'[d] = ref[d]
                               /\ req'[d] = req[d] /\ me'[d] = me[d],
         \/ ref'[c] = NoRoom
         \/ /\ ref'[c] = ref[c] /\ req'[c] = req[c] /\ me'[c] = me[c]
            /\ pc[c] \in {"enter", "joinOk"} <=> pc'[c] \in {"enter", "joinOk"}
  PROVE  RoomsWellNamed'
BY DEF RoomsWellNamed

LEMMA NamesByReading ==
  ASSUME TypeOK, RoomsWellNamed, NEW c \in Conns,
         \/ Connect(c) \/ ReadLeave(c) \/ ReadError(c) \/ Unwind(c)
         \/ \E m \in Request : ReadJoin(c, m)
  PROVE  RoomsWellNamed'
<1>1. CASE Connect(c)
  <2>1. ref[c] = NoRoom
    BY <1>1 DEF Connect, TypeOK, LocalsOf
  <2> QED BY <1>1, <2>1, NameFrame DEF Connect, Goto, roomVars, TypeOK, Types
<1>2. ASSUME NEW then \in {"idle", "ready", "auth"}, pc[c] \in {"ready", "panic"},
             StartLeave(c, then),
             \A d \in Conns \ {c} : req'[d] = req[d]
      PROVE  RoomsWellNamed'
  <2>1. CASE me[c] = Nobody \/ rooms[me[c].room] = NoRoom
    <3>1. Finish(c, then) /\ rooms' = rooms
      BY <1>2, <2>1 DEF StartLeave, roomVars
    <3> QED BY <1>2, <3>1, NameFrame DEF Finish, TypeOK, Types
  <2>2. CASE ~(me[c] = Nobody \/ rooms[me[c].room] = NoRoom)
    <3>1. me[c].room \in RoomNames
      BY <2>2 DEF TypeOK, Types, Identity
    <3>2. /\ rooms' = rooms /\ me' = me
          /\ ref' = [ref EXCEPT ![c] = rooms[me[c].room]]
          /\ pc' = [pc EXCEPT ![c] = "exit"]
      BY <1>2, <2>2 DEF StartLeave, Goto, roomVars
    <3> QED BY <1>2, <3>1, <3>2 DEF RoomsWellNamed, TypeOK, Types
  <2> QED BY <2>1, <2>2
<1>3. CASE ReadLeave(c)
  BY <1>2, <1>3 DEF ReadLeave
<1>4. CASE ReadError(c) \/ Unwind(c)
  BY <1>2, <1>4 DEF ReadError, Unwind
<1>5. ASSUME NEW m \in Request, ReadJoin(c, m)
      PROVE  RoomsWellNamed'
  BY <1>2, <1>5 DEF ReadJoin, TypeOK, Types
<1> QED BY <1>1, <1>3, <1>4, <1>5

LEMMA NamesByStep ==
  ASSUME TypeOK, RoomsWellNamed, NEW c \in Conns, Step(c)
  PROVE  RoomsWellNamed'
<1>1. CASE \/ CheckPassword(c) \/ CheckCapacity(c) \/ InsertRoomRow(c) \/ UpsertPeerRow(c)
  <2>1. ref[c] = NoRoom
    BY <1>1 DEF CheckPassword, CheckCapacity, InsertRoomRow, UpsertPeerRow, TypeOK, LocalsOf
  <2>2. /\ rooms' = rooms /\ ref' = ref
        /\ \A d \in Conns \ {c} : /\ pc'[d] = pc[d] /\ req'[d] = req[d]
                                 /\ me'[d] = me[d]
    BY <1>1 DEF CheckPassword, CheckCapacity, InsertRoomRow, UpsertPeerRow,
                Refuse, Goto, roomVars, connVars, TypeOK, Types
  <2> QED BY <2>1, <2>2, NameFrame
<1>2. CASE LookupRoom(c)
  <2>1. /\ rooms' = rooms /\ me' = me /\ req' = req
        /\ ref' = [ref EXCEPT ![c] = rooms[req[c].room]]
        /\ pc' = [pc EXCEPT ![c] = "enter"]
        /\ req[c].room \in RoomNames
    BY <1>2 DEF LookupRoom, Goto, roomVars, connVars, TypeOK, LocalsOf, Request
  <2> QED BY <2>1 DEF RoomsWellNamed, TypeOK, Types
<1>3. ASSUME NEW ro \in RoomObjs, CreateRoom(c, ro)
      PROVE  RoomsWellNamed'
  <2>1. /\ rooms' = [rooms EXCEPT ![req[c].room] = ro] /\ me' = me /\ req' = req
        /\ ref' = [ref EXCEPT ![c] = ro]
        /\ pc' = [pc EXCEPT ![c] = "enter"]
        /\ req[c].room \in RoomNames
        /\ ~Reachable(ro)
    BY <1>3 DEF CreateRoom, Goto, connVars, TypeOK, LocalsOf, Request
  <2> QED BY <2>1 DEF RoomsWellNamed, Reachable, TypeOK, Types
<1>4. CASE EnterRoom(c)
  BY <1>4, NameFrame DEF EnterRoom, Goto, TypeOK, Types
<1>5. CASE SendJoinOk(c) \/ EnterPanics(c)
  BY <1>5, NameFrame DEF SendJoinOk, EnterPanics, Goto, TypeOK, Types
<1>6. CASE ExitRoom(c) \/ DeletePeerRow(c) \/ DeleteRoom(c)
  <2>1. /\ \A n \in RoomNames : rooms'[n] \in {rooms[n], NoRoom}
        /\ ref' = ref /\ me' = me /\ req' = req
        /\ pc[c] \notin {"enter", "joinOk"} /\ pc'[c] \notin {"enter", "joinOk"}
        /\ \A d \in Conns \ {c} : pc'[d] = pc[d]
    BY <1>6 DEF ExitRoom, DeletePeerRow, DeleteRoom, Goto, roomVars, connVars, TypeOK, Types
  <2> QED BY <2>1, NameFrame
<1>7. CASE CheckEmpty(c) \/ DeleteRoomRow(c)
  <2>1. /\ rooms' = rooms /\ req' = req /\ ref'[c] = NoRoom
        /\ \A d \in Conns \ {c} : /\ pc'[d] = pc[d] /\ ref'[d] = ref[d]
                                 /\ me'[d] = me[d]
    BY <1>7 DEF CheckEmpty, DeleteRoomRow, Finish, Goto, roomVars, TypeOK, Types
  <2> QED BY <2>1, NameFrame DEF TypeOK, Types
<1>8. CASE Unwind(c)
  BY <1>8, NamesByReading
<1> QED BY <1>1, <1>2, <1>3, <1>4, <1>5, <1>6, <1>7, <1>8 DEF Step

\* A room object is registered under one name only, and a goroutine that holds
\* a registered room is working on that name.
THEOREM RoomsNamed == Spec => []RoomsWellNamed
<1>1. Init => RoomsWellNamed
  BY DEF Init, RoomsWellNamed
<1>2. TypeOK /\ RoomsWellNamed /\ [Next]_vars => RoomsWellNamed'
  <2> SUFFICES ASSUME TypeOK, RoomsWellNamed, [Next]_vars PROVE RoomsWellNamed'
    OBVIOUS
  <2>1. ASSUME NEW kept \in SUBSET Rows, Restart(kept)
        PROVE  RoomsWellNamed'
    BY <2>1 DEF Restart, RoomsWellNamed
  <2>2. CASE UNCHANGED vars
    BY <2>2 DEF vars, roomVars, connVars, RoomsWellNamed
  <2> QED BY <2>1, <2>2, NamesByReading, NamesByStep DEF Next
<1> QED BY <1>1, <1>2, TypeCorrect, PTL DEF Spec

\* Attention survives a step of c that leaves the seats of registered rooms alone,
\* unless c was the one attending.
LEMMA SweeperFrame ==
  ASSUME TypeOK, EmptyRoomHasSweeper, NEW c \in Conns,
         \A n \in RoomNames : rooms'[n] \notin wedged' \cup {NoRoom} =>
             /\ rooms'[n] = rooms[n] /\ rooms[n] \notin wedged
             /\ Peers(rooms[n])' = {} => Peers(rooms[n]) = {},
         \A d \in Conns \ {c} : pc'[d] = pc[d] /\ ref'[d] = ref[d] /\ me'[d] = me[d],
         \A n \in RoomNames : /\ rooms'[n] \notin wedged' \cup {NoRoom}
                              /\ Peers(rooms[n])' = {} /\ Attends(c, n)
                              => Attends(c, n)'
  PROVE  EmptyRoomHasSweeper'
<1> SUFFICES ASSUME NEW n \in RoomNames, rooms'[n] \notin wedged' \cup {NoRoom},
                    Peers(rooms[n])' = {}
             PROVE  \E d \in Conns : Attends(d, n)'
  BY DEF EmptyRoomHasSweeper, Peers
<1>1. rooms'[n] = rooms[n] /\ rooms[n] \notin wedged /\ Peers(rooms[n]) = {}
  OBVIOUS
<1>2. PICK d \in Conns : Attends(d, n)
  BY <1>1 DEF EmptyRoomHasSweeper
<1>3. CASE d = c
  BY <1>2, <1>3
<1>4. CASE d # c
  BY <1>1, <1>2, <1>4 DEF Attends
<1> QED BY <1>3, <1>4

LEMMA SweptByEntering ==
  ASSUME TypeOK, EmptyRoomHasSweeper, NEW c \in Conns, EnterRoom(c)
  PROVE  EmptyRoomHasSweeper'
<1>1. ref[c] \in RoomObjs /\ req[c].peer \in PeerIds
  BY DEF EnterRoom, TypeOK, Types, LocalsOf, Request
<1>2. /\ connMap' = [connMap EXCEPT ![ref[c]] = Seat(c)]
      /\ rooms' = rooms /\ ref' = ref /\ me' = me /\ wedged' = wedged
      /\ \A d \in Conns \ {c} : pc'[d] = pc[d]
      /\ pc[c] = "enter"
  BY DEF EnterRoom, Goto, TypeOK, Types
<1>3. Seat(c)[req[c].peer] # NoConn
  BY <1>1, HubAssumption DEF Seat, TypeOK, Types
<1>4. ASSUME NEW n \in RoomNames, rooms[n] # NoRoom
      PROVE  IF rooms[n] = ref[c] THEN Peers(rooms[n])' # {}
             ELSE Peers(rooms[n])' = Peers(rooms[n]) /\ ~Attends(c, n)
  <2>1. CASE rooms[n] = ref[c]
    BY <1>1, <1>2, <1>3, <2>1 DEF Peers, Occupied, TypeOK, Types
  <2>2. CASE rooms[n] # ref[c]
    BY <1>1, <1>2, <2>2 DEF Peers, Attends, TypeOK, Types
  <2> QED BY <2>1, <2>2
<1> QED BY <1>2, <1>4, SweeperFrame DEF Peers

LEMMA SweptByLeaving ==
  ASSUME TypeOK, EmptyRoomHasSweeper, NEW c \in Conns, ExitRoom(c)
  PROVE  EmptyRoomHasSweeper'
<1>1. ref[c] \in RoomObjs /\ me[c].peer \in PeerIds
  BY DEF ExitRoom, TypeOK, Types, LocalsOf, Identity
<1>2. /\ rooms' = rooms /\ ref' = ref /\ me' = me /\ wedged' = wedged
      /\ \A d \in Conns \ {c} : pc'[d] = pc[d]
      /\ pc[c] = "exit" /\ pc'[c] = "unrow"
  BY DEF ExitRoom, Goto, connVars, TypeOK, Types
<1>3. \A n \in RoomNames : rooms[n] # NoRoom /\ rooms[n] # ref[c] =>
        connMap'[rooms[n]] = connMap[rooms[n]]
  <2>1. CASE connMap[ref[c]][me[c].peer] = c
    BY <1>1, <2>1 DEF ExitRoom, GiveUp, TypeOK, Types
  <2> QED BY <2>1 DEF ExitRoom
<1> SUFFICES ASSUME NEW n \in RoomNames, rooms'[n] \notin wedged' \cup {NoRoom},
                    Peers(rooms[n])' = {}
             PROVE  \E d \in Conns : Attends(d, n)'
  BY <1>2 DEF EmptyRoomHasSweeper, Peers
<1>4. CASE rooms[n] = ref[c]
  BY <1>2, <1>4 DEF Attends
<1>5. CASE rooms[n] # ref[c]
  <2>1. Peers(rooms[n]) = {}
    BY <1>2, <1>3, <1>5 DEF Peers
  <2>2. PICK d \in Conns : Attends(d, n)
    BY <1>2, <2>1 DEF EmptyRoomHasSweeper
  <2>3. d # c
    BY <1>2, <1>5, <2>2 DEF Attends
  <2> QED BY <1>2, <2>2, <2>3 DEF Attends
<1> QED BY <1>4, <1>5

\* Letting go of a room does not touch the seats or the lock of a registered one.
LEMMA ReleaseKeepsRegistered ==
  ASSUME TypeOK, NEW c \in Conns, Release(c)
  PROVE  \A n \in RoomNames : rooms[n] # NoRoom =>
            /\ connMap'[rooms[n]] = connMap[rooms[n]]
            /\ rooms[n] \in wedged => rooms[n] \in wedged'
<1>1. CASE LastHold(c)
  BY <1>1 DEF Release, LastHold, Wipe, TypeOK, Types
<1> QED BY <1>1 DEF Release

LEMMA SweptByReading ==
  ASSUME TypeOK, EmptyRoomHasSweeper, NEW c \in Conns,
         \/ Connect(c) \/ ReadLeave(c) \/ ReadError(c) \/ Unwind(c)
         \/ \E m \in Request : ReadJoin(c, m)
  PROVE  EmptyRoomHasSweeper'
<1>1. /\ rooms' = rooms /\ connMap' = connMap /\ wedged' = wedged
      /\ \A n \in RoomNames : ~Attends(c, n)
  BY DEF Connect, ReadLeave, ReadError, Unwind, ReadJoin, StartLeave, roomVars, Attends
<1>2. CASE Connect(c)
  BY <1>1, <1>2, SweeperFrame DEF Connect, Goto, Peers, TypeOK, Types
<1>3. ASSUME NEW then, StartLeave(c, then)
      PROVE  EmptyRoomHasSweeper'
  <2>1. \A d \in Conns \ {c} : pc'[d] = pc[d] /\ ref'[d] = ref[d] /\ me'[d] = me[d]
    BY <1>3 DEF StartLeave, Finish, Goto, TypeOK, Types
  <2> QED BY <1>1, <2>1, SweeperFrame DEF Peers
<1> QED BY <1>2, <1>3 DEF ReadLeave, ReadError, Unwind, ReadJoin

\* A panic leaves the room locked, or nobody could reach it any more.
LEMMA SweptByPanicking ==
  ASSUME TypeOK, EmptyRoomHasSweeper, NEW c \in Conns, EnterPanics(c)
  PROVE  EmptyRoomHasSweeper'
<1>1. ref[c] \in RoomObjs
  BY DEF EnterPanics, TypeOK, Types, LocalsOf
<1>2. /\ rooms' = rooms /\ me' = me /\ pc[c] = "enter"
      /\ \A d \in Conns \ {c} : pc'[d] = pc[d] /\ ref'[d] = ref[d]
  BY DEF EnterPanics, Goto, TypeOK, Types
<1>3. ASSUME NEW n \in RoomNames, rooms[n] # NoRoom
      PROVE  IF rooms[n] = ref[c] THEN rooms[n] \in wedged'
             ELSE /\ connMap'[rooms[n]] = connMap[rooms[n]]
                  /\ rooms[n] \in wedged => rooms[n] \in wedged'
  <2>1. CASE LastHold(c)
    BY <1>3, <2>1 DEF EnterPanics, LastHold, Wipe, TypeOK, Types
  <2>2. CASE ~LastHold(c)
    BY <1>1, <1>3, <2>2 DEF EnterPanics, TypeOK, Types
  <2> QED BY <2>1, <2>2
<1> QED BY <1>2, <1>3, SweeperFrame DEF Peers, Attends

LEMMA SweptByStep ==
  ASSUME TypeOK, RoomsWellNamed, EmptyRoomHasSweeper, NEW c \in Conns, Step(c)
  PROVE  EmptyRoomHasSweeper'
<1>1. CASE \/ CheckPassword(c) \/ CheckCapacity(c) \/ InsertRoomRow(c)
           \/ UpsertPeerRow(c) \/ LookupRoom(c)
  <2>1. /\ rooms' = rooms /\ connMap' = connMap /\ wedged' = wedged
        /\ \A d \in Conns \ {c} : pc'[d] = pc[d] /\ ref'[d] = ref[d] /\ me'[d] = me[d]
        /\ \A n \in RoomNames : ~Attends(c, n)
    BY <1>1 DEF CheckPassword, CheckCapacity, InsertRoomRow, UpsertPeerRow, LookupRoom,
                Refuse, Goto, roomVars, connVars, TypeOK, Types, Attends
  <2> QED BY <2>1, SweeperFrame DEF Peers
<1>2. ASSUME NEW ro \in RoomObjs, CreateRoom(c, ro)
      PROVE  EmptyRoomHasSweeper'
  <2>1. /\ rooms' = [rooms EXCEPT ![req[c].room] = ro] /\ me' = me /\ connMap' = connMap
        /\ wedged' = wedged /\ ref' = [ref EXCEPT ![c] = ro]
        /\ pc' = [pc EXCEPT ![c] = "enter"]
        /\ req[c].room \in RoomNames
        /\ pc[c] = "lookup"
    BY <1>2 DEF CreateRoom, Goto, connVars, TypeOK, LocalsOf, Request
  <2> SUFFICES ASSUME NEW n \in RoomNames, rooms'[n] \notin wedged' \cup {NoRoom},
                      Peers(rooms[n])' = {}
               PROVE  \E d \in Conns : Attends(d, n)'
    BY DEF EmptyRoomHasSweeper
  <2>2. CASE n = req[c].room
    BY <2>1, <2>2 DEF Attends, TypeOK, Types
  <2>3. CASE n # req[c].room
    <3>1. /\ rooms'[n] = rooms[n] /\ Peers(rooms[n]) = {}
          /\ rooms[n] \notin wedged \cup {NoRoom}
      BY <2>1, <2>3 DEF Peers, TypeOK, Types
    <3>2. PICK d \in Conns : Attends(d, n)
      BY <3>1 DEF EmptyRoomHasSweeper
    <3> QED BY <2>1, <3>1, <3>2 DEF Attends, TypeOK, Types
  <2> QED BY <2>2, <2>3
<1>3. CASE EnterRoom(c)
  BY <1>3, SweptByEntering
<1>4. CASE SendJoinOk(c)
  <2>1. /\ rooms' = rooms
        /\ \A d \in Conns \ {c} : pc'[d] = pc[d] /\ ref'[d] = ref[d] /\ me'[d] = me[d]
        /\ \A n \in RoomNames : ~Attends(c, n)
    BY <1>4 DEF SendJoinOk, Goto, TypeOK, Types, Attends
  <2>2. \A n \in RoomNames : rooms[n] # NoRoom =>
           /\ connMap'[rooms[n]] = connMap[rooms[n]]
           /\ rooms[n] \in wedged => rooms[n] \in wedged'
    BY <1>4, ReleaseKeepsRegistered DEF SendJoinOk
  <2> QED BY <2>1, <2>2, SweeperFrame DEF Peers
<1>5. CASE ExitRoom(c)
  BY <1>5, SweptByLeaving
<1>6. CASE DeletePeerRow(c)
  <2>1. /\ rooms' = rooms /\ connMap' = connMap /\ me' = me /\ ref' = ref
        /\ wedged' = wedged /\ pc[c] = "unrow" /\ pc' = [pc EXCEPT ![c] = "sweep"]
    BY <1>6 DEF DeletePeerRow, Goto, roomVars, connVars
  <2>2. \A n \in RoomNames : Attends(c, n) => Attends(c, n)'
    BY <2>1 DEF Attends, TypeOK, Types
  <2> QED BY <2>1, <2>2, SweeperFrame DEF Peers, TypeOK, Types
<1>7. CASE CheckEmpty(c)
  <2>1. /\ rooms' = rooms /\ pc[c] = "sweep" /\ ref[c] # NoRoom
        /\ \A d \in Conns \ {c} : pc'[d] = pc[d] /\ ref'[d] = ref[d] /\ me'[d] = me[d]
    BY <1>7 DEF CheckEmpty, Finish, Goto, TypeOK, Types, LocalsOf
  <2>2. \A n \in RoomNames : rooms[n] # NoRoom =>
           /\ connMap'[rooms[n]] = connMap[rooms[n]]
           /\ rooms[n] \in wedged => rooms[n] \in wedged'
    BY <1>7, ReleaseKeepsRegistered DEF CheckEmpty
  <2>3. ASSUME NEW n \in RoomNames, rooms[n] # NoRoom, Peers(rooms[n])' = {}, Attends(c, n)
        PROVE  Attends(c, n)'
    <3>1. rooms[n] = ref[c]
      BY <2>1, <2>3 DEF Attends
    <3>2. n = me[c].room
      BY <2>1, <3>1 DEF RoomsWellNamed
    <3>3. Peers(ref[c]) = {}
      BY <2>1, <2>2, <2>3, <3>1 DEF Peers
    <3> QED BY <1>7, <3>2, <3>3 DEF CheckEmpty, Goto, Attends, TypeOK, Types
  <2> QED BY <2>1, <2>2, <2>3, SweeperFrame DEF Peers
<1>8. CASE DeleteRoom(c)
  <2>1. /\ rooms' = IF rooms[me[c].room] # NoRoom /\ Peers(rooms[me[c].room]) = {}
                    THEN [rooms EXCEPT ![me[c].room] = NoRoom] ELSE rooms
        /\ connMap' = connMap /\ me' = me /\ ref' = ref /\ wedged' = wedged
        /\ pc[c] = "drop" /\ pc' = [pc EXCEPT ![c] = "unroom"]
        /\ me[c].room \in RoomNames
    BY <1>8 DEF DeleteRoom, Goto, connVars, TypeOK, LocalsOf, Identity
  <2>2. \A n \in RoomNames : rooms'[n] # NoRoom =>
          /\ rooms'[n] = rooms[n]
          /\ n = me[c].room => Peers(rooms[n]) # {}
    BY <2>1 DEF TypeOK, Types
  <2>3. \A n \in RoomNames : Attends(c, n) => n = me[c].room
    BY <2>1 DEF Attends
  <2> QED BY <2>1, <2>2, <2>3, SweeperFrame DEF Peers, TypeOK, Types
<1>9. CASE DeleteRoomRow(c)
  <2>1. /\ rooms' = rooms /\ connMap' = connMap /\ wedged' = wedged
        /\ \A d \in Conns \ {c} : pc'[d] = pc[d] /\ ref'[d] = ref[d] /\ me'[d] = me[d]
        /\ \A n \in RoomNames : ~Attends(c, n)
    BY <1>9 DEF DeleteRoomRow, Finish, roomVars, TypeOK, Types, Attends
  <2> QED BY <2>1, SweeperFrame DEF Peers
<1>10. CASE EnterPanics(c)
  BY <1>10, SweptByPanicking
<1>11. CASE Unwind(c)
  BY <1>11, SweptByReading
<1> QED BY <1>1, <1>2, <1>3, <1>4, <1>5, <1>6, <1>7, <1>8, <1>9, <1>10, <1>11 DEF Step

\* No room is forgotten: whenever a registered room is empty, a goroutine is on
\* its way to enter it or to check it for deletion, so that no interleaving of
\* joins and leaves leaves an empty room in the registry for good.
THEOREM EmptyRoomsSwept == Spec => []EmptyRoomHasSweeper
<1>1. Init => EmptyRoomHasSweeper
  BY DEF Init, EmptyRoomHasSweeper
<1>2. TypeOK /\ RoomsWellNamed /\ EmptyRoomHasSweeper /\ [Next]_vars => EmptyRoomHasSweeper'
  <2> SUFFICES ASSUME TypeOK, RoomsWellNamed, EmptyRoomHasSweeper, [Next]_vars
               PROVE  EmptyRoomHasSweeper'
    OBVIOUS
  <2>1. ASSUME NEW kept \in SUBSET Rows, Restart(kept)
        PROVE  EmptyRoomHasSweeper'
    BY <2>1 DEF Restart, EmptyRoomHasSweeper
  <2>2. CASE UNCHANGED vars
    BY <2>2 DEF vars, roomVars, connVars, EmptyRoomHasSweeper, Attends, Peers
  <2> QED BY <2>1, <2>2, SweptByReading, SweptByStep DEF Next
<1> QED BY <1>1, <1>2, TypeCorrect, RoomsNamed, PTL DEF Spec

----------------------------------------------------------------------------
(* Seats and rosters, for clients that join once per connection.           *)

\* Nobody takes a seat.
SeatsShrink == \A ro \in RoomObjs, p \in PeerIds :
                  connMap'[ro][p] \in {connMap[ro][p], NoConn}

\* Only c's own variables change.
OnlyOf(c) == \A d \in Conns \ {c} :
                /\ pc'[d] = pc[d] /\ ref'[d] = ref[d] /\ me'[d] = me[d]
                /\ req'[d] = req[d] /\ joins'[d] = joins[d] /\ after'[d] = after[d]

Unseated(c) == \A n \in RoomNames, p \in PeerIds :
                  rooms[n] # NoRoom => connMap[rooms[n]][p] # c

LEMMA ReleaseShrinks ==
  ASSUME TypeOK, NEW c \in Conns, Release(c)
  PROVE  SeatsShrink
<1>1. CASE LastHold(c)
  <2>1. \A p \in PeerIds : Vacant[p] = NoConn
    BY DEF Vacant
  <2> QED BY <1>1, <2>1 DEF Release, Wipe, SeatsShrink, TypeOK, Types
<1>2. CASE ~LastHold(c)
  BY <1>2 DEF Release, SeatsShrink
<1> QED BY <1>1, <1>2

LEMMA GiveUpShrinks ==
  ASSUME TypeOK, NEW ro \in RoomObjs, NEW p \in PeerIds, GiveUp(ro, p)
  PROVE  SeatsShrink
BY DEF GiveUp, SeatsShrink, TypeOK, Types

LEMMA StillSingle == ASSUME SingleSeat, SeatsShrink PROVE SingleSeat'
BY DEF SingleSeat, SeatsShrink

(***************************************************************************)
(* What each step does to told, whom the queues say to be there: the       *)
(* notifications count the same before and behind join_ok.                 *)
(***************************************************************************)
Says(d) == ((IF pc[d] = "joinOk" THEN list[d] ELSE view[d]) \cup came[d]) \ went[d]

LEMMA ToldIs == told = [d \in Conns |-> Says(d)]
BY DEF told, Says

LEMMA ToldStays ==
    ASSUME TypeOK, NEW c \in Conns, NEW s, pc' = [pc EXCEPT ![c] = s],
           pc[c] # "joinOk", s # "joinOk", UNCHANGED listVars
    PROVE  told' = told
<1>1. \A d \in Conns : Says(d)' = Says(d)
  BY DEF Says, listVars, TypeOK, Types
<1> QED BY <1>1 DEF told, Says

LEMMA ToldEnds ==
    ASSUME TypeOK, NEW c \in Conns, NEW then \in {"idle", "ready", "auth"},
           pc[c] # "joinOk", Finish(c, then)
    PROVE  told' = [told EXCEPT ![c] = {}]
<1>1. \A d \in Conns \ {c} : Says(d)' = Says(d)
  BY DEF Finish, Says, TypeOK, Types
<1>2. Says(c)' = {}
  BY DEF Finish, Says, TypeOK, Types
<1> QED BY <1>1, <1>2 DEF told, Says

LEMMA ToldAnswered == ASSUME TypeOK, NEW c \in Conns, SendJoinOk(c) PROVE told' = told
<1>1. \A d \in Conns : Says(d)' = Says(d)
  BY DEF SendJoinOk, Goto, Says, TypeOK, Types
<1> QED BY <1>1 DEF told, Says

LEMMA ToldEntered ==
    ASSUME TypeOK, NEW c \in Conns, EnterRoom(c)
    PROVE  told' = [d \in Conns |->
             IF d = c THEN Listed(c)
             ELSE IF d \in Others(ref[c], req[c].peer) THEN told[d] \cup {req[c].peer}
             ELSE told[d]]
<1>1. req[c].peer \in PeerIds
  BY DEF EnterRoom, TypeOK, Types, LocalsOf, Request
<1>2. PICK p, near : p \in PeerIds /\ p = req[c].peer /\ near = Others(ref[c], req[c].peer)
  BY <1>1
<1>3. PICK early : early = Unanswered(near)
  OBVIOUS
<1>4. /\ pc[c] # "joinOk" /\ pc' = [pc EXCEPT ![c] = "joinOk"]
      /\ list' = [list EXCEPT ![c] = Listed(c)]
      /\ view' = [Plus(view, near \ early, p) EXCEPT ![c] = {}]
      /\ came' = [Plus(Minus(came, near, p), early, p) EXCEPT ![c] = {}]
      /\ went' = [Minus(went, near, p) EXCEPT ![c] = {}]
  BY <1>2, <1>3 DEF EnterRoom, Goto
<1>5. /\ pc \in [Conns -> {"idle", "ready", "joinOk", "panic"} \cup Joining \cup Leaving]
      /\ {list, view, came, went} \subseteq [Conns -> SUBSET PeerIds]
  BY DEF TypeOK, Types
<1>6. /\ Plus(view, near \ early, p) \in [Conns -> SUBSET PeerIds]
      /\ Minus(came, near, p) \in [Conns -> SUBSET PeerIds]
      /\ Minus(went, near, p) \in [Conns -> SUBSET PeerIds]
  BY <1>2, <1>5, PlusMinus
<1>7. Plus(Minus(came, near, p), early, p) \in [Conns -> SUBSET PeerIds]
  BY <1>2, <1>6, PlusMinus
<1>8. \A d \in Conns \ {c} :
        /\ pc'[d] = pc[d] /\ list'[d] = list[d]
        /\ view'[d] = IF d \in near \ early THEN view[d] \cup {p} ELSE view[d]
        /\ came'[d] = IF d \in early THEN Minus(came, near, p)[d] \cup {p} ELSE Minus(came, near, p)[d]
        /\ Minus(came, near, p)[d] = IF d \in near THEN came[d] \ {p} ELSE came[d]
        /\ went'[d] = IF d \in near THEN went[d] \ {p} ELSE went[d]
  <2> TAKE d \in Conns \ {c}
  <2>1. pc'[d] = pc[d] /\ list'[d] = list[d]
    BY <1>4, <1>5
  <2>2. view'[d] = IF d \in near \ early THEN view[d] \cup {p} ELSE view[d]
    <3>1. view'[d] = Plus(view, near \ early, p)[d]
      BY <1>4, <1>6
    <3> QED BY <3>1 DEF Plus
  <2>3. came'[d] = IF d \in early THEN Minus(came, near, p)[d] \cup {p} ELSE Minus(came, near, p)[d]
    <3>1. came'[d] = Plus(Minus(came, near, p), early, p)[d]
      BY <1>4, <1>7
    <3> QED BY <3>1 DEF Plus
  <2>4. Minus(came, near, p)[d] = IF d \in near THEN came[d] \ {p} ELSE came[d]
    BY DEF Minus
  <2>5. went'[d] = IF d \in near THEN went[d] \ {p} ELSE went[d]
    <3>1. went'[d] = Minus(went, near, p)[d]
      BY <1>4, <1>6
    <3> QED BY <3>1 DEF Minus
  <2> QED BY <2>1, <2>2, <2>3, <2>4, <2>5
<1>9. \A d \in Conns : d \in early <=> d \in near /\ pc[d] = "joinOk"
  BY <1>3 DEF Unanswered
<1>10. \A d \in Conns \ {c} : Says(d)' = IF d \in near THEN Says(d) \cup {p} ELSE Says(d)
  <2> TAKE d \in Conns \ {c}
  <2>1. CASE d \in early
    BY <1>8, <1>9, <2>1 DEF Says
  <2>2. CASE d \in near /\ d \notin early
    BY <1>8, <1>9, <2>2 DEF Says
  <2>3. CASE d \notin near
    BY <1>8, <1>9, <2>3 DEF Says
  <2> QED BY <1>9, <2>1, <2>2, <2>3
<1>11. Says(c)' = Listed(c)
  BY <1>4, <1>5, <1>6, <1>7 DEF Says
<1> QED BY <1>2, <1>10, <1>11, ToldIs DEF told, Says

LEMMA ToldExited ==
    ASSUME TypeOK, NEW c \in Conns, pc[c] = "exit", pc' = [pc EXCEPT ![c] = "unrow"],
           NEW ro \in RoomObjs, NEW p \in PeerIds, GiveUp(ro, p)
    PROVE  told' = [d \in Conns |-> IF d \in Others(ro, p) THEN told[d] \ {p} ELSE told[d]]
<1>1. PICK rest, early : rest = Others(ro, p) /\ early = Unanswered(rest)
  OBVIOUS
<1>2. /\ view' = Minus(view, rest \ early, p) /\ came' = Minus(came, rest, p)
      /\ went' = Plus(Minus(went, rest, p), early, p) /\ list' = list
  BY <1>1 DEF GiveUp
<1>3. /\ pc \in [Conns -> {"idle", "ready", "joinOk", "panic"} \cup Joining \cup Leaving]
      /\ {list, view, came, went} \subseteq [Conns -> SUBSET PeerIds]
  BY DEF TypeOK, Types
<1>5. \A d \in Conns :
        /\ pc'[d] = "joinOk" <=> pc[d] = "joinOk"
        /\ view'[d] = IF d \in rest \ early THEN view[d] \ {p} ELSE view[d]
        /\ came'[d] = IF d \in rest THEN came[d] \ {p} ELSE came[d]
        /\ went'[d] = IF d \in early THEN Minus(went, rest, p)[d] \cup {p} ELSE Minus(went, rest, p)[d]
        /\ Minus(went, rest, p)[d] = IF d \in rest THEN went[d] \ {p} ELSE went[d]
  <2> TAKE d \in Conns
  <2>1. pc'[d] = "joinOk" <=> pc[d] = "joinOk"
    BY <1>3
  <2>2. /\ view'[d] = IF d \in rest \ early THEN view[d] \ {p} ELSE view[d]
        /\ came'[d] = IF d \in rest THEN came[d] \ {p} ELSE came[d]
        /\ Minus(went, rest, p)[d] = IF d \in rest THEN went[d] \ {p} ELSE went[d]
    BY <1>2 DEF Minus
  <2>3. went'[d] = IF d \in early THEN Minus(went, rest, p)[d] \cup {p} ELSE Minus(went, rest, p)[d]
    BY <1>2 DEF Plus
  <2> QED BY <2>1, <2>2, <2>3
<1>6. \A d \in Conns : d \in early <=> d \in rest /\ pc[d] = "joinOk"
  BY <1>1 DEF Unanswered
<1>7. \A d \in Conns : Says(d)' = IF d \in rest THEN Says(d) \ {p} ELSE Says(d)
  <2> TAKE d \in Conns
  <2>1. CASE d \in early
    BY <1>2, <1>5, <1>6, <2>1 DEF Says
  <2>2. CASE d \in rest /\ d \notin early
    BY <1>2, <1>5, <1>6, <2>2 DEF Says
  <2>3. CASE d \notin rest
    BY <1>2, <1>5, <1>6, <2>3 DEF Says
  <2> QED BY <1>6, <2>1, <2>2, <2>3
<1> QED BY <1>1, <1>7, ToldIs DEF told, Says

LEMMA ToldInJoin ==
    ASSUME TypeOK, NEW c \in Conns,
           \/ CheckPassword(c) \/ CheckCapacity(c) \/ InsertRoomRow(c)
           \/ UpsertPeerRow(c) \/ LookupRoom(c) \/ EnterPanics(c)
           \/ \E ro \in RoomObjs : CreateRoom(c, ro)
    PROVE  told' = told
<1>1. PICK s : pc' = [pc EXCEPT ![c] = s] /\ s # "joinOk" /\ pc[c] # "joinOk"
  BY DEF CheckPassword, CheckCapacity, InsertRoomRow, UpsertPeerRow, LookupRoom, EnterPanics,
         CreateRoom, Refuse, Goto
<1>2. UNCHANGED listVars
  BY DEF CheckPassword, CheckCapacity, InsertRoomRow, UpsertPeerRow, LookupRoom, EnterPanics,
         CreateRoom
<1> QED BY <1>1, <1>2, ToldStays

LEMMA ToldInLeave ==
    ASSUME TypeOK, NEW c \in Conns,
           DeletePeerRow(c) \/ CheckEmpty(c) \/ DeleteRoom(c) \/ DeleteRoomRow(c)
    PROVE  told' = told \/ told' = [told EXCEPT ![c] = {}]
<1>1. pc[c] # "joinOk"
  BY DEF DeletePeerRow, CheckEmpty, DeleteRoom, DeleteRoomRow
<1>2. CASE Finish(c, after[c])
  <2>1. after[c] \in {"idle", "ready", "auth"}
    BY DEF TypeOK, Types
  <2> QED BY <1>1, <1>2, <2>1, ToldEnds
<1>3. CASE UNCHANGED listVars /\ \E s : pc' = [pc EXCEPT ![c] = s] /\ s # "joinOk"
  BY <1>1, <1>3, ToldStays
<1> QED BY <1>2, <1>3 DEF DeletePeerRow, CheckEmpty, DeleteRoom, DeleteRoomRow, Goto, listVars

\* What a step of c may do to reachability and seats without littering.
LEMMA StillClean ==
  ASSUME GarbageIsVacant,
         \A ro \in RoomObjs : Reachable(ro) => Reachable(ro)' \/ connMap'[ro] = Vacant,
         \A ro \in RoomObjs : ~Reachable(ro) => connMap'[ro] = connMap[ro] \/ Reachable(ro)'
  PROVE  GarbageIsVacant'
BY DEF GarbageIsVacant

LEMMA StillOutside ==
  ASSUME TypeOK, NewcomersOutside, SeatsShrink, NEW c \in Conns, OnlyOf(c),
         \A d \in Conns \ {c} : open'[d] = open[d],
         Newcomer(c)' => open'[c] /\ \A ro \in RoomObjs : ~SeatedIn(c, ro)
  PROVE  NewcomersOutside'
<1> SUFFICES ASSUME NEW d \in Conns, Newcomer(d)'
             PROVE  open'[d] /\ \A ro \in RoomObjs : ~SeatedIn(d, ro)'
  BY DEF NewcomersOutside
<1>1. open'[d] /\ \A ro \in RoomObjs : ~SeatedIn(d, ro)
  BY DEF OnlyOf, Newcomer, NewcomersOutside
<1>2. d # NoConn
  BY HubAssumption
<1> QED BY <1>1, <1>2 DEF SeatsShrink, SeatedIn

\* A step of a connection without a seat in a registered room.
LEMMA Bystander ==
  ASSUME TypeOK, SeatsHaveHandlers, RosterExact, NEW c \in Conns, OnlyOf(c), Unseated(c),
         \A n \in RoomNames : rooms'[n] # NoRoom =>
            \/ rooms'[n] = rooms[n] /\ connMap'[rooms[n]] = connMap[rooms[n]]
            \/ connMap'[rooms'[n]] = Vacant,
         \A d \in Conns \ {c} : open'[d] = open[d] /\ told'[d] = told[d]
  PROVE  SeatsHaveHandlers' /\ RosterExact'
<1> SUFFICES ASSUME NEW n \in RoomNames, NEW p \in PeerIds, NEW d, rooms'[n] # NoRoom,
                    d = connMap'[rooms'[n]][p], d # NoConn
             PROVE  /\ WillVacate(d, n, p)' /\ open'[d]
                    /\ told'[d] = Occupied(connMap'[rooms'[n]]) \ {p}
  BY DEF SeatsHaveHandlers, RosterExact, Peers
<1>1. connMap'[rooms'[n]] # Vacant
  BY DEF Vacant
<1>2. rooms'[n] = rooms[n] /\ connMap'[rooms[n]] = connMap[rooms[n]]
  BY <1>1
<1>3. rooms[n] \in RoomObjs
  BY <1>2 DEF TypeOK, Types
<1>4. d \in Conns /\ d = connMap[rooms[n]][p]
  BY <1>2, <1>3 DEF TypeOK, Types
<1>5. d # c
  BY <1>2, <1>4 DEF Unseated
<1>6. WillVacate(d, n, p) /\ open[d] /\ told[d] = Occupied(connMap[rooms[n]]) \ {p}
  BY <1>2, <1>4 DEF SeatsHaveHandlers, RosterExact, Peers
<1>7. WillVacate(d, n, p)'
  BY <1>2, <1>4, <1>5, <1>6 DEF WillVacate, OnlyOf
<1> QED BY <1>2, <1>4, <1>5, <1>6, <1>7

LEMMA NoSeat ==
  ASSUME TypeOK, SeatsHaveHandlers, NEW c \in Conns,
         \/ pc[c] \notin {"ready", "joinOk", "exit"}
         \/ pc[c] = "ready" /\ (me[c] = Nobody \/ rooms[me[c].room] = NoRoom)
  PROVE  Unseated(c)
<1> SUFFICES ASSUME NEW n \in RoomNames, NEW p \in PeerIds, rooms[n] # NoRoom,
                    connMap[rooms[n]][p] = c
             PROVE  FALSE
  BY DEF Unseated
<1>1. WillVacate(c, n, p)
  BY HubAssumption DEF SeatsHaveHandlers
<1>2. [room |-> n, peer |-> p] \in Identity
  BY DEF Identity
<1> QED BY <1>1, <1>2, NobodyAssumption DEF WillVacate

\* The conjuncts of SeatInv but types, names and WedgedDetached.
SeatParts == /\ GarbageIsVacant /\ SingleSeat /\ JoinsOnce
             /\ NewcomersOutside /\ SeatsHaveHandlers /\ RosterExact

LEMMA UnseatedStep ==
  ASSUME SeatInv, NEW c \in Conns, OnlyOf(c), Unseated(c), SeatsShrink,
         \A n \in RoomNames : rooms'[n] # NoRoom =>
            \/ rooms'[n] = rooms[n] /\ connMap'[rooms[n]] = connMap[rooms[n]]
            \/ connMap'[rooms'[n]] = Vacant,
         \A d \in Conns \ {c} : open'[d] = open[d] /\ told'[d] = told[d],
         Newcomer(c)' => open'[c] /\ \A ro \in RoomObjs : ~SeatedIn(c, ro),
         JoinedOnce(c)',
         GarbageIsVacant'
  PROVE  SeatParts'
<1>1. SingleSeat'
  BY StillSingle DEF SeatInv
<1>2. JoinsOnce'
  BY DEF SeatInv, JoinsOnce, JoinedOnce, OnlyOf
<1>3. NewcomersOutside'
  BY StillOutside DEF SeatInv
<1>4. SeatsHaveHandlers' /\ RosterExact'
  BY Bystander DEF SeatInv
<1> QED BY <1>1, <1>2, <1>3, <1>4 DEF SeatParts

LEMMA ReleaseClean ==
  ASSUME SeatInv, NEW c \in Conns, ref[c] # NoRoom, Release(c),
         rooms' = rooms, ref' = [ref EXCEPT ![c] = NoRoom]
  PROVE  GarbageIsVacant'
<1>0. ref[c] \in RoomObjs
  BY DEF SeatInv, TypeOK, Types
<1>1. CASE LastHold(c)
  <2>1. Wipe(ref[c])
    BY <1>1 DEF Release
  <2>2. ASSUME NEW ro \in RoomObjs, ro # ref[c]
        PROVE  connMap'[ro] = connMap[ro] /\ (Reachable(ro) => Reachable(ro)')
    BY <1>0, <2>1, <2>2 DEF Wipe, Reachable, SeatInv, TypeOK, Types
  <2>3. connMap'[ref[c]] = Vacant
    BY <1>0, <2>1 DEF Wipe, SeatInv, TypeOK, Types
  <2>4. Reachable(ref[c])
    BY DEF Reachable
  <2> QED BY <2>2, <2>3, <2>4, StillClean DEF SeatInv
<1>2. CASE ~LastHold(c)
  <2>1. connMap' = connMap
    BY <1>2 DEF Release
  <2>2. ASSUME NEW ro \in RoomObjs, Reachable(ro)
        PROVE  Reachable(ro)'
    BY <1>2, <2>2 DEF LastHold, Reachable, SeatInv, TypeOK, Types
  <2> QED BY <2>1, <2>2, StillClean DEF SeatInv
<1> QED BY <1>1, <1>2

LEMMA SeatsByJoining ==
  ASSUME SeatInv, NEW c \in Conns,
         \/ CheckPassword(c) \/ CheckCapacity(c) \/ InsertRoomRow(c)
         \/ UpsertPeerRow(c) \/ LookupRoom(c)
         \/ \E ro \in RoomObjs : CreateRoom(c, ro)
  PROVE  SeatParts'
<1>t. told' = told
  BY ToldInJoin DEF SeatInv
<1>1. /\ pc[c] \in Joining \ {"enter"} /\ pc'[c] \in Joining \cup {"ready"}
      /\ OnlyOf(c) /\ joins' = joins /\ open' = open /\ told' = told /\ connMap' = connMap
  BY <1>t DEF CheckPassword, CheckCapacity, InsertRoomRow, UpsertPeerRow, LookupRoom, CreateRoom,
         Refuse, Goto, OnlyOf, roomVars, connVars, listVars, SeatInv, TypeOK, Types
<1>2. Unseated(c)
  BY <1>1, NoSeat DEF SeatInv
<1>3. SeatsShrink
  BY <1>1 DEF SeatsShrink
<1>4. /\ joins[c] # 0 /\ me[c] = Nobody
      /\ open[c] /\ \A ro \in RoomObjs : ~SeatedIn(c, ro)
  BY <1>1 DEF SeatInv, JoinsOnce, JoinedOnce, NewcomersOutside, Newcomer
<1>a. me'[c] = Nobody
  BY <1>4 DEF CheckPassword, CheckCapacity, InsertRoomRow, UpsertPeerRow, LookupRoom,
              CreateRoom, Refuse, connVars, SeatInv, TypeOK, Types
<1>5. JoinedOnce(c)'
  BY <1>1, <1>4, <1>a DEF JoinedOnce
<1>6. CASE ref' = ref /\ rooms' = rooms
  <2>1. GarbageIsVacant'
    BY <1>1, <1>6 DEF GarbageIsVacant, Reachable, SeatInv
  <2> QED BY <1>1, <1>2, <1>3, <1>4, <1>5, <1>6, <2>1, UnseatedStep
<1>7. ref[c] = NoRoom
  BY <1>1 DEF SeatInv, TypeOK, LocalsOf
<1>8. CASE LookupRoom(c)
  <2>1. rooms' = rooms /\ ref' = [ref EXCEPT ![c] = rooms[req[c].room]]
    BY <1>8 DEF LookupRoom, roomVars
  <2>2. \A ro \in RoomObjs : Reachable(ro) => Reachable(ro)'
    BY <1>7, <2>1, HubAssumption DEF Reachable, SeatInv, TypeOK, Types
  <2>3. GarbageIsVacant'
    BY <1>1, <2>2, StillClean DEF SeatInv
  <2> QED BY <1>1, <1>2, <1>3, <1>4, <1>5, <2>1, <2>3, UnseatedStep
<1>9. ASSUME NEW ro \in RoomObjs, CreateRoom(c, ro)
      PROVE  SeatParts'
  <2>1. /\ rooms' = [rooms EXCEPT ![req[c].room] = ro] /\ ref' = [ref EXCEPT ![c] = ro]
        /\ ~Reachable(ro) /\ rooms[req[c].room] = NoRoom
    BY <1>9 DEF CreateRoom
  <2>2. connMap[ro] = Vacant
    BY <2>1 DEF SeatInv, GarbageIsVacant
  <2>3. \A r \in RoomObjs : Reachable(r) => Reachable(r)'
    BY <1>7, <2>1, HubAssumption DEF Reachable, SeatInv, TypeOK, Types
  <2>4. GarbageIsVacant'
    BY <1>1, <2>3, StillClean DEF SeatInv
  <2>5. \A n \in RoomNames : rooms'[n] # NoRoom => rooms'[n] = rooms[n] \/ connMap'[rooms'[n]] = Vacant
    BY <1>1, <2>1, <2>2 DEF SeatInv, TypeOK, Types
  <2> QED BY <1>1, <1>2, <1>3, <1>4, <1>5, <2>4, <2>5, UnseatedStep
<1>10. \/ ref' = ref /\ rooms' = rooms
       \/ LookupRoom(c) \/ \E ro \in RoomObjs : CreateRoom(c, ro)
  BY DEF CheckPassword, CheckCapacity, InsertRoomRow, UpsertPeerRow, roomVars
<1> QED BY <1>6, <1>8, <1>9, <1>10

LEMMA SeatsByEntering ==
  ASSUME SeatInv, NEW c \in Conns, EnterRoom(c)
  PROVE  SeatParts'
<1>0. ref[c] \in RoomObjs /\ req[c].peer \in PeerIds /\ c # NoConn
  BY HubAssumption DEF EnterRoom, SeatInv, TypeOK, Types, LocalsOf, Request
<1>1. PICK ro \in RoomObjs, p \in PeerIds : ro = ref[c] /\ p = req[c].peer
  BY <1>0
<1>2. /\ pc[c] = "enter" /\ pc' = [pc EXCEPT ![c] = "joinOk"]
      /\ rooms' = rooms /\ ref' = ref /\ req' = req /\ me' = me /\ joins' = joins /\ after' = after
      /\ connMap' = [connMap EXCEPT ![ro] = Seat(c)]
      /\ open' = [d \in Conns |-> open[d] /\ d \notin Evicted(c)]
  BY <1>1 DEF EnterRoom, Goto
<1>3. \A d \in Conns : told'[d] = IF d = c THEN Peers(ro) \ {p}
                                ELSE IF d \in Others(ro, p) THEN told[d] \cup {p}
                                ELSE told[d]
  BY <1>1, ToldEntered DEF Listed, SeatInv
<1>4. open[c] /\ \A r \in RoomObjs : ~SeatedIn(c, r)
  BY <1>2 DEF SeatInv, NewcomersOutside, Newcomer
\* Every seat is as before, but (ro, p), which is now c's.
<1>5. \A r \in RoomObjs, q \in PeerIds :
        connMap'[r][q] = IF r = ro /\ q = p THEN c ELSE connMap[r][q]
  BY <1>1, <1>2 DEF Seat, SeatInv, TypeOK, Types
<1>6. OnlyOf(c) /\ pc'[c] = "joinOk"
  BY <1>2 DEF OnlyOf, SeatInv, TypeOK, Types
<1>7. GarbageIsVacant'
  <2>1. \A r \in RoomObjs : Reachable(r)' <=> Reachable(r)
    BY <1>2 DEF Reachable
  <2>2. Reachable(ro)
    BY <1>1 DEF Reachable
  <2>3. \A r \in RoomObjs : r # ro => connMap'[r] = connMap[r]
    BY <1>2 DEF SeatInv, TypeOK, Types
  <2> QED BY <2>1, <2>2, <2>3 DEF GarbageIsVacant, SeatInv
<1>8. SingleSeat'
  BY <1>4, <1>5 DEF SingleSeat, SeatedIn, SeatInv
<1>9. JoinsOnce'
  BY <1>2, <1>6 DEF SeatInv, JoinsOnce, JoinedOnce, OnlyOf
<1>10. NewcomersOutside'
  <2> SUFFICES ASSUME NEW d \in Conns, Newcomer(d)'
               PROVE  open'[d] /\ \A r \in RoomObjs : ~SeatedIn(d, r)'
    BY DEF NewcomersOutside
  <2>1. d # c
    BY <1>6 DEF Newcomer
  <2>2. open[d] /\ \A r \in RoomObjs : ~SeatedIn(d, r)
    BY <1>6, <2>1 DEF OnlyOf, Newcomer, NewcomersOutside, SeatInv
  <2>3. d \notin Evicted(c)
    BY <1>1, <2>2 DEF Evicted, SeatedIn
  <2>4. open'[d]
    BY <1>2, <2>2, <2>3
  <2> QED BY <1>5, <2>1, <2>2, <2>4 DEF SeatedIn
<1>11. ASSUME NEW n \in RoomNames, NEW q \in PeerIds, NEW d,
              rooms[n] # NoRoom, d = connMap'[rooms[n]][q], d # NoConn
       PROVE  /\ WillVacate(d, n, q)' /\ open'[d]
              /\ told'[d] = Occupied(connMap'[rooms[n]]) \ {q}
  <2>0. rooms[n] \in RoomObjs
    BY <1>11 DEF SeatInv, TypeOK, Types
  <2>1. CASE rooms[n] = ro /\ q = p
    <3>1. d = c
      BY <1>5, <1>11, <2>1
    <3>2. req[c].room = n
      BY <1>0, <1>1, <1>2, <2>1, HubAssumption DEF SeatInv, RoomsWellNamed
    <3>3. WillVacate(d, n, q)'
      BY <1>1, <1>2, <1>6, <2>1, <3>1, <3>2 DEF WillVacate
    <3>4. c \notin Evicted(c)
      BY DEF Evicted
    <3>5. Occupied(connMap'[ro]) \ {p} = Peers(ro) \ {p}
      BY <1>5 DEF Occupied, Peers
    <3> QED BY <1>2, <1>3, <1>4, <2>1, <3>1, <3>3, <3>4, <3>5
  <2>2. CASE ~(rooms[n] = ro /\ q = p)
    <3>1. d = connMap[rooms[n]][q] /\ d \in Conns
      BY <1>5, <1>11, <2>0, <2>2 DEF SeatInv, TypeOK, Types
    <3>2. d # c
      BY <1>4, <2>0, <3>1 DEF SeatedIn
    <3>3. WillVacate(d, n, q) /\ open[d] /\ told[d] = Peers(rooms[n]) \ {q}
      BY <1>11, <3>1 DEF SeatInv, SeatsHaveHandlers, RosterExact
    <3>4. WillVacate(d, n, q)'
      BY <1>2, <1>6, <3>1, <3>2, <3>3 DEF WillVacate, OnlyOf
    <3>5. d \notin Evicted(c)
      BY <1>1, <1>11, <2>0, <2>2, <3>1 DEF Evicted, SeatInv, SingleSeat
    <3>6. CASE rooms[n] = ro
      <4>1. d \in Others(ro, p)
        BY <1>11, <2>2, <3>1, <3>6 DEF Others, Peers, Occupied
      <4>2. Occupied(connMap'[ro]) = Peers(ro) \cup {p}
        BY <1>0, <1>5 DEF Occupied, Peers
      <4> QED BY <1>2, <1>3, <2>2, <3>1, <3>2, <3>3, <3>4, <3>5, <3>6, <4>1, <4>2
    <3>7. CASE rooms[n] # ro
      <4>1. d \notin Others(ro, p)
        BY <1>11, <2>0, <3>1, <3>7 DEF Others, Peers, Occupied, SeatInv, SingleSeat
      <4>2. connMap'[rooms[n]] = connMap[rooms[n]]
        BY <1>2, <2>0, <3>7 DEF SeatInv, TypeOK, Types
      <4> QED BY <1>2, <1>3, <3>1, <3>2, <3>3, <3>4, <3>5, <4>1, <4>2 DEF Peers
    <3> QED BY <3>6, <3>7
  <2> QED BY <2>1, <2>2
<1>12. SeatsHaveHandlers' /\ RosterExact'
  BY <1>2, <1>11 DEF SeatsHaveHandlers, RosterExact, Peers
<1> QED BY <1>7, <1>8, <1>9, <1>10, <1>12 DEF SeatParts

\* Whoever sits in a registered room can be sent to, so the room of a panic is
\* detached.
LEMMA PanicDetached ==
  ASSUME SeatInv, NEW c \in Conns, EnterPanics(c)
  PROVE  \A n \in RoomNames : rooms[n] # ref[c]
<1> SUFFICES ASSUME NEW n \in RoomNames, rooms[n] = ref[c] PROVE FALSE
  OBVIOUS
<1>1. ref[c] \in RoomObjs /\ req[c].peer \in PeerIds
  BY DEF EnterPanics, SeatInv, TypeOK, Types, LocalsOf, Request
<1>2. PICK d \in Conns : d = connMap[ref[c]][req[c].peer] /\ ~open[d] /\ d # NoConn
  BY <1>1 DEF EnterPanics, Evicted, SeatInv, TypeOK, Types
<1> QED BY <1>1, <1>2, HubAssumption DEF SeatInv, SeatsHaveHandlers

LEMMA SeatsByPanicking ==
  ASSUME SeatInv, NEW c \in Conns, EnterPanics(c)
  PROVE  SeatParts'
<1>0. ref[c] \in RoomObjs /\ req[c].peer \in PeerIds
  BY DEF EnterPanics, SeatInv, TypeOK, Types, LocalsOf, Request
<1>1. /\ pc[c] = "enter" /\ pc'[c] = "panic" /\ me' = me
      /\ rooms' = rooms /\ ref' = [ref EXCEPT ![c] = NoRoom]
      /\ joins' = joins /\ open' = open /\ told' = told /\ OnlyOf(c)
  <2>1. told' = told
    BY ToldInJoin DEF SeatInv
  <2> QED BY <2>1 DEF EnterPanics, Goto, OnlyOf, SeatInv, TypeOK, Types
<1>2. Unseated(c)
  BY <1>1, NoSeat DEF SeatInv
<1>3. JoinedOnce(c)' /\ ~Newcomer(c)'
  BY <1>1 DEF JoinedOnce, Newcomer, SeatInv, JoinsOnce
<1>4. CASE LastHold(c)
  <2>1. Release(c)
    BY <1>4 DEF EnterPanics, Release
  <2>2. SeatsShrink /\ GarbageIsVacant'
    BY <1>0, <1>1, <2>1, HubAssumption, ReleaseShrinks, ReleaseClean DEF SeatInv
  <2>3. \A n \in RoomNames : rooms[n] # NoRoom => connMap'[rooms[n]] = connMap[rooms[n]]
    BY <2>1, ReleaseKeepsRegistered DEF SeatInv
  <2> QED BY <1>1, <1>2, <1>3, <2>2, <2>3, UnseatedStep
<1>5. CASE ~LastHold(c)
  <2>1. connMap' = [connMap EXCEPT ![ref[c]][req[c].peer] = NoConn]
    BY <1>5 DEF EnterPanics
  <2>2. SeatsShrink
    BY <1>0, <2>1 DEF SeatsShrink, SeatInv, TypeOK, Types
  <2>3. \A ro \in RoomObjs : ro # ref[c] => connMap'[ro] = connMap[ro]
    BY <2>1 DEF SeatInv, TypeOK, Types
  <2>4. \A n \in RoomNames : rooms[n] # NoRoom => connMap'[rooms[n]] = connMap[rooms[n]]
    BY <2>3, PanicDetached DEF SeatInv, TypeOK, Types
  <2>5. \A ro \in RoomObjs : Reachable(ro) => Reachable(ro)'
    BY <1>1, <1>5 DEF LastHold, Reachable, SeatInv, TypeOK, Types
  <2>6. Reachable(ref[c])
    BY DEF Reachable
  <2>7. GarbageIsVacant'
    BY <2>3, <2>5, <2>6, StillClean DEF SeatInv
  <2> QED BY <1>1, <1>2, <1>3, <2>2, <2>4, <2>7, UnseatedStep
<1> QED BY <1>4, <1>5

LEMMA SeatsByUnwinding ==
  ASSUME SeatInv, NEW c \in Conns, Unwind(c)
  PROVE  SeatParts'
<1>1. pc[c] = "panic" /\ me[c] = Nobody /\ ref[c] = NoRoom
  BY DEF Unwind, SeatInv, JoinsOnce, JoinedOnce, TypeOK, LocalsOf
<1>2. Finish(c, "idle") /\ rooms' = rooms /\ connMap' = connMap
  BY <1>1 DEF Unwind, StartLeave, roomVars
<1>3. /\ ref' = ref /\ OnlyOf(c) /\ me'[c] = Nobody /\ pc'[c] = "idle"
      /\ \A d \in Conns \ {c} : open'[d] = open[d] /\ told'[d] = told[d]
  <2>1. told' = [told EXCEPT ![c] = {}]
    BY <1>1, <1>2, ToldEnds DEF SeatInv
  <2>2. \A d \in Conns \ {c} : told'[d] = told[d]
    BY <2>1 DEF told
  <2> QED BY <1>1, <1>2, <2>2 DEF Unwind, Finish, OnlyOf, SeatInv, TypeOK, Types
<1>4. JoinedOnce(c)' /\ ~Newcomer(c)'
  BY <1>3 DEF JoinedOnce, Newcomer
<1>5. Unseated(c)
  BY <1>1, NoSeat DEF SeatInv
<1>6. SeatsShrink /\ GarbageIsVacant'
  BY <1>2, <1>3 DEF SeatsShrink, GarbageIsVacant, Reachable, SeatInv
<1> QED BY <1>2, <1>3, <1>4, <1>5, <1>6, UnseatedStep

LEMMA SeatsByAnswering ==
  ASSUME SeatInv, NEW c \in Conns, SendJoinOk(c)
  PROVE  SeatParts'
<1>1. /\ pc[c] = "joinOk" /\ pc' = [pc EXCEPT ![c] = "ready"]
      /\ me' = [me EXCEPT ![c] = [room |-> req[c].room, peer |-> req[c].peer]]
      /\ ref' = [ref EXCEPT ![c] = NoRoom] /\ rooms' = rooms
      /\ joins' = joins /\ after' = after /\ open' = open /\ told' = told
      /\ ref[c] # NoRoom
  BY ToldAnswered DEF SendJoinOk, Goto, SeatInv, TypeOK, LocalsOf
<1>2. OnlyOf(c)
  BY <1>1 DEF SendJoinOk, OnlyOf, SeatInv, TypeOK, Types
<1>3. SeatsShrink /\ SingleSeat'
  BY ReleaseShrinks, StillSingle DEF SendJoinOk, SeatInv
<1>4. GarbageIsVacant'
  BY <1>1, ReleaseClean DEF SendJoinOk
<1>5. joins[c] # 0 /\ pc'[c] = "ready" /\ joins'[c] = joins[c]
  BY <1>1 DEF SeatInv, JoinsOnce, JoinedOnce, TypeOK, Types
<1>6. JoinsOnce'
  BY <1>2, <1>5 DEF SeatInv, JoinsOnce, JoinedOnce, OnlyOf
<1>7. NewcomersOutside'
  BY <1>1, <1>2, <1>3, <1>5, StillOutside DEF Newcomer, SeatInv
<1>8. \A n \in RoomNames : rooms[n] # NoRoom => connMap'[rooms[n]] = connMap[rooms[n]]
  BY ReleaseKeepsRegistered DEF SendJoinOk, SeatInv
<1>9. RosterExact'
  BY <1>1, <1>8 DEF SeatInv, RosterExact, Peers
<1>10. SeatsHaveHandlers'
  <2> SUFFICES ASSUME NEW n \in RoomNames, NEW p \in PeerIds, NEW d,
                      rooms[n] # NoRoom, d = connMap[rooms[n]][p], d # NoConn
               PROVE  WillVacate(d, n, p)' /\ open'[d]
    BY <1>1, <1>8 DEF SeatsHaveHandlers
  <2>1. WillVacate(d, n, p) /\ open[d] /\ d \in Conns
    BY DEF SeatInv, SeatsHaveHandlers, TypeOK, Types
  <2>2. CASE d = c
    BY <1>1, <2>1, <2>2 DEF WillVacate, SeatInv, TypeOK, Types
  <2>3. CASE d # c
    BY <1>1, <1>2, <2>1, <2>3 DEF WillVacate, OnlyOf
  <2> QED BY <1>1, <2>1, <2>2, <2>3
<1> QED BY <1>3, <1>4, <1>6, <1>7, <1>9, <1>10 DEF SeatParts

LEMMA SeatsByExiting ==
  ASSUME SeatInv, NEW c \in Conns, ExitRoom(c)
  PROVE  SeatParts'
<1>0. ref[c] \in RoomObjs /\ me[c].peer \in PeerIds
  BY DEF ExitRoom, SeatInv, TypeOK, Types, LocalsOf, Identity
<1>1. PICK ro \in RoomObjs, p \in PeerIds : ro = ref[c] /\ p = me[c].peer
  BY <1>0
<1>2. /\ pc[c] = "exit" /\ pc' = [pc EXCEPT ![c] = "unrow"]
      /\ rooms' = rooms /\ ref' = ref /\ req' = req /\ me' = me /\ joins' = joins
      /\ after' = after /\ open' = open
  BY DEF ExitRoom, Goto, connVars
<1>3. OnlyOf(c) /\ pc'[c] = "unrow"
  BY <1>2 DEF OnlyOf, SeatInv, TypeOK, Types
\* The seat that WillVacate gives c in a registered room is the one it gives up.
<1>4. ASSUME NEW n \in RoomNames, NEW q \in PeerIds, rooms[n] # NoRoom, connMap[rooms[n]][q] = c
      PROVE  rooms[n] = ro /\ q = p
  <2>1. WillVacate(c, n, q)
    BY <1>4, HubAssumption DEF SeatInv, SeatsHaveHandlers
  <2> QED BY <1>1, <1>2, <2>1 DEF WillVacate
<1>5. JoinsOnce'
  BY <1>2, <1>3 DEF SeatInv, JoinsOnce, JoinedOnce, OnlyOf
<1>6. ~Newcomer(c)'
  BY <1>3 DEF Newcomer
<1>7. CASE connMap[ro][p] = c
  <2>1. GiveUp(ro, p)
    BY <1>1, <1>7 DEF ExitRoom
  <2>2. /\ connMap' = [connMap EXCEPT ![ro] = [connMap[ro] EXCEPT ![p] = NoConn]]
        /\ told' = [d \in Conns |-> IF d \in Others(ro, p) THEN told[d] \ {p} ELSE told[d]]
    BY <1>2, <2>1, ToldExited DEF GiveUp, SeatInv
  <2>3. \A r \in RoomObjs, q \in PeerIds :
          connMap'[r][q] = IF r = ro /\ q = p THEN NoConn ELSE connMap[r][q]
    BY <2>2 DEF SeatInv, TypeOK, Types
  <2>4. SeatsShrink
    BY <2>3 DEF SeatsShrink
  <2>5. SingleSeat'
    BY <2>4, StillSingle DEF SeatInv
  <2>6. NewcomersOutside'
    BY <1>2, <1>3, <1>6, <2>4, StillOutside DEF SeatInv
  <2>7. GarbageIsVacant'
    <3>1. \A r \in RoomObjs : Reachable(r)' <=> Reachable(r)
      BY <1>2 DEF Reachable
    <3>2. Reachable(ro) /\ \A r \in RoomObjs : r # ro => connMap'[r] = connMap[r]
      BY <1>1, <2>2 DEF Reachable, SeatInv, TypeOK, Types
    <3> QED BY <3>1, <3>2 DEF GarbageIsVacant, SeatInv
  <2>8. ASSUME NEW n \in RoomNames, NEW q \in PeerIds, NEW d,
               rooms[n] # NoRoom, d = connMap'[rooms[n]][q], d # NoConn
        PROVE  /\ WillVacate(d, n, q)' /\ open'[d]
               /\ told'[d] = Occupied(connMap'[rooms[n]]) \ {q}
    <3>0. rooms[n] \in RoomObjs
      BY <2>8 DEF SeatInv, TypeOK, Types
    <3>1. d = connMap[rooms[n]][q] /\ d \in Conns /\ ~(rooms[n] = ro /\ q = p)
      BY <2>3, <2>8, <3>0 DEF SeatInv, TypeOK, Types
    <3>2. d # c
      BY <1>4, <2>8, <3>1
    <3>3. WillVacate(d, n, q) /\ open[d] /\ told[d] = Peers(rooms[n]) \ {q}
      BY <2>8, <3>1 DEF SeatInv, SeatsHaveHandlers, RosterExact
    <3>4. WillVacate(d, n, q)' /\ open'[d]
      BY <1>2, <1>3, <3>1, <3>2, <3>3 DEF WillVacate, OnlyOf
    <3>5. CASE rooms[n] = ro
      <4>1. d \in Others(ro, p)
        BY <2>8, <3>1, <3>5 DEF Others, Peers, Occupied
      <4>2. Occupied(connMap'[ro]) = Peers(ro) \ {p}
        BY <2>3 DEF Occupied, Peers
      <4>3. told'[d] = told[d] \ {p}
        BY <2>2, <3>1, <4>1
      <4> QED BY <3>3, <3>4, <3>5, <4>2, <4>3
    <3>6. CASE rooms[n] # ro
      <4>1. d \notin Others(ro, p)
        BY <2>8, <3>0, <3>1, <3>6 DEF Others, Peers, Occupied, SeatInv, SingleSeat
      <4>2. connMap'[rooms[n]] = connMap[rooms[n]]
        BY <2>2, <3>0, <3>6 DEF SeatInv, TypeOK, Types
      <4>3. told'[d] = told[d]
        BY <2>2, <3>1, <4>1
      <4> QED BY <3>3, <3>4, <4>2, <4>3 DEF Peers
    <3> QED BY <3>5, <3>6
  <2>9. SeatsHaveHandlers' /\ RosterExact'
    BY <1>2, <2>8 DEF SeatsHaveHandlers, RosterExact, Peers
  <2> QED BY <1>5, <2>5, <2>6, <2>7, <2>9 DEF SeatParts
<1>8. CASE connMap[ro][p] # c
  <2>1. connMap' = connMap /\ told' = told
    <3>1. UNCHANGED <<connMap, listVars>>
      BY <1>1, <1>8 DEF ExitRoom
    <3> QED BY <1>2, <3>1, ToldStays DEF SeatInv
  <2>2. Unseated(c)
    BY <1>4, <1>8 DEF Unseated
  <2>3. SeatsShrink
    BY <2>1 DEF SeatsShrink
  <2>4. GarbageIsVacant'
    BY <1>2, <2>1 DEF GarbageIsVacant, Reachable, SeatInv
  <2>5. JoinedOnce(c)'
    BY <1>5 DEF JoinsOnce
  <2> QED BY <1>2, <1>3, <1>6, <2>1, <2>2, <2>3, <2>4, <2>5, UnseatedStep
<1> QED BY <1>7, <1>8

\* What is left of leave after its critical section.
LEMMA SeatsByTidying ==
  ASSUME SeatInv, NEW c \in Conns,
         DeletePeerRow(c) \/ CheckEmpty(c) \/ DeleteRoom(c) \/ DeleteRoomRow(c)
  PROVE  SeatParts'
<1>1. /\ pc[c] \in Leaving \ {"exit"} /\ OnlyOf(c) /\ joins' = joins
      /\ \A d \in Conns \ {c} : open'[d] = open[d] /\ told'[d] = told[d]
      /\ \/ pc'[c] \in Leaving /\ after' = after
         \/ pc'[c] = after[c] /\ (after[c] # "auth" => me'[c] = Nobody)
  <2>1. \A d \in Conns \ {c} : told'[d] = told[d]
    BY ToldInLeave DEF SeatInv, told
  <2> QED BY <2>1 DEF DeletePeerRow, CheckEmpty, DeleteRoom, DeleteRoomRow, Finish, Goto, OnlyOf,
         roomVars, connVars, listVars, SeatInv, TypeOK, Types
<1>2. Unseated(c)
  BY <1>1, NoSeat DEF SeatInv
<1>3. after[c] \in {"idle", "ready"} /\ (after[c] = "ready" => joins[c] # 0)
  BY <1>1 DEF SeatInv, JoinsOnce, JoinedOnce, TypeOK, Types
<1>4. JoinedOnce(c)' /\ ~Newcomer(c)'
  BY <1>1, <1>3 DEF JoinedOnce, Newcomer
<1>5. CASE DeletePeerRow(c)
  <2>1. rooms' = rooms /\ connMap' = connMap /\ ref' = ref
    BY <1>5 DEF DeletePeerRow, roomVars
  <2>2. SeatsShrink /\ GarbageIsVacant'
    BY <2>1 DEF SeatsShrink, GarbageIsVacant, Reachable, SeatInv
  <2> QED BY <1>1, <1>2, <1>4, <2>1, <2>2, UnseatedStep
<1>6. CASE CheckEmpty(c)
  <2>1. rooms' = rooms /\ ref' = [ref EXCEPT ![c] = NoRoom] /\ Release(c) /\ ref[c] # NoRoom
    BY <1>6 DEF CheckEmpty, Finish, SeatInv, TypeOK, LocalsOf
  <2>2. SeatsShrink /\ GarbageIsVacant'
    BY <2>1, ReleaseShrinks, ReleaseClean DEF SeatInv
  <2>3. \A n \in RoomNames : rooms[n] # NoRoom => connMap'[rooms[n]] = connMap[rooms[n]]
    BY <2>1, ReleaseKeepsRegistered DEF SeatInv
  <2> QED BY <1>1, <1>2, <1>4, <2>1, <2>2, <2>3, UnseatedStep
<1>7. CASE DeleteRoom(c)
  <2> DEFINE n == me[c].room
  <2>1. /\ connMap' = connMap /\ ref' = ref /\ n \in RoomNames
        /\ rooms' = IF rooms[n] # NoRoom /\ Peers(rooms[n]) = {}
                    THEN [rooms EXCEPT ![n] = NoRoom] ELSE rooms
    BY <1>1, <1>7 DEF DeleteRoom, SeatInv, TypeOK, LocalsOf, Identity
  <2>2. \A m \in RoomNames : rooms'[m] # NoRoom => rooms'[m] = rooms[m]
    BY <2>1 DEF SeatInv, TypeOK, Types
  <2>3. SeatsShrink
    BY <2>1 DEF SeatsShrink
  <2>4. GarbageIsVacant'
    <3>1. CASE rooms' = rooms
      BY <2>1, <3>1 DEF GarbageIsVacant, Reachable, SeatInv
    <3>2. CASE rooms' # rooms
      <4>1. rooms' = [rooms EXCEPT ![n] = NoRoom] /\ Peers(rooms[n]) = {} /\ rooms[n] \in RoomObjs
        BY <2>1, <3>2 DEF SeatInv, TypeOK, Types
      <4>2. connMap[rooms[n]] = Vacant
        BY <4>1 DEF Peers, Occupied, Vacant, SeatInv, TypeOK, Types
      <4>3. \A ro \in RoomObjs : Reachable(ro) => Reachable(ro)' \/ connMap'[ro] = Vacant
        BY <2>1, <4>1, <4>2 DEF Reachable, SeatInv, TypeOK, Types
      <4> QED BY <2>1, <4>3, StillClean DEF SeatInv
    <3> QED BY <3>1, <3>2
  <2> QED BY <1>1, <1>2, <1>4, <2>1, <2>2, <2>3, <2>4, UnseatedStep
<1>8. CASE DeleteRoomRow(c)
  <2>1. rooms' = rooms /\ connMap' = connMap /\ ref' = [ref EXCEPT ![c] = NoRoom]
    BY <1>8 DEF DeleteRoomRow, Finish, roomVars
  <2>2. ref[c] = NoRoom
    BY <1>8 DEF DeleteRoomRow, SeatInv, TypeOK, LocalsOf
  <2>3. ref' = ref
    BY <2>1, <2>2 DEF SeatInv, TypeOK, Types
  <2>4. SeatsShrink /\ GarbageIsVacant'
    BY <2>1, <2>3 DEF SeatsShrink, GarbageIsVacant, Reachable, SeatInv
  <2> QED BY <1>1, <1>2, <1>4, <2>1, <2>4, UnseatedStep
<1> QED BY <1>5, <1>6, <1>7, <1>8

\* The head of leave, whatever message or failure called for it.
LEMMA SeatsByLeaving ==
  ASSUME SeatInv, NEW c \in Conns, NEW then \in {"idle", "ready", "auth"},
         pc[c] = "ready", StartLeave(c, then),
         \A d \in Conns \ {c} : req'[d] = req[d] /\ joins'[d] = joins[d],
         then = "auth" => joins[c] = 0 /\ joins'[c] # 0,
         then = "ready" => joins'[c] = joins[c]
  PROVE  SeatParts'
<1>1. rooms' = rooms /\ connMap' = connMap
  BY DEF StartLeave, roomVars
<1>2. SeatsShrink
  BY <1>1 DEF SeatsShrink
<1>3. JoinedOnce(c) /\ (joins[c] = 0 => me[c] = Nobody)
  BY DEF SeatInv, JoinsOnce, JoinedOnce
<1>4. joins[c] = 0 => open[c] /\ \A ro \in RoomObjs : ~SeatedIn(c, ro)
  BY DEF SeatInv, NewcomersOutside, Newcomer
<1>5. ref[c] = NoRoom
  BY DEF SeatInv, TypeOK, LocalsOf
<1>6. CASE me[c] = Nobody \/ rooms[me[c].room] = NoRoom
  <2>1. Finish(c, then)
    BY <1>6 DEF StartLeave
  <2>2. Unseated(c)
    BY <1>6, NoSeat DEF SeatInv
  <2>3. ref' = ref
    BY <1>5, <2>1 DEF Finish, SeatInv, TypeOK, Types
  <2>4. GarbageIsVacant'
    BY <1>1, <2>3 DEF GarbageIsVacant, Reachable, SeatInv
  <2>5. /\ OnlyOf(c) /\ me'[c] = Nobody /\ pc'[c] = then
        /\ open'[c] = (open[c] /\ then # "idle")
        /\ \A d \in Conns \ {c} : open'[d] = open[d] /\ told'[d] = told[d]
    <3>1. told' = [told EXCEPT ![c] = {}]
      BY <2>1, ToldEnds DEF SeatInv
    <3>2. \A d \in Conns \ {c} : told'[d] = told[d]
      BY <3>1 DEF told
    <3> QED BY <1>3, <2>1, <3>2 DEF Finish, OnlyOf, SeatInv, TypeOK, Types
  <2>6. JoinedOnce(c)'
    BY <2>5 DEF JoinedOnce
  <2>7. Newcomer(c)' => joins[c] = 0 /\ then # "idle"
    BY <2>5 DEF Newcomer
  <2> QED BY <1>1, <1>2, <1>4, <2>2, <2>4, <2>5, <2>6, <2>7, UnseatedStep
<1>7. CASE ~(me[c] = Nobody \/ rooms[me[c].room] = NoRoom)
  <2>1. /\ ref' = [ref EXCEPT ![c] = rooms[me[c].room]]
        /\ after' = [after EXCEPT ![c] = then]
        /\ pc' = [pc EXCEPT ![c] = "exit"]
        /\ me' = me /\ open' = open /\ told' = told
    <3>1. pc' = [pc EXCEPT ![c] = "exit"] /\ UNCHANGED listVars
      BY <1>7 DEF StartLeave, Goto
    <3>2. told' = told
      BY <3>1, ToldStays DEF SeatInv
    <3> QED BY <1>7, <3>2 DEF StartLeave, Goto
  <2>2. OnlyOf(c) /\ pc'[c] = "exit" /\ after'[c] = then
    BY <2>1 DEF OnlyOf, SeatInv, TypeOK, Types
  <2>3. joins[c] # 0
    BY <1>3, <1>7
  <2>4. JoinedOnce(c)' /\ ~Newcomer(c)'
    BY <2>2, <2>3 DEF JoinedOnce, Newcomer
  <2>5. JoinsOnce'
    BY <2>2, <2>4 DEF JoinsOnce, JoinedOnce, OnlyOf, SeatInv
  <2>6. NewcomersOutside'
    BY <1>2, <2>1, <2>2, <2>4, StillOutside DEF SeatInv
  <2>7. SingleSeat'
    BY <1>2, StillSingle DEF SeatInv
  <2>8. GarbageIsVacant'
    <3>1. \A ro \in RoomObjs : Reachable(ro) => Reachable(ro)'
      BY <1>1, <1>5, <2>1, HubAssumption DEF Reachable, SeatInv, TypeOK, Types
    <3> QED BY <1>1, <3>1, StillClean DEF SeatInv
  <2>9. RosterExact'
    BY <1>1, <2>1 DEF RosterExact, Peers, SeatInv
  <2>10. SeatsHaveHandlers'
    <3> SUFFICES ASSUME NEW n \in RoomNames, NEW p \in PeerIds, NEW d,
                        rooms[n] # NoRoom, d = connMap[rooms[n]][p], d # NoConn
                 PROVE  WillVacate(d, n, p)' /\ open'[d]
      BY <1>1 DEF SeatsHaveHandlers
    <3>1. WillVacate(d, n, p) /\ open[d] /\ d \in Conns
      BY DEF SeatInv, SeatsHaveHandlers, TypeOK, Types
    <3>2. CASE d = c
      BY <1>1, <2>1, <3>1, <3>2 DEF WillVacate, SeatInv, TypeOK, Types
    <3>3. CASE d # c
      BY <1>1, <2>1, <2>2, <3>1, <3>3 DEF WillVacate, OnlyOf
    <3> QED BY <2>1, <3>1, <3>2, <3>3
  <2> QED BY <2>5, <2>6, <2>7, <2>8, <2>9, <2>10 DEF SeatParts
<1> QED BY <1>6, <1>7

LEMMA SeatsByReading ==
  ASSUME SeatInv, MaxJoins <= 1, NEW c \in Conns,
         \/ Connect(c) \/ ReadLeave(c) \/ ReadError(c)
         \/ \E m \in Request : ReadJoin(c, m)
  PROVE  SeatParts'
<1>1. CASE Connect(c)
  <2>1. /\ rooms' = rooms /\ connMap' = connMap /\ ref' = ref /\ told' = told /\ joins' = joins
        /\ me' = me /\ pc[c] = "idle" /\ pc'[c] = "ready" /\ open'[c]
        /\ OnlyOf(c) /\ \A d \in Conns \ {c} : open'[d] = open[d]
        /\ \A ro \in RoomObjs : Reachable(ro) => ~SeatedIn(c, ro)
    <3>1. told' = told
      BY <1>1, ToldStays DEF Connect, Goto, SeatInv
    <3> QED BY <1>1, <3>1 DEF Connect, Goto, OnlyOf, roomVars, SeatInv, TypeOK, Types
  <2>2. SeatsShrink /\ GarbageIsVacant'
    BY <2>1 DEF SeatsShrink, GarbageIsVacant, Reachable, SeatInv
  <2>3. \A ro \in RoomObjs : ~SeatedIn(c, ro)
    BY <2>1, HubAssumption DEF SeatInv, GarbageIsVacant, SeatedIn, Vacant
  <2>4. me[c] = Nobody
    BY <2>1 DEF SeatInv, JoinsOnce, JoinedOnce
  <2>5. JoinedOnce(c)'
    BY <2>1, <2>4 DEF JoinedOnce
  <2>6. Unseated(c)
    BY <2>1, NoSeat DEF SeatInv
  <2> QED BY <2>1, <2>2, <2>3, <2>5, <2>6, UnseatedStep
<1>2. CASE ReadLeave(c)
  BY <1>2, SeatsByLeaving DEF ReadLeave
<1>3. CASE ReadError(c)
  <2>1. \A d \in Conns \ {c} : req'[d] = req[d] /\ joins'[d] = joins[d]
    BY <1>3 DEF ReadError, SeatInv, TypeOK, Types
  <2> QED BY <1>3, <2>1, SeatsByLeaving DEF ReadError
<1>4. ASSUME NEW m \in Request, ReadJoin(c, m)
      PROVE  SeatParts'
  <2>1. joins[c] \in Nat /\ joins[c] < MaxJoins /\ joins'[c] = joins[c] + 1
    BY <1>4, HubAssumption DEF ReadJoin, SeatInv, TypeOK, Types
  <2>2. joins[c] = 0 /\ joins'[c] # 0
    BY <2>1, HubAssumption
  <2>3. \A d \in Conns \ {c} : req'[d] = req[d] /\ joins'[d] = joins[d]
    BY <1>4 DEF ReadJoin, SeatInv, TypeOK, Types
  <2> QED BY <1>4, <2>2, <2>3, SeatsByLeaving DEF ReadJoin
<1> QED BY <1>1, <1>2, <1>3, <1>4

\* A wedged room stays detached, and held, while the names and locals of the
\* others stay and c does not let go of it.
LEMMA StillDetached ==
  ASSUME TypeOK, WedgedDetached, NEW c \in Conns,
         wedged' \subseteq wedged,
         \A n \in RoomNames : rooms'[n] \in {rooms[n], NoRoom} \/ ~Reachable(rooms'[n]),
         \A d \in Conns \ {c} : ref'[d] = ref[d],
         \/ ref[c] = NoRoom \/ ref'[c] = ref[c] \/ ref[c] \notin wedged'
         \/ \E d \in Conns \ {c} : ref[d] = ref[c]
  PROVE  WedgedDetached'
<1> SUFFICES ASSUME NEW ro \in wedged'
             PROVE  /\ \A n \in RoomNames : rooms'[n] # ro
                    /\ \E d \in Conns : ref'[d] = ro
  BY DEF WedgedDetached
<1>1. /\ ro \in wedged /\ ro # NoRoom
      /\ \A n \in RoomNames : rooms[n] # ro
  BY HubAssumption DEF WedgedDetached, TypeOK, Types
<1>2. PICK d \in Conns : ref[d] = ro
  BY <1>1 DEF WedgedDetached
<1>3. Reachable(ro)
  BY <1>2 DEF Reachable
<1>4. \E e \in Conns : ref'[e] = ro
  BY <1>1, <1>2
<1> QED BY <1>1, <1>3, <1>4

LEMMA DetachedByReading ==
  ASSUME SeatInv, NEW c \in Conns,
         \/ Connect(c) \/ ReadLeave(c) \/ ReadError(c) \/ Unwind(c)
         \/ \E m \in Request : ReadJoin(c, m)
  PROVE  WedgedDetached'
<1>1. ref[c] = NoRoom
  BY DEF Connect, ReadLeave, ReadError, Unwind, ReadJoin, SeatInv, TypeOK, LocalsOf
<1>2. wedged' = wedged /\ rooms' = rooms
  BY DEF Connect, ReadLeave, ReadError, Unwind, ReadJoin, StartLeave, roomVars
<1>3. \A d \in Conns \ {c} : ref'[d] = ref[d]
  BY DEF Connect, ReadLeave, ReadError, Unwind, ReadJoin, StartLeave, Finish, SeatInv, TypeOK, Types
<1> QED BY <1>1, <1>2, <1>3, StillDetached DEF SeatInv

LEMMA ReleaseDetached ==
  ASSUME SeatInv, NEW c \in Conns, Release(c),
         rooms' = rooms, ref' = [ref EXCEPT ![c] = NoRoom]
  PROVE  WedgedDetached'
<1>1. \A d \in Conns \ {c} : ref'[d] = ref[d]
  BY DEF SeatInv, TypeOK, Types
<1>2. CASE LastHold(c)
  <2>1. wedged' = wedged \ {ref[c]}
    BY <1>2 DEF Release, Wipe
  <2> QED BY <1>1, <2>1, StillDetached DEF SeatInv
<1>3. CASE ~LastHold(c)
  <2>1. wedged' = wedged
    BY <1>3 DEF Release
  <2>2. ref[c] \notin wedged \/ \E d \in Conns \ {c} : ref[d] = ref[c]
    BY <1>3 DEF LastHold, SeatInv, WedgedDetached
  <2> QED BY <1>1, <2>1, <2>2, StillDetached DEF SeatInv
<1> QED BY <1>2, <1>3

LEMMA DetachedByStep ==
  ASSUME SeatInv, NEW c \in Conns, Step(c)
  PROVE  WedgedDetached'
<1>1. CASE SendJoinOk(c)
  BY <1>1, ReleaseDetached DEF SendJoinOk
<1>2. CASE CheckEmpty(c)
  BY <1>2, ReleaseDetached DEF CheckEmpty, Finish
<1>3. CASE EnterPanics(c)
  <2>1. rooms' = rooms /\ ref' = [ref EXCEPT ![c] = NoRoom]
    BY <1>3 DEF EnterPanics
  <2>2. CASE LastHold(c)
    BY <1>3, <2>1, <2>2, ReleaseDetached DEF EnterPanics, Release
  <2>3. CASE ~LastHold(c)
    <3>1. wedged' = wedged \cup {ref[c]} /\ \A n \in RoomNames : rooms[n] # ref[c]
      BY <1>3, <2>3, PanicDetached DEF EnterPanics
    <3>2. PICK d \in Conns \ {c} : ref[d] = ref[c]
      BY <2>3, <3>1 DEF LastHold
    <3>3. \A e \in Conns \ {c} : ref'[e] = ref[e]
      BY <2>1 DEF SeatInv, TypeOK, Types
    <3> QED BY <2>1, <3>1, <3>2, <3>3 DEF WedgedDetached, SeatInv
  <2> QED BY <2>2, <2>3
<1>4. CASE Unwind(c)
  BY <1>4, DetachedByReading
<1>5. CASE \/ CheckPassword(c) \/ CheckCapacity(c) \/ InsertRoomRow(c) \/ UpsertPeerRow(c)
           \/ EnterRoom(c) \/ ExitRoom(c) \/ DeletePeerRow(c)
  <2>1. wedged' = wedged /\ rooms' = rooms /\ ref' = ref
    BY <1>5 DEF CheckPassword, CheckCapacity, InsertRoomRow, UpsertPeerRow, EnterRoom, ExitRoom,
                DeletePeerRow, roomVars, connVars
  <2> QED BY <2>1, StillDetached DEF SeatInv
<1>6. CASE LookupRoom(c) \/ \E ro \in RoomObjs : CreateRoom(c, ro)
  <2>1. pc[c] = "lookup" /\ req[c].room \in RoomNames
    BY <1>6 DEF LookupRoom, CreateRoom, SeatInv, TypeOK, LocalsOf, Request
  <2>2. ref[c] = NoRoom
    BY <2>1 DEF SeatInv, TypeOK, LocalsOf
  <2>3. /\ wedged' = wedged
        /\ \A n \in RoomNames : rooms'[n] = rooms[n] \/ ~Reachable(rooms'[n])
        /\ \A d \in Conns \ {c} : ref'[d] = ref[d]
    BY <1>6, <2>1 DEF LookupRoom, CreateRoom, roomVars, SeatInv, TypeOK, Types
  <2> QED BY <2>2, <2>3, StillDetached DEF SeatInv
<1>7. CASE DeleteRoom(c)
  <2>1. wedged' = wedged /\ ref' = ref /\ \A n \in RoomNames : rooms'[n] \in {rooms[n], NoRoom}
    BY <1>7 DEF DeleteRoom, connVars, SeatInv, TypeOK, Types
  <2> QED BY <2>1, StillDetached DEF SeatInv
<1>8. CASE DeleteRoomRow(c)
  <2>1. /\ wedged' = wedged /\ rooms' = rooms /\ ref[c] = NoRoom
        /\ \A d \in Conns \ {c} : ref'[d] = ref[d]
    BY <1>8 DEF DeleteRoomRow, Finish, roomVars, SeatInv, TypeOK, Types, LocalsOf
  <2> QED BY <2>1, StillDetached DEF SeatInv
<1> QED BY <1>1, <1>2, <1>3, <1>4, <1>5, <1>6, <1>7, <1>8 DEF Step

LEMMA InitSeats == Init => SeatParts
<1> SUFFICES ASSUME Init PROVE SeatParts
  OBVIOUS
<1>1. GarbageIsVacant /\ SingleSeat
  BY DEF Init, GarbageIsVacant, SingleSeat, Vacant
<1>2. JoinsOnce /\ NewcomersOutside
  BY DEF Init, JoinsOnce, JoinedOnce, NewcomersOutside, Newcomer
<1>3. SeatsHaveHandlers /\ RosterExact
  BY DEF Init, SeatsHaveHandlers, RosterExact
<1> QED BY <1>1, <1>2, <1>3 DEF SeatParts

LEMMA RestartSeats == ASSUME NEW kept \in SUBSET Rows, Restart(kept)
                      PROVE  SeatParts'
<1>1. GarbageIsVacant' /\ SingleSeat'
  BY DEF Restart, GarbageIsVacant, SingleSeat, Vacant
<1>2. JoinsOnce' /\ NewcomersOutside'
  BY DEF Restart, JoinsOnce, JoinedOnce, NewcomersOutside, Newcomer
<1>3. SeatsHaveHandlers' /\ RosterExact'
  BY DEF Restart, SeatsHaveHandlers, RosterExact
<1> QED BY <1>1, <1>2, <1>3 DEF SeatParts

LEMMA StutterSeats == SeatInv /\ UNCHANGED vars => SeatParts'
<1> SUFFICES ASSUME SeatInv, UNCHANGED vars PROVE SeatParts'
  OBVIOUS
<1>1. /\ rooms' = rooms /\ connMap' = connMap /\ pc' = pc /\ ref' = ref /\ me' = me
      /\ req' = req /\ joins' = joins /\ after' = after /\ open' = open /\ told' = told
  BY DEF vars, roomVars, connVars, listVars, told
<1>2. GarbageIsVacant' /\ SingleSeat'
  BY <1>1 DEF SeatInv, GarbageIsVacant, Reachable, SingleSeat
<1>3. JoinsOnce' /\ NewcomersOutside'
  BY <1>1 DEF SeatInv, JoinsOnce, JoinedOnce, NewcomersOutside, Newcomer, SeatedIn
<1>4. SeatsHaveHandlers' /\ RosterExact'
  BY <1>1 DEF SeatInv, SeatsHaveHandlers, WillVacate, RosterExact, Peers
<1> QED BY <1>2, <1>3, <1>4 DEF SeatParts

\* The invariant behind membership and rosters, for clients that send one join
\* per connection: one seat per connection, none for a newcomer or in garbage.
THEOREM SeatsInvariant == MaxJoins <= 1 => (Spec => []SeatInv)
<1> SUFFICES ASSUME MaxJoins <= 1 PROVE Spec => []SeatInv
  OBVIOUS
<1>1. Init => SeatInv
  <2>1. Init => RoomsWellNamed
    BY DEF Init, RoomsWellNamed
  <2>2. Init => WedgedDetached
    BY DEF Init, WedgedDetached
  <2> QED BY <2>1, <2>2, InitTypeOK, InitSeats DEF SeatInv, SeatParts
<1>2. TypeOK' /\ RoomsWellNamed' /\ SeatInv /\ [Next]_vars => SeatInv'
  <2> SUFFICES ASSUME TypeOK', RoomsWellNamed', SeatInv, [Next]_vars
               PROVE  SeatParts' /\ WedgedDetached'
    BY DEF SeatInv, SeatParts
  <2>1. ASSUME NEW c \in Conns, Step(c)
        PROVE  SeatParts'
    BY <2>1, SeatsByJoining, SeatsByEntering, SeatsByAnswering, SeatsByExiting, SeatsByTidying,
       SeatsByPanicking, SeatsByUnwinding DEF Step
  <2>2. ASSUME NEW kept \in SUBSET Rows, Restart(kept)
        PROVE  WedgedDetached'
    BY <2>2 DEF Restart, WedgedDetached
  <2>3. UNCHANGED vars => WedgedDetached'
    BY DEF vars, roomVars, SeatInv, WedgedDetached
  <2> QED BY <2>1, <2>2, <2>3, DetachedByStep, DetachedByReading, SeatsByReading, RestartSeats,
             StutterSeats DEF Next
<1> QED BY <1>1, <1>2, TypeCorrect, RoomsNamed, PTL DEF Spec

\* No ghost members: a seat of a registered room always belongs to a connection
\* whose goroutine is alive, will vacate that seat, and can still be sent to.
THEOREM SeatsHandled == MaxJoins <= 1 => (Spec => []SeatsHaveHandlers)
<1>1. SeatInv => SeatsHaveHandlers
  BY DEF SeatInv
<1> QED BY <1>1, SeatsInvariant, PTL

\* The registry stays usable: the double close that makes a goroutine panic with
\* a room locked happens, if at all, in rooms nobody can look up any more.
THEOREM RegistryStaysUsable == MaxJoins <= 1 => (Spec => []RegistryUsable)
<1>1. SeatInv => RegistryUsable
  BY DEF SeatInv, WedgedDetached, RegistryUsable
<1> QED BY <1>1, SeatsInvariant, PTL

\* The relay announces exactly: whoever sits in a registered room is sent, in the list of
\* join_ok and in notifications, who the others are, through any joins, leaves, evictions
\* and deletions of rooms.  The list is stale when it is queued as far as notifications
\* have overtaken it, and no further.
THEOREM RostersExact == MaxJoins <= 1 => (Spec => []RosterExact)
<1>1. SeatInv => RosterExact
  BY DEF SeatInv
<1> QED BY <1>1, SeatsInvariant, PTL

----------------------------------------------------------------------------
(* The room registry implements RoomDirectory                              *)

\* The values of the refinement mapping.
Status(c)   == IF pc[c] = "idle" THEN "off" ELSE IF pc[c] \in Leaving THEN "leaving" ELSE "on"
Knows(c)    == IF Registered(c) THEN told[c] ELSE {}
Convened(n) == rooms[n] # NoRoom /\ session[rooms[n]] # {}

Inv == SeatInv /\ RoomCoherent

LEMMA StartsEmpty == Init => Directory!DirInit
<1> SUFFICES ASSUME Init PROVE Directory!DirInit
  OBVIOUS
<1>1. \A n \in RoomNames : rooms[n] = NoRoom /\ SeatsOf(n) = Vacant
  BY DEF Init, SeatsOf
<1>2. \A c \in Conns : ~Registered(c)
  BY <1>1, HubAssumption DEF Registered, Vacant
<1> QED BY <1>1, <1>2 DEF Init, Directory!DirInit, Directory!NoMembers, Vacant

\* What a registered room shows is seen by the directory alone.
LEMMA MovesOnly ==
    ASSUME NEW c \in Conns, \A d \in Conns \ {c} : Status(d)' = Status(d),
           \A n \in RoomNames : SeatsOf(n)' = SeatsOf(n) /\ (Convened(n)' <=> Convened(n)),
           \A d \in Conns : Registered(d) => told'[d] = told[d],
           Status(c)' = Status(c) \/ ~Registered(c) \/ (Status(c) = "on" /\ Status(c)' = "leaving")
    PROVE  [Directory!DirNext]_Directory!dirVars
<1>1. \A d \in Conns : Registered(d)' <=> Registered(d)
  BY DEF Registered
<1>2. /\ [n \in RoomNames |-> SeatsOf(n)]' = [n \in RoomNames |-> SeatsOf(n)]
      /\ [d \in Conns |-> Knows(d)]' = [d \in Conns |-> Knows(d)]
      /\ {n \in RoomNames : Convened(n)}' = {n \in RoomNames : Convened(n)}
  BY <1>1 DEF Knows
<1>3. [d \in Conns |-> Status(d)]' = [[d \in Conns |-> Status(d)] EXCEPT ![c] = Status(c)']
  OBVIOUS
<1>4. CASE Status(c)' = Status(c)
  <2>1. [d \in Conns |-> Status(d)]' = [d \in Conns |-> Status(d)]
    BY <1>4
  <2> QED BY <1>2, <2>1 DEF Directory!dirVars, Status, Knows, Convened
<1>5. CASE Status(c)' # Status(c)
  <2>1. PICK s \in {"off", "on", "leaving"} : s = Status(c)'
    BY DEF Status
  <2>2. Directory!Seated(c) <=> Registered(c)
    BY DEF Directory!Seated, Registered
  <2>3. Registered(c) => Status(c) = "on" /\ s = "leaving"
    BY <1>5, <2>1
  <2>4. [d \in Conns |-> Status(d)]' = [[d \in Conns |-> Status(d)] EXCEPT ![c] = s]
    BY <1>3, <2>1
  <2>5. Directory!Move(c, s)
    BY <1>2, <2>2, <2>3, <2>4 DEF Directory!Move, Status, Knows, Convened
  <2> QED BY <2>5 DEF Directory!DirNext
<1> QED BY <1>4, <1>5
\* A step of the directory, or none.
DirStep == [Directory!DirNext]_Directory!dirVars

LEMMA EmptyRoom ==
    ASSUME Inv, NEW ro \in RoomObjs, ro \notin wedged, Peers(ro) = {}
    PROVE  session[ro] = {} /\ connMap[ro] = Vacant
<1>1. Coherent(ro)
  BY DEF Inv, RoomCoherent
<1>2. session[ro] = {}
  <2>1. Cardinality(Peers(ro)) = 0
    BY FS_EmptySet
  <2> QED BY <1>1, <2>1 DEF Coherent
<1>3. connMap[ro] \in [PeerIds -> Conns \cup {NoConn}]
  BY DEF Inv, SeatInv, TypeOK, Types
<1>4. \A p \in PeerIds : connMap[ro][p] = NoConn
  BY DEF Peers, Occupied
<1> QED BY <1>2, <1>3, <1>4 DEF Vacant

\* A step of c that changes nothing of the registered rooms.
LEMMA QuietStep ==
    ASSUME TypeOK, NEW c \in Conns, NEW s, pc' = [pc EXCEPT ![c] = s], rooms' = rooms,
           \A n \in RoomNames : rooms[n] # NoRoom =>
              connMap'[rooms[n]] = connMap[rooms[n]] /\ session'[rooms[n]] = session[rooms[n]],
           \A d \in Conns : Registered(d) => told'[d] = told[d],
           \/ Unseated(c)
           \/ "idle" \notin {pc[c], s} /\ (s \in Leaving <=> pc[c] \in Leaving)
           \/ pc[c] \notin {"idle"} \cup Leaving /\ s \in Leaving
    PROVE  DirStep
<1>1. pc'[c] = s /\ \A d \in Conns \ {c} : Status(d)' = Status(d)
  BY DEF TypeOK, Types, Status
<1>2. \A n \in RoomNames : SeatsOf(n)' = SeatsOf(n) /\ (Convened(n)' <=> Convened(n))
  BY DEF SeatsOf, Convened
<1>3. Status(c)' = Status(c) \/ ~Registered(c) \/ (Status(c) = "on" /\ Status(c)' = "leaving")
  <2>1. CASE Unseated(c)
    <3>1. ~Registered(c)
      BY <2>1, HubAssumption DEF Unseated, Registered, SeatsOf, Vacant
    <3> QED BY <3>1
  <2>2. CASE \/ "idle" \notin {pc[c], s} /\ (s \in Leaving <=> pc[c] \in Leaving)
             \/ pc[c] \notin {"idle"} \cup Leaving /\ s \in Leaving
    <3>1. Status(c)' = IF s = "idle" THEN "off" ELSE IF s \in Leaving THEN "leaving" ELSE "on"
      BY <1>1 DEF Status, Leaving
    <3>2. s \in Leaving => s # "idle"
      BY DEF Leaving
    <3> HIDE DEF Leaving
    <3> QED BY <2>2, <3>1, <3>2 DEF Status
  <2> QED BY <2>1, <2>2
<1> QED BY <1>1, <1>2, <1>3, MovesOnly DEF DirStep

LEMMA UnseatedUnknown == ASSUME NEW c \in Conns, Unseated(c) PROVE ~Registered(c)
BY HubAssumption DEF Unseated, Registered, SeatsOf, Vacant

LEMMA ReleaseUnseen ==
    ASSUME TypeOK, NEW c \in Conns, Release(c)
    PROVE  \A n \in RoomNames : rooms[n] # NoRoom =>
              connMap'[rooms[n]] = connMap[rooms[n]] /\ session'[rooms[n]] = session[rooms[n]]
<1>1. CASE LastHold(c)
  BY <1>1 DEF Release, LastHold, Wipe, TypeOK, Types
<1>2. CASE ~LastHold(c)
  BY <1>2 DEF Release
<1> QED BY <1>1, <1>2

LEMMA StartLeaveQuiet ==
    ASSUME Inv, NEW c \in Conns, NEW then \in {"idle", "ready", "auth"},
           pc[c] \in {"ready", "panic"}, pc[c] = "panic" => me[c] = Nobody, StartLeave(c, then)
    PROVE  DirStep
<1>1. rooms' = rooms /\ connMap' = connMap /\ session' = session /\ TypeOK /\ SeatsHaveHandlers
  BY DEF StartLeave, roomVars, Inv, SeatInv
<1>2. CASE me[c] = Nobody \/ rooms[me[c].room] = NoRoom
  <2>1. pc' = [pc EXCEPT ![c] = then] /\ told' = [told EXCEPT ![c] = {}]
    BY <1>1, <1>2, ToldEnds DEF StartLeave, Finish
  <2>2. Unseated(c)
    BY <1>1, <1>2, NoSeat
  <2>3. \A d \in Conns : Registered(d) => told'[d] = told[d]
    BY <2>1, <2>2, UnseatedUnknown DEF Inv, SeatInv, told
  <2> QED BY <1>1, <2>1, <2>2, <2>3, QuietStep
<1>3. CASE ~(me[c] = Nobody \/ rooms[me[c].room] = NoRoom)
  <2>1. pc' = [pc EXCEPT ![c] = "exit"] /\ told' = told /\ pc[c] = "ready"
    BY <1>1, <1>3, ToldStays DEF StartLeave, Goto
  <2>2. pc[c] \notin {"idle"} \cup Leaving /\ "exit" \in Leaving
    BY <2>1 DEF Leaving
  <2> QED BY <1>1, <2>1, <2>2, QuietStep
<1> QED BY <1>2, <1>3

LEMMA ReadingImplements ==
    ASSUME Inv, NEW c \in Conns,
           \/ Connect(c) \/ ReadLeave(c) \/ ReadError(c) \/ Unwind(c)
           \/ \E m \in Request : ReadJoin(c, m)
    PROVE  DirStep
<1>1. CASE Connect(c)
  <2>1. /\ pc[c] = "idle" /\ pc' = [pc EXCEPT ![c] = "ready"] /\ rooms' = rooms
        /\ connMap' = connMap /\ session' = session /\ told' = told
    BY <1>1, ToldStays DEF Connect, Goto, roomVars, Inv, SeatInv
  <2>2. Unseated(c) /\ TypeOK
    BY <2>1, NoSeat DEF Inv, SeatInv
  <2> QED BY <2>1, <2>2, QuietStep
<1>2. CASE ReadLeave(c)
  BY <1>2, StartLeaveQuiet DEF ReadLeave
<1>3. CASE ReadError(c)
  BY <1>3, StartLeaveQuiet DEF ReadError
<1>4. CASE Unwind(c)
  <2>1. me[c] = Nobody
    BY <1>4 DEF Unwind, Inv, SeatInv, JoinsOnce, JoinedOnce
  <2> QED BY <1>4, <2>1, StartLeaveQuiet DEF Unwind
<1>5. ASSUME NEW m \in Request, ReadJoin(c, m) PROVE DirStep
  BY <1>5, StartLeaveQuiet DEF ReadJoin
<1> QED BY <1>1, <1>2, <1>3, <1>4, <1>5

LEMMA JoiningImplements ==
    ASSUME Inv, NEW c \in Conns,
           \/ CheckPassword(c) \/ CheckCapacity(c) \/ InsertRoomRow(c)
           \/ UpsertPeerRow(c) \/ LookupRoom(c) \/ EnterPanics(c)
    PROVE  DirStep
<1>1. PICK s : pc' = [pc EXCEPT ![c] = s]
  BY DEF CheckPassword, CheckCapacity, InsertRoomRow, UpsertPeerRow, LookupRoom, EnterPanics,
         Refuse, Goto
<1>2. Unseated(c) /\ TypeOK
  <2>1. pc[c] \notin {"ready", "joinOk", "exit"}
    BY DEF CheckPassword, CheckCapacity, InsertRoomRow, UpsertPeerRow, LookupRoom, EnterPanics
  <2> QED BY <2>1, NoSeat DEF Inv, SeatInv
<1>3. rooms' = rooms /\ told' = told
  BY ToldInJoin DEF CheckPassword, CheckCapacity, InsertRoomRow, UpsertPeerRow, LookupRoom,
         EnterPanics, roomVars, Inv, SeatInv
<1>4. \A n \in RoomNames : rooms[n] # NoRoom =>
        connMap'[rooms[n]] = connMap[rooms[n]] /\ session'[rooms[n]] = session[rooms[n]]
  <2>1. CASE EnterPanics(c)
    <3>1. \A n \in RoomNames : rooms[n] # ref[c]
      BY <2>1, PanicDetached DEF Inv
    <3>2. CASE LastHold(c)
      BY <1>2, <2>1, <3>2, ReleaseUnseen DEF EnterPanics, Release
    <3>3. CASE ~LastHold(c)
      BY <1>2, <2>1, <3>1, <3>3 DEF EnterPanics, TypeOK, Types
    <3> QED BY <3>2, <3>3
  <2>2. CASE ~EnterPanics(c)
    BY <2>2 DEF CheckPassword, CheckCapacity, InsertRoomRow, UpsertPeerRow, LookupRoom, roomVars
  <2> QED BY <2>1, <2>2
<1> QED BY <1>1, <1>2, <1>3, <1>4, QuietStep

LEMMA CreatingImplements ==
    ASSUME Inv, NEW c \in Conns, NEW ro \in RoomObjs, CreateRoom(c, ro)
    PROVE  DirStep
<1>1. /\ pc[c] = "lookup" /\ pc' = [pc EXCEPT ![c] = "enter"] /\ told' = told
      /\ rooms[req[c].room] = NoRoom /\ rooms' = [rooms EXCEPT ![req[c].room] = ro]
      /\ connMap' = connMap /\ session' = session /\ ~Reachable(ro)
  BY ToldInJoin DEF CreateRoom, Goto, Inv, SeatInv
<1>2. TypeOK /\ Unseated(c)
  BY <1>1, NoSeat DEF Inv, SeatInv
<1>3. ro \notin wedged
  BY <1>1 DEF Inv, SeatInv, WedgedDetached, Reachable
<1>4. connMap[ro] = Vacant /\ Peers(ro) = {}
  BY <1>1 DEF Inv, SeatInv, GarbageIsVacant, Peers, Occupied, Vacant
<1>5. session[ro] = {}
  BY <1>3, <1>4, EmptyRoom
<1>6. \A n \in RoomNames : SeatsOf(n)' = SeatsOf(n) /\ (Convened(n)' <=> Convened(n))
  <2> TAKE n \in RoomNames
  <2>1. CASE n = req[c].room
    <3>1. rooms[n] = NoRoom /\ rooms'[n] \in {ro, NoRoom}
      BY <1>1, <1>2, <2>1 DEF TypeOK, Types
    <3> QED BY <1>1, <1>4, <1>5, <3>1 DEF SeatsOf, Convened
  <2>2. CASE n # req[c].room
    <3>1. rooms'[n] = rooms[n]
      BY <1>1, <1>2, <2>2 DEF TypeOK, Types
    <3> QED BY <1>1, <3>1 DEF SeatsOf, Convened
  <2> QED BY <2>1, <2>2
<1>7. (\A d \in Conns \ {c} : Status(d)' = Status(d)) /\ ~Registered(c)
  BY <1>1, <1>2, UnseatedUnknown DEF Status, TypeOK, Types
<1> QED BY <1>1, <1>6, <1>7, MovesOnly DEF DirStep
LEMMA Convening ==
    ASSUME NEW n, NEW crowd
    PROVE  Directory!Convene(n, crowd) = IF Cardinality(crowd) >= 2
                                         THEN {m \in RoomNames : Convened(m)} \cup {n}
                                         ELSE {m \in RoomNames : Convened(m)} \ {n}
BY DEF Directory!Convene, Convened, Cardinality, Directory!Cardinality

\* The changes of state that amount to Admit and Dismiss.
LEMMA Admitting ==
    ASSUME NEW c \in Conns, NEW n \in RoomNames, NEW p \in PeerIds,
           Status(c) = "on", ~Registered(c), \A d \in Conns : Status(d)' = Status(d),
           \A m \in RoomNames : SeatsOf(m)' = IF m = n THEN [SeatsOf(n) EXCEPT ![p] = c] ELSE SeatsOf(m),
           \A d \in Conns : Knows(d)' =
              IF d = c THEN Occupied(SeatsOf(n)) \ {p}
              ELSE IF d \in {SeatsOf(n)[q] : q \in Occupied(SeatsOf(n)) \ {p}} THEN Knows(d) \cup {p}
              ELSE IF d = SeatsOf(n)[p] THEN {}
              ELSE Knows(d),
           \A m \in RoomNames : Convened(m)' <=>
              IF m = n THEN Cardinality(Occupied(SeatsOf(n)) \cup {p}) >= 2 ELSE Convened(m)
    PROVE  DirStep
<1> DEFINE members == [m \in RoomNames |-> SeatsOf(m)]
<1>1. Directory!Present(n) = Occupied(SeatsOf(n))
  BY DEF Directory!Present, Occupied
<1>2. Directory!Company(n, p) = {SeatsOf(n)[q] : q \in Occupied(SeatsOf(n)) \ {p}}
  BY <1>1 DEF Directory!Company
<1>3. ~Directory!Seated(c)
  BY DEF Directory!Seated, Registered
<1>4. members' = [members EXCEPT ![n] = [members[n] EXCEPT ![p] = c]]
  OBVIOUS
<1>5. [d \in Conns |-> Knows(d)]' =
        [d \in Conns |->
           IF d = c THEN Directory!Present(n) \ {p}
           ELSE IF d \in Directory!Company(n, p) THEN Knows(d) \cup {p}
           ELSE IF d = members[n][p] THEN {}
           ELSE Knows(d)]
  BY <1>1, <1>2
<1>6. {m \in RoomNames : Convened(m)}' = Directory!Convene(n, Directory!Present(n) \cup {p})
  <2> DEFINE crowd == Occupied(SeatsOf(n)) \cup {p}
             meeting == {m \in RoomNames : Convened(m)}
  <2>1. meeting' = IF Cardinality(crowd) >= 2 THEN meeting \cup {n} ELSE meeting \ {n}
    OBVIOUS
  <2>2. Directory!Convene(n, crowd) = IF Cardinality(crowd) >= 2 THEN meeting \cup {n} ELSE meeting \ {n}
    BY Convening
  <2> QED BY <1>1, <2>1, <2>2
<1>7. [d \in Conns |-> Status(d)]' = [d \in Conns |-> Status(d)]
  OBVIOUS
<1>8. Directory!Admit(c, n, p)
  BY <1>3, <1>4, <1>5, <1>6, <1>7 DEF Directory!Admit, Status, Knows, Convened
<1> QED BY <1>8 DEF DirStep, Directory!DirNext

LEMMA Dismissing ==
    ASSUME NEW c \in Conns, NEW n \in RoomNames, NEW p \in PeerIds,
           Status(c) = "leaving", SeatsOf(n)[p] = c, \A d \in Conns : Status(d)' = Status(d),
           \A m \in RoomNames : SeatsOf(m)' = IF m = n THEN [SeatsOf(n) EXCEPT ![p] = NoConn] ELSE SeatsOf(m),
           \A d \in Conns : Knows(d)' =
              IF d = c THEN {}
              ELSE IF d \in {SeatsOf(n)[q] : q \in Occupied(SeatsOf(n)) \ {p}} THEN Knows(d) \ {p}
              ELSE Knows(d),
           \A m \in RoomNames : Convened(m)' <=>
              IF m = n THEN Cardinality(Occupied(SeatsOf(n)) \ {p}) >= 2 ELSE Convened(m)
    PROVE  DirStep
<1> DEFINE members == [m \in RoomNames |-> SeatsOf(m)]
<1>1. Directory!Present(n) = Occupied(SeatsOf(n))
  BY DEF Directory!Present, Occupied
<1>2. Directory!Company(n, p) = {SeatsOf(n)[q] : q \in Occupied(SeatsOf(n)) \ {p}}
  BY <1>1 DEF Directory!Company
<1>3. members' = [members EXCEPT ![n] = [members[n] EXCEPT ![p] = NoConn]]
  OBVIOUS
<1>4. [d \in Conns |-> Knows(d)]' =
        [d \in Conns |->
           IF d = c THEN {}
           ELSE IF d \in Directory!Company(n, p) THEN Knows(d) \ {p}
           ELSE Knows(d)]
  BY <1>2
<1>5. {m \in RoomNames : Convened(m)}' = Directory!Convene(n, Directory!Present(n) \ {p})
  <2> DEFINE crowd == Occupied(SeatsOf(n)) \ {p}
             meeting == {m \in RoomNames : Convened(m)}
  <2>1. meeting' = IF Cardinality(crowd) >= 2 THEN meeting \cup {n} ELSE meeting \ {n}
    OBVIOUS
  <2>2. Directory!Convene(n, crowd) = IF Cardinality(crowd) >= 2 THEN meeting \cup {n} ELSE meeting \ {n}
    BY Convening
  <2> QED BY <1>1, <2>1, <2>2
<1>6. [d \in Conns |-> Status(d)]' = [d \in Conns |-> Status(d)]
  OBVIOUS
<1>7. Directory!Dismiss(c, n, p)
  BY <1>3, <1>4, <1>5, <1>6 DEF Directory!Dismiss, Status, Knows, Convened
<1> QED BY <1>7 DEF DirStep, Directory!DirNext
LEMMA RegisteredSeat ==
    ASSUME NEW d \in Conns
    PROVE  Registered(d) <=> \E m \in RoomNames, q \in PeerIds : rooms[m] # NoRoom /\ connMap[rooms[m]][q] = d
BY HubAssumption DEF Registered, SeatsOf, Vacant

LEMMA EnteringImplements ==
    ASSUME Inv, Inv', NEW c \in Conns, EnterRoom(c)
    PROVE  DirStep
<1>1. PICK ro \in RoomObjs, p \in PeerIds : ro = ref[c] /\ p = req[c].peer
  <2>1. ref[c] \in RoomObjs /\ req[c].peer \in PeerIds
    BY DEF EnterRoom, Inv, SeatInv, TypeOK, Types, LocalsOf, Request, Joining, Handling
  <2> QED BY <2>1
<1>2. TypeOK /\ SingleSeat /\ RoomsWellNamed
  BY DEF Inv, SeatInv
<1>3. PICK seat \in [PeerIds -> Conns \cup {NoConn}] : seat = [connMap[ro] EXCEPT ![p] = c]
  BY <1>2 DEF TypeOK, Types
<1>4. /\ pc[c] = "enter" /\ pc' = [pc EXCEPT ![c] = "joinOk"] /\ rooms' = rooms
      /\ connMap' = [connMap EXCEPT ![ro] = seat] /\ ro \notin wedged /\ wedged' = wedged
      /\ \A r \in RoomObjs \ {ro} : session'[r] = session[r]
      /\ told' = [d \in Conns |-> IF d = c THEN Occupied(connMap[ro]) \ {p}
                                 ELSE IF d \in Others(ro, p) THEN told[d] \cup {p}
                                 ELSE told[d]]
  <2>1. told' = [d \in Conns |-> IF d = c THEN Occupied(connMap[ro]) \ {p}
                                 ELSE IF d \in Others(ro, p) THEN told[d] \cup {p}
                                 ELSE told[d]]
    BY <1>1, <1>2, ToldEntered DEF Listed, Peers
  <2> QED BY <1>1, <1>2, <1>3, <2>1 DEF EnterRoom, Goto, Seat, TypeOK, Types
<1>5. /\ connMap \in [RoomObjs -> [PeerIds -> Conns \cup {NoConn}]]
      /\ \A n \in RoomNames : rooms[n] # NoRoom => rooms[n] \in RoomObjs
      /\ NoRoom \notin RoomObjs /\ NoConn \notin Conns
  BY <1>2, HubAssumption DEF TypeOK, Types
<1>6. connMap'[ro] = seat /\ \A r \in RoomObjs \ {ro} : connMap'[r] = connMap[r]
  BY <1>4, <1>5
<1>7. \A r \in RoomObjs, q \in PeerIds : connMap[r][q] # c
  BY <1>4 DEF Inv, SeatInv, NewcomersOutside, Newcomer, Joining, SeatedIn
<1>8. Unseated(c) /\ ~Registered(c)
  BY <1>5, <1>7, RegisteredSeat DEF Unseated
<1>9. \A d \in Others(ro, p) : \E q \in PeerIds \ {p} : d = connMap[ro][q] /\ d # NoConn
  BY DEF Others, Peers, Occupied
<1>10. CASE \A n \in RoomNames : rooms[n] # ro
  <2>1. \A n \in RoomNames : rooms[n] # NoRoom =>
          connMap'[rooms[n]] = connMap[rooms[n]] /\ session'[rooms[n]] = session[rooms[n]]
    BY <1>4, <1>5, <1>6, <1>10
  <2>2. ASSUME NEW d \in Conns, Registered(d) PROVE told'[d] = told[d]
    <3>1. PICK m \in RoomNames, q \in PeerIds : rooms[m] # NoRoom /\ connMap[rooms[m]][q] = d
      BY <2>2, RegisteredSeat
    <3>2. d \notin Others(ro, p)
      BY <1>2, <1>5, <1>9, <1>10, <3>1 DEF SingleSeat
    <3> QED BY <1>4, <1>8, <2>2, <3>2
  <2> QED BY <1>2, <1>4, <1>8, <2>1, <2>2, QuietStep
<1>11. ASSUME NEW n \in RoomNames, rooms[n] = ro PROVE DirStep
  <2>1. \A m \in RoomNames \ {n} : rooms[m] # ro
    BY <1>2, <1>5, <1>11 DEF RoomsWellNamed
  <2>2. SeatsOf(n) = connMap[ro] /\ SeatsOf(n)' = seat
    BY <1>4, <1>5, <1>6, <1>11 DEF SeatsOf
  <2>3. \A m \in RoomNames : SeatsOf(m)' = IF m = n THEN [SeatsOf(n) EXCEPT ![p] = c] ELSE SeatsOf(m)
    BY <1>3, <1>4, <1>5, <1>6, <2>1, <2>2 DEF SeatsOf
  <2>4. Status(c) = "on" /\ \A d \in Conns : Status(d)' = Status(d)
    BY <1>2, <1>4 DEF Status, Leaving, TypeOK, Types
  <2>5. {SeatsOf(n)[q] : q \in Occupied(SeatsOf(n)) \ {p}} = Others(ro, p)
    BY <2>2 DEF Others, Peers
  <2>6. \A q \in PeerIds : seat[q] = IF q = p THEN c ELSE connMap[ro][q]
    BY <1>3, <1>5
  <2>7. \A d \in Conns : Knows(d)' =
          IF d = c THEN Occupied(SeatsOf(n)) \ {p}
          ELSE IF d \in Others(ro, p) THEN Knows(d) \cup {p}
          ELSE IF d = SeatsOf(n)[p] THEN {}
          ELSE Knows(d)
    <3> TAKE d \in Conns
    <3>1. Registered(d)' <=> \E m \in RoomNames, q \in PeerIds : SeatsOf(m)'[q] = d
      BY DEF Registered
    <3>2. CASE d = c
      <4>1. Registered(d)'
        BY <2>2, <2>6, <3>1, <3>2
      <4> QED BY <1>4, <2>2, <3>2, <4>1 DEF Knows
    <3>3. CASE d # c /\ d \in Others(ro, p)
      <4>1. PICK q \in PeerIds \ {p} : d = connMap[ro][q]
        BY <1>9, <3>3
      <4>2. Registered(d) /\ Registered(d)'
        BY <2>2, <2>6, <3>1, <4>1 DEF Registered
      <4> QED BY <1>4, <3>3, <4>2 DEF Knows
    <3>4. CASE d # c /\ d \notin Others(ro, p) /\ d = SeatsOf(n)[p]
      <4>1. \A r \in RoomObjs, q \in PeerIds : connMap[r][q] = d => r = ro /\ q = p
        BY <1>2, <1>5, <2>2, <3>4 DEF SingleSeat
      <4>2. ~Registered(d)'
        <5> SUFFICES ASSUME NEW m \in RoomNames, NEW q \in PeerIds, SeatsOf(m)'[q] = d PROVE FALSE
          BY <3>1
        <5>1. m = n
          BY <1>5, <2>1, <2>3, <3>4, <4>1 DEF SeatsOf, Vacant
        <5> QED BY <2>2, <2>6, <3>4, <4>1, <5>1
      <4> QED BY <3>4, <4>2 DEF Knows
    <3>5. CASE d # c /\ d \notin Others(ro, p) /\ d # SeatsOf(n)[p]
      <4>1. \A m \in RoomNames, q \in PeerIds : SeatsOf(m)'[q] = d <=> SeatsOf(m)[q] = d
        BY <2>2, <2>3, <2>6, <3>5
      <4>2. Registered(d)' <=> Registered(d)
        BY <3>1, <4>1 DEF Registered
      <4> QED BY <1>4, <3>5, <4>2 DEF Knows
    <3> QED BY <3>2, <3>3, <3>4, <3>5
  <2>8. \A m \in RoomNames : Convened(m)' <=>
          IF m = n THEN Cardinality(Occupied(SeatsOf(n)) \cup {p}) >= 2 ELSE Convened(m)
    <3>1. Coherent(ro)' /\ Peers(ro)' = Occupied(seat)
      BY <1>4, <1>6 DEF Inv, RoomCoherent, Peers
    <3>2. Occupied(seat) = Occupied(SeatsOf(n)) \cup {p}
      BY <1>5, <2>2, <2>6 DEF Occupied
    <3>3. Convened(n)' <=> Cardinality(Occupied(SeatsOf(n)) \cup {p}) >= 2
      BY <1>4, <1>5, <1>11, <3>1, <3>2 DEF Convened, Coherent
    <3>4. ASSUME NEW m \in RoomNames \ {n} PROVE Convened(m)' <=> Convened(m)
      BY <1>4, <1>5, <2>1 DEF Convened
    <3> QED BY <3>3, <3>4
  <2> QED BY <1>8, <2>3, <2>4, <2>5, <2>7, <2>8, Admitting
<1> QED BY <1>10, <1>11
LEMMA AnsweringImplements ==
    ASSUME Inv, NEW c \in Conns, SendJoinOk(c)
    PROVE  DirStep
<1>1. /\ TypeOK /\ pc[c] = "joinOk" /\ pc' = [pc EXCEPT ![c] = "ready"]
      /\ rooms' = rooms /\ told' = told /\ Release(c)
  BY ToldAnswered DEF SendJoinOk, Goto, Inv, SeatInv
<1>2. \A n \in RoomNames : rooms[n] # NoRoom =>
        connMap'[rooms[n]] = connMap[rooms[n]] /\ session'[rooms[n]] = session[rooms[n]]
  BY <1>1, ReleaseUnseen
<1>3. "idle" \notin {pc[c], "ready"} /\ ("ready" \in Leaving <=> pc[c] \in Leaving)
  BY <1>1 DEF Leaving
<1> QED BY <1>1, <1>2, <1>3, QuietStep

LEMMA ExitingImplements ==
    ASSUME Inv, Inv', NEW c \in Conns, ExitRoom(c)
    PROVE  DirStep
<1>1. PICK ro \in RoomObjs, p \in PeerIds : ro = ref[c] /\ p = me[c].peer
  <2>1. ref[c] \in RoomObjs /\ me[c].peer \in PeerIds
    BY DEF ExitRoom, Inv, SeatInv, TypeOK, Types, LocalsOf, Identity, Leaving, Handling
  <2> QED BY <2>1
<1>2. TypeOK /\ SingleSeat /\ RoomsWellNamed
  BY DEF Inv, SeatInv
<1>3. /\ pc[c] = "exit" /\ pc' = [pc EXCEPT ![c] = "unrow"] /\ rooms' = rooms
      /\ ro \notin wedged /\ wedged' = wedged
  BY <1>1 DEF ExitRoom, Goto
<1>4. "idle" \notin {pc[c], "unrow"} /\ pc[c] \in Leaving /\ "unrow" \in Leaving
  BY <1>3 DEF Leaving
<1>5. /\ connMap \in [RoomObjs -> [PeerIds -> Conns \cup {NoConn}]]
      /\ \A n \in RoomNames : rooms[n] # NoRoom => rooms[n] \in RoomObjs
      /\ NoRoom \notin RoomObjs /\ NoConn \notin Conns
  BY <1>2, HubAssumption DEF TypeOK, Types
<1>6. CASE connMap[ro][p] # c
  <2>1. connMap' = connMap /\ session' = session /\ told' = told
    <3>1. UNCHANGED <<connMap, session, listVars>>
      BY <1>1, <1>6 DEF ExitRoom
    <3> QED BY <1>2, <1>3, <3>1, ToldStays
  <2> QED BY <1>2, <1>3, <1>4, <2>1, QuietStep
<1>7. CASE connMap[ro][p] = c
  <2>1. PICK seat \in [PeerIds -> Conns \cup {NoConn}] : seat = [connMap[ro] EXCEPT ![p] = NoConn]
    BY <1>5
  <2>2. /\ connMap' = [connMap EXCEPT ![ro] = seat]
        /\ \A r \in RoomObjs \ {ro} : session'[r] = session[r]
        /\ told' = [d \in Conns |-> IF d \in Others(ro, p) THEN told[d] \ {p} ELSE told[d]]
    <3>1. GiveUp(ro, p)
      BY <1>1, <1>7 DEF ExitRoom
    <3>2. told' = [d \in Conns |-> IF d \in Others(ro, p) THEN told[d] \ {p} ELSE told[d]]
      BY <1>2, <1>3, <3>1, ToldExited
    <3> QED BY <1>2, <2>1, <3>1, <3>2 DEF GiveUp, TypeOK, Types
  <2>3. connMap'[ro] = seat /\ \A r \in RoomObjs \ {ro} : connMap'[r] = connMap[r]
    BY <1>5, <2>2
  <2>4. \A d \in Others(ro, p) : \E q \in PeerIds \ {p} : d = connMap[ro][q] /\ d # NoConn
    BY DEF Others, Peers, Occupied
  <2>5. CASE \A n \in RoomNames : rooms[n] # ro
    <3>1. \A n \in RoomNames : rooms[n] # NoRoom =>
            connMap'[rooms[n]] = connMap[rooms[n]] /\ session'[rooms[n]] = session[rooms[n]]
      BY <1>5, <2>2, <2>3, <2>5
    <3>2. ASSUME NEW d \in Conns, Registered(d) PROVE told'[d] = told[d]
      <4>1. PICK m \in RoomNames, q \in PeerIds : rooms[m] # NoRoom /\ connMap[rooms[m]][q] = d
        BY <3>2, RegisteredSeat
      <4>2. d \notin Others(ro, p)
        BY <1>2, <1>5, <2>4, <2>5, <4>1 DEF SingleSeat
      <4> QED BY <2>2, <4>2
    <3> QED BY <1>2, <1>3, <1>4, <3>1, <3>2, QuietStep
  <2>6. ASSUME NEW n \in RoomNames, rooms[n] = ro PROVE DirStep
    <3>1. \A m \in RoomNames \ {n} : rooms[m] # ro
      BY <1>2, <1>5, <2>6 DEF RoomsWellNamed
    <3>2. SeatsOf(n) = connMap[ro] /\ SeatsOf(n)' = seat
      BY <1>3, <1>5, <2>3, <2>6 DEF SeatsOf
    <3>3. \A m \in RoomNames : SeatsOf(m)' = IF m = n THEN [SeatsOf(n) EXCEPT ![p] = NoConn] ELSE SeatsOf(m)
      BY <1>3, <1>5, <2>1, <2>3, <3>1, <3>2 DEF SeatsOf
    <3>4. Status(c) = "leaving" /\ \A d \in Conns : Status(d)' = Status(d)
      BY <1>2, <1>3 DEF Status, Leaving, TypeOK, Types
    <3>5. {SeatsOf(n)[q] : q \in Occupied(SeatsOf(n)) \ {p}} = Others(ro, p)
      BY <3>2 DEF Others, Peers
    <3>6. \A q \in PeerIds : seat[q] = IF q = p THEN NoConn ELSE connMap[ro][q]
      BY <1>5, <2>1
    <3>7. \A d \in Conns : Knows(d)' = IF d = c THEN {}
                                      ELSE IF d \in Others(ro, p) THEN Knows(d) \ {p}
                                      ELSE Knows(d)
      <4> TAKE d \in Conns
      <4>1. Registered(d)' <=> \E m \in RoomNames, q \in PeerIds : SeatsOf(m)'[q] = d
        BY DEF Registered
      <4>2. CASE d = c
        <5>1. \A r \in RoomObjs, q \in PeerIds : connMap[r][q] = c => r = ro /\ q = p
          BY <1>2, <1>5, <1>7 DEF SingleSeat
        <5>2. ~Registered(d)'
          <6> SUFFICES ASSUME NEW m \in RoomNames, NEW q \in PeerIds, SeatsOf(m)'[q] = c PROVE FALSE
            BY <4>1, <4>2
          <6>1. m = n
            BY <1>5, <3>1, <3>3, <5>1 DEF SeatsOf, Vacant
          <6> QED BY <1>5, <3>2, <3>6, <5>1, <6>1
        <5> QED BY <4>2, <5>2 DEF Knows
      <4>3. CASE d # c /\ d \in Others(ro, p)
        <5>1. PICK q \in PeerIds \ {p} : d = connMap[ro][q]
          BY <2>4, <4>3
        <5>2. Registered(d) /\ Registered(d)'
          BY <3>2, <3>6, <4>1, <5>1 DEF Registered
        <5> QED BY <2>2, <4>3, <5>2 DEF Knows
      <4>4. CASE d # c /\ d \notin Others(ro, p)
        <5>1. \A m \in RoomNames, q \in PeerIds : SeatsOf(m)'[q] = d <=> SeatsOf(m)[q] = d
          BY <1>5, <1>7, <3>2, <3>3, <3>6, <4>4
        <5>2. Registered(d)' <=> Registered(d)
          BY <4>1, <5>1 DEF Registered
        <5> QED BY <2>2, <4>4, <5>2 DEF Knows
      <4> QED BY <4>2, <4>3, <4>4
    <3>8. \A m \in RoomNames : Convened(m)' <=>
            IF m = n THEN Cardinality(Occupied(SeatsOf(n)) \ {p}) >= 2 ELSE Convened(m)
      <4>1. Coherent(ro)' /\ Peers(ro)' = Occupied(seat)
        BY <1>3, <2>3 DEF Inv, RoomCoherent, Peers
      <4>2. Occupied(seat) = Occupied(SeatsOf(n)) \ {p}
        BY <3>2, <3>6 DEF Occupied
      <4>3. Convened(n)' <=> Cardinality(Occupied(SeatsOf(n)) \ {p}) >= 2
        BY <1>3, <1>5, <2>6, <4>1, <4>2 DEF Convened, Coherent
      <4>4. ASSUME NEW m \in RoomNames \ {n} PROVE Convened(m)' <=> Convened(m)
        BY <1>3, <1>5, <2>2, <3>1 DEF Convened
      <4> QED BY <4>3, <4>4
    <3>9. SeatsOf(n)[p] = c
      BY <1>7, <3>2
    <3> QED BY <3>3, <3>4, <3>5, <3>7, <3>8, <3>9, Dismissing
  <2> QED BY <2>5, <2>6
<1> QED BY <1>6, <1>7

LEMMA TidyingImplements ==
    ASSUME Inv, NEW c \in Conns,
           DeletePeerRow(c) \/ CheckEmpty(c) \/ DeleteRoom(c) \/ DeleteRoomRow(c)
    PROVE  DirStep
<1>1. TypeOK /\ Unseated(c)
  <2>1. pc[c] \notin {"ready", "joinOk", "exit"}
    BY DEF DeletePeerRow, CheckEmpty, DeleteRoom, DeleteRoomRow
  <2> QED BY <2>1, NoSeat DEF Inv, SeatInv
<1>2. ~Registered(c)
  BY <1>1, UnseatedUnknown
<1>3. CASE DeletePeerRow(c)
  BY <1>1, <1>3, QuietStep, ToldStays DEF DeletePeerRow, Goto, roomVars
<1>4. CASE CheckEmpty(c)
  <2>1. rooms' = rooms /\ Release(c)
    BY <1>4 DEF CheckEmpty
  <2>2. \A n \in RoomNames : rooms[n] # NoRoom =>
          connMap'[rooms[n]] = connMap[rooms[n]] /\ session'[rooms[n]] = session[rooms[n]]
    BY <1>1, <2>1, ReleaseUnseen
  <2>3. PICK s : pc' = [pc EXCEPT ![c] = s]
    BY <1>4 DEF CheckEmpty, Goto, Finish
  <2>4. \A d \in Conns : Registered(d) => told'[d] = told[d]
    BY <1>1, <1>2, <1>4, ToldInLeave DEF told
  <2> QED BY <1>1, <2>1, <2>2, <2>3, <2>4, QuietStep
<1>5. CASE DeleteRoom(c)
  <2>1. /\ pc[c] = "drop" /\ pc' = [pc EXCEPT ![c] = "unroom"] /\ told' = told
        /\ connMap' = connMap /\ session' = session /\ rooms[me[c].room] \notin wedged
        /\ rooms' = IF rooms[me[c].room] # NoRoom /\ Peers(rooms[me[c].room]) = {}
                    THEN [rooms EXCEPT ![me[c].room] = NoRoom] ELSE rooms
    BY <1>1, <1>5, ToldStays DEF DeleteRoom, Goto
  <2>2. ASSUME NEW n \in RoomNames, rooms'[n] # rooms[n]
        PROVE  /\ rooms'[n] = NoRoom /\ rooms[n] # NoRoom
               /\ session[rooms[n]] = {} /\ connMap[rooms[n]] = Vacant
    <3>1. /\ rooms'[n] = NoRoom /\ rooms[n] \in RoomObjs \ wedged /\ Peers(rooms[n]) = {}
          /\ rooms[n] # NoRoom
      BY <1>1, <2>1, <2>2 DEF TypeOK, Types
    <3> QED BY <3>1, EmptyRoom
  <2>3. \A n \in RoomNames : SeatsOf(n)' = SeatsOf(n) /\ (Convened(n)' <=> Convened(n))
    <3> TAKE n \in RoomNames
    <3>1. CASE rooms'[n] = rooms[n]
      BY <2>1, <3>1 DEF SeatsOf, Convened
    <3>2. CASE rooms'[n] # rooms[n]
      BY <2>2, <3>2 DEF SeatsOf, Convened
    <3> QED BY <3>1, <3>2
  <2>4. \A d \in Conns \ {c} : Status(d)' = Status(d)
    BY <1>1, <2>1 DEF Status, TypeOK, Types
  <2> QED BY <1>2, <2>1, <2>3, <2>4, MovesOnly DEF DirStep
<1>6. CASE DeleteRoomRow(c)
  <2>1. /\ rooms' = rooms /\ connMap' = connMap /\ session' = session
        /\ pc' = [pc EXCEPT ![c] = after[c]]
    BY <1>6 DEF DeleteRoomRow, Finish, roomVars
  <2>2. \A d \in Conns : Registered(d) => told'[d] = told[d]
    BY <1>1, <1>2, <1>6, ToldInLeave DEF told
  <2> QED BY <1>1, <2>1, <2>2, QuietStep
<1> QED BY <1>3, <1>4, <1>5, <1>6

LEMMA RestartImplements ==
    ASSUME NEW kept \in SUBSET Rows, Restart(kept)
    PROVE  DirStep
<1>1. \A c \in Conns : Status(c)' = "off"
  BY DEF Restart, Status
<1>2. \A n \in RoomNames : SeatsOf(n)' = Vacant /\ ~Convened(n)'
  BY DEF Restart, SeatsOf, Convened
<1>3. \A c \in Conns : Knows(c)' = {}
  BY DEF Restart, Knows, told
<1>4. Directory!CloseDown
  BY <1>1, <1>2, <1>3 DEF Directory!CloseDown, Directory!NoMembers, Vacant, Status, Knows, Convened
<1> QED BY <1>4 DEF DirStep, Directory!DirNext

LEMMA StutterImplements == UNCHANGED vars => DirStep
BY DEF vars, roomVars, connVars, listVars, DirStep, Directory!dirVars, SeatsOf, Registered, told

\* The registry implements the directory, for any number of connections, peers and rooms
\* and with restarts: whatever the goroutines of join, leave and deleteRoom do to rooms,
\* between any two of their statements, is one whole step of the directory or none.
THEOREM RegistryImplementsDirectory == MaxJoins <= 1 => (Spec => ImplementsDirectory)
<1> SUFFICES ASSUME MaxJoins <= 1 PROVE Spec => ImplementsDirectory
  OBVIOUS
<1>1. Inv /\ Inv' /\ [Next]_vars => DirStep
  <2> SUFFICES ASSUME Inv, Inv', [Next]_vars PROVE DirStep
    OBVIOUS
  <2>1. ASSUME NEW c \in Conns, Step(c) PROVE DirStep
    BY <2>1, ReadingImplements, JoiningImplements, CreatingImplements, EnteringImplements,
       AnsweringImplements, ExitingImplements, TidyingImplements DEF Step
  <2>2. ASSUME NEW c \in Conns, Connect(c) \/ ReadLeave(c) \/ ReadError(c)
                               \/ \E m \in Request : ReadJoin(c, m)
        PROVE  DirStep
    BY <2>2, ReadingImplements
  <2> QED BY <2>1, <2>2, RestartImplements, StutterImplements DEF Next
<1>2. Spec => []Inv
  BY SeatsInvariant, RoomsCoherent, PTL DEF Inv
<1> QED BY <1>1, <1>2, StartsEmpty, PTL DEF Spec, ImplementsDirectory, Directory!DirSpec, DirStep
=============================================================================
