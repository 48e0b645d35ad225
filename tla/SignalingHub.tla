---------------------------- MODULE SignalingHub ----------------------------
(***************************************************************************)
(* The room registry of the relay server, signaling-server/main.go.        *)
(*                                                                         *)
(* Every WebSocket connection runs one readPump goroutine, which handles   *)
(* the client's messages one after the other.  join and leave are not      *)
(* atomic: they run SQL statements, look rooms up under h.mu and mutate a  *)
(* room under its own r.mu, with nothing held in between.  Each action     *)
(* below is one such statement or critical section, so two goroutines      *)
(* interleave here wherever they can in the server.                        *)
(*                                                                         *)
(* A connection's send queue is FIFO.  Of what it carries, the list in     *)
(* join_ok and the notifications behind it are represented by what they    *)
(* amount to (view), and the notifications that overtake join_ok, which is *)
(* queued after the room is unlocked, by what they say (came, went).       *)
(***************************************************************************)
EXTENDS Naturals, FiniteSets, FiniteSetsExt

CONSTANTS
    Conns,          \* connections; a closed one may stand for a later one
    PeerIds,        \* peer ids the clients use
    RoomNames,      \* names of rooms
    RoomObjs,       \* addresses of *room values
    Passwords,      \* what a join message may carry as password
    NoPassword,     \* the empty password
    StreamCounts,   \* stream counts a join message may declare
    Capacity,       \* roomCapacity, 32 in the code
    MaxJoins,       \* join messages a client sends on one connection
    MayRestart,     \* whether the server process may die and restart
    NoConn, NoRoom, NoRow, NoRequest, Nobody

ASSUME HubAssumption ==
    /\ NoConn \notin Conns
    /\ NoRoom \notin RoomObjs
    /\ NoRow \notin Passwords
    /\ NoPassword \in Passwords
    /\ StreamCounts \subseteq Nat \ {0}
    /\ Capacity \in Nat
    /\ MaxJoins \in Nat
    /\ MayRestart \in BOOLEAN
    /\ IsFiniteSet(PeerIds)

Identity == [room : RoomNames, peer : PeerIds]

ASSUME NobodyAssumption == Nobody \notin Identity

Request == [room : RoomNames, peer : PeerIds,
            password : Passwords, streams : StreamCounts]

ASSUME NoRequestAssumption == NoRequest \notin Request

VARIABLES
    rooms,      \* h.rooms: the room object filed under each name
    connMap,    \* r.connMap of each room object
    snap,       \* r.conns: the copy-on-write snapshot of connMap
    session,    \* r.activeSession: its Peers, {} when there is none
    wedged,     \* the room objects whose r.mu a panic has left locked for good
    peerRows,   \* table peers: stream_count of each row, 0 when there is none
    roomRows,   \* table rooms: the password of each row, or NoRow
    pc,         \* where each connection's goroutine is
    after,      \* what the goroutine does once leave returns
    me,         \* readPump's locals room and peerID
    req,        \* the join message being handled
    known,      \* join's local roomExists
    ref,        \* the local r of join and leave
    open,       \* whether c.send is still open
    joins,      \* join messages received on this connection
    list,       \* join's local peers, from the critical section until it is queued
    view,       \* roster by the list queued for the client and what is queued behind
    came, went  \* the peers whose last notification is ahead of join_ok: what it said

dbVars   == <<peerRows, roomRows>>
roomVars == <<rooms, connMap, snap, session, wedged>>
connVars == <<after, me, req, known, open, joins>>
listVars == <<list, view, came, went>>
vars == <<roomVars, dbVars, pc, ref, connVars, listVars>>

Joining  == {"auth", "slots", "insert", "upsert", "lookup", "enter"}
Leaving  == {"exit", "unrow", "sweep", "drop", "unroom"}
Handling == {"enter", "joinOk", "exit", "unrow", "sweep"}

----------------------------------------------------------------------------
Vacant == [p \in PeerIds |-> NoConn]
\* The keys of connMap.
Occupied(seats) == {p \in PeerIds : seats[p] # NoConn}
Peers(ro) == Occupied(connMap[ro])

\* SELECT COALESCE(SUM(stream_count), 0) FROM peers WHERE room = n
UsedSlots(n) == MapThenSumSet(LAMBDA p : peerRows[n][p], PeerIds)

Rows == {r \in RoomNames \X PeerIds : peerRows[r[1]][r[2]] # 0}

\* A room object some goroutine can still reach, in the registry or by a local.
Reachable(ro) == \/ \E n \in RoomNames : rooms[n] = ro
                 \/ \E c \in Conns : ref[c] = ro
SeatedIn(c, ro) == \E p \in PeerIds : connMap[ro][p] = c

\* c's goroutine lets go of its local r.  A detached room that nothing points
\* to any more is garbage, and its address may come back as a new room.
LastHold(c) == /\ \A n \in RoomNames : rooms[n] # ref[c]
               /\ \A d \in Conns \ {c} : ref[d] # ref[c]
Wipe(ro) == /\ connMap' = [connMap EXCEPT ![ro] = Vacant]
            /\ snap' = [snap EXCEPT ![ro] = Vacant]
            /\ session' = [session EXCEPT ![ro] = {}]
            /\ wedged' = wedged \ {ro}
Release(c) == IF LastHold(c) THEN Wipe(ref[c])
              ELSE UNCHANGED <<connMap, snap, session, wedged>>

\* What readPump does when leave is behind it: go on to join (which overwrites
\* the locals room and peerID only when it returns), clear them and read the next
\* message, or let the deferred close end the connection.  Variables with no
\* further use go back to their initial value.
Finish(c, then) ==
    /\ me' = [me EXCEPT ![c] = IF then = "auth" THEN @ ELSE Nobody]
    /\ ref' = [ref EXCEPT ![c] = NoRoom]
    /\ pc' = [pc EXCEPT ![c] = then]
    /\ after' = [after EXCEPT ![c] = "idle"]
    /\ open' = [open EXCEPT ![c] = @ /\ then # "idle"]
    /\ view' = [view EXCEPT ![c] = {}]
    /\ came' = [came EXCEPT ![c] = {}] /\ went' = [went EXCEPT ![c] = {}]
    /\ UNCHANGED <<known, list>>

Goto(c, label) == pc' = [pc EXCEPT ![c] = label]

----------------------------------------------------------------------------
(* readPump: the connection and the messages it reads.                     *)

\* handleWS: upgrade, make the send channel, start the pumps.  A connection
\* id is taken again only when no reachable room still points at it.
Connect(c) ==
    /\ pc[c] = "idle"
    /\ \A ro \in RoomObjs : Reachable(ro) => ~SeatedIn(c, ro)
    /\ Goto(c, "ready")
    /\ open' = [open EXCEPT ![c] = TRUE]
    /\ UNCHANGED <<roomVars, dbVars, ref, after, me, req, known, joins, listVars>>

\* A leave that takes whatever getRoom returns.
StartLeaveUnchecked(c, then) ==
    /\ IF me[c] = Nobody
       THEN Finish(c, then)
       ELSE /\ ref' = [ref EXCEPT ![c] = rooms[me[c].room]]
            /\ after' = [after EXCEPT ![c] = then]
            /\ Goto(c, "exit")
            /\ UNCHANGED <<me, known, open, listVars>>
    /\ UNCHANGED <<roomVars, dbVars>>

\* The head of h.leave: with no room, or with a room that is no longer
\* registered, it is over at once and no row is deleted.
StartLeave(c, then) ==
    /\ IF me[c] = Nobody \/ rooms[me[c].room] = NoRoom
       THEN Finish(c, then)
       ELSE /\ ref' = [ref EXCEPT ![c] = rooms[me[c].room]]
            /\ after' = [after EXCEPT ![c] = then]
            /\ Goto(c, "exit")
            /\ UNCHANGED <<me, known, open, listVars>>
    /\ UNCHANGED <<roomVars, dbVars>>

ReadJoin(c, m) ==
    /\ pc[c] = "ready"
    /\ joins[c] < MaxJoins
    /\ joins' = [joins EXCEPT ![c] = @ + 1]
    /\ req' = [req EXCEPT ![c] = m]
    /\ StartLeave(c, "auth")

ReadLeave(c) ==
    /\ pc[c] = "ready"
    /\ StartLeave(c, "ready")
    /\ UNCHANGED <<req, joins>>

\* A writePump that leaves the socket of an evicted connection open.
ReadErrorIfOpen(c) ==
    /\ pc[c] = "ready"
    /\ open[c]
    /\ joins' = [joins EXCEPT ![c] = 0]
    /\ StartLeave(c, "idle")
    /\ UNCHANGED req

\* ReadMessage fails: the client is gone, the pong deadline passed, the rate
\* limiter gave up, or writePump closed the socket after an eviction.
ReadError(c) ==
    /\ pc[c] = "ready"
    /\ joins' = [joins EXCEPT ![c] = 0]
    /\ StartLeave(c, "idle")
    /\ UNCHANGED req

----------------------------------------------------------------------------
(* hub.join                                                                *)

\* A join_error makes join return "", so the locals are cleared.
Refuse(c) ==
    /\ Goto(c, "ready")
    /\ me' = [me EXCEPT ![c] = Nobody]
    /\ req' = [req EXCEPT ![c] = NoRequest]
    /\ known' = [known EXCEPT ![c] = FALSE]

CheckPassword(c) ==
    LET stored == roomRows[req[c].room] IN
    /\ pc[c] = "auth"
    /\ IF stored \in {NoRow, NoPassword, req[c].password}
       THEN /\ known' = [known EXCEPT ![c] = stored # NoRow]
            /\ Goto(c, "slots")
            /\ UNCHANGED <<me, req>>
       ELSE Refuse(c)
    /\ UNCHANGED <<roomVars, dbVars, ref, after, open, joins, listVars>>

CheckCapacity(c) ==
    /\ pc[c] = "slots"
    /\ IF UsedSlots(req[c].room) + req[c].streams > Capacity
       THEN Refuse(c)
       ELSE /\ Goto(c, IF known[c] THEN "upsert" ELSE "insert")
            /\ known' = [known EXCEPT ![c] = FALSE]
            /\ UNCHANGED <<me, req>>
    /\ UNCHANGED <<roomVars, dbVars, ref, after, open, joins, listVars>>

\* INSERT OR IGNORE INTO rooms
InsertRoomRow(c) ==
    /\ pc[c] = "insert"
    /\ roomRows' = [roomRows EXCEPT ![req[c].room] =
                       IF @ = NoRow THEN req[c].password ELSE @]
    /\ Goto(c, "upsert")
    /\ UNCHANGED <<roomVars, peerRows, ref, connVars, listVars>>

\* INSERT INTO peers ... ON CONFLICT DO UPDATE
UpsertPeerRow(c) ==
    /\ pc[c] = "upsert"
    /\ peerRows' = [peerRows EXCEPT ![req[c].room][req[c].peer] = req[c].streams]
    /\ Goto(c, "lookup")
    /\ UNCHANGED <<roomVars, roomRows, ref, connVars, listVars>>

\* getOrCreateRoom: the registered object, or a new one that is registered.
LookupRoom(c) ==
    /\ pc[c] = "lookup"
    /\ rooms[req[c].room] # NoRoom
    /\ ref' = [ref EXCEPT ![c] = rooms[req[c].room]]
    /\ Goto(c, "enter")
    /\ UNCHANGED <<roomVars, dbVars, connVars, listVars>>

CreateRoom(c, ro) ==
    /\ pc[c] = "lookup"
    /\ rooms[req[c].room] = NoRoom
    /\ ~Reachable(ro)
    /\ rooms' = [rooms EXCEPT ![req[c].room] = ro]
    /\ ref' = [ref EXCEPT ![c] = ro]
    /\ Goto(c, "enter")
    /\ UNCHANGED <<connMap, snap, session, wedged, dbVars, connVars, listVars>>

\* The critical section of join: evict the connection that held the peer id,
\* tell the others, take the seat, rebuild the snapshot, start or extend the
\* session, and note whom to list in join_ok.
\* A list taken before the eviction.
ListedWithOld(c) == Peers(ref[c])
Listed(c) == Peers(ref[c]) \ {req[c].peer}
Evicted(c) == {connMap[ref[c]][req[c].peer]} \ {NoConn, c}
Others(ro, p) == {connMap[ro][q] : q \in Peers(ro) \ {p}}
Seat(c) == [connMap[ref[c]] EXCEPT ![req[c].peer] = c]

\* Of the connections S, those whose join_ok is still to be queued: what is queued for
\* them now comes first.
Unanswered(S) == {d \in S : pc[d] = "joinOk"}
Plus(f, S, p)  == [d \in Conns |-> IF d \in S THEN f[d] \cup {p} ELSE f[d]]
Minus(f, S, p) == [d \in Conns |-> IF d \in S THEN f[d] \ {p} ELSE f[d]]

EnterRoom(c) ==
    LET ro == ref[c]
        p  == req[c].peer
        present == Occupied(Seat(c))
        near  == Others(ro, p)
        early == Unanswered(near)
    IN
    /\ pc[c] = "enter"
    /\ ro \notin wedged
    /\ \A d \in Evicted(c) : open[d]
    /\ connMap' = [connMap EXCEPT ![ro] = Seat(c)]
    /\ snap' = [snap EXCEPT ![ro] = Seat(c)]
    /\ open' = [d \in Conns |-> open[d] /\ d \notin Evicted(c)]
    /\ session' = [session EXCEPT ![ro] =
                     IF Cardinality(present) < 2 THEN @
                     ELSE IF @ = {} THEN present ELSE @ \cup {p}]
    /\ list' = [list EXCEPT ![c] = Listed(c)]
    /\ view' = [Plus(view, near \ early, p) EXCEPT ![c] = {}]
    /\ came' = [Plus(Minus(came, near, p), early, p) EXCEPT ![c] = {}]
    /\ went' = [Minus(went, near, p) EXCEPT ![c] = {}]
    /\ Goto(c, "joinOk")
    /\ UNCHANGED <<rooms, wedged, dbVars, ref, after, me, req, known, joins>>

\* Closing a queue that is closed already panics, with r.mu locked and the old
\* entry deleted from the map only.  The unwinding goroutine runs the deferred
\* leave with the locals it had before the join.
EnterPanics(c) ==
    LET ro == ref[c] IN
    /\ pc[c] = "enter"
    /\ ro \notin wedged
    /\ \E d \in Evicted(c) : ~open[d]
    /\ IF LastHold(c) THEN Wipe(ro)
       ELSE /\ connMap' = [connMap EXCEPT ![ro][req[c].peer] = NoConn]
            /\ wedged' = wedged \cup {ro}
            /\ UNCHANGED <<snap, session>>
    /\ Goto(c, "panic")
    /\ ref' = [ref EXCEPT ![c] = NoRoom]
    /\ req' = [req EXCEPT ![c] = NoRequest]
    /\ UNCHANGED <<rooms, dbVars, after, me, known, open, joins, listVars>>

Unwind(c) ==
    /\ pc[c] = "panic"
    /\ joins' = [joins EXCEPT ![c] = 0]
    /\ StartLeave(c, "idle")
    /\ UNCHANGED req

\* join_ok is queued after the room is unlocked, with the list that was noted while
\* it was locked.
SendJoinOk(c) ==
    /\ pc[c] = "joinOk"
    /\ me' = [me EXCEPT ![c] = [room |-> req[c].room, peer |-> req[c].peer]]
    /\ req' = [req EXCEPT ![c] = NoRequest]
    /\ ref' = [ref EXCEPT ![c] = NoRoom]
    /\ Release(c)
    /\ Goto(c, "ready")
    /\ view' = [view EXCEPT ![c] = list[c]]
    /\ list' = [list EXCEPT ![c] = {}]
    /\ UNCHANGED <<rooms, dbVars, after, known, open, joins, came, went>>

----------------------------------------------------------------------------
(* hub.leave, from its first critical section on                           *)

\* A session that ends when the last peer leaves, not the last but one.
SessionAfterOff(ro, seats) ==
    IF Occupied(seats) = {} THEN {} ELSE session[ro]
SessionAfter(ro, seats) ==
    IF Cardinality(Occupied(seats)) < 2 THEN {} ELSE session[ro]

\* A leave that forgets delete(r.connMap, peerID).
ExitRoomStays(c) ==
    /\ pc[c] = "exit"
    /\ Goto(c, "unrow")
    /\ UNCHANGED <<roomVars, dbVars, ref, connVars, listVars>>

\* The seat is given up, the others are told, the session may end.  Archiving
\* the ended session comes after the unlock and touches nothing modelled here.
GiveUp(ro, p) ==
    LET left == [connMap[ro] EXCEPT ![p] = NoConn]
        rest == Others(ro, p)
        early == Unanswered(rest)
    IN
    /\ connMap' = [connMap EXCEPT ![ro] = left]
    /\ snap' = [snap EXCEPT ![ro] = left]
    /\ session' = [session EXCEPT ![ro] = SessionAfter(ro, left)]
    /\ view' = Minus(view, rest \ early, p)
    /\ came' = Minus(came, rest, p)
    /\ went' = Plus(Minus(went, rest, p), early, p)
    /\ UNCHANGED list

\* The critical section of leave; a connection that was evicted holds no seat.
ExitRoom(c) ==
    /\ pc[c] = "exit"
    /\ ref[c] \notin wedged
    /\ IF connMap[ref[c]][me[c].peer] = c
       THEN GiveUp(ref[c], me[c].peer)
       ELSE UNCHANGED <<connMap, snap, session, listVars>>
    /\ Goto(c, "unrow")
    /\ UNCHANGED <<rooms, wedged, dbVars, ref, connVars>>

\* DELETE FROM peers WHERE room = ? AND peer_id = ?
DeletePeerRow(c) ==
    /\ pc[c] = "unrow"
    /\ peerRows' = [peerRows EXCEPT ![me[c].room][me[c].peer] = 0]
    /\ Goto(c, "sweep")
    /\ UNCHANGED <<roomVars, roomRows, ref, connVars, listVars>>

\* An emptiness check made only when the connection closes.
CheckEmptyOnClose(c) ==
    /\ pc[c] = "sweep"
    /\ ref[c] \notin wedged
    /\ IF Peers(ref[c]) = {} /\ after[c] = "idle"
       THEN /\ Goto(c, "drop")
            /\ ref' = [ref EXCEPT ![c] = NoRoom]
            /\ UNCHANGED <<me, after, open, known, listVars>>
       ELSE Finish(c, after[c])
    /\ Release(c)
    /\ UNCHANGED <<rooms, dbVars, req, joins>>

\* The second critical section of leave: is the room empty now?
CheckEmpty(c) ==
    /\ pc[c] = "sweep"
    /\ ref[c] \notin wedged
    /\ IF Peers(ref[c]) = {}
       THEN /\ Goto(c, "drop")
            /\ ref' = [ref EXCEPT ![c] = NoRoom]
            /\ UNCHANGED <<me, after, open, known, listVars>>
       ELSE Finish(c, after[c])
    /\ Release(c)
    /\ UNCHANGED <<rooms, dbVars, req, joins>>

\* A deleteRoom that trusts the caller's check.
DeleteRoomBlindly(c) ==
    /\ pc[c] = "drop"
    /\ rooms' = [rooms EXCEPT ![me[c].room] = NoRoom]
    /\ Goto(c, "unroom")
    /\ UNCHANGED <<connMap, snap, session, wedged, dbVars, ref, connVars, listVars>>

\* deleteRoom looks the name up again and checks again, under h.mu and r.mu.  A
\* wedged room blocks it for ever, holding h.mu; whoever may still run then runs
\* here as if it had been scheduled before.
DeleteRoom(c) ==
    LET n == me[c].room IN
    /\ pc[c] = "drop"
    /\ rooms[n] \notin wedged
    /\ rooms' = IF rooms[n] # NoRoom /\ Peers(rooms[n]) = {}
                THEN [rooms EXCEPT ![n] = NoRoom] ELSE rooms
    /\ Goto(c, "unroom")
    /\ UNCHANGED <<connMap, snap, session, wedged, dbVars, ref, connVars, listVars>>

\* DELETE FROM rooms WHERE room = ?
DeleteRoomRow(c) ==
    /\ pc[c] = "unroom"
    /\ roomRows' = [roomRows EXCEPT ![me[c].room] = NoRow]
    /\ Finish(c, after[c])
    /\ UNCHANGED <<roomVars, peerRows, req, joins>>

----------------------------------------------------------------------------
\* The process dies and starts again.  openDB deletes the peers rows that are
\* more than stalePeerSec old (any of them may be, or not) and then the rooms
\* rows that no peers row names.
Restart(kept) ==
    /\ MayRestart
    /\ peerRows' = [n \in RoomNames |-> [p \in PeerIds |->
                      IF <<n, p>> \in kept THEN peerRows[n][p] ELSE 0]]
    /\ roomRows' = [n \in RoomNames |->
                      IF \E p \in PeerIds : peerRows'[n][p] # 0
                      THEN roomRows[n] ELSE NoRow]
    /\ rooms' = [n \in RoomNames |-> NoRoom]
    /\ connMap' = [ro \in RoomObjs |-> Vacant]
    /\ snap' = [ro \in RoomObjs |-> Vacant]
    /\ session' = [ro \in RoomObjs |-> {}]
    /\ wedged' = {}
    /\ pc' = [c \in Conns |-> "idle"]
    /\ me' = [c \in Conns |-> Nobody]
    /\ ref' = [c \in Conns |-> NoRoom]
    /\ after' = [c \in Conns |-> "idle"]
    /\ req' = [c \in Conns |-> NoRequest]
    /\ known' = [c \in Conns |-> FALSE]
    /\ open' = [c \in Conns |-> FALSE]
    /\ joins' = [c \in Conns |-> 0]
    /\ list' = [c \in Conns |-> {}]
    /\ view' = [c \in Conns |-> {}]
    /\ came' = [c \in Conns |-> {}] /\ went' = [c \in Conns |-> {}]

Init ==
    /\ rooms = [n \in RoomNames |-> NoRoom]
    /\ connMap = [ro \in RoomObjs |-> Vacant]
    /\ snap = [ro \in RoomObjs |-> Vacant]
    /\ session = [ro \in RoomObjs |-> {}]
    /\ wedged = {}
    /\ peerRows = [n \in RoomNames |-> [p \in PeerIds |-> 0]]
    /\ roomRows = [n \in RoomNames |-> NoRow]
    /\ pc = [c \in Conns |-> "idle"]
    /\ after = [c \in Conns |-> "idle"]
    /\ me = [c \in Conns |-> Nobody]
    /\ req = [c \in Conns |-> NoRequest]
    /\ known = [c \in Conns |-> FALSE]
    /\ ref = [c \in Conns |-> NoRoom]
    /\ open = [c \in Conns |-> FALSE]
    /\ joins = [c \in Conns |-> 0]
    /\ list = [c \in Conns |-> {}]
    /\ view = [c \in Conns |-> {}]
    /\ came = [c \in Conns |-> {}] /\ went = [c \in Conns |-> {}]

\* The steps a goroutine takes by itself once it has a message in hand.
Step(c) ==
    \/ CheckPassword(c) \/ CheckCapacity(c) \/ InsertRoomRow(c)
    \/ UpsertPeerRow(c) \/ LookupRoom(c)
    \/ \E ro \in RoomObjs : CreateRoom(c, ro)
    \/ EnterRoom(c) \/ SendJoinOk(c) \/ EnterPanics(c) \/ Unwind(c)
    \/ ExitRoom(c) \/ DeletePeerRow(c)
    \/ CheckEmpty(c) \/ DeleteRoom(c) \/ DeleteRoomRow(c)

Next ==
    \/ \E c \in Conns :
         \/ Connect(c) \/ ReadLeave(c) \/ ReadError(c) \/ Step(c)
         \/ \E m \in Request : ReadJoin(c, m)
    \/ \E kept \in SUBSET Rows : Restart(kept)

Spec == Init /\ [][Next]_vars

----------------------------------------------------------------------------
(* Type correctness.                                                       *)

Types ==
    /\ rooms \in [RoomNames -> RoomObjs \cup {NoRoom}]
    /\ connMap \in [RoomObjs -> [PeerIds -> Conns \cup {NoConn}]]
    /\ snap \in [RoomObjs -> [PeerIds -> Conns \cup {NoConn}]]
    /\ session \in [RoomObjs -> SUBSET PeerIds]
    /\ wedged \subseteq RoomObjs
    /\ peerRows \in [RoomNames -> [PeerIds -> StreamCounts \cup {0}]]
    /\ roomRows \in [RoomNames -> Passwords \cup {NoRow}]
    /\ pc \in [Conns -> {"idle", "ready", "joinOk", "panic"} \cup Joining \cup Leaving]
    /\ after \in [Conns -> {"idle", "ready", "auth"}]
    /\ me \in [Conns -> Identity \cup {Nobody}]
    /\ req \in [Conns -> Request \cup {NoRequest}]
    /\ known \in [Conns -> BOOLEAN]
    /\ ref \in [Conns -> RoomObjs \cup {NoRoom}]
    /\ open \in [Conns -> BOOLEAN]
    /\ joins \in [Conns -> 0 .. MaxJoins]
    /\ list \in [Conns -> SUBSET PeerIds]
    /\ view \in [Conns -> SUBSET PeerIds]
    /\ came \in [Conns -> SUBSET PeerIds]
    /\ went \in [Conns -> SUBSET PeerIds]

\* The locals of c's goroutine are set exactly while the code ahead may use them.
LocalsOf(c) ==
    /\ ref[c] # NoRoom <=> pc[c] \in Handling
    /\ pc[c] \in Joining \cup {"joinOk"} => req[c] \in Request
    /\ pc[c] \in Leaving => /\ me[c] \in Identity
                            /\ after[c] = "auth" => req[c] \in Request

TypeOK == Types /\ \A c \in Conns : LocalsOf(c)

----------------------------------------------------------------------------
(* Safety.                                                                 *)

\* The goroutine of c is one that will vacate the seat of peer p in ro, the
\* room registered as n: it is about to answer join_ok for that seat, or its
\* locals name it and leave has not passed its critical section.
WillVacate(c, n, p) ==
    \/ /\ pc[c] = "joinOk"
       /\ ref[c] = rooms[n]
       /\ req[c].room = n /\ req[c].peer = p
    \/ /\ me[c] = [room |-> n, peer |-> p]
       /\ pc[c] = "ready" \/ (pc[c] = "exit" /\ ref[c] = rooms[n])

\* No ghost members: whoever sits in a registered room has a live goroutine
\* that will take it out of that very seat, and an open send queue.
SeatsHaveHandlers ==
    \A n \in RoomNames, p \in PeerIds :
        rooms[n] # NoRoom =>
            LET c == connMap[rooms[n]][p] IN
            c # NoConn => WillVacate(c, n, p) /\ open[c]

\* No panic ever locks a registered room for good: when join evicts a connection
\* from one, that connection's queue has not been closed before.
RegistryUsable == \A n \in RoomNames : rooms[n] \notin wedged

\* Whom the queue of each connection says to be in its room: the list, queued or about
\* to be, with what is queued behind it, corrected by the notifications that went ahead of
\* it and that no later one overrides.
told == [c \in Conns |->
           ((IF pc[c] = "joinOk" THEN list[c] ELSE view[c]) \cup came[c]) \ went[c]]

\* Each member of a registered room is sent exactly who the others are, in the list or in
\* a notification: what a client makes of them is wrong only about peers whose
\* notification overtook its join_ok, the ones it discards (wail-app) or fails on (wail-net).
RosterExact ==
    \A n \in RoomNames, p \in PeerIds :
        rooms[n] # NoRoom =>
            LET ro == rooms[n]
                c  == connMap[ro][p]
            IN  c # NoConn => told[c] = Peers(ro) \ {p}

\* The lock-free snapshot is the map, a session runs exactly while two or more
\* peers are present, and it lists all of them; until the room is wedged.
Coherent(ro) ==
    /\ snap[ro] = connMap[ro]
    /\ session[ro] # {} <=> Cardinality(Peers(ro)) >= 2
    /\ session[ro] # {} => Peers(ro) \subseteq session[ro]
RoomCoherent == \A ro \in RoomObjs \ wedged : Coherent(ro)

\* c's goroutine is about to enter the room registered as n, or to look whether
\* it can be deleted.
Attends(c, n) == \/ pc[c] \in {"enter", "unrow", "sweep"} /\ ref[c] = rooms[n]
                 \/ pc[c] = "drop" /\ me[c].room = n

\* An empty registered room is never forgotten: some goroutine will attend to it.
EmptyRoomHasSweeper ==
    \A n \in RoomNames :
        rooms[n] \notin wedged \cup {NoRoom} /\ Peers(rooms[n]) = {} =>
            \E c \in Conns : Attends(c, n)

----------------------------------------------------------------------------
(* Why members and rosters are right: the inductive strengthening, for     *)
(* clients that join once per connection.                                  *)

\* A room object is registered under one name, and whoever holds it during a
\* join or a leave looked it up under that name.
RoomsWellNamed ==
    /\ \A n, m \in RoomNames : rooms[n] = rooms[m] /\ rooms[n] # NoRoom => n = m
    /\ \A c \in Conns, n \in RoomNames :
         ref[c] # NoRoom /\ rooms[n] = ref[c] =>
             n = IF pc[c] \in {"enter", "joinOk"} THEN req[c].room ELSE me[c].room

GarbageIsVacant == \A ro \in RoomObjs : ~Reachable(ro) => connMap[ro] = Vacant

\* A wedged room is not registered, and some goroutine still holds it.
WedgedDetached ==
    \A ro \in wedged : /\ \A n \in RoomNames : rooms[n] # ro
                       /\ \E c \in Conns : ref[c] = ro

\* A connection sits in one place at most, detached rooms included.
SingleSeat ==
    \A r1, r2 \in RoomObjs, p1, p2 \in PeerIds :
        connMap[r1][p1] = connMap[r2][p2] /\ connMap[r1][p1] # NoConn =>
            r1 = r2 /\ p1 = p2

\* The only join message of a connection is the first thing that names it.
JoinedOnce(c) ==
    /\ pc[c] = "idle" => me[c] = Nobody
    /\ pc[c] = "ready" /\ joins[c] = 0 => me[c] = Nobody
    /\ pc[c] \in Joining \cup {"joinOk"} => joins[c] # 0
    /\ pc[c] \in Joining \cup {"panic"} => me[c] = Nobody
    /\ pc[c] \in Leaving => after[c] # "auth" /\ (after[c] = "ready" => joins[c] # 0)
JoinsOnce == \A c \in Conns : JoinedOnce(c)

Newcomer(c) == pc[c] \in Joining \/ (pc[c] = "ready" /\ joins[c] = 0)

NewcomersOutside ==
    \A c \in Conns : Newcomer(c) =>
        open[c] /\ \A ro \in RoomObjs : ~SeatedIn(c, ro)

SeatInv ==
    /\ TypeOK
    /\ RoomsWellNamed
    /\ GarbageIsVacant
    /\ SingleSeat
    /\ JoinsOnce
    /\ NewcomersOutside
    /\ SeatsHaveHandlers
    /\ WedgedDetached
    /\ RosterExact

----------------------------------------------------------------------------
(* The registry implements the directory.                                  *)

SeatsOf(n) == IF rooms[n] = NoRoom THEN Vacant ELSE connMap[rooms[n]]
Registered(c) == \E n \in RoomNames, p \in PeerIds : SeatsOf(n)[p] = c

Directory == INSTANCE RoomDirectory WITH
    status  <- [c \in Conns |-> IF pc[c] = "idle" THEN "off"
                                ELSE IF pc[c] \in Leaving THEN "leaving" ELSE "on"],
    members <- [n \in RoomNames |-> SeatsOf(n)],
    roster  <- [c \in Conns |-> IF Registered(c) THEN told[c] ELSE {}],
    meeting <- {n \in RoomNames : rooms[n] # NoRoom /\ session[rooms[n]] # {}}

\* For clients that join once per connection, what the server's goroutines do
\* to rooms is always one whole step of the directory or no step of it: nobody
\* is seated or dropped without the others being told, nobody loses a seat to
\* the deletion of a room, no session outlives its company.
ImplementsDirectory == Directory!DirSpec

----------------------------------------------------------------------------
(* Progress.  The Go scheduler runs every goroutine that has something to  *)
(* do, and the socket of an evicted connection is closed by its writePump, *)
(* so its next read fails.  Clients need not ever do anything.             *)

Fairness == \A c \in Conns : /\ WF_vars(Step(c))
                             /\ WF_vars(~open[c] /\ ReadError(c))
FairSpec == Spec /\ Fairness

\* An empty registered room is deleted, or somebody enters it.
EmptyRoomReclaimed ==
    \A n \in RoomNames :
        rooms[n] # NoRoom /\ Peers(rooms[n]) = {}
            ~> rooms[n] = NoRoom \/ Peers(rooms[n]) # {}

\* An evicted connection is closed.
EvictedIsClosed == \A c \in Conns : pc[c] = "ready" /\ ~open[c] ~> pc[c] = "idle"

----------------------------------------------------------------------------
(* What the documents say and the code does not do.                        *)

\* networking.md: "`join_ok` | Room joined".  A connection that was answered
\* join_ok, has not left and was not evicted sits in the registered room.
JoinOkMeansSeated ==
    \A c \in Conns :
        pc[c] = "ready" /\ open[c] /\ me[c] # Nobody =>
            SeatsOf(me[c].room)[me[c].peer] = c

\* networking.md: the table peers has "one row per live peer".
LivePeerHasRow ==
    \A n \in RoomNames, p \in PeerIds :
        SeatsOf(n)[p] # NoConn /\ pc[SeatsOf(n)[p]] = "ready" => peerRows[n][p] # 0

\* networking.md: `peer_joined` goes "to all existing peers in the room".  What
\* the client of a seated, answered connection believes about the room is right.
ClientRosterCurrent ==
    \A n \in RoomNames, p \in PeerIds :
        LET c == SeatsOf(n)[p] IN
        c # NoConn /\ pc[c] = "ready" => view[c] = Occupied(SeatsOf(n)) \ {p}
=============================================================================
