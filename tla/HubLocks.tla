------------------------------ MODULE HubLocks ------------------------------
(***************************************************************************)
(* The mutexes of the relay, signaling-server/main.go: h.mu, the r.mu of   *)
(* each room and h.completedMu, taken by the goroutines of clients (join,  *)
(* leave, deleteRoom, archiveSession) and of metrics viewers               *)
(* (snapshotMetrics).  One room name; each client has a peer_id of its     *)
(* own, so that nobody is evicted.                                         *)
(*                                                                         *)
(* A critical section that takes no further lock is one step, enabled when *)
(* its lock is free; the owner of a lock is a variable only where a        *)
(* section takes another lock inside: deleteRoom under h.mu, and           *)
(* lookupDisplayNames under r.mu and under completedMu.                    *)
(***************************************************************************)
EXTENDS Naturals, FiniteSets

CONSTANTS Clients, Viewers, Objs, None

VARIABLES
    room,       \* the room object filed under the name, or None
    seats,      \* the clients in each room object
    nameless,   \* whether a completed session without display names is kept
    hubOwner,   \* who holds h.mu, if anyone does between two steps
    roomOwner,  \* the same for the r.mu of each object
    doneOwner,  \* the same for h.completedMu
    pc,         \* where each goroutine is
    at          \* the local r of each goroutine

vars == <<room, seats, nameless, hubOwner, roomOwner, doneOwner, pc, at>>
locks == <<hubOwner, roomOwner, doneOwner>>

HubFree   == hubOwner = None
RoomFree(t) == roomOwner[at[t]] = None
DoneFree  == doneOwner = None

Unreached(o) == room # o /\ \A t \in Clients \cup Viewers : at[t] # o

\* Where goroutine t goes next, and the room it goes on with.
Goto(t, label, o) == /\ pc' = [pc EXCEPT ![t] = label]
                     /\ at' = [at EXCEPT ![t] = o]

----------------------------------------------------------------------------
(* join and leave                                                          *)

\* getOrCreateRoom
Lookup(c) ==
    /\ pc[c] = "idle"
    /\ HubFree
    /\ \E o \in Objs :
         /\ IF room = None THEN Unreached(o) ELSE o = room
         /\ room' = o
         /\ seats' = IF room = None THEN [seats EXCEPT ![o] = {}] ELSE seats
         /\ Goto(c, "enter", o)
    /\ UNCHANGED <<nameless, locks>>

Enter(c) ==
    /\ pc[c] = "enter"
    /\ RoomFree(c)
    /\ seats' = [seats EXCEPT ![at[c]] = @ \cup {c}]
    /\ Goto(c, "in", None)
    /\ UNCHANGED <<room, nameless, locks>>

\* getRoom at the head of leave
StartLeave(c) ==
    /\ pc[c] = "in"
    /\ HubFree
    /\ Goto(c, IF room = None THEN "idle" ELSE "exit", room)
    /\ UNCHANGED <<room, seats, nameless, locks>>

\* The session ends when fewer than two are left; it is archived after the unlock.
Exit(c) ==
    LET left == seats[at[c]] \ {c} IN
    /\ pc[c] = "exit"
    /\ RoomFree(c)
    /\ seats' = [seats EXCEPT ![at[c]] = left]
    /\ Goto(c, IF c \in seats[at[c]] /\ Cardinality(left) = 1 THEN "archive" ELSE "check",
            at[c])
    /\ UNCHANGED <<room, nameless, locks>>

\* archiveSession appends the session and drops the oldest ones; whether a session
\* whose peers had no names is among those kept is left open.
Archive(c) ==
    /\ pc[c] = "archive"
    /\ DoneFree
    /\ nameless' \in BOOLEAN
    /\ Goto(c, "check", at[c])
    /\ UNCHANGED <<room, seats, locks>>

Check(c) ==
    /\ pc[c] = "check"
    /\ RoomFree(c)
    /\ Goto(c, IF seats[at[c]] = {} THEN "delete" ELSE "idle", None)
    /\ UNCHANGED <<room, seats, nameless, locks>>

\* deleteRoom takes h.mu for the whole of it ...
DeleteLock(c) ==
    /\ pc[c] = "delete"
    /\ HubFree
    /\ IF room = None
       THEN Goto(c, "idle", None) /\ UNCHANGED hubOwner
       ELSE Goto(c, "recheck", room) /\ hubOwner' = c
    /\ UNCHANGED <<room, seats, nameless, roomOwner, doneOwner>>

\* ... and r.mu inside.
DeleteRecheck(c) ==
    /\ pc[c] = "recheck"
    /\ RoomFree(c)
    /\ room' = IF seats[at[c]] = {} THEN None ELSE room
    /\ hubOwner' = None
    /\ Goto(c, "idle", None)
    /\ UNCHANGED <<seats, nameless, roomOwner, doneOwner>>

----------------------------------------------------------------------------
(* snapshotMetrics                                                         *)

ListRooms(v) ==
    /\ pc[v] = "idle"
    /\ HubFree
    /\ Goto(v, IF room = None THEN "completed" ELSE "active", room)
    /\ UNCHANGED <<room, seats, nameless, locks>>

\* With a session in the room, r.mu is held while lookupDisplayNames runs.
Active(v) ==
    /\ pc[v] = "active"
    /\ RoomFree(v)
    /\ IF Cardinality(seats[at[v]]) < 2
       THEN Goto(v, "completed", None) /\ UNCHANGED roomOwner
       ELSE Goto(v, "activeNames", at[v]) /\ roomOwner' = [roomOwner EXCEPT ![at[v]] = v]
    /\ UNCHANGED <<room, seats, nameless, hubOwner, doneOwner>>

\* lookupDisplayNames calls getRoom, which takes h.mu for reading.
ActiveNames(v) ==
    /\ pc[v] = "activeNames"
    /\ HubFree
    /\ roomOwner' = [roomOwner EXCEPT ![at[v]] = None]
    /\ Goto(v, "completed", None)
    /\ UNCHANGED <<room, seats, nameless, hubOwner, doneOwner>>

Completed(v) ==
    /\ pc[v] = "completed"
    /\ DoneFree
    /\ Goto(v, IF nameless THEN "completedNames" ELSE "sent", None)
    /\ doneOwner' = IF nameless THEN v ELSE None
    /\ UNCHANGED <<room, seats, nameless, hubOwner, roomOwner>>

CompletedNames(v) ==
    /\ pc[v] = "completedNames"
    /\ HubFree
    /\ doneOwner' = None
    /\ Goto(v, "sent", None)
    /\ UNCHANGED <<room, seats, nameless, hubOwner, roomOwner>>

\* handleMetricsWS writes the snapshot and waits for its ticker.
Send(v) ==
    /\ pc[v] = "sent"
    /\ Goto(v, "idle", None)
    /\ UNCHANGED <<room, seats, nameless, locks>>

----------------------------------------------------------------------------
Init ==
    /\ room = None
    /\ seats = [o \in Objs |-> {}]
    /\ nameless = FALSE
    /\ hubOwner = None
    /\ roomOwner = [o \in Objs |-> None]
    /\ doneOwner = None
    /\ pc = [t \in Clients \cup Viewers |-> "idle"]
    /\ at = [t \in Clients \cup Viewers |-> None]

Leave(c) == Exit(c) \/ Archive(c) \/ Check(c) \/ DeleteLock(c) \/ DeleteRecheck(c)
Snapshot(v) == \/ ListRooms(v) \/ Active(v) \/ ActiveNames(v)
               \/ Completed(v) \/ CompletedNames(v) \/ Send(v)

Next == \/ \E c \in Clients : Lookup(c) \/ Enter(c) \/ StartLeave(c) \/ Leave(c)
        \/ \E v \in Viewers : Snapshot(v)

\* Go's mutexes are starvation-free and its scheduler is fair, and the viewer's
\* ticker keeps ticking; clients join and leave when they please.
Fairness == /\ \A c \in Clients : SF_vars(Enter(c) \/ Leave(c))
            /\ \A v \in Viewers : SF_vars(Snapshot(v))

Spec == Init /\ [][Next]_vars /\ Fairness

\* networking.md: "Streaming metrics JSON every 2 seconds".  A viewer that stays
\* connected is sent snapshots for ever.
MetricsKeepStreaming == \A v \in Viewers : []<>(pc[v] = "sent")
=============================================================================
