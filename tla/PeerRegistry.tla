---------------------------- MODULE PeerRegistry ----------------------------
(***************************************************************************)
(* The peer registry of the Go application, wail-app/peers.go, and the     *)
(* order in which the session loop, wail-app/session.go, calls it.         *)
(*                                                                         *)
(* The registry is a value with a peer table and a slot table; each of its *)
(* methods holds the registry's lock and is a function from registry to    *)
(* registry here.  The session loop is the only goroutine that changes it, *)
(* one event at a time, so an action is one event.                         *)
(***************************************************************************)
EXTENDS Naturals, FiniteSets, FiniteSetsExt

CONSTANTS
    PeerIds,        \* ids of sessions; a session keeps its id when it reconnects
    Identities,     \* persistent identities of installations
    IdentityOf,     \* the identity each session sends in its Hello
    Streams,        \* stream ids of the audio a peer sends
    MaxSlots,       \* maxSlots, 16 in the code
    None            \* nil

\* The slots and who may own one: AssignSlot writes a peer's id there until its
\* identity is known.
SlotNums == 0 .. MaxSlots - 1
Clients  == PeerIds \cup Identities

ASSUME RegistryAssumption ==
    /\ PeerIds \cap Identities = {}
    /\ None \notin Clients \cup SlotNums
    /\ IdentityOf \in [PeerIds -> Identities]
    /\ 0 \in Streams /\ Streams \subseteq Nat
    /\ MaxSlots \in Nat

VARIABLE reg    \* the registry

With(peers, identity, held, slots) ==
    [peers |-> peers, identity |-> identity, held |-> held, slots |-> slots]

NoSlots   == [s \in Streams |-> None]
EmptySlot == [client |-> None, channel |-> 0, occupied |-> FALSE, affinity |-> None]

\* clientID: the identity of a peer, or its id until the identity is known.
ClientOf(r, p) == IF r.identity[p] = None THEN p ELSE r.identity[p]

----------------------------------------------------------------------------
(* The methods.                                                            *)

\* An Add that replaces the entry of a peer it knows.
AddedAfresh(r, p) ==
    With(r.peers \cup {p}, [r.identity EXCEPT ![p] = None],
         [r.held EXCEPT ![p] = NoSlots], r.slots)
\* Add, SeedNames
Added(r, p) ==
    IF p \in r.peers THEN r
    ELSE With(r.peers \cup {p}, [r.identity EXCEPT ![p] = None],
         [r.held EXCEPT ![p] = NoSlots], r.slots)

\* Slots of client k are no longer occupied, and remember k.
Freed(slots, k) ==
    [i \in SlotNums |->
        IF slots[i].occupied /\ slots[i].client = k
        THEN [slots[i] EXCEPT !.occupied = FALSE, !.affinity = k]
        ELSE slots[i]]

\* A Remove that looks for slots under the peer's id only.
RemovedById(r, p) ==
    IF p \notin r.peers THEN r
    ELSE With(r.peers \ {p}, [r.identity EXCEPT ![p] = None],
              [r.held EXCEPT ![p] = NoSlots], Freed(r.slots, p))
Removed(r, p) ==
    IF p \notin r.peers THEN r
    ELSE With(r.peers \ {p}, [r.identity EXCEPT ![p] = None],
              [r.held EXCEPT ![p] = NoSlots], Freed(r.slots, ClientOf(r, p)))

Rekeyed(slots, p, id) ==
    [i \in SlotNums |->
        [slots[i] EXCEPT !.client = IF slots[i].occupied /\ @ = p THEN id ELSE @,
                         !.affinity = IF @ = p THEN id ELSE @]]

\* A Hello that notes the identity and leaves the slots under the peer's id.
IdentifiedOnly(r, p) ==
    With(r.peers, [r.identity EXCEPT ![p] = IdentityOf[p]], r.held, r.slots)
\* The session notes the identity and calls RekeyPeerSlots.
Identified(r, p) ==
    With(r.peers, [r.identity EXCEPT ![p] = IdentityOf[p]], r.held,
         Rekeyed(r.slots, p, IdentityOf[p]))

\* The slots AssignSlot chooses the lowest of: those that remember client k, or
\* else all that are free.
Unoccupied(r) == {i \in SlotNums : ~r.slots[i].occupied}
Reserved(r, k) == {i \in Unoccupied(r) : r.slots[i].affinity = k}
Eligible(r, k) == IF Reserved(r, k) # {} THEN Reserved(r, k) ELSE Unoccupied(r)

\* AssignSlot: the stream's slot if it has one, the lowest eligible slot, or none.
Assigned(r, p, s) ==
    LET k == ClientOf(r, p) IN
    IF p \notin r.peers \/ r.held[p][s] # None \/ Unoccupied(r) = {} THEN r
    ELSE LET i == Min(Eligible(r, k)) IN
         With(r.peers, r.identity, [r.held EXCEPT ![p] = [@ EXCEPT ![s] = i]],
              [r.slots EXCEPT ![i] = [client |-> k, channel |-> s,
                                      occupied |-> TRUE, affinity |-> None]])

\* The peers FindByIdentity may return, other than p, once p is added.
Stale(r, p) == {q \in r.peers \ {p} : r.identity[q] = IdentityOf[p]}

----------------------------------------------------------------------------
(* The events of the session loop.                                         *)

\* PeerJoined, and each name of a join_ok
PeerJoined(p) == reg' = Added(reg, p)

\* PeerLeft, and the watchdogs
PeerLeft(p) == reg' = Removed(reg, p)

\* A Hello handler that does not evict.
HelloKeepsStale(p) ==
    reg' = Assigned(Identified(Added(reg, p), p), p, 0)

\* A Hello that carries an identity, as they all do: add the sender if need be,
\* evict the session its installation had before, note its identity, move its
\* slots to that identity, and give it a slot.
Hello(p) ==
    LET added == Added(reg, p)
        clean == IF Stale(added, p) = {} THEN added
                 ELSE Removed(added, CHOOSE q \in Stale(added, p) : TRUE)
    IN reg' = Assigned(Identified(clean, p), p, 0)

\* A frame of stream s, from anybody.
AudioFrame(p, s) == reg' = Assigned(reg, p, s)

Init == reg = With({}, [p \in PeerIds |-> None], [p \in PeerIds |-> NoSlots],
                   [i \in SlotNums |-> EmptySlot])

Next == \E p \in PeerIds : \/ PeerJoined(p) \/ PeerLeft(p) \/ Hello(p)
                           \/ \E s \in Streams : AudioFrame(p, s)

Spec == Init /\ [][Next]_reg

----------------------------------------------------------------------------
Slot == [client : Clients \cup {None}, channel : Streams,
         occupied : BOOLEAN, affinity : Clients \cup {None}]

Registry ==
    [peers : SUBSET PeerIds,
     identity : [PeerIds -> Identities \cup {None}],
     held : [PeerIds -> [Streams -> SlotNums \cup {None}]],
     slots : [SlotNums -> Slot]]

\* No slot carries two streams: what the session loop reports as the owner of a
\* slot is the owner.
Exclusive(r) ==
    \A p, q \in PeerIds, s, t \in Streams :
        r.held[p][s] = r.held[q][t] /\ r.held[p][s] # None => p = q /\ s = t
SlotsExclusive == Exclusive(reg)

\* No slot is lost: the occupied ones belong to peers that are there, whatever
\* ids those had when they took them, so the table is full only with as many streams.
Held(r, i) == \E p \in r.peers, s \in Streams : r.held[p][s] = i
NoSlotLeaked == \A i \in SlotNums : reg.slots[i].occupied => Held(reg, i)

\* A stream keeps its slot as long as its peer stays, through the arrival of the
\* peer's identity and the eviction of that identity's former session.
SlotsStay == [][\A p \in reg.peers \cap reg'.peers, s \in Streams :
                  reg.held[p][s] # None => reg'.held[p][s] = reg.held[p][s]]_reg

(* The inductive strengthening.                                            *)

\* The identity a peer is known by is the one it announced.
Announced(r) == \A p \in PeerIds : r.identity[p] \in {None, IdentityOf[p]}

\* At most one session of an installation is known by its identity.
UniqueIn(r) == \A p, q \in r.peers :
    r.identity[p] = r.identity[q] /\ r.identity[p] # None => p = q

\* Who is not there has nothing.
Blank(r) == \A p \in PeerIds \ r.peers : r.identity[p] = None /\ r.held[p] = NoSlots

\* A stream's slot names the stream and its peer.
Owned(r) == \A p \in r.peers, s \in Streams :
    LET i == r.held[p][s] IN
    i # None => /\ r.slots[i].occupied
                /\ r.slots[i].client = ClientOf(r, p)
                /\ r.slots[i].channel = s

\* An occupied slot is the slot of the stream it names.
Backed(r) == \A i \in SlotNums :
    r.slots[i].occupied =>
        \E p \in r.peers : /\ r.slots[i].client = ClientOf(r, p)
                           /\ r.held[p][r.slots[i].channel] = i

Sound(r) == /\ r \in Registry
            /\ Announced(r) /\ UniqueIn(r) /\ Blank(r) /\ Owned(r) /\ Backed(r)
RegistrySound == Sound(reg)

=============================================================================
