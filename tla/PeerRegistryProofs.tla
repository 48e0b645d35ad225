------------------------- MODULE PeerRegistryProofs -------------------------
(***************************************************************************)
(* Theorems about PeerRegistry: one lemma per method of the registry, and  *)
(* the session loop's events as compositions of methods.                   *)
(***************************************************************************)
EXTENDS PeerRegistry, WellFoundedInduction, TLAPS

\* The lowest element of a non-empty set of slots is one of them.
LEMMA LowestIsMember ==
    ASSUME NEW S \in SUBSET SlotNums, S # {}
    PROVE  Min(S) \in S
<1>1. IsWellFoundedOn(OpToRel(<, Nat), Nat)
  BY NatLessThanWellFounded
<1>2. S \subseteq Nat
  BY RegistryAssumption DEF SlotNums
<1>3. PICK x \in S : \A y \in S : ~ (<<y, x>> \in OpToRel(<, Nat))
  BY <1>1, <1>2, WFMin
<1>4. \A y \in S : x <= y
  <2>1. TAKE y \in S
  <2>2. x \in Nat /\ y \in Nat
    BY <1>2
  <2>3. ~ (y < x)
    BY <1>3, <2>2 DEF OpToRel
  <2> QED
    BY <2>2, <2>3
<1> QED
  BY <1>4 DEF Min

\* Different peers own slots under different names.
LEMMA NamesDiffer ==
    ASSUME NEW r, Sound(r), NEW p \in r.peers, NEW q \in r.peers,
           ClientOf(r, p) = ClientOf(r, q)
    PROVE  p = q
BY RegistryAssumption DEF Sound, Registry, UniqueIn, ClientOf, Clients

\* The fields of a registry.
LEMMA WithFields ==
    ASSUME NEW a, NEW b, NEW c, NEW d
    PROVE  /\ With(a, b, c, d).peers = a
           /\ With(a, b, c, d).identity = b
           /\ With(a, b, c, d).held = c
           /\ With(a, b, c, d).slots = d
           /\ /\ a \in SUBSET PeerIds
              /\ b \in [PeerIds -> Identities \cup {None}]
              /\ c \in [PeerIds -> [Streams -> SlotNums \cup {None}]]
              /\ d \in [SlotNums -> Slot]
              => With(a, b, c, d) \in Registry
BY DEF With, Registry

\* Freed frees the slots of k, and touches no other.
LEMMA FreedSlots ==
    ASSUME NEW slots \in [SlotNums -> Slot], NEW k \in Clients
    PROVE  /\ Freed(slots, k) \in [SlotNums -> Slot]
           /\ \A i \in SlotNums :
                IF slots[i].occupied /\ slots[i].client = k
                THEN ~Freed(slots, k)[i].occupied
                ELSE Freed(slots, k)[i] = slots[i]
<1>1. ASSUME NEW i \in SlotNums
      PROVE  [slots[i] EXCEPT !.occupied = FALSE, !.affinity = k] \in
                {e \in Slot : ~e.occupied}
  BY DEF Slot
<1> QED
  BY <1>1 DEF Freed

\* Rekeyed changes the owner of p's slots, and no slot's stream.
LEMMA RekeyedSlots ==
    ASSUME NEW slots \in [SlotNums -> Slot], NEW p \in PeerIds, NEW id \in Identities
    PROVE  /\ Rekeyed(slots, p, id) \in [SlotNums -> Slot]
           /\ \A i \in SlotNums :
                LET new == Rekeyed(slots, p, id)[i] IN
                /\ new.occupied = slots[i].occupied
                /\ new.channel = slots[i].channel
                /\ slots[i].occupied =>
                     new.client = IF slots[i].client = p THEN id ELSE slots[i].client
<1> DEFINE client(i) == IF slots[i].occupied /\ slots[i].client = p
                        THEN id ELSE slots[i].client
           affinity(i) == IF slots[i].affinity = p THEN id ELSE slots[i].affinity
           moved(i) == [slots[i] EXCEPT !.client = client(i), !.affinity = affinity(i)]
<1>1. Rekeyed(slots, p, id) = [i \in SlotNums |-> moved(i)]
  BY DEF Rekeyed
<1>2. ASSUME NEW i \in SlotNums
      PROVE  /\ moved(i) \in Slot
             /\ moved(i).occupied = slots[i].occupied
             /\ moved(i).channel = slots[i].channel
             /\ moved(i).client = client(i)
  <2>1. slots[i] \in Slot
    OBVIOUS
  <2>2. client(i) \in Clients \cup {None} /\ affinity(i) \in Clients \cup {None}
    BY <2>1 DEF Slot, Clients
  <2> HIDE DEF client, affinity
  <2> QED
    BY <2>1, <2>2 DEF Slot
<1> HIDE DEF moved
<1> QED
  BY <1>1, <1>2

LEMMA InitSound == Init => Sound(reg)
BY RegistryAssumption DEF Init, With, Sound, Registry, Slot, Announced, UniqueIn, Blank, Owned, Backed,
                          EmptySlot, NoSlots, Clients

LEMMA AddedSound ==
    ASSUME NEW r, Sound(r), NEW p \in PeerIds
    PROVE  Sound(Added(r, p)) /\ p \in Added(r, p).peers
<1> DEFINE n == Added(r, p)
<1>1. CASE p \in r.peers
  BY <1>1 DEF Added, With
<1>2. CASE p \notin r.peers
  <2>1. /\ r \in Registry
        /\ n.peers = r.peers \cup {p} /\ n.identity = r.identity
        /\ n.held = r.held /\ n.slots = r.slots
    BY <1>2 DEF Added, With, Sound, Registry, Blank
  <2>2. n \in Registry
    BY <1>2 DEF Added, With, Sound, Registry, Blank
  <2>3. \A q \in PeerIds : ClientOf(n, q) = ClientOf(r, q)
    BY <2>1 DEF ClientOf
  <2>4. r.identity[p] = None /\ r.held[p] = NoSlots
    BY <1>2 DEF Sound, Blank
  <2>5. UniqueIn(n)
    BY <2>1, <2>4 DEF Sound, UniqueIn
  <2>6. Blank(n)
    BY <2>1 DEF Sound, Blank
  <2>7. Owned(n)
    BY <2>1, <2>3, <2>4 DEF Sound, Owned, NoSlots, Registry
  <2>8. Backed(n)
    BY <2>1, <2>3 DEF Sound, Backed, Registry
  <2>9. Announced(n)
    BY <2>1 DEF Sound, Announced
  <2> QED
    BY <2>1, <2>2, <2>5, <2>6, <2>7, <2>8, <2>9 DEF Sound
<1> QED
  BY <1>1, <1>2

\* Remove frees the slots of p and no others, because nobody else has p's name.
LEMMA RemovedSound ==
    ASSUME NEW r, Sound(r), NEW p \in PeerIds
    PROVE  /\ Sound(Removed(r, p))
           /\ Removed(r, p).peers = r.peers \ {p}
           /\ \A q \in r.peers \ {p} : Removed(r, p).identity[q] = r.identity[q]
<1> DEFINE n == Removed(r, p)
           k == ClientOf(r, p)
<1>0. /\ r \in Registry /\ Announced(r) /\ UniqueIn(r) /\ Blank(r) /\ Owned(r) /\ Backed(r)
  BY DEF Sound
<1>1. CASE p \notin r.peers
  BY <1>1, <1>0 DEF Removed, Registry
<1>2. CASE p \in r.peers
  <2>1. /\ n.peers = r.peers \ {p}
        /\ n.identity = [r.identity EXCEPT ![p] = None]
        /\ n.held = [r.held EXCEPT ![p] = NoSlots]
        /\ n.slots = Freed(r.slots, k)
        /\ n = With(n.peers, n.identity, n.held, n.slots)
    BY <1>2 DEF Removed, With
  <2> HIDE DEF n
  <2>2. k \in Clients
    BY <1>0, RegistryAssumption DEF ClientOf, Registry, Clients
  <2>3. /\ n.slots \in [SlotNums -> Slot]
        /\ \A i \in SlotNums :
             IF r.slots[i].occupied /\ r.slots[i].client = k
             THEN ~n.slots[i].occupied
             ELSE n.slots[i] = r.slots[i]
    <3> HIDE DEF k
    <3> QED
      BY <1>0, <2>1, <2>2, FreedSlots DEF Registry
  <2>4. n \in Registry
    <3>1. /\ n.peers \in SUBSET PeerIds
          /\ n.identity \in [PeerIds -> Identities \cup {None}]
          /\ n.held \in [PeerIds -> [Streams -> SlotNums \cup {None}]]
      BY <1>0, <2>1 DEF Registry, NoSlots
    <3> QED
      BY <2>1, <2>3, <3>1, WithFields
  <2>5. \A q \in n.peers : /\ q \in r.peers /\ q # p
                           /\ n.identity[q] = r.identity[q]
                           /\ n.held[q] = r.held[q]
                           /\ ClientOf(n, q) = ClientOf(r, q)
                           /\ ClientOf(n, q) # k
    BY <1>0, <1>2, <2>1, NamesDiffer DEF Registry, ClientOf
  <2>6. UniqueIn(n)
    BY <1>0, <2>5 DEF UniqueIn
  <2>7. Blank(n)
    BY <1>0, <2>1 DEF Blank, Registry
  <2>8. Owned(n)
    BY <1>0, <2>3, <2>5, RegistryAssumption DEF Owned, Registry
  <2>9. Backed(n)
    <3>1. SUFFICES ASSUME NEW i \in SlotNums, n.slots[i].occupied
                   PROVE  \E q \in n.peers : /\ n.slots[i].client = ClientOf(n, q)
                                             /\ n.held[q][n.slots[i].channel] = i
      BY DEF Backed
    <3>2. n.slots[i] = r.slots[i] /\ r.slots[i].client # k
      BY <2>3, <3>1
    <3>3. PICK q \in r.peers : /\ r.slots[i].client = ClientOf(r, q)
                               /\ r.held[q][r.slots[i].channel] = i
      BY <1>0, <3>1, <3>2 DEF Backed
    <3> QED
      BY <2>1, <2>5, <3>2, <3>3
  <2>10. Announced(n)
    BY <1>0, <2>1 DEF Announced, Registry
  <2> QED
    BY <2>1, <2>4, <2>6, <2>7, <2>5, <2>8, <2>9, <2>10 DEF Sound, n
<1> QED
  BY <1>1, <1>2

\* Noting an identity that no other peer has, and rekeying with it.
LEMMA IdentifiedSound ==
    ASSUME NEW r, Sound(r), NEW p \in r.peers,
           \A q \in r.peers \ {p} : r.identity[q] # IdentityOf[p]
    PROVE  Sound(Identified(r, p)) /\ Identified(r, p).peers = r.peers
<1> DEFINE n == Identified(r, p)
           id == IdentityOf[p]
<1>0. /\ r \in Registry /\ Announced(r) /\ UniqueIn(r) /\ Blank(r) /\ Owned(r) /\ Backed(r)
      /\ p \in PeerIds /\ id \in Identities
  BY RegistryAssumption DEF Sound, Registry
<1>1. /\ n.peers = r.peers
      /\ n.identity = [r.identity EXCEPT ![p] = id]
      /\ n.held = r.held
      /\ n.slots = Rekeyed(r.slots, p, id)
      /\ n = With(n.peers, n.identity, n.held, n.slots)
  BY DEF Identified, With
<1> HIDE DEF n
<1>2. /\ n.slots \in [SlotNums -> Slot]
      /\ \A i \in SlotNums :
           /\ n.slots[i].occupied = r.slots[i].occupied
           /\ n.slots[i].channel = r.slots[i].channel
           /\ r.slots[i].occupied =>
                n.slots[i].client = IF r.slots[i].client = p THEN id ELSE r.slots[i].client
  <2> HIDE DEF id
  <2> QED
    BY <1>0, <1>1, RekeyedSlots DEF Registry
<1>3. n \in Registry
  <2>1. /\ n.peers \in SUBSET PeerIds
        /\ n.identity \in [PeerIds -> Identities \cup {None}]
        /\ n.held \in [PeerIds -> [Streams -> SlotNums \cup {None}]]
    BY <1>0, <1>1 DEF Registry
  <2> QED
    BY <1>1, <1>2, <2>1, WithFields
<1>4. /\ ClientOf(n, p) = id
      /\ \A q \in r.peers \ {p} : ClientOf(n, q) = ClientOf(r, q) /\ ClientOf(r, q) # p
      /\ ClientOf(r, p) \in {p, id}
  BY <1>0, <1>1, RegistryAssumption DEF ClientOf, Registry, Clients, Announced
<1>5. UniqueIn(n)
  BY <1>0, <1>1 DEF UniqueIn, Registry
<1>6. Blank(n) /\ Announced(n)
  BY <1>0, <1>1 DEF Blank, Announced, Registry
<1>7. Owned(n)
  <2>1. SUFFICES ASSUME NEW q \in r.peers, NEW s \in Streams, r.held[q][s] # None
                 PROVE  /\ n.slots[r.held[q][s]].occupied
                        /\ n.slots[r.held[q][s]].client = ClientOf(n, q)
                        /\ n.slots[r.held[q][s]].channel = s
    BY <1>1 DEF Owned
  <2>2. /\ r.held[q][s] \in SlotNums
        /\ r.slots[r.held[q][s]].occupied
        /\ r.slots[r.held[q][s]].client = ClientOf(r, q)
        /\ r.slots[r.held[q][s]].channel = s
    BY <1>0, <2>1 DEF Owned, Registry
  <2> QED
    BY <1>2, <1>4, <2>2
<1>8. Backed(n)
  <2>1. SUFFICES ASSUME NEW i \in SlotNums, r.slots[i].occupied
                 PROVE  \E q \in r.peers : /\ n.slots[i].client = ClientOf(n, q)
                                           /\ n.held[q][n.slots[i].channel] = i
    BY <1>1, <1>2 DEF Backed
  <2>2. PICK q \in r.peers : /\ r.slots[i].client = ClientOf(r, q)
                             /\ r.held[q][r.slots[i].channel] = i
    BY <1>0, <2>1 DEF Backed
  <2>3. n.slots[i].client = ClientOf(n, q)
    BY <1>2, <1>4, <2>1, <2>2
  <2> QED
    BY <1>1, <1>2, <2>2, <2>3
<1> QED
  BY <1>1, <1>3, <1>5, <1>6, <1>7, <1>8 DEF Sound, n

\* AssignSlot takes a free slot, so nobody loses one.
LEMMA AssignedSound ==
    ASSUME NEW r, Sound(r), NEW p \in PeerIds, NEW s \in Streams
    PROVE  Sound(Assigned(r, p, s)) /\ Assigned(r, p, s).peers = r.peers
<1> DEFINE n == Assigned(r, p, s)
           k == ClientOf(r, p)
           i == Min(Eligible(r, k))
<1>0. /\ r \in Registry /\ Announced(r) /\ UniqueIn(r) /\ Blank(r) /\ Owned(r) /\ Backed(r)
  BY DEF Sound
<1>1. CASE p \notin r.peers \/ r.held[p][s] # None \/ Unoccupied(r) = {}
  BY <1>1 DEF Assigned
<1>2. CASE p \in r.peers /\ r.held[p][s] = None /\ Unoccupied(r) # {}
  <2>1. i \in SlotNums /\ ~r.slots[i].occupied
    <3>1. /\ Eligible(r, k) \in SUBSET Unoccupied(r) /\ Eligible(r, k) # {}
          /\ Unoccupied(r) \in SUBSET SlotNums
      BY <1>2 DEF Eligible, Reserved, Unoccupied
    <3>2. i \in Eligible(r, k)
      BY <3>1, LowestIsMember
    <3> QED
      BY <3>1, <3>2 DEF Unoccupied
  <2>2. /\ n.peers = r.peers
        /\ n.identity = r.identity
        /\ n.held = [r.held EXCEPT ![p] = [@ EXCEPT ![s] = i]]
        /\ n.slots = [r.slots EXCEPT ![i] = [client |-> k, channel |-> s,
                                             occupied |-> TRUE, affinity |-> None]]
    BY <1>2 DEF Assigned, With
  <2> HIDE DEF n, i
  <2>3. k \in Clients
    BY <1>0, RegistryAssumption DEF ClientOf, Registry, Clients
  <2>4. /\ \A q \in PeerIds, t \in Streams :
             n.held[q][t] = IF q = p /\ t = s THEN i ELSE r.held[q][t]
        /\ n.slots[i] = [client |-> k, channel |-> s, occupied |-> TRUE, affinity |-> None]
        /\ \A j \in SlotNums \ {i} : n.slots[j] = r.slots[j]
    BY <1>0, <2>1, <2>2 DEF Registry
  <2>5. n \in Registry
    <3>1. /\ n.peers \in SUBSET PeerIds
          /\ n.identity \in [PeerIds -> Identities \cup {None}]
      BY <1>0, <2>2 DEF Registry
    <3>2. n.held \in [PeerIds -> [Streams -> SlotNums \cup {None}]]
      BY <1>0, <2>1, <2>2 DEF Registry
    <3>3. [client |-> k, channel |-> s, occupied |-> TRUE, affinity |-> None] \in Slot
      BY <2>3 DEF Slot
    <3>4. n.slots \in [SlotNums -> Slot]
      BY <1>0, <2>1, <2>2, <3>3 DEF Registry
    <3>5. n = With(n.peers, n.identity, n.held, n.slots)
      BY <1>2, WithFields DEF Assigned, n
    <3> QED
      BY <3>1, <3>2, <3>4, <3>5, WithFields
  <2>6. \A q \in PeerIds : ClientOf(n, q) = ClientOf(r, q)
    BY <2>2 DEF ClientOf
  <2>7. UniqueIn(n)
    BY <1>0, <2>2 DEF UniqueIn
  <2>8. Blank(n) /\ Announced(n)
    BY <1>0, <1>2, <2>2 DEF Blank, Announced, Registry
  <2>9. Owned(n)
    <3>1. SUFFICES ASSUME NEW q \in r.peers, NEW t \in Streams, n.held[q][t] # None
                   PROVE  /\ n.slots[n.held[q][t]].occupied
                          /\ n.slots[n.held[q][t]].client = ClientOf(n, q)
                          /\ n.slots[n.held[q][t]].channel = t
      BY <2>2 DEF Owned
    <3>2. CASE q = p /\ t = s
      BY <1>2, <2>4, <2>6, <3>2
    <3>3. CASE ~(q = p /\ t = s)
      <4>1. q \in PeerIds /\ n.held[q][t] = r.held[q][t]
        BY <1>0, <2>4, <3>3 DEF Registry
      <4>2. /\ n.held[q][t] \in SlotNums
            /\ r.slots[n.held[q][t]].occupied
            /\ r.slots[n.held[q][t]].client = ClientOf(r, q)
            /\ r.slots[n.held[q][t]].channel = t
        BY <1>0, <3>1, <4>1 DEF Owned, Registry
      <4> QED
        BY <2>1, <2>4, <2>6, <4>1, <4>2
    <3> QED
      BY <3>2, <3>3
  <2>10. Backed(n)
    <3>1. SUFFICES ASSUME NEW j \in SlotNums, n.slots[j].occupied
                   PROVE  \E q \in r.peers : /\ n.slots[j].client = ClientOf(n, q)
                                             /\ n.held[q][n.slots[j].channel] = j
      BY <2>2 DEF Backed
    <3>2. CASE j = i
      BY <1>2, <2>4, <2>6, <3>2
    <3>3. CASE j # i
      <4>1. n.slots[j] = r.slots[j]
        BY <2>4, <3>3
      <4>2. PICK q \in r.peers : /\ r.slots[j].client = ClientOf(r, q)
                                 /\ r.held[q][r.slots[j].channel] = j
        BY <1>0, <3>1, <4>1 DEF Backed
      <4>3. q \in PeerIds /\ r.slots[j].channel \in Streams
        BY <1>0 DEF Registry, Slot
      <4>4. ~(q = p /\ r.slots[j].channel = s)
        BY <1>2, <4>2, RegistryAssumption
      <4> QED
        BY <2>4, <2>6, <4>1, <4>2, <4>3, <4>4
    <3> QED
      BY <3>2, <3>3
  <2> QED
    BY <2>2, <2>5, <2>7, <2>8, <2>9, <2>10 DEF Sound, n
<1> QED
  BY <1>1, <1>2

\* A Hello evicts the one other session of the sender's installation, so the identity
\* it notes is nobody else's.  Here it is, one method after the other.
LEMMA HelloInSteps ==
    ASSUME Sound(reg), NEW p \in PeerIds, Hello(p)
    PROVE  \E clean :
              /\ \/ clean = Added(reg, p)
                 \/ \E q \in PeerIds : clean = Removed(Added(reg, p), q)
              /\ Sound(clean)
              /\ Sound(Identified(clean, p))
              /\ reg' = Assigned(Identified(clean, p), p, 0)
<1> DEFINE added == Added(reg, p)
           stale == CHOOSE q \in Stale(added, p) : TRUE
           clean == IF Stale(added, p) = {} THEN added ELSE Removed(added, stale)
<1>1. Sound(added) /\ p \in added.peers
  BY AddedSound
<1>2. reg' = Assigned(Identified(clean, p), p, 0)
  BY DEF Hello
<1>3. added = Added(reg, p)
  OBVIOUS
<1> HIDE DEF added
<1>4. /\ \/ clean = added
         \/ \E q \in PeerIds : clean = Removed(added, q)
      /\ Sound(clean) /\ p \in clean.peers
      /\ \A q \in clean.peers \ {p} : clean.identity[q] # IdentityOf[p]
  <2>1. CASE Stale(added, p) = {}
    BY <1>1, <2>1 DEF Stale
  <2>2. CASE Stale(added, p) # {}
    <3>1. /\ stale \in added.peers \ {p}
          /\ added.identity[stale] = IdentityOf[p]
      BY <2>2 DEF Stale
    <3> HIDE DEF stale
    <3>2. stale \in PeerIds
      BY <1>1, <3>1 DEF Sound, Registry
    <3>3. /\ Sound(clean) /\ clean.peers = added.peers \ {stale}
          /\ \A q \in clean.peers : clean.identity[q] = added.identity[q]
      BY <1>1, <2>2, <3>2, RemovedSound
    <3>4. IdentityOf[p] # None
      BY RegistryAssumption DEF Clients
    <3>5. clean = Removed(added, stale)
      BY <2>2
    <3> HIDE DEF clean
    <3> QED
      BY <1>1, <3>1, <3>2, <3>3, <3>4, <3>5 DEF Sound, UniqueIn
  <2> QED
    BY <2>1, <2>2
<1> HIDE DEF clean
<1>5. Sound(Identified(clean, p))
  BY <1>4, IdentifiedSound
<1> QED
  BY <1>2, <1>3, <1>4, <1>5

\* So every method a Hello calls is called in a state its lemma speaks of.
LEMMA HelloSound ==
    ASSUME Sound(reg), NEW p \in PeerIds, Hello(p)
    PROVE  Sound(reg')
BY HelloInSteps, AssignedSound, RegistryAssumption

\* The registry is sound after any sequence of joins, departures, Hellos and audio
\* frames: every stream's slot names that stream and its peer, every occupied slot is
\* some stream's, and an identity has at most one session.
THEOREM RegistryAlwaysSound == Spec => []RegistrySound
<1>1. Init => RegistrySound
  BY InitSound DEF RegistrySound
<1>2. RegistrySound /\ [Next]_reg => RegistrySound'
  <2> SUFFICES ASSUME Sound(reg), [Next]_reg
               PROVE  Sound(reg')
    BY DEF RegistrySound
  <2>1. ASSUME NEW p \in PeerIds, PeerJoined(p) PROVE Sound(reg')
    BY <2>1, AddedSound DEF PeerJoined
  <2>2. ASSUME NEW p \in PeerIds, PeerLeft(p) PROVE Sound(reg')
    BY <2>2, RemovedSound DEF PeerLeft
  <2>3. ASSUME NEW p \in PeerIds, Hello(p) PROVE Sound(reg')
    BY <2>3, HelloSound
  <2>4. ASSUME NEW p \in PeerIds, NEW s \in Streams, AudioFrame(p, s) PROVE Sound(reg')
    BY <2>4, AssignedSound DEF AudioFrame
  <2>5. CASE UNCHANGED reg
    BY <2>5
  <2> QED
    BY <2>1, <2>2, <2>3, <2>4, <2>5 DEF Next
<1> QED
  BY <1>1, <1>2, PTL DEF Spec

\* No slot carries two streams, whatever the number of peers, streams and slots.
THEOREM SlotsAlwaysExclusive == Spec => []SlotsExclusive
<1>1. RegistrySound => SlotsExclusive
  <2> SUFFICES ASSUME Sound(reg), NEW p \in PeerIds, NEW q \in PeerIds,
                      NEW s \in Streams, NEW t \in Streams,
                      reg.held[p][s] = reg.held[q][t], reg.held[p][s] # None
               PROVE  p = q /\ s = t
    BY DEF RegistrySound, SlotsExclusive, Exclusive
  <2>1. p \in reg.peers /\ q \in reg.peers
    BY DEF Sound, Blank, NoSlots
  <2>2. s = t /\ ClientOf(reg, p) = ClientOf(reg, q)
    BY <2>1 DEF Sound, Owned
  <2> QED
    BY <2>1, <2>2, NamesDiffer
<1> QED
  BY <1>1, RegistryAlwaysSound, PTL

\* Every occupied slot is held by a peer that is there.
THEOREM NeverLeaks == Spec => []NoSlotLeaked
<1>1. RegistrySound => NoSlotLeaked
  BY DEF RegistrySound, Sound, Backed, NoSlotLeaked, Held, Registry, Slot
<1> QED
  BY <1>1, RegistryAlwaysSound, PTL

\* No method takes a stream's slot away from a peer it leaves in the registry.
LEMMA MethodsKeepSlots ==
    ASSUME NEW r, Sound(r), NEW p \in PeerIds, NEW s \in Streams
    PROVE  \A n \in {Added(r, p), Removed(r, p), Identified(r, p), Assigned(r, p, s)} :
              \A q \in r.peers \cap n.peers, t \in Streams :
                  r.held[q][t] # None => n.held[q][t] = r.held[q][t]
<1> DEFINE Keeps(n) == \A q \in r.peers \cap n.peers, t \in Streams :
                          r.held[q][t] # None => n.held[q][t] = r.held[q][t]
<1>0. r.peers \subseteq PeerIds /\ r.held \in [PeerIds -> [Streams -> SlotNums \cup {None}]]
  BY DEF Sound, Registry
<1>1. Keeps(Added(r, p))
  BY <1>0 DEF Added, With
<1>2. Keeps(Removed(r, p))
  BY <1>0 DEF Removed, With
<1>3. Keeps(Identified(r, p))
  BY <1>0 DEF Identified, With
<1>4. Keeps(Assigned(r, p, s))
  <2>1. CASE p \notin r.peers \/ r.held[p][s] # None \/ Unoccupied(r) = {}
    BY <2>1 DEF Assigned
  <2>2. CASE p \in r.peers /\ r.held[p][s] = None /\ Unoccupied(r) # {}
    <3>1. PICK i : Assigned(r, p, s).held = [r.held EXCEPT ![p] = [@ EXCEPT ![s] = i]]
      BY <2>2 DEF Assigned, With
    <3> QED
      BY <1>0, <2>2, <3>1
  <2> QED
    BY <2>1, <2>2
<1> QED
  BY <1>1, <1>2, <1>3, <1>4

\* Nor does the sequence of methods that a Hello is.
LEMMA HelloKeepsSlots ==
    ASSUME Sound(reg), NEW p \in PeerIds, Hello(p),
           NEW q \in reg.peers \cap reg'.peers, NEW s \in Streams, reg.held[q][s] # None
    PROVE  reg'.held[q][s] = reg.held[q][s]
<1> DEFINE added == Added(reg, p)
<1>1. PICK clean : /\ \/ clean = added
                      \/ \E o \in PeerIds : clean = Removed(added, o)
                   /\ Sound(clean)
                   /\ Sound(Identified(clean, p))
                   /\ reg' = Assigned(Identified(clean, p), p, 0)
  BY HelloInSteps
<1> DEFINE known == Identified(clean, p)
<1>2. 0 \in Streams
  BY RegistryAssumption
<1>3. reg'.peers = known.peers /\ known.peers = clean.peers
  BY <1>1, <1>2, AssignedSound DEF Identified, With
<1>4. q \in added.peers /\ added.held[q][s] = reg.held[q][s] /\ Sound(added)
  <2>1. q \in added.peers
    BY DEF Added, With
  <2> QED
    BY <2>1, <1>2, MethodsKeepSlots, AddedSound
<1> HIDE DEF added
<1>5. clean.held[q][s] = reg.held[q][s]
  BY <1>1, <1>2, <1>3, <1>4, MethodsKeepSlots
<1>6. known.held[q][s] = reg.held[q][s]
  BY <1>1, <1>2, <1>3, <1>5, MethodsKeepSlots
<1> HIDE DEF known
<1> QED
  BY <1>1, <1>2, <1>3, <1>6, MethodsKeepSlots DEF known

\* A stream keeps its slot for as long as its peer is in the registry.
THEOREM SlotsAlwaysStay == Spec => SlotsStay
<1> DEFINE Stay == \A p \in reg.peers \cap reg'.peers, s \in Streams :
                      reg.held[p][s] # None => reg'.held[p][s] = reg.held[p][s]
<1>1. RegistrySound /\ [Next]_reg => [Stay]_reg
  <2> SUFFICES ASSUME Sound(reg), Next PROVE Stay
    BY DEF RegistrySound
  <2>1. ASSUME NEW p \in PeerIds, PeerJoined(p) PROVE Stay
    BY <2>1, MethodsKeepSlots, RegistryAssumption DEF PeerJoined
  <2>2. ASSUME NEW p \in PeerIds, PeerLeft(p) PROVE Stay
    BY <2>2, MethodsKeepSlots, RegistryAssumption DEF PeerLeft
  <2>3. ASSUME NEW p \in PeerIds, Hello(p) PROVE Stay
    BY <2>3, HelloKeepsSlots
  <2>4. ASSUME NEW p \in PeerIds, NEW s \in Streams, AudioFrame(p, s) PROVE Stay
    BY <2>4, MethodsKeepSlots DEF AudioFrame
  <2> QED
    BY <2>1, <2>2, <2>3, <2>4 DEF Next
<1> QED
  BY <1>1, RegistryAlwaysSound, PTL DEF Spec, SlotsStay
=============================================================================
