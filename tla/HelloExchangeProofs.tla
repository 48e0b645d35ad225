------------------------ MODULE HelloExchangeProofs ------------------------
(***************************************************************************)
(* Theorems about HelloExchange for any number of applications and of lost *)
(* connections: on first connections identification is mutual, and no      *)
(* watchdog drops a live peer.                                             *)
(*                                                                         *)
(* The invariant is stated with Has, the membership of a queue, and the    *)
(* proofs see queues through it alone.                                     *)
(***************************************************************************)
EXTENDS HelloExchange, TLAPS

Has(s, x) == \E i \in DOMAIN s : s[i] = x
Joined(a) == [type |-> "PeerJoined", peer |-> a]
Left(a)   == [type |-> "PeerLeft", peer |-> a]
Notices   == [type : {"PeerJoined", "PeerLeft"}, peer : Apps]

Typed ==
    /\ room \in SUBSET Apps
    /\ link \in [Apps -> {"none", "up", "broken", "ended"}]
    /\ peers \in [Apps -> [Apps -> Entries \cup {None}]]
    /\ out \in [Apps -> Seq(Apps \cup {All})]
    /\ events \in [Apps -> Seq(Notices)]
    /\ syncs \in [Apps -> Seq(Apps)]
    /\ losses \in [Apps -> Nat]

----------------------------------------------------------------------------
(* Queues                                                                  *)

LEMMA HasNothing == ASSUME NEW x PROVE ~Has(<<>>, x)
BY DEF Has

LEMMA HasAppend ==
    ASSUME NEW T, NEW s \in Seq(T), NEW x \in T, NEW y
    PROVE  /\ Append(s, x) \in Seq(T)
           /\ Has(Append(s, x), y) <=> Has(s, y) \/ y = x
<1>1. Append(s, x) \in Seq(T) /\ Len(Append(s, x)) = Len(s) + 1 /\ Len(s) \in Nat
  OBVIOUS
<1>2. DOMAIN Append(s, x) = 1 .. Len(s) + 1 /\ DOMAIN s = 1 .. Len(s)
  OBVIOUS
<1>3. \A i \in 1 .. Len(s) : Append(s, x)[i] = s[i]
  OBVIOUS
<1>4. Append(s, x)[Len(s) + 1] = x
  OBVIOUS
<1> QED BY <1>1, <1>2, <1>3, <1>4 DEF Has

LEMMA HasTail ==
    ASSUME NEW T, NEW s \in Seq(T), s # <<>>
    PROVE  /\ Head(s) \in T /\ Tail(s) \in Seq(T)
           /\ \A y : Has(s, y) <=> Has(Tail(s), y) \/ y = Head(s)
<1>1. Head(s) \in T /\ Tail(s) \in Seq(T) /\ Len(s) \in Nat \ {0} /\ Len(Tail(s)) = Len(s) - 1
  OBVIOUS
<1>2. DOMAIN s = 1 .. Len(s) /\ DOMAIN Tail(s) = 1 .. Len(s) - 1
  OBVIOUS
<1>3. Head(s) = s[1] /\ \A i \in 1 .. Len(s) - 1 : Tail(s)[i] = s[i + 1]
  OBVIOUS
<1>4. ASSUME NEW y, Has(s, y) PROVE Has(Tail(s), y) \/ y = Head(s)
  <2>1. PICK i \in 1 .. Len(s) : s[i] = y
    BY <1>2, <1>4 DEF Has
  <2>2. CASE i = 1
    BY <2>1, <2>2, <1>3
  <2>3. CASE i # 1
    <3>1. i - 1 \in 1 .. Len(s) - 1 /\ Tail(s)[i - 1] = y
      BY <2>1, <2>3, <1>1, <1>3
    <3> QED BY <3>1, <1>2 DEF Has
  <2> QED BY <2>2, <2>3
<1>5. ASSUME NEW y, Has(Tail(s), y) \/ y = Head(s) PROVE Has(s, y)
  <2>1. CASE y = Head(s)
    <3>1. 1 \in 1 .. Len(s)
      BY <1>1
    <3> QED BY <2>1, <3>1, <1>2, <1>3 DEF Has
  <2>2. CASE Has(Tail(s), y)
    <3>1. PICK i \in 1 .. Len(s) - 1 : Tail(s)[i] = y
      BY <2>2, <1>2 DEF Has
    <3>2. i + 1 \in 1 .. Len(s) /\ s[i + 1] = y
      BY <3>1, <1>1, <1>3
    <3> QED BY <3>2, <1>2 DEF Has
  <2> QED BY <1>5, <2>1, <2>2
<1> QED BY <1>1, <1>4, <1>5

\* Pushed reaches the members of S that are up.
LEMMA NoticePushed ==
    ASSUME Typed, NEW S, NEW m \in Notices
    PROVE  /\ Pushed(events, S, m) \in [Apps -> Seq(Notices)]
           /\ \A a \in Apps : ~(a \in S /\ link[a] = "up") => Pushed(events, S, m)[a] = events[a]
           /\ \A a \in Apps : \A y :
                Has(Pushed(events, S, m)[a], y)
                    <=> Has(events[a], y) \/ (a \in S /\ link[a] = "up" /\ y = m)
<1>1. events \in [Apps -> Seq(Notices)]
  BY DEF Typed
<1>2. ASSUME NEW a \in Apps PROVE Append(events[a], m) \in Seq(Notices)
  BY <1>1
<1>3. ASSUME NEW a \in Apps, NEW y
      PROVE  Has(Append(events[a], m), y) <=> Has(events[a], y) \/ y = m
  BY <1>1, HasAppend
<1> QED BY <1>1, <1>2, <1>3 DEF Pushed

LEMMA HelloPushed ==
    ASSUME Typed, NEW S, NEW m \in Apps
    PROVE  /\ Pushed(syncs, S, m) \in [Apps -> Seq(Apps)]
           /\ \A a \in Apps : ~(a \in S /\ link[a] = "up") => Pushed(syncs, S, m)[a] = syncs[a]
           /\ \A a \in Apps : \A y :
                Has(Pushed(syncs, S, m)[a], y)
                    <=> Has(syncs[a], y) \/ (a \in S /\ link[a] = "up" /\ y = m)
<1>1. syncs \in [Apps -> Seq(Apps)]
  BY DEF Typed
<1>2. ASSUME NEW a \in Apps PROVE Append(syncs[a], m) \in Seq(Apps)
  BY <1>1
<1>3. ASSUME NEW a \in Apps, NEW y
      PROVE  Has(Append(syncs[a], m), y) <=> Has(syncs[a], y) \/ y = m
  BY <1>1, HasAppend
<1> QED BY <1>1, <1>2, <1>3 DEF Pushed

LEMMA SentHas ==
    ASSUME Typed, NEW a \in Apps, NEW to \in Apps \cup {All}
    PROVE  /\ Sent(a, to) \in [Apps -> Seq(Apps \cup {All})]
           /\ \A c \in Apps : \A y :
                Has(Sent(a, to)[c], y) <=> Has(out[c], y) \/ (c = a /\ link[a] = "up" /\ y = to)
<1>1. out \in [Apps -> Seq(Apps \cup {All})]
  BY DEF Typed
<1>2. Append(out[a], to) \in Seq(Apps \cup {All})
  BY <1>1
<1>3. \A y : Has(Append(out[a], to), y) <=> Has(out[a], y) \/ y = to
  BY <1>1, HasAppend
<1> QED BY <1>1, <1>2, <1>3 DEF Sent

----------------------------------------------------------------------------
(* Entries                                                                 *)

LEMMA SeededEntries ==
    ASSUME NEW e \in [Apps -> Entries \cup {None}], NEW S
    PROVE  /\ Seeded(e, S) \in [Apps -> Entries \cup {None}]
           /\ \A b \in Apps : IF b \in S /\ e[b] = None
                             THEN /\ Seeded(e, S)[b] # None
                                  /\ ~Seeded(e, S)[b].identified /\ ~Seeded(e, S)[b].helloSent
                             ELSE Seeded(e, S)[b] = e[b]
<1>1. NewPeer \in Entries /\ ~NewPeer.identified /\ ~NewPeer.helloSent
  BY DEF NewPeer, Entries
<1>2. NewPeer # None
  BY <1>1, HelloAssumption
<1> QED BY <1>1, <1>2 DEF Seeded

LEMMA GreetedEntries ==
    ASSUME NEW e \in [Apps -> Entries \cup {None}], NEW b \in Apps
    PROVE  /\ Greeted(e, b) \in [Apps -> Entries \cup {None}]
           /\ \A c \in Apps \ {b} : Greeted(e, b)[c] = e[c]
           /\ Greeted(e, b)[b] # None /\ Greeted(e, b)[b].identified
<1> DEFINE old == Seeded(e, {b})[b]
           entry == [identified |-> TRUE, helloSent |-> TRUE,
                     everReceived |-> old.everReceived \/ e[b] # None,
                     retrySent |-> old.retrySent]
<1>1. old \in Entries
  BY SeededEntries
<1>2. Greeted(e, b) = [e EXCEPT ![b] = entry]
  BY DEF Greeted
<1> HIDE DEF old
<1>3. entry \in Entries /\ entry.identified
  BY <1>1 DEF Entries
<1>4. entry # None
  BY <1>3, HelloAssumption
<1> HIDE DEF entry
<1> QED BY <1>2, <1>3, <1>4

LEMMA ChangedEntries ==
    ASSUME NEW e \in [Apps -> Entries \cup {None}], NEW b \in Apps, e[b] # None,
           NEW n \in {Heard(e, b), Retried(e, b)}
    PROVE  /\ n \in [Apps -> Entries \cup {None}]
           /\ \A c \in Apps \ {b} : n[c] = e[c]
           /\ n[b] # None
           /\ n[b].identified = e[b].identified /\ n[b].helloSent = e[b].helloSent
<1>1. e[b] \in Entries
  OBVIOUS
<1>2. PICK x \in {[e[b] EXCEPT !.everReceived = TRUE], [e[b] EXCEPT !.retrySent = TRUE]} :
        n = [e EXCEPT ![b] = x]
  BY DEF Heard, Retried
<1>3. x \in Entries /\ x.identified = e[b].identified /\ x.helloSent = e[b].helloSent
  BY <1>1 DEF Entries
<1>4. x # None
  BY <1>3, HelloAssumption
<1> QED BY <1>2, <1>3, <1>4

----------------------------------------------------------------------------
(* What the actions do to entries and queues                               *)

Links == {"none", "up", "broken", "ended"}

\* Queues with one of them emptied.
LEMMA Emptied ==
    ASSUME NEW T, NEW queues \in [Apps -> Seq(T)], NEW a \in Apps
    PROVE  [queues EXCEPT ![a] = <<>>] \in [Apps -> Seq(T)]
OBVIOUS

LEMMA NoticeTypes == ASSUME NEW a \in Apps PROVE Joined(a) \in Notices /\ Left(a) \in Notices
BY DEF Joined, Left, Notices

LEMMA TypedStart == Init => Typed
BY DEF Init, Typed

LEMMA TypedStep == Typed /\ [Next]_vars => Typed'
<1> SUFFICES ASSUME Typed, [Next]_vars PROVE Typed'
  OBVIOUS
<1>1. /\ room \in SUBSET Apps /\ link \in [Apps -> Links]
      /\ peers \in [Apps -> [Apps -> Entries \cup {None}]]
      /\ out \in [Apps -> Seq(Apps \cup {All})] /\ events \in [Apps -> Seq(Notices)]
      /\ syncs \in [Apps -> Seq(Apps)] /\ losses \in [Apps -> Nat]
  BY DEF Typed, Links
<1>2. ASSUME NEW a \in Apps, Connect(a) PROVE Typed'
  <2>1. Seeded(peers[a], room \ {a}) \in [Apps -> Entries \cup {None}]
    BY <1>1, SeededEntries
  <2>2. Pushed(events, room \ {a}, Joined(a)) \in [Apps -> Seq(Notices)]
    BY NoticePushed, NoticeTypes
  <2> QED BY <1>1, <1>2, <2>1, <2>2, Emptied DEF Connect, Typed, Joined, Links
<1>3. ASSUME NEW a \in Apps, Lose(a) \/ Quit(a) PROVE Typed'
  <2>1. CASE Lose(a)
    BY <1>1, <2>1, Emptied DEF Lose, Typed, Links
  <2>2. CASE Quit(a)
    <3>1. [b \in Apps |-> None] \in [Apps -> Entries \cup {None}]
      OBVIOUS
    <3> QED BY <1>1, <2>2, <3>1, Emptied DEF Quit, Typed, Links
  <2> QED BY <1>3, <2>1, <2>2
<1>4. ASSUME NEW a \in Apps, Vacate(a) PROVE Typed'
  <2>1. Pushed(events, room \ {a}, Left(a)) \in [Apps -> Seq(Notices)]
    BY NoticePushed, NoticeTypes
  <2> QED BY <1>1, <1>4, <2>1 DEF Vacate, Typed, Left, Links
<1>5. ASSUME NEW a \in Apps, Forward(a) PROVE Typed'
  <2>1. Tail(out[a]) \in Seq(Apps \cup {All})
    BY <1>1, <1>5, HasTail DEF Forward
  <2>2. \A S : Pushed(syncs, S, a) \in [Apps -> Seq(Apps)]
    BY HelloPushed
  <2> QED BY <1>1, <1>5, <2>1, <2>2 DEF Forward, Typed, Links
<1>6. ASSUME NEW a \in Apps, PeerJoined(a) \/ PeerLeft(a) PROVE Typed'
  <2>1. events[a] # <<>> /\ Head(events[a]) \in Notices /\ Tail(events[a]) \in Seq(Notices)
    BY <1>1, <1>6, HasTail DEF PeerJoined, PeerLeft, TakeEvent
  <2>2. Head(events[a]).peer \in Apps
    BY <2>1 DEF Notices
  <2>3. \A S : Seeded(peers[a], S) \in [Apps -> Entries \cup {None}]
    BY <1>1, SeededEntries
  <2>4. \A b : Without(peers[a], b) \in [Apps -> Entries \cup {None}]
    BY <1>1 DEF Without
  <2>5. Sent(a, All) \in [Apps -> Seq(Apps \cup {All})]
    BY SentHas
  <2>6. PICK e \in [Apps -> Entries \cup {None}] : peers' = [peers EXCEPT ![a] = e]
    BY <1>6, <2>3, <2>4 DEF PeerJoined, PeerLeft
  <2>7. out' \in [Apps -> Seq(Apps \cup {All})]
    BY <1>1, <1>6, <2>5 DEF PeerJoined, PeerLeft
  <2>8. /\ events' = [events EXCEPT ![a] = Tail(events[a])]
        /\ UNCHANGED <<room, link, syncs, losses>>
    BY <1>6 DEF PeerJoined, PeerLeft, TakeEvent
  <2> QED BY <1>1, <2>1, <2>6, <2>7, <2>8 DEF Typed, Links
<1>7. ASSUME NEW a \in Apps, Hello(a) PROVE Typed'
  <2>1. Head(syncs[a]) \in Apps /\ Tail(syncs[a]) \in Seq(Apps)
    BY <1>1, <1>7, HasTail DEF Hello
  <2>2. Greeted(peers[a], Head(syncs[a])) \in [Apps -> Entries \cup {None}]
    BY <1>1, <2>1, GreetedEntries
  <2>3. Sent(a, Head(syncs[a])) \in [Apps -> Seq(Apps \cup {All})]
    BY <2>1, SentHas
  <2> QED BY <1>1, <1>7, <2>1, <2>2, <2>3 DEF Hello, Typed, Links
<1>8. ASSUME NEW a \in Apps, NEW b \in Apps, Hear(a, b) \/ Watch(a, b) PROVE Typed'
  <2>1. b \in Known(a)
    BY <1>8 DEF Hear, Watch, SoftWatchdog, HardWatchdog, LivenessWatchdog, Unidentified
  <2>2. /\ Heard(peers[a], b) \in [Apps -> Entries \cup {None}]
        /\ Retried(peers[a], b) \in [Apps -> Entries \cup {None}]
    BY <1>1, <2>1, ChangedEntries DEF Known
  <2>3. Without(peers[a], b) \in [Apps -> Entries \cup {None}]
    BY <1>1 DEF Without
  <2>4. Sent(a, b) \in [Apps -> Seq(Apps \cup {All})]
    BY SentHas
  <2>5. PICK e \in [Apps -> Entries \cup {None}] : peers' = [peers EXCEPT ![a] = e]
    BY <1>8, <2>2, <2>3 DEF Hear, Watch, SoftWatchdog, HardWatchdog, LivenessWatchdog, Dropped
  <2>6. out' \in [Apps -> Seq(Apps \cup {All})]
    BY <1>1, <1>8, <2>4 DEF Hear, Watch, SoftWatchdog, HardWatchdog, LivenessWatchdog, Dropped
  <2>7. UNCHANGED <<room, link, events, syncs, losses>>
    BY <1>8 DEF Hear, Watch, SoftWatchdog, HardWatchdog, LivenessWatchdog, Dropped
  <2> QED BY <1>1, <2>5, <2>6, <2>7 DEF Typed, Links
<1>9. CASE UNCHANGED vars
  BY <1>9 DEF vars, Typed
<1> QED BY <1>2, <1>3, <1>4, <1>5, <1>6, <1>7, <1>8, <1>9 DEF Next, Loop

----------------------------------------------------------------------------
(* The invariant                                                           *)

UpInRoom == \A a \in Apps :
    /\ link[a] = "up" => a \in room
    /\ link[a] = "none" => a \notin room

\* Nobody has anything of an application that has never joined, nor it of others.
NeverSeen == \A b \in Apps : link[b] = "none" =>
    /\ events[b] = <<>> /\ syncs[b] = <<>>
    /\ \A a \in Apps : /\ peers[a][b] = None /\ peers[b][a] = None
                       /\ ~Has(syncs[a], b) /\ ~Has(events[a], Joined(b))

\* Hellos are answered by those who have identified the sender.
Answered == \A a, b \in Apps :
    peers[a][b] # None /\ peers[a][b].helloSent => peers[a][b].identified

BrokenLost == \A a \in Apps : link[a] = "broken" => losses[a] # 0
NoLeft == \A a, c \in Apps :
    losses[a] = 0 /\ link[a] \in {"none", "up"} => ~Has(events[c], Left(a))

NoSelf == \A a \in Apps :
    /\ peers[a][a] = None
    /\ ~Has(out[a], a) /\ ~Has(syncs[a], a) /\ ~Has(events[a], Joined(a))

Pair(a, b)  == Together(a, b) /\ Unbroken(a, b)
Under(a, b) == Has(out[a], b) \/ Has(out[a], All) \/ Has(syncs[b], a)
Mutual == \A a, b \in Apps :
    Pair(a, b) /\ Identified(a, b) => Identified(b, a) \/ Under(a, b)

\* As long as two have not identified each other, something under way will make them.
Meeting == \A a, b \in Apps : Pair(a, b) =>
    \/ Identified(a, b) /\ Identified(b, a)
    \/ Under(a, b) \/ Under(b, a)
    \/ Has(events[a], Joined(b)) \/ Has(events[b], Joined(a))

IInv == /\ Typed /\ UpInRoom /\ NeverSeen /\ Answered /\ BrokenLost /\ NoLeft
        /\ NoSelf /\ Mutual /\ Meeting

LEMMA NoticesDiffer ==
    ASSUME NEW a, NEW b
    PROVE  /\ Joined(a) # Left(b) /\ (Joined(a) = Joined(b) => a = b) /\ (Left(a) = Left(b) => a = b)
           /\ Joined(a).type = "PeerJoined" /\ Joined(a).peer = a
           /\ Left(a).type = "PeerLeft" /\ Left(a).peer = a
BY DEF Joined, Left

LEMMA ConnectEffect ==
    ASSUME Typed, NEW a \in Apps, Connect(a)
    PROVE  /\ link[a] \in {"none", "broken"}
           /\ link' = [link EXCEPT ![a] = "up"] /\ room' = room \cup {a} /\ losses' = losses
           /\ \A c \in Apps \ {a} : peers'[c] = peers[c] /\ out'[c] = out[c] /\ syncs'[c] = syncs[c]
           /\ \A d \in Apps :
                IF d \in room \ {a} /\ peers[a][d] = None
                THEN peers'[a][d] # None /\ ~peers'[a][d].identified /\ ~peers'[a][d].helloSent
                ELSE peers'[a][d] = peers[a][d]
           /\ out'[a] = <<>> /\ events'[a] = <<>> /\ syncs'[a] = <<>>
           /\ \A c \in Apps \ {a} : link[c] # "up" => events'[c] = events[c]
           /\ \A c \in Apps \ {a} : \A x :
                Has(events'[c], x) <=> Has(events[c], x) \/ (c \in room /\ link[c] = "up" /\ x = Joined(a))
<1>1. /\ peers \in [Apps -> [Apps -> Entries \cup {None}]]
      /\ out \in [Apps -> Seq(Apps \cup {All})] /\ events \in [Apps -> Seq(Notices)]
      /\ syncs \in [Apps -> Seq(Apps)] /\ link \in [Apps -> Links]
  BY DEF Typed, Links
<1>2. PICK e : e = Seeded(peers[a], room \ {a}) /\ peers' = [peers EXCEPT ![a] = e]
  BY DEF Connect
<1>3. \A d \in Apps :
        IF d \in room \ {a} /\ peers[a][d] = None
        THEN e[d] # None /\ ~e[d].identified /\ ~e[d].helloSent
        ELSE e[d] = peers[a][d]
  <2>1. peers[a] \in [Apps -> Entries \cup {None}]
    BY <1>1
  <2>2. \A S : \A d \in Apps :
          IF d \in S /\ peers[a][d] = None
          THEN /\ Seeded(peers[a], S)[d] # None
               /\ ~Seeded(peers[a], S)[d].identified /\ ~Seeded(peers[a], S)[d].helloSent
          ELSE Seeded(peers[a], S)[d] = peers[a][d]
    BY <2>1, SeededEntries
  <2> QED BY <1>2, <2>2
<1>4. PICK q : q = Pushed(events, room \ {a}, Joined(a)) /\ events' = [q EXCEPT ![a] = <<>>]
  BY DEF Connect, Joined
<1>5. /\ q \in [Apps -> Seq(Notices)]
      /\ \A c \in Apps : ~(c \in room \ {a} /\ link[c] = "up") => q[c] = events[c]
      /\ \A c \in Apps : \A x :
            Has(q[c], x) <=> Has(events[c], x) \/ (c \in room \ {a} /\ link[c] = "up" /\ x = Joined(a))
  <2> DEFINE S == room \ {a}
             m == Joined(a)
  <2>1. m \in Notices
    BY NoticeTypes
  <2> HIDE DEF S, m
  <2>2. /\ Pushed(events, S, m) \in [Apps -> Seq(Notices)]
        /\ \A c \in Apps : ~(c \in S /\ link[c] = "up") => Pushed(events, S, m)[c] = events[c]
        /\ \A c \in Apps : \A x :
             Has(Pushed(events, S, m)[c], x) <=> Has(events[c], x) \/ (c \in S /\ link[c] = "up" /\ x = m)
    BY <2>1, NoticePushed
  <2>3. q = Pushed(events, S, m)
    BY <1>4 DEF S, m
  <2>4. /\ q \in [Apps -> Seq(Notices)]
        /\ \A c \in Apps : ~(c \in S /\ link[c] = "up") => q[c] = events[c]
        /\ \A c \in Apps : \A x :
             Has(q[c], x) <=> Has(events[c], x) \/ (c \in S /\ link[c] = "up" /\ x = m)
    BY <2>2, <2>3
  <2> QED BY <2>4 DEF S, m
<1>6. /\ link[a] \in {"none", "broken"}
      /\ link' = [link EXCEPT ![a] = "up"] /\ room' = room \cup {a} /\ losses' = losses
      /\ out' = [out EXCEPT ![a] = <<>>] /\ syncs' = [syncs EXCEPT ![a] = <<>>]
  BY DEF Connect
<1> QED BY <1>1, <1>2, <1>3, <1>4, <1>5, <1>6

LEMMA ConnectStep == ASSUME IInv, NEW a \in Apps, Connect(a), Typed' PROVE IInv'
<1>1. /\ link[a] \in {"none", "broken"}
      /\ link' = [link EXCEPT ![a] = "up"] /\ room' = room \cup {a} /\ losses' = losses
      /\ \A c \in Apps \ {a} : peers'[c] = peers[c] /\ out'[c] = out[c] /\ syncs'[c] = syncs[c]
      /\ \A d \in Apps :
           IF d \in room \ {a} /\ peers[a][d] = None
           THEN peers'[a][d] # None /\ ~peers'[a][d].identified /\ ~peers'[a][d].helloSent
           ELSE peers'[a][d] = peers[a][d]
      /\ out'[a] = <<>> /\ events'[a] = <<>> /\ syncs'[a] = <<>>
      /\ \A c \in Apps \ {a} : link[c] # "up" => events'[c] = events[c]
      /\ \A c \in Apps \ {a} : \A x :
           Has(events'[c], x) <=> Has(events[c], x) \/ (c \in room /\ link[c] = "up" /\ x = Joined(a))
  BY ConnectEffect DEF IInv
<1>2. link \in [Apps -> Links] /\ \A x : ~Has(<<>>, x)
  BY HasNothing DEF IInv, Typed, Links
<1>3. \A c \in Apps : link'[c] = IF c = a THEN "up" ELSE link[c]
  BY <1>1, <1>2
<1>4. UpInRoom'
  BY <1>1, <1>2, <1>3 DEF IInv, UpInRoom
<1>5. NeverSeen'
  BY <1>1, <1>2, <1>3, NoticesDiffer DEF IInv, UpInRoom, NeverSeen
<1>6. Answered'
  BY <1>1 DEF IInv, Answered
<1>7. BrokenLost'
  BY <1>1, <1>3 DEF IInv, BrokenLost
<1>8. NoLeft'
  <2> SUFFICES ASSUME NEW d \in Apps, NEW c \in Apps,
                      losses'[d] = 0, link'[d] \in {"none", "up"}, Has(events'[c], Left(d))
               PROVE  FALSE
    BY DEF NoLeft
  <2>1. c # a /\ Has(events[c], Left(d))
    BY <1>1, <1>2, NoticesDiffer
  <2>2. losses[d] = 0 /\ link[d] \in {"none", "up"}
    BY <1>1, <1>3 DEF IInv, BrokenLost
  <2> QED BY <2>1, <2>2 DEF IInv, NoLeft
<1>9. NoSelf'
  BY <1>1, <1>2, NoticesDiffer DEF IInv, NoSelf
<1>10. ASSUME NEW c \in Apps, NEW d \in Apps, Pair(c, d)', a \notin {c, d} PROVE Pair(c, d)
  BY <1>1, <1>3, <1>10 DEF Pair, Together, Unbroken
<1>11. ASSUME NEW c \in Apps, NEW d \in Apps, Pair(c, d)', a \in {c, d}
       PROVE  c # d /\ link[a] = "none" /\ ~Identified(c, d)'
  BY <1>1, <1>3, <1>11 DEF Pair, Together, Unbroken, IInv, BrokenLost, NeverSeen, Identified, Known
<1>12. Mutual'
  <2> SUFFICES ASSUME NEW c \in Apps, NEW d \in Apps, Pair(c, d)', Identified(c, d)'
               PROVE  Identified(d, c)' \/ Under(c, d)'
    BY DEF Mutual
  <2>1. a \notin {c, d} /\ Pair(c, d)
    BY <1>10, <1>11
  <2> QED BY <1>1, <2>1 DEF IInv, Mutual, Identified, Known, Under
<1>13. Meeting'
  <2> SUFFICES ASSUME NEW c \in Apps, NEW d \in Apps, Pair(c, d)'
               PROVE  \/ Identified(c, d)' /\ Identified(d, c)'
                      \/ Under(c, d)' \/ Under(d, c)'
                      \/ Has(events[c], Joined(d))' \/ Has(events[d], Joined(c))'
    BY DEF Meeting
  <2>1. CASE a \notin {c, d}
    BY <1>1, <1>10, <2>1 DEF IInv, Meeting, Identified, Known, Under
  <2>2. CASE a \in {c, d}
    BY <1>1, <1>3, <1>11, <2>2 DEF IInv, Pair, Together
  <2> QED BY <2>1, <2>2
<1> QED BY <1>4, <1>5, <1>6, <1>7, <1>8, <1>9, <1>12, <1>13 DEF IInv

\* Lose and Quit: nobody is a pair with one that is gone.
LEMMA GoneStep == ASSUME IInv, NEW a \in Apps, Lose(a) \/ Quit(a), Typed' PROVE IInv'
<1>1. /\ link \in [Apps -> Links] /\ losses \in [Apps -> Nat]
      /\ peers \in [Apps -> [Apps -> Entries \cup {None}]]
      /\ out \in [Apps -> Seq(Apps \cup {All})] /\ events \in [Apps -> Seq(Notices)]
      /\ syncs \in [Apps -> Seq(Apps)] /\ \A x : ~Has(<<>>, x)
  BY HasNothing DEF IInv, Typed, Links
<1>2. /\ link[a] # "none" /\ link'[a] \in {"broken", "ended"} /\ room' = room
      /\ link'[a] = "broken" => losses'[a] # 0
      /\ \A c \in Apps \ {a} : /\ link'[c] = link[c] /\ losses'[c] = losses[c]
                               /\ peers'[c] = peers[c] /\ out'[c] = out[c]
                               /\ events'[c] = events[c] /\ syncs'[c] = syncs[c]
      /\ peers'[a] = peers[a] \/ \A d \in Apps : peers'[a][d] = None
      /\ \A x : /\ Has(out'[a], x) => Has(out[a], x)
                /\ Has(events'[a], x) => Has(events[a], x)
                /\ Has(syncs'[a], x) => Has(syncs[a], x)
  <2>1. CASE Lose(a)
    BY <1>1, <2>1 DEF Lose
  <2>2. CASE Quit(a)
    BY <1>1, <2>2 DEF Quit
  <2> QED BY <2>1, <2>2
<1>3. UpInRoom'
  BY <1>2 DEF IInv, UpInRoom
<1>4. NeverSeen'
  BY <1>2 DEF IInv, NeverSeen
<1>5. Answered'
  BY <1>2 DEF IInv, Answered
<1>6. BrokenLost' /\ NoLeft'
  BY <1>2 DEF IInv, BrokenLost, NoLeft
<1>7. NoSelf'
  BY <1>2 DEF IInv, NoSelf
<1>8. ASSUME NEW c \in Apps, NEW d \in Apps, Pair(c, d)' PROVE a \notin {c, d} /\ Pair(c, d)
  BY <1>2, <1>8 DEF Pair, Together, Unbroken
<1>9. Mutual'
  BY <1>2, <1>8 DEF IInv, Mutual, Identified, Known, Under
<1>10. Meeting'
  BY <1>2, <1>8 DEF IInv, Meeting, Identified, Known, Under
<1> QED BY <1>3, <1>4, <1>5, <1>6, <1>7, <1>9, <1>10 DEF IInv

LEMMA VacateStep == ASSUME IInv, NEW a \in Apps, Vacate(a), Typed' PROVE IInv'
<1> DEFINE S == room \ {a}
           m == Left(a)
<1>1. m \in Notices
  BY NoticeTypes
<1>2. /\ Pushed(events, S, m) \in [Apps -> Seq(Notices)]
      /\ \A c \in Apps : ~(c \in S /\ link[c] = "up") => Pushed(events, S, m)[c] = events[c]
      /\ \A c \in Apps : \A x :
           Has(Pushed(events, S, m)[c], x) <=> Has(events[c], x) \/ (c \in S /\ link[c] = "up" /\ x = m)
  <2>1. Typed
    BY DEF IInv
  <2> HIDE DEF S, m
  <2> QED BY <1>1, <2>1, NoticePushed
<1>3. /\ a \in room /\ link[a] # "up" /\ room' = S /\ events' = Pushed(events, S, m)
      /\ UNCHANGED <<link, peers, out, syncs, losses>>
  BY DEF Vacate, Left
<1>4. /\ \A c \in Apps : link[c] # "up" => events'[c] = events[c]
      /\ \A c \in Apps : \A x : Has(events[c], x) => Has(events'[c], x)
      /\ \A c \in Apps : \A x : Has(events'[c], x) /\ x # Left(a) => Has(events[c], x)
  BY <1>2, <1>3
<1>5. UpInRoom'
  BY <1>3 DEF IInv, UpInRoom
<1>6. NeverSeen'
  <2> SUFFICES ASSUME NEW b \in Apps, link[b] = "none"
               PROVE  /\ events'[b] = <<>> /\ syncs[b] = <<>>
                      /\ \A c \in Apps : /\ peers[c][b] = None /\ peers[b][c] = None
                                         /\ ~Has(syncs[c], b) /\ ~Has(events'[c], Joined(b))
    BY <1>3 DEF NeverSeen
  <2>1. events[b] = <<>> /\ syncs[b] = <<>>
        /\ \A c \in Apps : /\ peers[c][b] = None /\ peers[b][c] = None
                           /\ ~Has(syncs[c], b) /\ ~Has(events[c], Joined(b))
    BY DEF IInv, NeverSeen
  <2>2. Joined(b) # Left(a)
    BY NoticesDiffer
  <2>3. \A c \in Apps : ~Has(events'[c], Joined(b))
    BY <1>4, <2>1, <2>2
  <2>4. events'[b] = <<>>
    BY <1>4, <2>1
  <2> QED BY <2>1, <2>3, <2>4
<1>7. Answered' /\ BrokenLost'
  BY <1>3 DEF IInv, Answered, BrokenLost
<1>8. NoLeft'
  <2> SUFFICES ASSUME NEW d \in Apps, NEW c \in Apps,
                      losses[d] = 0, link[d] \in {"none", "up"}, Has(events'[c], Left(d))
               PROVE  FALSE
    BY <1>3 DEF NoLeft
  <2>1. d # a
    BY <1>3 DEF IInv, UpInRoom
  <2> QED BY <1>4, <2>1, NoticesDiffer DEF IInv, NoLeft
<1>9. NoSelf'
  BY <1>3, <1>4, NoticesDiffer DEF IInv, NoSelf
<1>10. ASSUME NEW c \in Apps, NEW d \in Apps, Pair(c, d)' PROVE Pair(c, d)
  BY <1>3, <1>10 DEF Pair, Together, Unbroken
<1>11. Mutual'
  BY <1>3, <1>10 DEF IInv, Mutual, Identified, Known, Under
<1>12. Meeting'
  BY <1>3, <1>4, <1>10 DEF IInv, Meeting, Identified, Known, Under
<1> QED BY <1>5, <1>6, <1>7, <1>8, <1>9, <1>11, <1>12 DEF IInv

LEMMA ForwardStep == ASSUME IInv, NEW a \in Apps, Forward(a), Typed' PROVE IInv'
<1> DEFINE to == Head(out[a])
           S == room \cap (IF to = All THEN Apps \ {a} ELSE {to})
<1>1. /\ link[a] = "up" /\ out[a] # <<>> /\ out' = [out EXCEPT ![a] = Tail(out[a])]
      /\ syncs' = Pushed(syncs, S, a)
      /\ UNCHANGED <<room, link, peers, events, losses>>
  BY DEF Forward
<1>2. out \in [Apps -> Seq(Apps \cup {All})]
  BY DEF IInv, Typed
<1>3. \A x : Has(out[a], x) <=> Has(Tail(out[a]), x) \/ x = to
  BY <1>1, <1>2, HasTail
<1>4. /\ \A c \in Apps \ {a} : out'[c] = out[c]
      /\ \A x : Has(out[a], x) <=> Has(out'[a], x) \/ x = to
  BY <1>1, <1>2, <1>3
<1>5. /\ \A c \in Apps : link[c] # "up" => syncs'[c] = syncs[c]
      /\ \A c \in Apps : \A x :
           Has(syncs'[c], x) <=> Has(syncs[c], x) \/ (c \in S /\ link[c] = "up" /\ x = a)
  <2>1. Typed
    BY DEF IInv
  <2> HIDE DEF S
  <2>2. /\ Pushed(syncs, S, a) \in [Apps -> Seq(Apps)]
        /\ \A c \in Apps : ~(c \in S /\ link[c] = "up") => Pushed(syncs, S, a)[c] = syncs[c]
        /\ \A c \in Apps : \A x :
             Has(Pushed(syncs, S, a)[c], x) <=> Has(syncs[c], x) \/ (c \in S /\ link[c] = "up" /\ x = a)
    BY <2>1, HelloPushed
  <2> QED BY <1>1, <2>2
<1>6. a \notin S
  BY <1>4 DEF IInv, NoSelf
<1>7. UpInRoom' /\ Answered' /\ BrokenLost' /\ NoLeft'
  BY <1>1 DEF IInv, UpInRoom, Answered, BrokenLost, NoLeft
<1>8. NeverSeen'
  BY <1>1, <1>5 DEF IInv, NeverSeen
<1>9. NoSelf'
  BY <1>1, <1>4, <1>5, <1>6 DEF IInv, NoSelf
<1>10. ASSUME NEW c \in Apps, NEW d \in Apps, Pair(c, d)' PROVE Pair(c, d)
  BY <1>1, <1>10 DEF Pair, Together, Unbroken
<1>11. ASSUME NEW c \in Apps, NEW d \in Apps, Pair(c, d), Under(c, d) PROVE Under(c, d)'
  <2>1. CASE c # a
    BY <1>4, <1>5, <1>11, <2>1 DEF Under
  <2>2. CASE c = a
    <3>1. d # a /\ d \in room /\ link[d] = "up"
      BY <1>11, <2>2 DEF Pair, Together
    <3>2. CASE to \in {d, All}
      <4>1. d \in S
        BY <3>1, <3>2
      <4> QED BY <1>5, <2>2, <3>1, <4>1 DEF Under
    <3>3. CASE to \notin {d, All}
      BY <1>4, <1>5, <1>11, <2>2, <3>3 DEF Under
    <3> QED BY <3>2, <3>3
  <2> QED BY <2>1, <2>2
<1>12. Mutual'
  BY <1>1, <1>10, <1>11 DEF IInv, Mutual, Identified, Known
<1>13. Meeting'
  <2> SUFFICES ASSUME NEW c \in Apps, NEW d \in Apps, Pair(c, d)'
               PROVE  \/ Identified(c, d)' /\ Identified(d, c)'
                      \/ Under(c, d)' \/ Under(d, c)'
                      \/ Has(events[c], Joined(d))' \/ Has(events[d], Joined(c))'
    BY DEF Meeting
  <2>1. Pair(c, d) /\ Pair(d, c)
    BY <1>10 DEF Pair, Together, Unbroken
  <2> QED BY <1>1, <1>11, <2>1 DEF IInv, Meeting, Identified, Known
<1> QED BY <1>7, <1>8, <1>9, <1>12, <1>13 DEF IInv
\* TakeEvent, as the proofs see it.
LEMMA EventTaken ==
    ASSUME Typed, NEW a \in Apps, TakeEvent(a)
    PROVE  /\ Head(events[a]) \in Notices
           /\ UNCHANGED <<room, link, syncs, losses>>
           /\ \A c \in Apps \ {a} : events'[c] = events[c]
           /\ \A x : Has(events[a], x) <=> Has(events'[a], x) \/ x = Head(events[a])
<1>1. events \in [Apps -> Seq(Notices)]
  BY DEF Typed
<1>2. events[a] \in Seq(Notices) /\ events[a] # <<>>
  BY <1>1 DEF TakeEvent
<1>3. events' = [events EXCEPT ![a] = Tail(events[a])] /\ UNCHANGED <<room, link, syncs, losses>>
  BY DEF TakeEvent
<1>4. /\ Head(events[a]) \in Notices
      /\ \A x : Has(events[a], x) <=> Has(Tail(events[a]), x) \/ x = Head(events[a])
  BY <1>2, HasTail
<1> QED BY <1>1, <1>3, <1>4

LEMMA NoticeIs ==
    ASSUME NEW n \in Notices
    PROVE  /\ n.peer \in Apps
           /\ n.type = "PeerJoined" => n = Joined(n.peer)
           /\ n.type = "PeerLeft" => n = Left(n.peer)
BY DEF Notices, Joined, Left

LEMMA JoinedStep == ASSUME IInv, NEW a \in Apps, PeerJoined(a), Typed' PROVE IInv'
<1>1. Typed /\ TakeEvent(a) /\ Head(events[a]).type = "PeerJoined"
  BY DEF IInv, PeerJoined
<1>2. /\ Head(events[a]) \in Notices
      /\ UNCHANGED <<room, link, syncs, losses>>
      /\ \A c \in Apps \ {a} : events'[c] = events[c]
      /\ \A x : Has(events[a], x) <=> Has(events'[a], x) \/ x = Head(events[a])
  BY <1>1, EventTaken
<1>3. PICK p \in Apps : p = Head(events[a]).peer /\ Head(events[a]) = Joined(p)
  BY <1>1, <1>2, NoticeIs
<1>4. Has(events[a], Joined(p))
  BY <1>2, <1>3
<1>5. p # a /\ link[p] # "none" /\ link[a] # "none"
  BY <1>4, HasNothing DEF IInv, NoSelf, NeverSeen
<1>6. /\ peers \in [Apps -> [Apps -> Entries \cup {None}]]
      /\ peers' = [peers EXCEPT ![a] = Seeded(peers[a], {p})]
      /\ out' = Sent(a, All)
  BY <1>1, <1>3 DEF Typed, PeerJoined
<1>7. /\ \A c \in Apps \ {a} : peers'[c] = peers[c]
      /\ \A d \in Apps : IF d = p /\ peers[a][d] = None
                        THEN /\ peers'[a][d] # None
                             /\ ~peers'[a][d].identified /\ ~peers'[a][d].helloSent
                        ELSE peers'[a][d] = peers[a][d]
  <2>1. peers[a] \in [Apps -> Entries \cup {None}]
    BY <1>6
  <2>2. PICK e : e = Seeded(peers[a], {p})
    OBVIOUS
  <2>3. \A d \in Apps : IF d \in {p} /\ peers[a][d] = None
                       THEN e[d] # None /\ ~e[d].identified /\ ~e[d].helloSent
                       ELSE e[d] = peers[a][d]
    BY <2>1, <2>2, SeededEntries
  <2>4. peers' = [peers EXCEPT ![a] = e]
    BY <1>6, <2>2
  <2> QED BY <1>6, <2>3, <2>4
<1>8. \A c \in Apps : \A x : Has(out'[c], x) <=> Has(out[c], x) \/ (c = a /\ link[a] = "up" /\ x = All)
  BY <1>1, <1>6, SentHas
<1>9. All \notin Apps
  BY HelloAssumption
<1>10. \A c, d \in Apps : Identified(c, d)' <=> Identified(c, d)
  BY <1>7 DEF Identified, Known
<1>11. UpInRoom' /\ BrokenLost'
  BY <1>2 DEF IInv, UpInRoom, BrokenLost
<1>12. NeverSeen'
  <2> SUFFICES ASSUME NEW b \in Apps, link[b] = "none"
               PROVE  /\ events'[b] = <<>> /\ syncs[b] = <<>>
                      /\ \A c \in Apps : /\ peers'[c][b] = None /\ peers'[b][c] = None
                                         /\ ~Has(syncs[c], b) /\ ~Has(events'[c], Joined(b))
    BY <1>2 DEF NeverSeen
  <2>1. b # a /\ b # p
    BY <1>5
  <2>2. /\ events[b] = <<>> /\ syncs[b] = <<>>
        /\ \A c \in Apps : /\ peers[c][b] = None /\ peers[b][c] = None
                           /\ ~Has(syncs[c], b) /\ ~Has(events[c], Joined(b))
    BY DEF IInv, NeverSeen
  <2> QED BY <1>2, <1>7, <2>1, <2>2
<1>13. Answered'
  BY <1>7 DEF IInv, Answered
<1>14. NoLeft'
  BY <1>2 DEF IInv, NoLeft
<1>15. NoSelf'
  BY <1>2, <1>5, <1>7, <1>8, <1>9 DEF IInv, NoSelf
<1>16. ASSUME NEW c \in Apps, NEW d \in Apps, Pair(c, d)' PROVE Pair(c, d)
  BY <1>2, <1>16 DEF Pair, Together, Unbroken
<1>17. ASSUME NEW c \in Apps, NEW d \in Apps, Under(c, d) PROVE Under(c, d)'
  BY <1>2, <1>8, <1>17 DEF Under
<1>18. Mutual'
  BY <1>10, <1>16, <1>17 DEF IInv, Mutual
<1>19. Meeting'
  <2> SUFFICES ASSUME NEW c \in Apps, NEW d \in Apps, Pair(c, d)'
               PROVE  \/ Identified(c, d)' /\ Identified(d, c)'
                      \/ Under(c, d)' \/ Under(d, c)'
                      \/ Has(events'[c], Joined(d)) \/ Has(events'[d], Joined(c))
    BY DEF Meeting
  <2>1. Pair(c, d)
    BY <1>16
  <2>2. CASE a \in {c, d}
    BY <1>8, <2>1, <2>2 DEF Pair, Together, Under
  <2>3. CASE a \notin {c, d}
    BY <1>2, <1>10, <1>17, <2>1, <2>3 DEF IInv, Meeting
  <2> QED BY <2>2, <2>3
<1> QED BY <1>11, <1>12, <1>13, <1>14, <1>15, <1>18, <1>19 DEF IInv

LEMMA LeftStep == ASSUME IInv, NEW a \in Apps, PeerLeft(a), Typed' PROVE IInv'
<1>1. Typed /\ TakeEvent(a) /\ Head(events[a]).type = "PeerLeft"
  BY DEF IInv, PeerLeft
<1>2. /\ Head(events[a]) \in Notices
      /\ UNCHANGED <<room, link, syncs, losses>>
      /\ \A c \in Apps \ {a} : events'[c] = events[c]
      /\ \A x : Has(events[a], x) <=> Has(events'[a], x) \/ x = Head(events[a])
  BY <1>1, EventTaken
<1>3. PICK p \in Apps : p = Head(events[a]).peer /\ Head(events[a]) = Left(p)
  BY <1>1, <1>2, NoticeIs
<1>4. ~(losses[p] = 0 /\ link[p] \in {"none", "up"})
  BY <1>2, <1>3 DEF IInv, NoLeft
<1>5. /\ peers \in [Apps -> [Apps -> Entries \cup {None}]]
      /\ peers' = [peers EXCEPT ![a] = Without(peers[a], p)] /\ out' = out
  BY <1>1, <1>3 DEF Typed, PeerLeft
<1>6. /\ \A c \in Apps \ {a} : peers'[c] = peers[c]
      /\ \A d \in Apps \ {p} : peers'[a][d] = peers[a][d]
      /\ peers'[a][p] = None
  BY <1>5 DEF Without
<1>7. link[a] # "none"
  BY <1>2, <1>3, HasNothing DEF IInv, NeverSeen
<1>8. UpInRoom' /\ BrokenLost'
  BY <1>2 DEF IInv, UpInRoom, BrokenLost
<1>9. NeverSeen'
  <2> SUFFICES ASSUME NEW b \in Apps, link[b] = "none"
               PROVE  /\ events'[b] = <<>> /\ syncs[b] = <<>>
                      /\ \A c \in Apps : /\ peers'[c][b] = None /\ peers'[b][c] = None
                                         /\ ~Has(syncs[c], b) /\ ~Has(events'[c], Joined(b))
    BY <1>2 DEF NeverSeen
  <2>1. b # a
    BY <1>7
  <2>2. /\ events[b] = <<>> /\ syncs[b] = <<>>
        /\ \A c \in Apps : /\ peers[c][b] = None /\ peers[b][c] = None
                           /\ ~Has(syncs[c], b) /\ ~Has(events[c], Joined(b))
    BY DEF IInv, NeverSeen
  <2> QED BY <1>2, <1>6, <2>1, <2>2
<1>10. Answered'
  BY <1>6 DEF IInv, Answered
<1>11. NoLeft'
  BY <1>2 DEF IInv, NoLeft
<1>12. NoSelf'
  BY <1>2, <1>5, <1>6 DEF IInv, NoSelf
<1>13. ASSUME NEW c \in Apps, NEW d \in Apps, Pair(c, d)'
       PROVE  Pair(c, d) /\ p \notin {c, d}
  BY <1>2, <1>4, <1>13 DEF Pair, Together, Unbroken
<1>14. ASSUME NEW c \in Apps, NEW d \in Apps, d # p
       PROVE  Identified(c, d)' <=> Identified(c, d)
  BY <1>6, <1>14 DEF Identified, Known
<1>15. Mutual'
  BY <1>2, <1>5, <1>13, <1>14 DEF IInv, Mutual, Under
<1>16. Meeting'
  <2> SUFFICES ASSUME NEW c \in Apps, NEW d \in Apps, Pair(c, d)'
               PROVE  \/ Identified(c, d)' /\ Identified(d, c)'
                      \/ Under(c, d)' \/ Under(d, c)'
                      \/ Has(events'[c], Joined(d)) \/ Has(events'[d], Joined(c))
    BY DEF Meeting
  <2>1. /\ Identified(c, d)' <=> Identified(c, d)
        /\ Identified(d, c)' <=> Identified(d, c)
        /\ Under(c, d)' <=> Under(c, d)
        /\ Under(d, c)' <=> Under(d, c)
    BY <1>2, <1>5, <1>13, <1>14 DEF Under
  <2>2. \A e, f \in Apps : Has(events[e], Joined(f)) => Has(events'[e], Joined(f))
    BY <1>2, <1>3, NoticesDiffer
  <2> QED BY <1>13, <2>1, <2>2 DEF IInv, Meeting
<1> QED BY <1>8, <1>9, <1>10, <1>11, <1>12, <1>15, <1>16 DEF IInv
LEMMA HelloStep == ASSUME IInv, NEW a \in Apps, Hello(a), Typed' PROVE IInv'
<1>1. /\ Typed /\ syncs[a] # <<>>
      /\ peers \in [Apps -> [Apps -> Entries \cup {None}]] /\ syncs \in [Apps -> Seq(Apps)]
  BY DEF IInv, Hello, Typed
<1>2. PICK b \in Apps : b = Head(syncs[a])
  <2>1. syncs[a] \in Seq(Apps)
    BY <1>1
  <2> QED BY <1>1, <2>1, HasTail
<1> DEFINE answered == peers[a][b] # None /\ peers[a][b].helloSent
<1>3. /\ peers' = [peers EXCEPT ![a] = Greeted(peers[a], b)]
      /\ out' = IF answered THEN out ELSE Sent(a, b)
      /\ syncs' = [syncs EXCEPT ![a] = Tail(syncs[a])]
      /\ UNCHANGED <<room, link, events, losses>>
  BY <1>2 DEF Hello
<1>4. /\ \A c \in Apps \ {a} : syncs'[c] = syncs[c]
      /\ \A x : Has(syncs[a], x) <=> Has(syncs'[a], x) \/ x = b
  <2>1. syncs[a] \in Seq(Apps)
    BY <1>1
  <2>2. \A x : Has(syncs[a], x) <=> Has(Tail(syncs[a]), x) \/ x = b
    BY <1>1, <1>2, <2>1, HasTail
  <2> QED BY <1>1, <1>3, <2>2
<1>5. b # a /\ link[b] # "none" /\ link[a] # "none"
  BY <1>1, <1>4 DEF IInv, NoSelf, NeverSeen
<1>6. /\ \A c \in Apps \ {a} : peers'[c] = peers[c]
      /\ \A d \in Apps \ {b} : peers'[a][d] = peers[a][d]
      /\ peers'[a][b] # None /\ peers'[a][b].identified
  <2>1. peers[a] \in [Apps -> Entries \cup {None}]
    BY <1>1
  <2>2. PICK e : e = Greeted(peers[a], b)
    OBVIOUS
  <2>3. (\A d \in Apps \ {b} : e[d] = peers[a][d]) /\ e[b] # None /\ e[b].identified
    BY <2>1, <2>2, GreetedEntries
  <2>4. peers' = [peers EXCEPT ![a] = e]
    BY <1>3, <2>2
  <2> QED BY <1>1, <2>3, <2>4
<1>7. \A c \in Apps : \A x :
        Has(out'[c], x) <=> Has(out[c], x) \/ (~answered /\ c = a /\ link[a] = "up" /\ x = b)
  <2>1. \A c \in Apps : \A x :
          Has(Sent(a, b)[c], x) <=> Has(out[c], x) \/ (c = a /\ link[a] = "up" /\ x = b)
    BY <1>1, SentHas
  <2> QED BY <1>3, <2>1
<1>8. answered => Identified(a, b)
  BY DEF IInv, Answered, Identified, Known
<1> HIDE DEF answered
<1>9. UpInRoom' /\ BrokenLost' /\ NoLeft'
  BY <1>3 DEF IInv, UpInRoom, BrokenLost, NoLeft
<1>10. NeverSeen'
  <2> SUFFICES ASSUME NEW d \in Apps, link[d] = "none"
               PROVE  /\ events[d] = <<>> /\ syncs'[d] = <<>>
                      /\ \A c \in Apps : /\ peers'[c][d] = None /\ peers'[d][c] = None
                                         /\ ~Has(syncs'[c], d) /\ ~Has(events[c], Joined(d))
    BY <1>3 DEF NeverSeen
  <2>1. d # a /\ d # b
    BY <1>5
  <2>2. /\ events[d] = <<>> /\ syncs[d] = <<>>
        /\ \A c \in Apps : /\ peers[c][d] = None /\ peers[d][c] = None
                           /\ ~Has(syncs[c], d) /\ ~Has(events[c], Joined(d))
    BY DEF IInv, NeverSeen
  <2> QED BY <1>4, <1>6, <2>1, <2>2
<1>11. Answered'
  BY <1>6 DEF IInv, Answered
<1>12. NoSelf'
  BY <1>3, <1>4, <1>5, <1>6, <1>7 DEF IInv, NoSelf
<1>13. ASSUME NEW c \in Apps, NEW d \in Apps, Pair(c, d)' PROVE Pair(c, d)
  BY <1>3, <1>13 DEF Pair, Together, Unbroken
<1>14. ASSUME NEW c \in Apps, NEW d \in Apps, Identified(c, d) PROVE Identified(c, d)'
  BY <1>6, <1>14 DEF Identified, Known
<1>15. ASSUME NEW c \in Apps, NEW d \in Apps, Under(c, d) PROVE Under(c, d)' \/ (c = b /\ d = a)
  BY <1>4, <1>7, <1>15 DEF Under
<1>16. Identified(a, b)'
  BY <1>6 DEF Identified, Known
<1>17. ASSUME NEW c \in Apps, NEW d \in Apps, Identified(c, d)', ~Identified(c, d)
       PROVE  c = a /\ d = b
  BY <1>6, <1>17 DEF Identified, Known
<1>18. Mutual'
  <2> SUFFICES ASSUME NEW c \in Apps, NEW d \in Apps, Pair(c, d)', Identified(c, d)'
               PROVE  Identified(d, c)' \/ Under(c, d)'
    BY DEF Mutual
  <2>1. Pair(c, d)
    BY <1>13
  <2>2. CASE Identified(c, d)
    <3>1. Identified(d, c) \/ Under(c, d)
      BY <2>1, <2>2 DEF IInv, Mutual
    <3> QED BY <1>14, <1>15, <1>16, <3>1
  <2>3. CASE ~Identified(c, d)
    <3>1. c = a /\ d = b
      BY <1>17, <2>3
    <3>2. ~answered /\ link[a] = "up"
      BY <1>8, <2>1, <2>3, <3>1 DEF Pair, Together
    <3> QED BY <1>7, <3>1, <3>2 DEF Under
  <2> QED BY <2>2, <2>3
<1>19. Meeting'
  <2> SUFFICES ASSUME NEW c \in Apps, NEW d \in Apps, Pair(c, d)'
               PROVE  \/ Identified(c, d)' /\ Identified(d, c)'
                      \/ Under(c, d)' \/ Under(d, c)'
                      \/ Has(events'[c], Joined(d)) \/ Has(events'[d], Joined(c))
    BY DEF Meeting
  <2>1. Pair(c, d) /\ Pair(d, c)'
    BY <1>3, <1>13 DEF Pair, Together, Unbroken
  <2>2. CASE {c, d} = {a, b}
    <3>1. Identified(c, d)' \/ Identified(d, c)'
      BY <1>16, <2>2
    <3> QED BY <1>18, <2>1, <3>1 DEF Mutual
  <2>3. CASE {c, d} # {a, b}
    BY <1>3, <1>14, <1>15, <2>1, <2>3 DEF IInv, Meeting
  <2> QED BY <2>2, <2>3
<1> QED BY <1>9, <1>10, <1>11, <1>12, <1>18, <1>19 DEF IInv

\* Hear and SoftWatchdog change neither the identity nor whether a Hello was sent.
LEMMA MarkStep ==
    ASSUME IInv, NEW a \in Apps, NEW b \in Apps, Hear(a, b) \/ SoftWatchdog(a, b), Typed'
    PROVE  IInv'
<1>1. /\ Typed /\ peers \in [Apps -> [Apps -> Entries \cup {None}]] /\ peers[a][b] # None
  BY DEF IInv, Typed, Hear, SoftWatchdog, Unidentified, Known
<1>2. a # b
  BY <1>1 DEF IInv, NoSelf
<1>3. PICK n \in {Heard(peers[a], b), Retried(peers[a], b)} : peers' = [peers EXCEPT ![a] = n]
  BY DEF Hear, SoftWatchdog
<1>4. /\ \A c \in Apps \ {b} : n[c] = peers[a][c]
      /\ n[b] # None
      /\ n[b].identified = peers[a][b].identified /\ n[b].helloSent = peers[a][b].helloSent
  <2>1. peers[a] \in [Apps -> Entries \cup {None}]
    BY <1>1
  <2> QED BY <1>1, <2>1, ChangedEntries
<1>5. /\ \A c \in Apps \ {a} : peers'[c] = peers[c]
      /\ \A d \in Apps \ {b} : peers'[a][d] = peers[a][d]
      /\ peers'[a][b] # None
      /\ peers'[a][b].identified = peers[a][b].identified
      /\ peers'[a][b].helloSent = peers[a][b].helloSent
  BY <1>1, <1>3, <1>4
<1>6. UNCHANGED <<room, link, events, syncs, losses>> /\ out' \in {out, Sent(a, b)}
  BY DEF Hear, SoftWatchdog
<1>7. \A c \in Apps : \A x : /\ Has(out[c], x) => Has(out'[c], x)
                             /\ Has(out'[c], x) => Has(out[c], x) \/ (c = a /\ x = b)
  <2>1. \A c \in Apps : \A x :
          Has(Sent(a, b)[c], x) <=> Has(out[c], x) \/ (c = a /\ link[a] = "up" /\ x = b)
    BY <1>1, SentHas
  <2> QED BY <1>6, <2>1
<1>8. UpInRoom' /\ BrokenLost' /\ NoLeft'
  BY <1>6 DEF IInv, UpInRoom, BrokenLost, NoLeft
<1>9. \A c, d \in Apps : peers'[c][d] = None <=> peers[c][d] = None
  BY <1>1, <1>5
<1>10. NeverSeen'
  BY <1>6, <1>9 DEF IInv, NeverSeen
<1>11. Answered'
  BY <1>1, <1>5 DEF IInv, Answered
<1>12. NoSelf'
  BY <1>2, <1>6, <1>7, <1>9 DEF IInv, NoSelf
<1>13. \A c, d \in Apps : /\ Pair(c, d)' <=> Pair(c, d)
                          /\ Identified(c, d)' <=> Identified(c, d)
                          /\ Under(c, d) => Under(c, d)'
  BY <1>1, <1>5, <1>6, <1>7 DEF Pair, Together, Unbroken, Identified, Known, Under
<1>14. Mutual' /\ Meeting'
  BY <1>6, <1>13 DEF IInv, Mutual, Meeting
<1> QED BY <1>8, <1>10, <1>11, <1>12, <1>14 DEF IInv

\* Nothing is under way in the queues of an application whose messages have arrived.
LEMMA IdleHas ==
    ASSUME NEW a, Idle(a), NEW x
    PROVE  ~Has(out[a], x) /\ ~Has(events[a], x) /\ ~Has(syncs[a], x)
BY HasNothing DEF Idle

\* A pair is never dropped: the one watchdog sees them identified, the other both up.
LEMMA WatchedPair ==
    ASSUME IInv, NEW a \in Apps, NEW b \in Apps, HardWatchdog(a, b) \/ LivenessWatchdog(a, b)
    PROVE  ~Pair(a, b)
<1>1. CASE LivenessWatchdog(a, b)
  BY <1>1 DEF LivenessWatchdog, Pair, Together
<1>2. CASE HardWatchdog(a, b)
  <2> SUFFICES ASSUME Pair(a, b) PROVE FALSE
    OBVIOUS
  <2>1. Idle(a) /\ Idle(b) /\ ~Identified(a, b)
    BY <1>2 DEF HardWatchdog, Unidentified, Identified
  <2>2. \A x : /\ ~Has(out[a], x) /\ ~Has(syncs[a], x) /\ ~Has(events[a], x)
               /\ ~Has(out[b], x) /\ ~Has(syncs[b], x) /\ ~Has(events[b], x)
    BY <2>1, IdleHas
  <2> QED BY <2>1, <2>2 DEF IInv, Meeting, Under
<1> QED BY <1>1, <1>2

LEMMA DropStep ==
    ASSUME IInv, NEW a \in Apps, NEW b \in Apps,
           HardWatchdog(a, b) \/ LivenessWatchdog(a, b), Typed'
    PROVE  IInv'
<1>1. peers \in [Apps -> [Apps -> Entries \cup {None}]]
  BY DEF IInv, Typed
<1>2. peers' = [peers EXCEPT ![a] = Without(peers[a], b)]
      /\ UNCHANGED <<room, link, out, events, syncs, losses>>
  BY DEF HardWatchdog, LivenessWatchdog, Dropped
<1>3. /\ \A c \in Apps \ {a} : peers'[c] = peers[c]
      /\ \A d \in Apps \ {b} : peers'[a][d] = peers[a][d]
      /\ peers'[a][b] = None
  BY <1>1, <1>2 DEF Without
<1>4. UpInRoom' /\ BrokenLost' /\ NoLeft'
  BY <1>2 DEF IInv, UpInRoom, BrokenLost, NoLeft
<1>5. NeverSeen'
  BY <1>2, <1>3 DEF IInv, NeverSeen
<1>6. Answered'
  BY <1>3 DEF IInv, Answered
<1>7. NoSelf'
  BY <1>2, <1>3 DEF IInv, NoSelf
<1>8. ~Pair(a, b) /\ ~Pair(b, a)
  BY WatchedPair DEF Pair, Together, Unbroken
<1>9. ASSUME NEW c \in Apps, NEW d \in Apps, Pair(c, d)'
      PROVE  /\ Pair(c, d) /\ {c, d} # {a, b}
             /\ Identified(c, d)' <=> Identified(c, d)
             /\ Identified(d, c)' <=> Identified(d, c)
  <2>1. Pair(c, d)
    BY <1>2, <1>9 DEF Pair, Together, Unbroken
  <2>2. ~(c = a /\ d = b) /\ ~(c = b /\ d = a)
    BY <1>8, <2>1
  <2>3. {c, d} # {a, b}
    BY <2>1, <2>2 DEF Pair, Together
  <2> QED BY <1>3, <2>1, <2>2, <2>3 DEF Identified, Known
<1>10. Mutual' /\ Meeting'
  BY <1>2, <1>9 DEF IInv, Mutual, Meeting, Under
<1> QED BY <1>4, <1>5, <1>6, <1>7, <1>10 DEF IInv
LEMMA IInvStart == Init => IInv
<1> SUFFICES ASSUME Init PROVE IInv
  OBVIOUS
<1>1. Typed
  BY TypedStart
<1>2. /\ \A a \in Apps : /\ link[a] = "none" /\ a \notin room
                         /\ events[a] = <<>> /\ syncs[a] = <<>> /\ out[a] = <<>>
      /\ \A a, b \in Apps : peers[a][b] = None
      /\ \A x : ~Has(<<>>, x)
  BY HasNothing DEF Init
<1>3. UpInRoom /\ NeverSeen /\ Answered /\ BrokenLost /\ NoLeft /\ NoSelf
  BY <1>2 DEF UpInRoom, NeverSeen, Answered, BrokenLost, NoLeft, NoSelf
<1>4. Mutual /\ Meeting
  BY <1>2 DEF Mutual, Meeting, Pair, Together
<1> QED BY <1>1, <1>3, <1>4 DEF IInv

LEMMA IInvStep == IInv /\ [Next]_vars => IInv'
<1> SUFFICES ASSUME IInv, [Next]_vars PROVE IInv'
  OBVIOUS
<1>1. Typed'
  BY TypedStep DEF IInv
<1>2. ASSUME NEW a \in Apps, Connect(a) PROVE IInv'
  BY <1>1, <1>2, ConnectStep
<1>3. ASSUME NEW a \in Apps, Lose(a) \/ Quit(a) PROVE IInv'
  BY <1>1, <1>3, GoneStep
<1>4. ASSUME NEW a \in Apps, Vacate(a) PROVE IInv'
  BY <1>1, <1>4, VacateStep
<1>5. ASSUME NEW a \in Apps, Forward(a) PROVE IInv'
  BY <1>1, <1>5, ForwardStep
<1>6. ASSUME NEW a \in Apps, Loop(a) PROVE IInv'
  BY <1>1, <1>6, JoinedStep, LeftStep, HelloStep DEF Loop
<1>7. ASSUME NEW a \in Apps, NEW b \in Apps, Hear(a, b) \/ Watch(a, b) PROVE IInv'
  BY <1>1, <1>7, MarkStep, DropStep DEF Watch
<1>8. CASE UNCHANGED vars
  BY <1>8 DEF vars, IInv, Typed, UpInRoom, NeverSeen, Answered, BrokenLost, NoLeft, NoSelf,
              Mutual, Meeting, Pair, Under, Together, Unbroken, Identified, Known
<1> QED BY <1>2, <1>3, <1>4, <1>5, <1>6, <1>7, <1>8 DEF Next

----------------------------------------------------------------------------
(* The theorems                                                            *)

\* For any number of applications that come, go, and lose connections: of two who have
\* stayed on their first connections, when the Hello handler of one has identified the
\* other, the other has identified it too or its answer is under way.
THEOREM IdentityAlwaysMutual == Spec => []IdentityMutual
<1>1. IInv => IdentityMutual
  <2> SUFFICES ASSUME IInv, NEW a \in Apps, NEW b \in Apps,
                      Pair(a, b), Identified(a, b), ~Identified(b, a)
               PROVE  HelloUnderWay(a, b)
    BY DEF IdentityMutual, Pair
  <2>1. Under(a, b)
    BY DEF IInv, Mutual
  <2> QED BY <2>1 DEF Under, Has, HelloUnderWay
<1> QED BY <1>1, IInvStart, IInvStep, PTL DEF Spec

\* An entry disappears, between unbroken connections, only if one of the two has ended.
LEMMA DropNeedsEnd ==
    ASSUME IInv, [Next]_vars, NEW a \in Apps, NEW b \in Apps,
           b \in Known(a), peers'[a][b] = None, Unbroken(a, b)
    PROVE  "ended" \in {link[a], link[b], link'[a]}
<1>1. /\ Typed /\ peers \in [Apps -> [Apps -> Entries \cup {None}]]
      /\ link \in [Apps -> Links] /\ peers[a][b] # None
  BY DEF IInv, Typed, Links, Known
<1>2. \A c \in Apps : peers[c] \in [Apps -> Entries \cup {None}]
  BY <1>1
<1>3. a # b /\ link[a] \in {"up", "ended"} /\ link[b] \in {"up", "ended"}
  BY <1>1 DEF IInv, NoSelf, NeverSeen, BrokenLost, Unbroken, Links
<1>4. ASSUME NEW c \in Apps, Connect(c) PROVE FALSE
  <2>1. peers'[a] = peers[a] \/ peers'[a][b] # None
    BY <1>1, <1>4, ConnectEffect
  <2> QED BY <1>1, <2>1
<1>5. ASSUME NEW c \in Apps, Lose(c) \/ Vacate(c) \/ Forward(c) PROVE FALSE
  BY <1>1, <1>5 DEF Lose, Vacate, Forward
<1>6. ASSUME NEW c \in Apps, Quit(c) PROVE c = a /\ link'[a] = "ended"
  BY <1>1, <1>6 DEF Quit
<1>7. ASSUME NEW c \in Apps, PeerJoined(c) PROVE FALSE
  <2>1. \A S : peers[c][b] # None => Seeded(peers[c], S)[b] # None
    BY <1>2, SeededEntries
  <2>2. PICK e : (peers[c][b] # None => e[b] # None) /\ peers' = [peers EXCEPT ![c] = e]
    BY <1>7, <2>1 DEF PeerJoined
  <2> QED BY <1>1, <2>2
<1>8. ASSUME NEW c \in Apps, PeerLeft(c) PROVE link[b] = "ended"
  <2>1. TakeEvent(c) /\ Head(events[c]).type = "PeerLeft"
    BY <1>8 DEF PeerLeft
  <2>2. /\ Head(events[c]) \in Notices
        /\ \A x : Has(events[c], x) <=> Has(events'[c], x) \/ x = Head(events[c])
    BY <1>1, <2>1, EventTaken
  <2>3. PICK p \in Apps : p = Head(events[c]).peer /\ Head(events[c]) = Left(p)
    BY <2>1, <2>2, NoticeIs
  <2>4. peers' = [peers EXCEPT ![c] = Without(peers[c], p)]
    BY <1>8, <2>3 DEF PeerLeft
  <2>5. b = p
    BY <1>1, <2>4 DEF Without
  <2>6. ~(losses[b] = 0 /\ link[b] \in {"none", "up"})
    BY <2>2, <2>3, <2>5 DEF IInv, NoLeft
  <2> QED BY <1>3, <2>6 DEF Unbroken
<1>9. ASSUME NEW c \in Apps, Hello(c) PROVE FALSE
  <2>1. syncs[c] \in Seq(Apps) /\ syncs[c] # <<>>
    BY <1>9 DEF IInv, Typed, Hello
  <2>2. PICK d \in Apps : d = Head(syncs[c])
    BY <2>1, HasTail
  <2>3. PICK e : e = Greeted(peers[c], d) /\ peers' = [peers EXCEPT ![c] = e]
    BY <1>9, <2>2 DEF Hello
  <2>4. (\A f \in Apps \ {d} : e[f] = peers[c][f]) /\ e[d] # None
    BY <1>2, <2>3, GreetedEntries
  <2> QED BY <1>1, <2>3, <2>4
<1>10. ASSUME NEW c \in Apps, NEW d \in Apps, Hear(c, d) \/ SoftWatchdog(c, d) PROVE FALSE
  <2>1. peers[c][d] # None
    BY <1>10 DEF Hear, SoftWatchdog, Unidentified, Known
  <2>2. PICK n \in {Heard(peers[c], d), Retried(peers[c], d)} : peers' = [peers EXCEPT ![c] = n]
    BY <1>10 DEF Hear, SoftWatchdog
  <2>3. (\A f \in Apps \ {d} : n[f] = peers[c][f]) /\ n[d] # None
    BY <1>2, <2>1, ChangedEntries
  <2> QED BY <1>1, <2>2, <2>3
<1>11. ASSUME NEW c \in Apps, NEW d \in Apps, HardWatchdog(c, d) \/ LivenessWatchdog(c, d)
       PROVE  "ended" \in {link[a], link[b]}
  <2>1. peers' = [peers EXCEPT ![c] = Without(peers[c], d)]
    BY <1>11 DEF HardWatchdog, LivenessWatchdog, Dropped
  <2>2. c = a /\ d = b
    BY <1>1, <2>1 DEF Without
  <2>3. ~Pair(a, b)
    BY <1>11, <2>2, WatchedPair
  <2> QED BY <1>3, <2>3 DEF Pair, Together, IInv, UpInRoom
<1>12. CASE UNCHANGED vars
  BY <1>1, <1>12 DEF vars
<1> QED
  BY <1>4, <1>5, <1>6, <1>7, <1>8, <1>9, <1>10, <1>11, <1>12 DEF Next, Loop, Watch

\* For any number of applications: while neither connection has broken, PeerLeft and the
\* watchdogs (NoIdentityActivePeers, TimedOutPeers) remove no peer that has not quit.
THEOREM LivePeersStay == Spec => NoLivePeerDropped
<1>1. IInv /\ [Next]_vars =>
        [\A a, b \in Apps : /\ b \in Known(a) /\ peers'[a][b] = None /\ Unbroken(a, b)
                           => "ended" \in {link[a], link[b], link'[a]}]_vars
  BY DropNeedsEnd
<1> QED BY <1>1, IInvStart, IInvStep, PTL DEF Spec, NoLivePeerDropped
=============================================================================
