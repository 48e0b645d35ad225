---------------------------- MODULE IntervalRing ----------------------------
(***************************************************************************)
(* The playback half of the interval ring, wail-audio/src/ring.rs, as the  *)
(* receive plugin drives it: audio of remote peers is fed as it arrives,   *)
(* mixed ahead of time for the next interval, and swapped in when the      *)
(* interval index moves.  The record half is in SendStream.                *)
(*                                                                         *)
(* Audio is counted in blocks, one block per frame of the wire.  What a    *)
(* buffer holds at a position is a bag of blocks: a sum of samples, of     *)
(* which the bag remembers the terms.  The crossfade reaches less far than *)
(* a block, so a fade adds to one position the tails of the blocks before. *)
(* Buffers are allocated once and hold stale sums beyond their length.     *)
(***************************************************************************)
EXTENDS SlotTable

CONSTANTS
    Cap             \* slot_capacity, in blocks

ASSUME CapAssumption == Cap \in Nat \ {0}

VARIABLES
    table,          \* slot_table
    slots,          \* peer_slots
    identityOf,     \* peer_identity_map, None for a peer that is not in it
    current,        \* current_interval
    playing,        \* playback_interval
    mix, mixLen, mixPos,    \* playback_slot, playback_len, playback_pos
    next, nextLen,  \* next_playback_slot, next_playback_len
    pending,        \* pending_remote
    todo,           \* the entries swap_intervals has still to place
    prev            \* swap_intervals' prev_playback

ringVars == <<table, slots, identityOf, current, playing, mix, mixLen, mixPos,
              next, nextLen, pending, todo, prev>>

Positions == 0 .. Cap - 1
Silence   == [i \in Positions |-> EmptyBag]
Block(p, s, n, k, part) == [peer |-> p, stream |-> s, index |-> n, at |-> k, part |-> part]
Audio(p, s, n, k) == SetToBag({Block(p, s, n, k, "body")})
\* The last samples of what a position holds, as a fade hears them.
TailOf(b) == SetToBag({[x EXCEPT !.part = "tail"] : x \in {y \in BagToSet(b) : y.part = "body"}})

EmptySlot == [peer |-> None, stream |-> 0, active |-> FALSE, samples |-> <<>>,
              readPos |-> 0, tail |-> EmptyBag]
Longer(a, b) == IF a >= b THEN a ELSE b
Shorter(a, b) == IF a <= b THEN a ELSE b

RingInit ==
    /\ table = EmptyTable
    /\ slots = [i \in SlotNums |-> EmptySlot]
    /\ identityOf = [p \in PeerIds |-> None]
    /\ current = None /\ playing = None /\ prev = None
    /\ mix = Silence /\ mixLen = 0 /\ mixPos = 0
    /\ next = Silence /\ nextLen = 0
    /\ pending = <<>> /\ todo = <<>>

\* A new ring in the place of the old one.
RingRenewed ==
    /\ table' = EmptyTable /\ slots' = [i \in SlotNums |-> EmptySlot]
    /\ identityOf' = [p \in PeerIds |-> None]
    /\ current' = None /\ playing' = None /\ prev' = None
    /\ mix' = Silence /\ mixLen' = 0 /\ mixPos' = 0
    /\ next' = Silence /\ nextLen' = 0
    /\ pending' = <<>> /\ todo' = <<>>

ClientOf(p) == IF identityOf[p] = None THEN p ELSE identityOf[p]
MappingOf(p, s) == [client |-> ClientOf(p), channel |-> s]

----------------------------------------------------------------------------
(* feed_remote                                                             *)

\* A buffer of length len with samples summed in from offset on; what was never
\* written is cleared first, from the old end or the offset, whichever is later.
SummedIn(buf, len, samples, offset) ==
    LET end == Shorter(offset + Len(samples), Cap)
    IN  [i \in Positions |->
            IF i < offset \/ i >= end THEN buf[i]
            ELSE IF i >= len THEN samples[i - offset + 1]
            ELSE buf[i] (+) samples[i - offset + 1]]
SummedLen(len, samples, offset) ==
    IF offset >= Cap THEN len ELSE Longer(len, Shorter(offset + Len(samples), Cap))

\* find_peer_slot
SlotsOf(p, s) == {i \in SlotNums : slots[i].active /\ slots[i].peer = p /\ slots[i].stream = s}
FirstSlot(S) == CHOOSE i \in S : \A j \in S : i <= j

\* Live append: the interval is being played and the stream has its slot.  The
\* gap between the end of the mix and the cursor of this slot is cleared too.
LiveAppend(p, s, n, audio) ==
    /\ playing = n /\ SlotsOf(p, s) # {}
    /\ LET i    == FirstSlot(SlotsOf(p, s))
           at   == Len(slots[i].samples)
           room == at < Cap
           gap  == [j \in Positions |-> IF j >= mixLen /\ j < at THEN EmptyBag ELSE mix[j]]
       IN  /\ mix' = IF room THEN SummedIn(gap, mixLen, audio, at) ELSE mix
           /\ mixLen' = SummedLen(mixLen, audio, at)
           /\ slots' = IF room THEN [slots EXCEPT ![i].samples = @ \o audio] ELSE slots
    /\ UNCHANGED <<table, identityOf, current, playing, mixPos, next, nextLen, pending, todo, prev>>

PendingEntry(p, s, n, audio, premixed) ==
    [peer |-> p, stream |-> s, index |-> n, samples |-> audio, premixed |-> premixed]
Continued(e, audio, premix) == [e EXCEPT !.samples = @ \o audio, !.premixed = @ \/ premix]

\* Otherwise it waits in pending_remote; what belongs to the interval being
\* recorded is summed into the next playback buffer at once, with the part that
\* came before the index moved, once.
Queue(p, s, n, audio) ==
    /\ playing # n \/ SlotsOf(p, s) = {}
    /\ LET k       == SelectInSeq(pending, LAMBDA e : e.peer = p /\ e.stream = s /\ e.index = n)
           premix  == current = n
           head    == IF k = 0 THEN <<>> ELSE pending[k].samples
           missing == premix /\ k # 0 /\ ~pending[k].premixed
           filled  == IF missing THEN SummedIn(next, nextLen, head, 0) ELSE next
           filledLen == IF missing THEN SummedLen(nextLen, head, 0) ELSE nextLen
       IN  /\ pending' =
                IF k = 0 THEN Append(pending, PendingEntry(p, s, n, audio, premix))
                ELSE [pending EXCEPT ![k] = Continued(@, audio, premix)]
           /\ next' = IF premix THEN SummedIn(filled, filledLen, audio, Len(head)) ELSE next
           /\ nextLen' = IF premix THEN SummedLen(filledLen, audio, Len(head)) ELSE nextLen
    /\ UNCHANGED <<table, slots, identityOf, current, playing, mix, mixLen, mixPos, todo, prev>>

FeedRemote(p, s, n, audio) == LiveAppend(p, s, n, audio) \/ Queue(p, s, n, audio)

----------------------------------------------------------------------------
(* Peers come and go.                                                      *)

\* notify_peer_joined
NotifyPeerJoined(p, id) ==
    LET r    == ReclaimReserved(RekeyClient(table, p, id), id)
        back == {r.back[k] : k \in DOMAIN r.back}
    IN  /\ identityOf' = [identityOf EXCEPT ![p] = id]
        /\ table' = r.table
        /\ slots' = [i \in SlotNums |->
                        IF \E e \in back : e.slot = i
                        THEN [slots[i] EXCEPT !.peer = p, !.active = TRUE, !.tail = EmptyBag,
                                !.stream = (CHOOSE e \in back : e.slot = i).m.channel]
                        ELSE slots[i]]
        /\ UNCHANGED <<current, playing, mix, mixLen, mixPos, next, nextLen, pending, todo, prev>>

\* Releasing what the table holds under the peer's id, not its identity.
ReleasedById(p) == ReleaseAllForClient(table, p)
Released(p) == ReleaseAllForClient(table, ClientOf(p))
\* Entries whose marks survive the buffer they describe.
StillMarked == pending
Unmarked == [k \in DOMAIN pending |-> [pending[k] EXCEPT !.premixed = FALSE]]
\* remove_peer.  The buffer mixed ahead holds the peer's audio: it is thrown
\* away and every entry is to be mixed again.
RemovePeer(p) ==
    /\ table' = Released(p)
    /\ slots' = [i \in SlotNums |->
                    IF slots[i].peer = p
                    THEN [slots[i] EXCEPT !.active = FALSE, !.samples = <<>>, !.readPos = 0]
                    ELSE slots[i]]
    /\ next' = [i \in Positions |-> IF i < nextLen THEN EmptyBag ELSE next[i]]
    /\ nextLen' = 0
    /\ pending' = Unmarked
    /\ identityOf' = [identityOf EXCEPT ![p] = None]
    /\ UNCHANGED <<current, playing, mix, mixLen, mixPos, todo, prev>>

\* reset
Reset ==
    /\ table' = EmptyTable
    /\ slots' = [i \in SlotNums |-> [slots[i] EXCEPT !.samples = <<>>, !.active = FALSE,
                                        !.readPos = 0, !.tail = EmptyBag]]
    /\ identityOf' = [p \in PeerIds |-> None]
    /\ current' = None /\ playing' = None
    /\ mixLen' = 0 /\ mixPos' = 0 /\ nextLen' = 0
    /\ pending' = <<>>
    /\ UNCHANGED <<mix, next, todo, prev>>

\* reset_transport
ResetTransport ==
    /\ current' = None /\ playing' = None
    /\ mixLen' = 0 /\ mixPos' = 0 /\ nextLen' = 0
    /\ slots' = [i \in SlotNums |-> [slots[i] EXCEPT !.readPos = 0]]
    /\ UNCHANGED <<table, identityOf, mix, next, pending, todo, prev>>

----------------------------------------------------------------------------
(* process_with_interval.  The boundary is taken in steps: the swap of the  *)
(* buffers, then one step for each pending entry, so that each step uses    *)
(* the slot table once.                                                     *)

\* No boundary: the index is unknown, the first one, or the current one.
NoBoundary(idx) ==
    /\ idx = None \/ current = None \/ current = idx
    /\ current' = IF idx = None THEN current ELSE idx
    /\ playing' = IF idx # None /\ current = None THEN idx ELSE playing
    /\ UNCHANGED <<table, slots, identityOf, mix, mixLen, mixPos, next, nextLen, pending, todo, prev>>

TailsCaptured ==
    [i \in SlotNums |->
        [slots[i] EXCEPT !.samples = <<>>, !.readPos = 0,
            !.tail = IF slots[i].active /\ slots[i].samples # <<>>
                     THEN TailOf(Last(slots[i].samples)) ELSE @]]
SummedTail(sl) ==
    FoldSet(LAMBDA i, b : b (+) sl[i].tail, EmptyBag, {i \in SlotNums : sl[i].active})

\* swap_intervals up to its loop
Swap(idx) ==
    /\ idx # None /\ current # None /\ current # idx
    /\ slots' = TailsCaptured
    /\ prev' = playing /\ playing' = current /\ current' = idx
    /\ mix' = IF nextLen = 0 THEN next
              ELSE [next EXCEPT ![0] = @ (+) SummedTail(TailsCaptured)]
    /\ next' = mix
    /\ mixLen' = nextLen /\ nextLen' = 0 /\ mixPos' = 0
    /\ todo' = pending /\ pending' = <<>>
    /\ UNCHANGED <<table, identityOf>>

\* An entry of neither the interval now played nor the one played before is kept,
\* or evicted when it is more than two intervals old.
KeepOrEvict ==
    /\ todo # <<>>
    /\ LET r == Head(todo)
       IN  /\ r.index \notin {playing, prev}
           /\ pending' = IF r.index < playing - 2 THEN pending ELSE Append(pending, r)
    /\ todo' = Tail(todo)
    /\ UNCHANGED <<table, slots, identityOf, current, playing, mix, mixLen, mixPos, next, nextLen, prev>>

\* assign_peer_slot: the slot of r's stream, its tail cleared if it changed hands.
Taken(r, i) ==
    IF slots[i].active /\ slots[i].peer = r.peer /\ slots[i].stream = r.stream THEN slots[i]
    ELSE [slots[i] EXCEPT !.peer = r.peer, !.stream = r.stream, !.active = TRUE, !.tail = EmptyBag]
Faded(samples, tail) == [samples EXCEPT ![1] = @ (+) tail]

\* An entry summed in though feed_remote has done so.
SummedAgain(r, audio) == SummedIn(mix, mixLen, audio, 0)
\* Entries left to the buffer mixed ahead, in which late ones are not.
NeverSummed(r, audio) == mix
\* What was mixed ahead is in the buffer already.
MixedWith(r, audio) == IF r.premixed THEN mix ELSE SummedIn(mix, mixLen, audio, 0)
MixedLen(r, audio) == IF r.premixed THEN mixLen ELSE SummedLen(mixLen, audio, 0)

\* An entry whose stream has a slot, now or for the first time.
PlaceInSlot ==
    /\ todo # <<>>
    /\ LET r == Head(todo)
           a == Assign(table, MappingOf(r.peer, r.stream))
           i == a.slot
       IN  /\ r.index \in {playing, prev} /\ i # None
           /\ LET heard == Faded(r.samples, Taken(r, i).tail)
              IN  /\ slots' = [slots EXCEPT ![i] = [Taken(r, i) EXCEPT !.samples = heard, !.readPos = 0]]
                  /\ mix' = MixedWith(r, heard)
                  /\ mixLen' = MixedLen(r, heard)
           /\ table' = a.table
    /\ todo' = Tail(todo)
    /\ UNCHANGED <<identityOf, current, playing, mixPos, next, nextLen, pending, prev>>

Merged(old, new) ==
    [k \in 1 .. Longer(Len(old), Len(new)) |->
        (IF k <= Len(old) THEN old[k] ELSE EmptyBag) (+) (IF k <= Len(new) THEN new[k] ELSE EmptyBag)]

\* An entry for which no slot is left is added to its peer's stream 0, if that has one.
MergeIntoFirst ==
    /\ todo # <<>>
    /\ LET r == Head(todo)
           a == Assign(table, MappingOf(r.peer, r.stream))
           z == SlotFor(a.table, MappingOf(r.peer, 0))
       IN  /\ r.index \in {playing, prev} /\ a.slot = None
           /\ slots' = IF z = None THEN slots
                       ELSE [slots EXCEPT ![z].samples = Merged(@, r.samples), ![z].readPos = 0]
           /\ mix' = MixedWith(r, r.samples)
           /\ mixLen' = MixedLen(r, r.samples)
           /\ table' = a.table
    /\ todo' = Tail(todo)
    /\ UNCHANGED <<identityOf, current, playing, mixPos, next, nextLen, pending, prev>>

\* The end of process_with_interval: one block of the mix, while there is one.
MixRead == IF mixPos < mixLen THEN mixPos + 1 ELSE mixPos
\* read_peer_playback: one block of a slot, and silence from one that is not active.
SlotRead(i) ==
    IF slots[i].active /\ slots[i].readPos < Len(slots[i].samples)
    THEN [slots[i] EXCEPT !.readPos = @ + 1] ELSE slots[i]
\* A callback reads the mix and every slot.
Play ==
    /\ mixPos' = MixRead
    /\ slots' = [i \in SlotNums |-> SlotRead(i)]
    /\ UNCHANGED <<table, identityOf, current, playing, mix, mixLen, next, nextLen, pending, todo, prev>>
=============================================================================
