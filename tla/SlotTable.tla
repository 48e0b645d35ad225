------------------------------ MODULE SlotTable ------------------------------
(***************************************************************************)
(* The slot table of the Rust audio crate, wail-audio/src/slot.rs: which   *)
(* playback slot each channel of each client has, and which slot it gets   *)
(* back when it returns.                                                   *)
(*                                                                         *)
(* A table is a value and a method is a function of tables.  The two lists *)
(* stay sequences: every lookup takes the first match, which matters once  *)
(* rekey_client has made two entries alike.                                *)
(***************************************************************************)
EXTENDS Integers, Sequences, SequencesExt

CONSTANTS
    PeerIds,        \* ids of sessions
    Identities,     \* persistent identities of installations
    Streams,        \* channel indices
    MaxSlots,       \* MAX_SLOTS, 15 in the code
    None            \* Option::None

ASSUME SlotAssumption ==
    /\ MaxSlots \in Nat \ {0}
    /\ 0 \in Streams /\ Streams \subseteq Nat
    /\ PeerIds \cap Identities = {}
    /\ None \notin PeerIds \cup Identities \cup Nat

SlotNums == 0 .. MaxSlots - 1
\* A channel is keyed by the identity, or by the peer id while it is unknown.
Mappings == [client : PeerIds \cup Identities, channel : Streams]
Entry(m, i) == [m |-> m, slot |-> i]

Table(occupied, active, reserved) ==
    [occupied |-> occupied, active |-> active, reserved |-> reserved]
EmptyTable == Table({}, <<>>, <<>>)

First(list, m) == SelectInSeq(list, LAMBDA e : e.m = m)
\* Vec::retain, as a fold: the provers cannot open SelectSeq.
Without(list, m) ==
    FoldLeft(LAMBDA kept, e : IF e.m = m THEN kept ELSE Append(kept, e), <<>>, list)

\* lookup_active, slot_for
SlotFor(t, m) ==
    IF First(t.active, m) = 0 THEN None ELSE t.active[First(t.active, m)].slot

Occupy(t, m, i) == Table(t.occupied \cup {i}, Append(t.active, Entry(m, i)), t.reserved)
Free(t) == SlotNums \ t.occupied

\* assign, as the pair of the new table and the slot, None when all are taken.
Assign(t, m) ==
    LET r       == First(t.reserved, m)
        dropped == IF r = 0 THEN t ELSE [t EXCEPT !.reserved = RemoveAt(@, r)]
        lowest  == CHOOSE i \in Free(t) : \A j \in Free(t) : i <= j
    IN  CASE First(t.active, m) # 0 -> [table |-> t, slot |-> SlotFor(t, m)]
          [] First(t.active, m) = 0 /\ r # 0 /\ t.reserved[r].slot \in Free(t) ->
                [table |-> Occupy(dropped, m, t.reserved[r].slot), slot |-> t.reserved[r].slot]
          [] OTHER -> IF Free(t) = {} THEN [table |-> dropped, slot |-> None]
                      ELSE [table |-> Occupy(dropped, m, lowest), slot |-> lowest]

\* release
Release(t, m) ==
    LET i == First(t.active, m)
    IN  IF i = 0 THEN t
        ELSE Table(t.occupied \ {t.active[i].slot}, RemoveAt(t.active, i),
                   Append(Without(t.reserved, m), t.active[i]))

\* release_all_for_client
ReleaseAllForClient(t, c) ==
    FoldLeft(LAMBDA acc, e : IF e.m.client = c THEN Release(acc, e.m) ELSE acc, t, t.active)

\* A reclaim that does not ask whether the slot was given away.
ReclaimedTaken(acc, e) ==
    LET kept == [acc.table EXCEPT !.reserved = Without(@, e.m)]
    IN  [table |-> Occupy(kept, e.m, e.slot), back |-> Append(acc.back, e)]
\* One entry's turn in a reclaim: it leaves the reserved ones, and is active again if its
\* slot is free.
Reclaimed(acc, e) ==
    LET kept == [acc.table EXCEPT !.reserved = Without(@, e.m)]
    IN  IF e.slot \in Free(acc.table)
        THEN [table |-> Occupy(kept, e.m, e.slot), back |-> Append(acc.back, e)]
        ELSE [acc EXCEPT !.table = kept]

\* reclaim_reserved_for_client: the table, and the entries reclaimed.
ReclaimReserved(t, c) ==
    FoldLeft(LAMBDA acc, e : IF e.m.client = c THEN Reclaimed(acc, e) ELSE acc,
             [table |-> t, back |-> <<>>], t.reserved)

\* rekey_client
Renamed(list, old, new) ==
    [k \in DOMAIN list |->
        [list[k] EXCEPT !.m.client = IF @ = old THEN new ELSE @]]
RekeyClient(t, old, new) ==
    Table(t.occupied, Renamed(t.active, old, new), Renamed(t.reserved, old, new))
=============================================================================
