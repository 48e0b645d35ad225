-------------------------- MODULE RecvPluginProofs --------------------------
(***************************************************************************)
(* That the receive plugin's slot table and its playback slots stay in     *)
(* step, and what is in the mix, for any number of peers, channels, slots  *)
(* and blocks: theorems RingSlotsAlwaysExclusive, RingSlotsAlwaysAgree,    *)
(* SlotsPlayTheMix, PremixAlwaysExact and NothingMixedTwice.               *)
(*                                                                         *)
(* First what the folds of SlotTable compute.  FoldLeft is a CHOOSE of a   *)
(* recursive function; FoldExists shows that there is one, and each lemma  *)
(* about an operation takes its value one element at a time.  Then the     *)
(* invariant of the table, that of the slots upon it, and those of the     *)
(* buffers: what they hold, how often, and what it adds up to.             *)
(***************************************************************************)
EXTENDS RecvPlugin, SequenceTheorems, FiniteSetTheorems, WellFoundedInduction, TLAPS

(***************************************************************************)
(* Induction over the natural numbers, as a statement about sets.          *)
(***************************************************************************)
LEMMA NatSet ==
    ASSUME NEW S, 0 \in S, \A n \in Nat : n \in S => n + 1 \in S
    PROVE  \A n \in Nat : n \in S
<1> SUFFICES ASSUME Nat \ S # {} PROVE FALSE
  OBVIOUS
<1>1. PICK x \in Nat \ S : \A y \in Nat \ S : ~ (<<y, x>> \in OpToRel(<, Nat))
  BY NatLessThanWellFounded, WFMin
<1>2. ASSUME NEW y \in Nat \ S PROVE ~(y < x)
  BY <1>1 DEF OpToRel
<1>3. x # 0 /\ x - 1 \in Nat /\ x - 1 < x /\ (x - 1) + 1 = x
  OBVIOUS
<1> QED BY <1>2, <1>3

LEMMA MaxOfPrefix ==
    ASSUME NEW n \in Nat \ {0}
    PROVE  Max(1..n) = n /\ (1..n) \ {n} = 1..(n - 1)
<1>1. n \in 1..n /\ \A y \in 1..n : n >= y
  OBVIOUS
<1>2. \A x \in 1..n : (\A y \in 1..n : x >= y) => x = n
  BY <1>1
<1>3. (1..n) \ {n} = 1..(n - 1)
  OBVIOUS
<1>4. Max(1..n) \in 1..n /\ \A y \in 1..n : Max(1..n) >= y
  BY <1>1 DEF Max
<1>5. Max(1..n) = n
  BY <1>2, <1>4
<1> QED BY <1>3, <1>5

LEMMA MaxIsMember ==
    ASSUME NEW n \in Nat, NEW s \in SUBSET (1..n), s # {}
    PROVE  Max(s) \in s /\ \A y \in s : Max(s) >= y
<1> DEFINE S == {k \in Nat : \A t \in SUBSET (1..k) : t # {} => \E x \in t : \A y \in t : x >= y}
<1>1. 0 \in S
  <2>1. 1..0 = {}
    OBVIOUS
  <2> QED BY <2>1
<1>2. ASSUME NEW k \in Nat, k \in S PROVE k + 1 \in S
  <2>1. SUFFICES ASSUME NEW t \in SUBSET (1..(k + 1)), t # {} PROVE \E x \in t : \A y \in t : x >= y
    OBVIOUS
  <2>2. CASE k + 1 \in t
    BY <2>2
  <2>3. CASE k + 1 \notin t
    <3>1. t \in SUBSET (1..k)
      BY <2>3
    <3> QED BY <1>2, <2>1, <3>1
  <2> QED BY <2>2, <2>3
<1>3. \A k \in Nat : k \in S
  <2> HIDE DEF S
  <2> QED BY <1>1, <1>2, NatSet
<1>4. n \in S
  BY <1>3
<1>5. PICK x \in s : \A y \in s : x >= y
  BY <1>4
<1> QED BY <1>5 DEF Max

(***************************************************************************)
(* The recursion of FoldLeft has a solution, for an op that stays in a set *)
(* A; and so the value of the fold is reached in one step per element.     *)
(***************************************************************************)
Folds(g, op, a, seq) ==
    \A s \in SUBSET DOMAIN seq :
        g[s] = IF s = {} THEN a ELSE op[<<g[s \ {Max(s)}], seq[Max(s)]>>]

LEMMA FoldExists ==
    ASSUME NEW A, NEW E, NEW op \in [A \X E -> A], NEW a \in A, NEW seq \in Seq(E)
    PROVE  \E g \in [SUBSET DOMAIN seq -> A] : Folds(g, op, a, seq)
<1> DEFINE N == Len(seq)
           Upto(n) == \E g \in [SUBSET (1..n) -> A] : \A s \in SUBSET (1..n) :
                          g[s] = IF s = {} THEN a ELSE op[<<g[s \ {Max(s)}], seq[Max(s)]>>]
           S == {n \in Nat : n <= N => Upto(n)}
<1>0. N \in Nat /\ DOMAIN seq = 1..N /\ \A k \in 1..N : seq[k] \in E
  OBVIOUS
<1>1. 0 \in S
  <2> DEFINE g == [s \in SUBSET (1..0) |-> a]
  <2>1. \A s \in SUBSET (1..0) : s = {}
    OBVIOUS
  <2>2. g \in [SUBSET (1..0) -> A] /\ \A s \in SUBSET (1..0) : g[s] = a
    OBVIOUS
  <2>3. Upto(0)
    BY <2>1, <2>2
  <2> QED BY <2>3
<1>2. ASSUME NEW n \in Nat, n \in S PROVE n + 1 \in S
  <2> SUFFICES ASSUME n + 1 <= N PROVE Upto(n + 1)
    <3> HIDE DEF Upto
    <3> QED OBVIOUS
  <2>0. Upto(n)
    <3> HIDE DEF Upto
    <3> QED BY <1>2, <1>0
  <2>1. PICK g \in [SUBSET (1..n) -> A] : \A s \in SUBSET (1..n) :
            g[s] = IF s = {} THEN a ELSE op[<<g[s \ {Max(s)}], seq[Max(s)]>>]
    BY <2>0
  <2> DEFINE h == [s \in SUBSET (1..(n + 1)) |->
                      IF n + 1 \in s THEN op[<<g[s \ {n + 1}], seq[n + 1]>>] ELSE g[s]]
  <2>2. seq[n + 1] \in E
    BY <1>0
  <2>3. ASSUME NEW s \in SUBSET (1..(n + 1)), n + 1 \in s
        PROVE  /\ Max(s) = n + 1 /\ s \ {n + 1} \in SUBSET (1..n)
               /\ h[s] = op[<<g[s \ {n + 1}], seq[n + 1]>>] /\ h[s] \in A
               /\ h[s \ {n + 1}] = g[s \ {n + 1}]
    <3>1. \A y \in s : n + 1 >= y
      OBVIOUS
    <3>2. \A x \in s : (\A y \in s : x >= y) => x = n + 1
      BY <2>3
    <3>3. Max(s) = n + 1
      BY <2>3, <3>1, <3>2 DEF Max
    <3>4. s \ {n + 1} \in SUBSET (1..n)
      OBVIOUS
    <3>5. op[<<g[s \ {n + 1}], seq[n + 1]>>] \in A
      BY <3>4, <2>2
    <3>6. h[s \ {n + 1}] = g[s \ {n + 1}]
      OBVIOUS
    <3> QED BY <2>3, <3>3, <3>4, <3>5, <3>6
  <2>4. ASSUME NEW s \in SUBSET (1..(n + 1)), n + 1 \notin s
        PROVE  s \in SUBSET (1..n) /\ h[s] = g[s] /\ h[s] \in A
    <3>1. s \in SUBSET (1..n)
      BY <2>4
    <3> QED BY <2>4, <3>1
  <2>5. h \in [SUBSET (1..(n + 1)) -> A]
    BY <2>3, <2>4
  <2>6. ASSUME NEW s \in SUBSET (1..(n + 1))
        PROVE  h[s] = IF s = {} THEN a ELSE op[<<h[s \ {Max(s)}], seq[Max(s)]>>]
    <3> HIDE DEF h
    <3>1. CASE n + 1 \in s
      BY <3>1, <2>3
    <3>2. CASE n + 1 \notin s
      <4>1. s \ {Max(s)} \in SUBSET (1..n) /\ n + 1 \notin s \ {Max(s)}
        BY <3>2, <2>4
      <4>2. h[s] = g[s] /\ h[s \ {Max(s)}] = g[s \ {Max(s)}]
        BY <3>2, <2>4, <4>1
      <4> QED BY <4>2, <2>1, <3>2, <2>4
    <3> QED BY <3>1, <3>2
  <2> HIDE DEF h
  <2> QED BY <2>5, <2>6
<1>3. \A k \in Nat : k \in S
  <2> HIDE DEF S
  <2> QED BY <1>1, <1>2, NatSet
<1>4. Upto(N)
  <2> HIDE DEF Upto
  <2> QED BY <1>0, <1>3
<1> QED BY <1>0, <1>4 DEF Folds

(***************************************************************************)
(* Lists: the lookup, the removal by position and retain.                  *)
(***************************************************************************)
LEMMA MinIsMember ==
    ASSUME NEW S \in SUBSET Nat, S # {}
    PROVE  Min(S) \in S /\ \A y \in S : Min(S) <= y
<1>1. PICK x \in S : \A y \in S : ~ (<<y, x>> \in OpToRel(<, Nat))
  BY NatLessThanWellFounded, WFMin
<1>2. ASSUME NEW y \in S PROVE x <= y
  <2>1. ~(y < x)
    BY <1>1 DEF OpToRel
  <2> QED BY <2>1
<1> QED BY <1>2 DEF Min

\* What First finds: the first entry of a mapping, or that there is none.
LEMMA FirstFinds ==
    ASSUME NEW E, NEW list \in Seq(E), NEW m
    PROVE  \/ First(list, m) = 0 /\ \A k \in 1..Len(list) : list[k].m # m
           \/ /\ First(list, m) \in 1..Len(list) /\ list[First(list, m)].m = m
              /\ \A k \in 1..Len(list) : list[k].m = m => First(list, m) <= k
<1> DEFINE I == {i \in 1..Len(list) : list[i].m = m}
<1>1. First(list, m) = IF I # {} THEN Min(I) ELSE 0
  BY DEF First, SelectInSeq
<1>2. CASE I = {}
  BY <1>1, <1>2
<1>3. CASE I # {}
  <2>1. I \in SUBSET Nat
    OBVIOUS
  <2>2. Min(I) \in I /\ \A y \in I : Min(I) <= y
    <3> HIDE DEF I
    <3> QED BY <1>3, <2>1, MinIsMember
  <2> QED BY <1>1, <1>3, <2>2
<1> QED BY <1>2, <1>3

LEMMA RemoveAtIs ==
    ASSUME NEW E, NEW s \in Seq(E), NEW i \in 1..Len(s)
    PROVE  /\ RemoveAt(s, i) \in Seq(E) /\ Len(RemoveAt(s, i)) = Len(s) - 1
           /\ \A k \in 1..(Len(s) - 1) : RemoveAt(s, i)[k] = IF k < i THEN s[k] ELSE s[k + 1]
<1>1. /\ SubSeq(s, 1, i - 1) \in Seq(E) /\ Len(SubSeq(s, 1, i - 1)) = i - 1
      /\ \A k \in 1..(i - 1) : SubSeq(s, 1, i - 1)[k] = s[k]
  OBVIOUS
<1>2. /\ SubSeq(s, i + 1, Len(s)) \in Seq(E) /\ Len(SubSeq(s, i + 1, Len(s))) = Len(s) - i
      /\ \A k \in 1..(Len(s) - i) : SubSeq(s, i + 1, Len(s))[k] = s[i + k]
  OBVIOUS
<1> HIDE DEF RemoveAt
<1> DEFINE a == SubSeq(s, 1, i - 1)
           b == SubSeq(s, i + 1, Len(s))
<1>3. RemoveAt(s, i) = a \o b
  BY DEF RemoveAt
<1>4. /\ a \in Seq(E) /\ Len(a) = i - 1 /\ b \in Seq(E) /\ Len(b) = Len(s) - i
      /\ \A k \in 1..(i - 1) : a[k] = s[k]
      /\ \A k \in 1..(Len(s) - i) : b[k] = s[i + k]
  BY <1>1, <1>2
<1> HIDE DEF a, b
<1>5. /\ a \o b \in Seq(E) /\ Len(a \o b) = Len(a) + Len(b)
      /\ \A k \in 1..(Len(a) + Len(b)) : (a \o b)[k] = IF k <= Len(a) THEN a[k] ELSE b[k - Len(a)]
  BY <1>4, ConcatProperties
<1>7. Len(a) + Len(b) = Len(s) - 1
  BY <1>4
<1>6. ASSUME NEW k \in 1..(Len(s) - 1)
      PROVE  (a \o b)[k] = IF k < i THEN s[k] ELSE s[k + 1]
  <2>1. CASE k < i
    BY <1>4, <1>5, <1>7, <2>1
  <2>2. CASE ~(k < i)
    <3>1. k - Len(a) \in 1..(Len(s) - i) /\ i + (k - Len(a)) = k + 1 /\ ~(k <= Len(a))
      BY <1>4, <2>2
    <3> QED BY <1>4, <1>5, <1>7, <2>2, <3>1
  <2> QED BY <2>1, <2>2
<1> QED BY <1>3, <1>5, <1>6, <1>7

LEMMA IndexInduction ==
    ASSUME NEW A, NEW h, NEW N \in Nat, h[0] \in A,
           \A k \in 1..N : h[k - 1] \in A => h[k] \in A
    PROVE  \A k \in 0..N : h[k] \in A
<1> DEFINE S == {k \in Nat : k <= N => h[k] \in A}
<1>1. 0 \in S
  OBVIOUS
<1>2. ASSUME NEW k \in Nat, k \in S PROVE k + 1 \in S
  <2> SUFFICES ASSUME k + 1 <= N PROVE h[k + 1] \in A
    OBVIOUS
  <2>1. k + 1 \in 1..N /\ (k + 1) - 1 = k
    OBVIOUS
  <2> QED BY <1>2, <2>1
<1>3. \A k \in Nat : k \in S
  <2> HIDE DEF S
  <2> QED BY <1>1, <1>2, NatSet
<1> QED BY <1>3

(***************************************************************************)
(* The slot table                                                          *)
(***************************************************************************)
Entries == [m : Mappings, slot : SlotNums]
Tables  == [occupied : SUBSET SlotNums, active : Seq(Entries), reserved : Seq(Entries)]

\* retain keeps entries only.
LEMMA WithoutKeeps ==
    ASSUME NEW list \in Seq(Entries), NEW m
    PROVE  Without(list, m) \in Seq(Entries)
<1> DEFINE Step(kept, e) == IF e.m = m THEN kept ELSE Append(kept, e)
           A  == Seq(Entries)
           op == [x \in A \X Entries |-> Step(x[1], x[2])]
           D  == DOMAIN list
           N  == Len(list)
<1>1. D = 1..N /\ N \in Nat /\ \A k \in D : list[k] \in Entries
  OBVIOUS
<1>2. \A x \in A, e \in Entries : Step(x, e) \in A
  OBVIOUS
<1>3. op \in [A \X Entries -> A] /\ \A x \in A, e \in Entries : op[<<x, e>>] = Step(x, e)
  BY <1>2
<1>4. <<>> \in A
  OBVIOUS
<1> HIDE DEF op, A
<1>5. PICK g \in [SUBSET D -> A] : Folds(g, op, <<>>, list)
  BY <1>3, <1>4, FoldExists DEF A
<1> HIDE DEF Step
<1>6. g = [s \in SUBSET D |-> IF s = {} THEN <<>> ELSE Step(g[s \ {Max(s)}], list[Max(s)])]
  <2>1. ASSUME NEW s \in SUBSET D, s # {}
        PROVE  op[<<g[s \ {Max(s)}], list[Max(s)]>>] = Step(g[s \ {Max(s)}], list[Max(s)])
    BY <1>1, <1>3, <2>1, MaxIsMember
  <2> QED BY <1>5, <2>1 DEF Folds
<1> DEFINE iter == CHOOSE iter : iter = [s \in SUBSET D |->
                IF s = {} THEN <<>> ELSE Step(iter[s \ {Max(s)}], list[Max(s)])]
<1>7. iter = [s \in SUBSET D |-> IF s = {} THEN <<>> ELSE Step(iter[s \ {Max(s)}], list[Max(s)])]
  BY <1>6
<1>8. Without(list, m) = iter[D]
  BY DEF Without, FoldLeft, MapThenFoldSet, Step
<1> HIDE DEF iter
<1> DEFINE h == [k \in 0..N |-> iter[1..k]]
<1>9. h[0] = <<>>
  <2>1. 1..0 = {}
    OBVIOUS
  <2> QED BY <1>1, <1>7, <2>1
<1>10. ASSUME NEW k \in 1..N PROVE h[k] = Step(h[k - 1], list[k])
  <2>1. 1..k \in SUBSET D /\ 1..k # {} /\ Max(1..k) = k /\ (1..k) \ {k} = 1..(k - 1)
    BY <1>1, MaxOfPrefix
  <2>2. k \in 0..N /\ k - 1 \in 0..N
    BY <1>1
  <2> QED BY <1>7, <2>1, <2>2
<1>11. \A k \in 0..N : h[k] \in A
  <2> HIDE DEF h, N, D
  <2>1. \A k \in 1..N : h[k - 1] \in A => h[k] \in A
    BY <1>1, <1>2, <1>10 DEF Step
  <2> QED BY <1>1, <1>4, <1>9, <2>1, IndexInduction
<1> QED BY <1>1, <1>8, <1>11 DEF A
In(t) == {t.active[j] : j \in DOMAIN t.active}

\* The property of a table that no slot has two owners, with its type.
Exclusive(t) ==
    /\ t \in Tables
    /\ \A j, k \in DOMAIN t.active : t.active[j].slot = t.active[k].slot => j = k
    /\ t.occupied = {t.active[j].slot : j \in DOMAIN t.active}

LEMMA EntryIs ==
    ASSUME NEW m \in Mappings, NEW i \in SlotNums
    PROVE  Entry(m, i) \in Entries /\ Entry(m, i).m = m /\ Entry(m, i).slot = i
BY DEF Entry, Entries

\* Two entries of an exclusive table with one slot are the same.
LEMMA OneEntryPerSlot ==
    ASSUME NEW t, Exclusive(t)
    PROVE  /\ \A e, f \in In(t) : e.slot = f.slot => e = f
           /\ In(t) \in SUBSET Entries
           /\ t.occupied = {e.slot : e \in In(t)} /\ t.occupied \in SUBSET SlotNums
<1> DEFINE D == DOMAIN t.active
<1>1. t.active \in Seq(Entries) /\ t.occupied \in SUBSET SlotNums
  BY DEF Exclusive, Tables
<1>2. \A j \in D : t.active[j] \in Entries
  BY <1>1
<1>3. \A e, f \in In(t) : e.slot = f.slot => e = f
  BY DEF Exclusive, In
<1>4. t.occupied = {t.active[j].slot : j \in D}
  BY DEF Exclusive
<1>5. {t.active[j].slot : j \in D} = {e.slot : e \in In(t)}
  BY DEF In
<1>6. In(t) \in SUBSET Entries
  BY <1>2 DEF In
<1> QED BY <1>1, <1>3, <1>4, <1>5, <1>6

LEMMA OccupyIs ==
    ASSUME NEW o, NEW a, NEW r, NEW m, NEW i
    PROVE  Occupy(Table(o, a, r), m, i) = Table(o \cup {i}, Append(a, Entry(m, i)), r)
BY DEF Occupy, Table

\* A free slot that is occupied keeps a table exclusive.
LEMMA OccupyFree ==
    ASSUME NEW t, Exclusive(t), NEW m \in Mappings, NEW i \in Free(t),
           NEW rest \in Seq(Entries)
    PROVE  LET u == Occupy([t EXCEPT !.reserved = rest], m, i)
           IN  Exclusive(u) /\ In(u) = In(t) \cup {Entry(m, i)}
<1> DEFINE u == Occupy([t EXCEPT !.reserved = rest], m, i)
           n == Len(t.active)
<1>1. t \in Tables /\ i \in SlotNums /\ i \notin t.occupied
  BY DEF Exclusive, Free
<1>2. /\ u.active = Append(t.active, Entry(m, i)) /\ u.occupied = t.occupied \cup {i}
      /\ u.reserved = rest /\ u = [occupied |-> u.occupied, active |-> u.active, reserved |-> u.reserved]
  <2>1. t = [occupied |-> t.occupied, active |-> t.active, reserved |-> t.reserved]
    BY <1>1 DEF Tables
  <2>2. [t EXCEPT !.reserved = rest] = Table(t.occupied, t.active, rest)
    BY <2>1 DEF Table
  <2>3. u = Table(t.occupied \cup {i}, Append(t.active, Entry(m, i)), rest)
    BY <2>2 DEF Occupy, Table
  <2> HIDE DEF u
  <2> QED BY <2>3 DEF Table
<1>3. t.active \in Seq(Entries) /\ n \in Nat /\ DOMAIN t.active = 1..n
  BY <1>1 DEF Tables
<1>4. Entry(m, i) \in Entries /\ Entry(m, i).slot = i
  BY <1>1, EntryIs
<1> HIDE DEF u
<1>5. /\ u.active \in Seq(Entries) /\ DOMAIN u.active = 1..(n + 1)
      /\ \A k \in 1..n : u.active[k] = t.active[k]
      /\ u.active[n + 1] = Entry(m, i)
  BY <1>2, <1>3, <1>4
<1>6. u \in Tables
  <2>1. u.occupied \in SUBSET SlotNums
    BY <1>1, <1>2 DEF Tables
  <2> QED BY <1>2, <1>5, <2>1 DEF Tables
<1> HIDE DEF n
<1>7. \A k \in 1..n : t.active[k].slot # i
  BY <1>1, <1>3 DEF Exclusive
<1>8. \A j, k \in 1..(n + 1) : u.active[j].slot = u.active[k].slot => j = k
  <2>1. \A j, k \in 1..n : t.active[j].slot = t.active[k].slot => j = k
    BY <1>3 DEF Exclusive
  <2>2. SUFFICES ASSUME NEW j \in 1..(n + 1), NEW k \in 1..(n + 1), u.active[j].slot = u.active[k].slot
                 PROVE  j = k
    OBVIOUS
  <2>3. (j \in 1..n \/ j = n + 1) /\ (k \in 1..n \/ k = n + 1)
    BY <1>3
  <2> QED BY <1>4, <1>5, <1>7, <2>1, <2>2, <2>3
<1>9. 1..(n + 1) = (1..n) \cup {n + 1}
  BY <1>3
<1>10. {u.active[j].slot : j \in 1..(n + 1)} = {t.active[j].slot : j \in 1..n} \cup {i}
  BY <1>4, <1>5, <1>9
<1>11. {u.active[j] : j \in 1..(n + 1)} = {t.active[j] : j \in 1..n} \cup {Entry(m, i)}
  BY <1>5, <1>9
<1>12. Exclusive(u)
  BY <1>2, <1>3, <1>5, <1>6, <1>8, <1>10 DEF Exclusive
<1>13. In(u) = In(t) \cup {Entry(m, i)}
  BY <1>3, <1>5, <1>11 DEF In
<1> QED BY <1>12, <1>13 DEF u

\* What assign does to the taken slots.
LEMMA AssignIs ==
    ASSUME NEW t, Exclusive(t), NEW m \in Mappings
    PROVE  LET a == Assign(t, m)
           IN  /\ Exclusive(a.table)
               /\ \/ a.slot = None /\ In(a.table) = In(t)
                  \/ /\ a.slot \in SlotNums /\ In(a.table) = In(t) \cup {Entry(m, a.slot)}
                     /\ Entry(m, a.slot) \in In(t) \/ a.slot \in Free(t)
<1> DEFINE r       == First(t.reserved, m)
           dropped == IF r = 0 THEN t ELSE [t EXCEPT !.reserved = RemoveAt(@, r)]
           lowest  == CHOOSE i \in Free(t) : \A j \in Free(t) : i <= j
           a       == Assign(t, m)
<1>1. t \in Tables /\ t.active \in Seq(Entries) /\ t.reserved \in Seq(Entries)
  BY DEF Exclusive, Tables
<1>2. \E rest \in Seq(Entries) : dropped = [t EXCEPT !.reserved = rest]
  <2>1. CASE r = 0
    <3>1. dropped = [t EXCEPT !.reserved = t.reserved]
      BY <1>1, <2>1 DEF Tables
    <3> QED BY <1>1, <3>1
  <2>2. CASE r # 0
    <3>1. r \in 1..Len(t.reserved)
      BY <1>1, <2>2, FirstFinds
    <3>2. RemoveAt(t.reserved, r) \in Seq(Entries)
      BY <1>1, <3>1, RemoveAtIs
    <3> QED BY <2>2, <3>2
  <2> QED BY <2>1, <2>2
<1>3. PICK rest \in Seq(Entries) : dropped = [t EXCEPT !.reserved = rest]
  BY <1>2
<1> HIDE DEF dropped
<1>4. Exclusive(dropped) /\ In(dropped) = In(t)
  <2>1. /\ dropped.active = t.active /\ dropped.occupied = t.occupied
        /\ dropped \in Tables
    BY <1>1, <1>3 DEF Tables
  <2> QED BY <2>1 DEF Exclusive, In
<1>5. ASSUME NEW i \in Free(t)
      PROVE  /\ Exclusive(Occupy(dropped, m, i)) /\ i \in SlotNums
             /\ In(Occupy(dropped, m, i)) = In(t) \cup {Entry(m, i)}
  BY <1>3, OccupyFree DEF Free
<1>6. CASE First(t.active, m) # 0
  <2>1. First(t.active, m) \in 1..Len(t.active) /\ t.active[First(t.active, m)].m = m
    BY <1>1, <1>6, FirstFinds
  <2>2. a.table = t /\ a.slot = t.active[First(t.active, m)].slot
    BY <1>6 DEF Assign, SlotFor
  <2>3. t.active[First(t.active, m)] \in Entries
    BY <1>1, <2>1
  <2>4. Entry(m, a.slot) = t.active[First(t.active, m)] /\ a.slot \in SlotNums
    BY <2>1, <2>2, <2>3 DEF Entry, Entries
  <2>5. Entry(m, a.slot) \in In(t)
    BY <1>1, <2>1, <2>4 DEF In
  <2> QED BY <2>2, <2>4, <2>5
<1>7. CASE First(t.active, m) = 0 /\ r # 0 /\ t.reserved[r].slot \in Free(t)
  <2>1. a = [table |-> Occupy(dropped, m, t.reserved[r].slot), slot |-> t.reserved[r].slot]
    BY <1>7 DEF Assign, dropped
  <2> QED BY <1>5, <1>7, <2>1
<1>8. CASE First(t.active, m) = 0 /\ ~(r # 0 /\ t.reserved[r].slot \in Free(t)) /\ Free(t) = {}
  <2>1. a = [table |-> dropped, slot |-> None]
    BY <1>8 DEF Assign, dropped
  <2> QED BY <1>4, <2>1
<1>9. CASE First(t.active, m) = 0 /\ ~(r # 0 /\ t.reserved[r].slot \in Free(t)) /\ Free(t) # {}
  <2>1. a = [table |-> Occupy(dropped, m, lowest), slot |-> lowest]
    BY <1>9 DEF Assign, dropped
  <2>2. Free(t) \in SUBSET Nat
    BY SlotAssumption DEF Free, SlotNums
  <2>3. \E i \in Free(t) : \A j \in Free(t) : i <= j
    BY <1>9, <2>2, MinIsMember
  <2>4. lowest \in Free(t)
    BY <2>3
  <2> HIDE DEF lowest
  <2>5. a.table = Occupy(dropped, m, lowest) /\ a.slot = lowest
    BY <2>1
  <2> QED BY <1>5, <2>5, <2>4
<1> QED BY <1>6, <1>7, <1>8, <1>9

LEMMA UptoInduction ==
    ASSUME NEW S, NEW N \in Nat, 0 \in S, \A k \in 1..N : k - 1 \in S => k \in S
    PROVE  \A k \in 0..N : k \in S
<1> DEFINE h == [k \in 0..N |-> k]
<1>1. h[0] \in S /\ \A k \in 1..N : h[k - 1] \in S => h[k] \in S
  OBVIOUS
<1>2. \A k \in 0..N : h[k] \in S
  <2> HIDE DEF h
  <2> QED BY <1>1, IndexInduction
<1> QED BY <1>2

\* What release does: the first entry of the mapping leaves the active ones.
LEMMA ReleaseIs ==
    ASSUME NEW t, Exclusive(t), NEW m
    PROVE  LET u == Release(t, m)
               i == First(t.active, m)
               n == Len(t.active)
           IN  /\ Exclusive(u)
               /\ i = 0 => u = t
               /\ i # 0 => /\ i \in 1..n /\ Len(u.active) = n - 1
                           /\ \A k \in 1..(n - 1) :
                                u.active[k] = IF k < i THEN t.active[k] ELSE t.active[k + 1]
                           /\ In(u) = In(t) \ {t.active[i]}
<1> DEFINE u == Release(t, m)
           i == First(t.active, m)
           n == Len(t.active)
<1>1. /\ t \in Tables /\ t.active \in Seq(Entries) /\ t.reserved \in Seq(Entries)
      /\ n \in Nat /\ DOMAIN t.active = 1..n /\ t.occupied \in SUBSET SlotNums
  BY DEF Exclusive, Tables
<1>2. CASE i = 0
  BY <1>2 DEF Release
<1>3. CASE i # 0
  <2>1. i \in 1..n
    BY <1>1, <1>3, FirstFinds
  <2> DEFINE reserved == Append(Without(t.reserved, m), t.active[i])
             active == RemoveAt(t.active, i)
             occupied == t.occupied \ {t.active[i].slot}
  <2>2. reserved \in Seq(Entries)
    BY <1>1, <2>1, WithoutKeeps
  <2>3. /\ active \in Seq(Entries) /\ Len(active) = n - 1
        /\ \A k \in 1..(n - 1) : active[k] = IF k < i THEN t.active[k] ELSE t.active[k + 1]
    BY <1>1, <2>1, RemoveAtIs
  <2>4. u = Table(occupied, active, reserved)
    BY <1>3 DEF Release
  <2> HIDE DEF u, active, reserved
  <2>5. u.occupied = occupied /\ u.active = active /\ u.reserved = reserved /\ u \in Tables
    BY <1>1, <2>2, <2>3, <2>4 DEF Table, Tables
  <2>6. DOMAIN active = 1..(n - 1)
    BY <1>1, <2>1, <2>3
  <2>7. \A j, k \in 1..n : t.active[j].slot = t.active[k].slot => j = k
    BY <1>1 DEF Exclusive
  <2>8. ASSUME NEW j \in 1..(n - 1), NEW k \in 1..(n - 1), active[j].slot = active[k].slot
        PROVE  j = k
    <3> DEFINE at(x) == IF x < i THEN x ELSE x + 1
    <3> HIDE DEF i, n
    <3>1. at(j) \in 1..n /\ at(k) \in 1..n
      BY <1>1, <2>1
    <3>2. active[j] = t.active[at(j)] /\ active[k] = t.active[at(k)]
      BY <2>3
    <3> HIDE DEF at
    <3>3. at(j) = at(k)
      BY <2>7, <2>8, <3>1, <3>2
    <3> QED BY <1>1, <2>1, <3>3 DEF at
  <2>9. ASSUME NEW k \in 1..n, k # i
        PROVE  \E j \in 1..(n - 1) : active[j] = t.active[k]
    <3>1. CASE k < i
      <4>1. k \in 1..(n - 1)
        BY <1>1, <2>1, <3>1
      <4> QED BY <2>3, <3>1, <4>1
    <3>2. CASE k > i
      <4>1. k - 1 \in 1..(n - 1) /\ ~(k - 1 < i) /\ (k - 1) + 1 = k
        BY <1>1, <2>1, <3>2
      <4> HIDE DEF i, n
      <4> QED BY <2>3, <4>1
    <3> QED BY <2>1, <2>9, <3>1, <3>2
  <2>10. ASSUME NEW j \in 1..(n - 1)
         PROVE  \E k \in 1..n : k # i /\ active[j] = t.active[k]
    <3>1. j \in 1..n /\ j + 1 \in 1..n
      BY <1>1
    <3>2. CASE j < i
      BY <2>3, <3>1, <3>2
    <3>3. CASE ~(j < i)
      <4>1. j + 1 # i
        BY <2>1, <3>3
      <4> QED BY <2>3, <3>1, <3>3, <4>1
    <3> QED BY <3>2, <3>3
  <2> HIDE DEF i, n
  <2>11. {active[j] : j \in 1..(n - 1)} = {t.active[k] : k \in (1..n) \ {i}}
    BY <2>9, <2>10
  <2>12. \A k \in (1..n) \ {i} : t.active[k] # t.active[i] /\ t.active[k].slot # t.active[i].slot
    BY <2>1, <2>7
  <2>13. In(u) = In(t) \ {t.active[i]}
    BY <1>1, <2>1, <2>5, <2>6, <2>11, <2>12 DEF In
  <2>14. t.occupied = {t.active[k].slot : k \in 1..n}
    BY <1>1 DEF Exclusive
  <2>15. occupied = {t.active[k].slot : k \in (1..n) \ {i}}
    BY <2>1, <2>12, <2>14
  <2>16. {t.active[k].slot : k \in (1..n) \ {i}} = {active[j].slot : j \in 1..(n - 1)}
    BY <2>9, <2>10
  <2> HIDE DEF occupied
  <2>17. Exclusive(u)
    <3>1. \A j, k \in DOMAIN u.active : u.active[j].slot = u.active[k].slot => j = k
      BY <2>5, <2>6, <2>8
    <3>2. u.occupied = {u.active[j].slot : j \in DOMAIN u.active}
      BY <2>5, <2>6, <2>15, <2>16
    <3> QED BY <2>5, <3>1, <3>2 DEF Exclusive
  <2> QED BY <1>3, <2>1, <2>3, <2>5, <2>13, <2>17 DEF i, n, u
<1> QED BY <1>2, <1>3

\* The entries of u are in the order they have in L.
Ordered(u, L) ==
    \A a, b \in DOMAIN u.active : a < b =>
        \A x, y \in 1..Len(L) : L[x] = u.active[a] /\ L[y] = u.active[b] => x < y

\* What release_all_for_client does: the entries of the client leave, all of them, and
\* no other does.
LEMMA ReleaseAllIs ==
    ASSUME NEW t, Exclusive(t), NEW c
    PROVE  /\ Exclusive(ReleaseAllForClient(t, c))
           /\ In(ReleaseAllForClient(t, c)) = {e \in In(t) : e.m.client # c}
<1> DEFINE Step(acc, e) == IF e.m.client = c THEN Release(acc, e.m) ELSE acc
           L  == t.active
           A  == {u \in Tables : Exclusive(u)}
           op == [x \in A \X Entries |-> Step(x[1], x[2])]
           D  == DOMAIN L
           N  == Len(L)
<1>1. /\ L \in Seq(Entries) /\ D = 1..N /\ N \in Nat /\ \A k \in D : L[k] \in Entries
  BY DEF Exclusive, Tables
<1>2. \A x \in A, e \in Entries : Step(x, e) \in A
  <2>1. \A x \in A, e \in Entries : Exclusive(Release(x, e.m))
    BY ReleaseIs
  <2> QED BY <2>1 DEF Exclusive
<1>3. op \in [A \X Entries -> A] /\ \A x \in A, e \in Entries : op[<<x, e>>] = Step(x, e)
  BY <1>2
<1>4. t \in A
  BY DEF Exclusive
<1> HIDE DEF op, A
<1>5. PICK g \in [SUBSET D -> A] : Folds(g, op, t, L)
  BY <1>1, <1>3, <1>4, FoldExists
<1> HIDE DEF Step
<1>6. g = [s \in SUBSET D |-> IF s = {} THEN t ELSE Step(g[s \ {Max(s)}], L[Max(s)])]
  <2>1. ASSUME NEW s \in SUBSET D, s # {}
        PROVE  op[<<g[s \ {Max(s)}], L[Max(s)]>>] = Step(g[s \ {Max(s)}], L[Max(s)])
    <3>1. Max(s) \in D
      BY <1>1, <2>1, MaxIsMember
    <3> QED BY <1>1, <1>3, <2>1, <3>1
  <2> QED BY <1>5, <2>1 DEF Folds
<1> DEFINE iter == CHOOSE iter : iter = [s \in SUBSET D |->
                IF s = {} THEN t ELSE Step(iter[s \ {Max(s)}], L[Max(s)])]
<1>7. iter = [s \in SUBSET D |-> IF s = {} THEN t ELSE Step(iter[s \ {Max(s)}], L[Max(s)])]
  BY <1>6
<1>8. ReleaseAllForClient(t, c) = iter[D]
  BY DEF ReleaseAllForClient, FoldLeft, MapThenFoldSet, Step
<1> HIDE DEF iter
<1> DEFINE h == [k \in 0..N |-> iter[1..k]]
<1>9. h[0] = t
  <2>1. 1..0 = {}
    OBVIOUS
  <2> QED BY <1>1, <1>7, <2>1
<1>10. ASSUME NEW k \in 1..N PROVE h[k] = Step(h[k - 1], L[k])
  <2>1. 1..k \in SUBSET D /\ 1..k # {} /\ Max(1..k) = k /\ (1..k) \ {k} = 1..(k - 1)
    BY <1>1, MaxOfPrefix
  <2>2. k \in 0..N /\ k - 1 \in 0..N
    BY <1>1
  <2> QED BY <1>7, <2>1, <2>2
<1> DEFINE Left(k) == {L[j] : j \in {y \in 1..N : y > k \/ L[y].m.client # c}}
           S == {k \in 0..N : Exclusive(h[k]) /\ Ordered(h[k], L) /\ In(h[k]) = Left(k)}
<1>11. \A x, y \in 1..N : L[x] = L[y] => x = y
  BY <1>1 DEF Exclusive
<1>12. 0 \in S
  <2>1. Ordered(t, L)
    BY <1>1, <1>11 DEF Ordered
  <2>2. In(t) = Left(0)
    BY <1>1 DEF In
  <2>3. 0 \in 0..N
    BY <1>1
  <2> HIDE DEF h, Left
  <2> QED BY <1>9, <2>1, <2>2, <2>3
<1>13. ASSUME NEW k \in 1..N, k - 1 \in S PROVE k \in S
  <2> DEFINE v == h[k - 1]
  <2>1. Exclusive(v) /\ Ordered(v, L) /\ In(v) = Left(k - 1) /\ k \in 0..N
    <3> HIDE DEF h, Left
    <3> QED BY <1>1, <1>13
  <2>2. h[k] = Step(v, L[k])
    BY <1>10
  <2> HIDE DEF h, v
  <2>3. CASE L[k].m.client # c
    <3>1. h[k] = v
      BY <2>2, <2>3 DEF Step
    <3>2. Left(k) = Left(k - 1)
      BY <1>1, <2>3
    <3> HIDE DEF Left
    <3> QED BY <2>1, <3>1, <3>2
  <2>4. CASE L[k].m.client = c
    <3> DEFINE m == L[k].m
               i == First(v.active, m)
               n == Len(v.active)
               u == Release(v, m)
    <3>0. h[k] = u
      BY <2>2, <2>4 DEF Step
    <3>1. v.active \in Seq(Entries) /\ DOMAIN v.active = 1..n /\ n \in Nat
      BY <2>1 DEF Exclusive, Tables
    <3>2. L[k] \in In(v)
      BY <1>1, <2>1
    <3>3. PICK b \in 1..n : v.active[b] = L[k]
      BY <3>1, <3>2 DEF In
    <3>4. i \in 1..n /\ v.active[i].m = m /\ i <= b
      BY <3>1, <3>3, FirstFinds
    <3>5. PICK x \in 1..N : L[x] = v.active[i] /\ (x > k - 1 \/ L[x].m.client # c)
      <4>1. v.active[i] \in Left(k - 1)
        BY <2>1, <3>1, <3>4 DEF In
      <4> QED BY <4>1
    <3>6. x >= k
      BY <1>1, <2>4, <3>4, <3>5
    <3>7. i = b
      <4>1. i \in DOMAIN v.active /\ b \in DOMAIN v.active /\ k \in 1..Len(L) /\ x \in 1..Len(L) /\ Ordered(v, L)
        BY <2>1, <3>1, <3>4
      <4>2. L[x] = v.active[i] /\ L[k] = v.active[b]
        BY <3>3, <3>5
      <4>3. ~(i < b)
        <5> HIDE DEF i, n, m, u, Left, L
        <5>1. \A a, e \in DOMAIN v.active : a < e
                => \A y, z \in 1..Len(L) : L[y] = v.active[a] /\ L[z] = v.active[e] => y < z
          BY <4>1 DEF Ordered
        <5>2. i < b => \A y, z \in 1..Len(L) : L[y] = v.active[i] /\ L[z] = v.active[b] => y < z
          BY <4>1, <5>1
        <5>3. i < b => x < k
          BY <4>1, <4>2, <5>2
        <5> QED BY <1>1, <3>6, <5>3
      <4> QED BY <3>1, <3>3, <3>4, <4>3
    <3>8. /\ Exclusive(u) /\ Len(u.active) = n - 1 /\ In(u) = In(v) \ {L[k]}
          /\ \A j \in 1..(n - 1) : u.active[j] = IF j < i THEN v.active[j] ELSE v.active[j + 1]
      <4>1. i # 0
        BY <3>4
      <4> QED BY <2>1, <3>3, <3>7, <4>1, ReleaseIs
    <3> HIDE DEF i, n, u, m
    <3>9. DOMAIN u.active = 1..(n - 1)
      BY <3>8 DEF Exclusive, Tables
    <3>10. Ordered(u, L)
      <4> DEFINE at(z) == IF z < i THEN z ELSE z + 1
      <4>1. \A z \in 1..(n - 1) : at(z) \in 1..n /\ u.active[z] = v.active[at(z)]
        BY <3>1, <3>4, <3>8
      <4>2. \A y, z \in 1..(n - 1) : y < z => at(y) < at(z)
        BY <3>1, <3>4
      <4> HIDE DEF at, Left
      <4>3. SUFFICES ASSUME NEW a \in 1..(n - 1), NEW b1 \in 1..(n - 1), a < b1,
                            NEW x1 \in 1..N, NEW y1 \in 1..N,
                            L[x1] = u.active[a], L[y1] = u.active[b1]
                     PROVE  x1 < y1
        BY <3>9 DEF Ordered
      <4>4. at(a) < at(b1) /\ at(a) \in DOMAIN v.active /\ at(b1) \in DOMAIN v.active
        BY <3>1, <4>1, <4>2, <4>3
      <4>5. L[x1] = v.active[at(a)] /\ L[y1] = v.active[at(b1)]
        BY <4>1, <4>3
      <4> QED BY <2>1, <4>4, <4>5 DEF Ordered
    <3>11. Left(k) = Left(k - 1) \ {L[k]}
      <4>1. \A y \in 1..N : (y > k \/ L[y].m.client # c) <=> (y > k - 1 \/ L[y].m.client # c) /\ y # k
        BY <1>1, <2>4
      <4>2. \A y \in 1..N : L[y] = L[k] <=> y = k
        BY <1>11
      <4> QED BY <4>1, <4>2
    <3> HIDE DEF Left
    <3> QED BY <2>1, <3>0, <3>8, <3>10, <3>11
  <2> QED BY <2>3, <2>4
<1>14. N \in S
  <2> HIDE DEF S, N, h
  <2>1. \A k \in 0..N : k \in S
    BY <1>1, <1>12, <1>13, UptoInduction
  <2> QED BY <1>1, <2>1
<1>15. h[N] = ReleaseAllForClient(t, c)
  BY <1>1, <1>8
<1>16. Left(N) = {e \in In(t) : e.m.client # c}
  <2>1. \A y \in 1..N : ~(y > N)
    BY <1>1
  <2> QED BY <1>1, <2>1 DEF In
<1> HIDE DEF h, Left
<1> QED BY <1>14, <1>15, <1>16

\* A rename moves no entry to another slot.
LEMMA RekeyIs ==
    ASSUME NEW t, Exclusive(t), NEW old, NEW new \in PeerIds \cup Identities
    PROVE  LET u == RekeyClient(t, old, new)
               renamed(e) == [e EXCEPT !.m.client = IF @ = old THEN new ELSE @]
           IN  /\ Exclusive(u) /\ u.occupied = t.occupied
               /\ In(u) = {renamed(e) : e \in In(t)}
<1> DEFINE u == RekeyClient(t, old, new)
           renamed(e) == [e EXCEPT !.m.client = IF @ = old THEN new ELSE @]
<1>2. t.active \in Seq(Entries) /\ t.reserved \in Seq(Entries) /\ t.occupied \in SUBSET SlotNums
  BY DEF Exclusive, Tables
<1>3. \A e \in Entries : renamed(e) \in Entries /\ renamed(e).slot = e.slot
  BY DEF Entries, Mappings
<1>4. ASSUME NEW list \in Seq(Entries)
      PROVE  /\ Renamed(list, old, new) \in Seq(Entries)
             /\ DOMAIN Renamed(list, old, new) = DOMAIN list
             /\ \A k \in DOMAIN list : Renamed(list, old, new)[k] = renamed(list[k])
                                       /\ Renamed(list, old, new)[k].slot = list[k].slot
  <2>1. \A k \in DOMAIN list : Renamed(list, old, new)[k] = renamed(list[k])
    BY DEF Renamed
  <2>2. DOMAIN Renamed(list, old, new) = 1..Len(list) /\ DOMAIN list = 1..Len(list) /\ Len(list) \in Nat
    BY DEF Renamed
  <2>3. \A k \in 1..Len(list) : list[k] \in Entries
    OBVIOUS
  <2> HIDE DEF renamed
  <2>4. \A k \in 1..Len(list) : Renamed(list, old, new)[k] \in Entries
    BY <1>3, <2>1, <2>2, <2>3
  <2>5. Renamed(list, old, new) = [k \in 1..Len(list) |-> Renamed(list, old, new)[k]]
    BY <2>2 DEF Renamed
  <2>6. Renamed(list, old, new) \in Seq(Entries)
    BY <2>2, <2>4, <2>5
  <2> QED BY <1>3, <2>1, <2>2, <2>3, <2>6
<1>5. u = [occupied |-> t.occupied, active |-> Renamed(t.active, old, new),
           reserved |-> Renamed(t.reserved, old, new)]
  BY DEF RekeyClient, Table
<1> HIDE DEF u, renamed
<1>6. u \in Tables /\ u.occupied = t.occupied /\ u.active = Renamed(t.active, old, new)
  BY <1>2, <1>4, <1>5 DEF Tables
<1>7. /\ DOMAIN u.active = DOMAIN t.active
      /\ \A k \in DOMAIN t.active : u.active[k].slot = t.active[k].slot /\ u.active[k] = renamed(t.active[k])
  BY <1>2, <1>4, <1>6
<1>8. Exclusive(u)
  <2>1. t.occupied = {t.active[j].slot : j \in DOMAIN t.active}
        /\ \A j, k \in DOMAIN t.active : t.active[j].slot = t.active[k].slot => j = k
    BY DEF Exclusive
  <2>2. u.occupied = {u.active[j].slot : j \in DOMAIN u.active}
    BY <1>6, <1>7, <2>1
  <2>3. \A j, k \in DOMAIN u.active : u.active[j].slot = u.active[k].slot => j = k
    BY <1>7, <2>1
  <2> QED BY <1>6, <2>2, <2>3 DEF Exclusive
<1>9. In(u) = {renamed(e) : e \in In(t)}
  BY <1>7 DEF In
<1> QED BY <1>6, <1>8, <1>9 DEF u, renamed

\* What reclaim_reserved_for_client does: the entries given back are the client's, are in
\* slots that were free, and are active again; the active ones stay.
LEMMA ReclaimIs ==
    ASSUME NEW t, Exclusive(t), NEW c
    PROVE  LET r    == ReclaimReserved(t, c)
               back == {r.back[k] : k \in DOMAIN r.back}
           IN  /\ Exclusive(r.table) /\ In(r.table) = In(t) \cup back
               /\ \A e \in back : e \in Entries /\ e.m.client = c /\ e.slot \notin t.occupied
<1> DEFINE Step(acc, e) == IF e.m.client = c THEN Reclaimed(acc, e) ELSE acc
           L  == t.reserved
           Back(acc) == {acc.back[k] : k \in DOMAIN acc.back}
           Good(acc) == /\ Exclusive(acc.table) /\ In(acc.table) = In(t) \cup Back(acc)
                        /\ \A e \in Back(acc) : e.m.client = c /\ e.slot \notin t.occupied
           A  == {acc \in [table : Tables, back : Seq(Entries)] : Good(acc)}
           a  == [table |-> t, back |-> <<>>]
           op == [x \in A \X Entries |-> Step(x[1], x[2])]
           D  == DOMAIN L
           N  == Len(L)
<1>1. L \in Seq(Entries) /\ D = 1..N /\ N \in Nat /\ \A k \in D : L[k] \in Entries
  BY DEF Exclusive, Tables
<1>2. ASSUME NEW acc \in A, NEW e \in Entries PROVE Step(acc, e) \in A
  <2> DEFINE kept == [acc.table EXCEPT !.reserved = Without(@, e.m)]
             u == Occupy(kept, e.m, e.slot)
  <2>1. acc \in [table : Tables, back : Seq(Entries)] /\ Good(acc) /\ Exclusive(acc.table)
    OBVIOUS
  <2>2. Without(acc.table.reserved, e.m) \in Seq(Entries)
    BY <2>1, WithoutKeeps DEF Tables
  <2>3. CASE e.m.client # c
    BY <2>3
  <2>4. CASE e.m.client = c /\ e.slot \in Free(acc.table)
    <3>1. Exclusive(u) /\ In(u) = In(acc.table) \cup {Entry(e.m, e.slot)}
      <4>1. e.m \in Mappings
        BY DEF Entries
      <4> QED BY <2>1, <2>2, <2>4, <4>1, OccupyFree
    <3>2. Entry(e.m, e.slot) = e
      BY DEF Entry, Entries
    <3>3. Step(acc, e) = [table |-> u, back |-> Append(acc.back, e)]
      BY <2>4 DEF Reclaimed
    <3> HIDE DEF u, Step
    <3> DEFINE s == Step(acc, e)
    <3>4. u \in Tables
      BY <3>1 DEF Exclusive
    <3>5. s.table = u /\ s.back = Append(acc.back, e) /\ s \in [table : Tables, back : Seq(Entries)]
      BY <2>1, <3>3, <3>4
    <3>6. Back(s) = Back(acc) \cup {e}
      <4>1. acc.back \in Seq(Entries)
        BY <2>1
      <4>2. /\ DOMAIN Append(acc.back, e) = (1..Len(acc.back)) \cup {Len(acc.back) + 1}
            /\ Len(acc.back) \in Nat /\ DOMAIN acc.back = 1..Len(acc.back)
            /\ \A k \in 1..Len(acc.back) : Append(acc.back, e)[k] = acc.back[k]
            /\ Append(acc.back, e)[Len(acc.back) + 1] = e
        BY <4>1
      <4> QED BY <3>5, <4>2
    <3>7. e.slot \notin t.occupied
      <4>1. e.slot \notin acc.table.occupied
        BY <2>4 DEF Free
      <4>2. \A f \in In(acc.table) : e.slot # f.slot
        BY <2>1, <4>1, OneEntryPerSlot
      <4>3. \A f \in In(t) : e.slot # f.slot
        BY <2>1, <4>2
      <4> QED BY <4>3, OneEntryPerSlot
    <3> HIDE DEF s, Back
    <3>8. Good(s)
      BY <2>1, <2>4, <3>1, <3>2, <3>5, <3>6, <3>7
    <3> QED BY <3>5, <3>8 DEF s
  <2>5. CASE e.m.client = c /\ e.slot \notin Free(acc.table)
    <3>1. Step(acc, e) = [acc EXCEPT !.table = kept]
      BY <2>5 DEF Reclaimed
    <3>2. kept \in Tables /\ kept.active = acc.table.active /\ kept.occupied = acc.table.occupied
      BY <2>1, <2>2 DEF Tables
    <3> HIDE DEF kept, Step
    <3> DEFINE s == Step(acc, e)
    <3>3. s.table = kept /\ s.back = acc.back /\ s \in [table : Tables, back : Seq(Entries)]
      BY <2>1, <3>1, <3>2
    <3> HIDE DEF s
    <3>4. Exclusive(s.table) /\ In(s.table) = In(acc.table)
      BY <2>1, <3>2, <3>3 DEF Exclusive, In
    <3>5. Good(s)
      BY <2>1, <3>3, <3>4
    <3> QED BY <3>3, <3>5 DEF s
  <2> QED BY <2>3, <2>4, <2>5
<1>3. op \in [A \X Entries -> A] /\ \A x \in A, e \in Entries : op[<<x, e>>] = Step(x, e)
  <2> HIDE DEF A, Step
  <2> QED BY <1>2
<1>4. a \in A
  <2>1. a \in [table : Tables, back : Seq(Entries)] /\ Back(a) = {}
    BY DEF Exclusive
  <2> QED BY <2>1
<1> HIDE DEF op, A, Step, a
<1>5. PICK g \in [SUBSET D -> A] : Folds(g, op, a, L)
  BY <1>1, <1>3, <1>4, FoldExists
<1>6. g = [s \in SUBSET D |-> IF s = {} THEN a ELSE Step(g[s \ {Max(s)}], L[Max(s)])]
  <2>1. ASSUME NEW s \in SUBSET D, s # {}
        PROVE  op[<<g[s \ {Max(s)}], L[Max(s)]>>] = Step(g[s \ {Max(s)}], L[Max(s)])
    <3>1. Max(s) \in D
      BY <1>1, <2>1, MaxIsMember
    <3> QED BY <1>1, <1>3, <2>1, <3>1
  <2> QED BY <1>5, <2>1 DEF Folds
<1> DEFINE iter == CHOOSE iter : iter = [s \in SUBSET D |->
                IF s = {} THEN a ELSE Step(iter[s \ {Max(s)}], L[Max(s)])]
<1>7. iter = [s \in SUBSET D |-> IF s = {} THEN a ELSE Step(iter[s \ {Max(s)}], L[Max(s)])]
  BY <1>6
<1>8. ReclaimReserved(t, c) = iter[D]
  BY DEF ReclaimReserved, FoldLeft, MapThenFoldSet, Step, a
<1> HIDE DEF iter
<1> DEFINE h == [k \in 0..N |-> iter[1..k]]
<1>9. h[0] = a
  <2>1. 1..0 = {}
    OBVIOUS
  <2> QED BY <1>1, <1>7, <2>1
<1>10. ASSUME NEW k \in 1..N PROVE h[k] = Step(h[k - 1], L[k])
  <2>1. 1..k \in SUBSET D /\ 1..k # {} /\ Max(1..k) = k /\ (1..k) \ {k} = 1..(k - 1)
    BY <1>1, MaxOfPrefix
  <2>2. k \in 0..N /\ k - 1 \in 0..N
    BY <1>1
  <2> QED BY <1>7, <2>1, <2>2
<1>11. \A k \in 0..N : h[k] \in A
  <2> HIDE DEF h, N, D
  <2>1. \A k \in 1..N : h[k - 1] \in A => h[k] \in A
    BY <1>1, <1>2, <1>10
  <2> QED BY <1>1, <1>4, <1>9, <2>1, IndexInduction
<1>12. ReclaimReserved(t, c) \in A
  <2>1. N \in 0..N /\ h[N] = iter[1..N]
    BY <1>1
  <2> HIDE DEF h, N
  <2> QED BY <1>1, <1>8, <1>11, <2>1
<1>13. Good(ReclaimReserved(t, c)) /\ ReclaimReserved(t, c) \in [table : Tables, back : Seq(Entries)]
  BY <1>12 DEF A
<1>14. \A k \in DOMAIN ReclaimReserved(t, c).back : ReclaimReserved(t, c).back[k] \in Entries
  BY <1>13
<1> QED BY <1>13, <1>14

(***************************************************************************)
(* The state: what the entries of the queues name.                         *)
(***************************************************************************)
OfStream(x) == {"peer", "stream"} \subseteq DOMAIN x /\ x.peer \in PeerIds /\ x.stream \in Streams
Listed(s)   == \E X : s \in Seq(X) /\ \A x \in X : OfStream(x)
Events      == [kind : {"connected", "disconnected"}, peer : {None}]
               \cup [kind : {"joined", "left"}, peer : PeerIds]

LEMMA ListedEmpty == Listed(<<>>)
<1> SUFFICES <<>> \in Seq({}) /\ \A x \in {} : OfStream(x)
  <2>1. ASSUME NEW X, <<>> \in Seq(X), \A x \in X : OfStream(x) PROVE Listed(<<>>)
    BY <2>1 DEF Listed
  <2> QED BY <2>1
<1> QED OBVIOUS

LEMMA ListedAppend ==
    ASSUME NEW s, Listed(s), NEW x, OfStream(x)
    PROVE  Listed(Append(s, x))
<1>1. PICK X : s \in Seq(X) /\ \A y \in X : OfStream(y)
  BY DEF Listed
<1>2. Append(s, x) \in Seq(X \cup {x})
  BY <1>1
<1>3. \A y \in X \cup {x} : OfStream(y)
  BY <1>1
<1> QED BY <1>2, <1>3 DEF Listed

LEMMA ListedTail ==
    ASSUME NEW s, Listed(s), s # <<>>
    PROVE  Listed(Tail(s)) /\ OfStream(Head(s))
<1>1. PICK X : s \in Seq(X) /\ \A y \in X : OfStream(y)
  BY DEF Listed
<1>2. Tail(s) \in Seq(X) /\ Head(s) \in X
  BY <1>1
<1> QED BY <1>1, <1>2 DEF Listed

LEMMA ListedMap ==
    ASSUME NEW s, Listed(s), NEW u, DOMAIN u = DOMAIN s, u = [k \in DOMAIN u |-> u[k]],
           \A k \in DOMAIN s : u[k] = s[k] \/ OfStream(u[k])
    PROVE  Listed(u)
<1>1. PICK X : s \in Seq(X) /\ \A y \in X : OfStream(y)
  BY DEF Listed
<1> DEFINE Y == {u[k] : k \in DOMAIN u}
<1>2. DOMAIN s = 1..Len(s) /\ Len(s) \in Nat /\ \A k \in DOMAIN s : s[k] \in X
  BY <1>1
<1>3. u \in [1..Len(s) -> Y]
  BY <1>2
<1>4. u \in Seq(Y)
  BY <1>2, <1>3
<1>5. \A y \in Y : OfStream(y)
  BY <1>1, <1>2
<1> QED BY <1>4, <1>5 DEF Listed

IdsOk == /\ identityOf \in [PeerIds -> Identities \cup {None}]
         /\ \A p \in PeerIds : identityOf[p] \in {None, IdentityFor[p]}
QueuesOk == Listed(pending) /\ Listed(todo) /\ Listed(frames) /\ events \in Seq(Events)

\* The inductive invariant of the table: it is exclusive, and what is looked up in it
\* names a peer and a channel.
TableInv == Exclusive(table) /\ IdsOk /\ QueuesOk

LEMMA MappingIs ==
    ASSUME IdsOk, NEW p \in PeerIds, NEW s \in Streams
    PROVE  /\ ClientOf(p) \in PeerIds \cup Identities /\ MappingOf(p, s) \in Mappings
           /\ MappingOf(p, s).client = ClientOf(p) /\ MappingOf(p, s).channel = s
BY DEF IdsOk, ClientOf, MappingOf, Mappings

LEMMA EmptyExclusive == Exclusive(EmptyTable) /\ In(EmptyTable) = {}
<1>1. EmptyTable \in Tables /\ EmptyTable.active = <<>> /\ EmptyTable.occupied = {}
  BY DEF EmptyTable, Table, Tables
<1>2. DOMAIN EmptyTable.active = {}
  BY <1>1
<1> QED BY <1>1, <1>2 DEF Exclusive, In

LEMMA FeedKeeps ==
    ASSUME QueuesOk, NEW f, OfStream(f), NEW audio, FeedRemote(f.peer, f.stream, f.index, audio)
    PROVE  UNCHANGED <<table, identityOf, todo>> /\ Listed(pending')
<1>1. CASE LiveAppend(f.peer, f.stream, f.index, audio)
  BY <1>1 DEF LiveAppend, QueuesOk
<1>2. CASE Queue(f.peer, f.stream, f.index, audio)
  <2> DEFINE k == SelectInSeq(pending, LAMBDA e : e.peer = f.peer /\ e.stream = f.stream /\ e.index = f.index)
             premix == current = f.index
  <2>1. /\ UNCHANGED <<table, identityOf, todo>>
        /\ pending' = IF k = 0 THEN Append(pending, PendingEntry(f.peer, f.stream, f.index, audio, premix))
                      ELSE [pending EXCEPT ![k] = Continued(@, audio, premix)]
    BY <1>2 DEF Queue
  <2> HIDE DEF k, premix
  <2>2. CASE k = 0
    <3>1. OfStream(PendingEntry(f.peer, f.stream, f.index, audio, premix))
      BY DEF OfStream, PendingEntry
    <3> QED BY <2>1, <2>2, <3>1, ListedAppend DEF QueuesOk
  <2>3. CASE k # 0
    <3> DEFINE e == Continued(pending[k], audio, premix)
    <3>1. pending' = [pending EXCEPT ![k] = e]
      BY <2>1, <2>3
    <3>2. k \in DOMAIN pending => {"peer", "stream"} \subseteq DOMAIN pending[k]
                                   /\ pending[k].peer \in PeerIds /\ pending[k].stream \in Streams
      <4>1. PICK X : pending \in Seq(X) /\ \A y \in X : OfStream(y)
        BY DEF QueuesOk, Listed
      <4> QED BY <4>1 DEF OfStream
    <3>3. k \in DOMAIN pending => OfStream(e)
      BY <3>2 DEF OfStream, Continued
    <3> HIDE DEF e
    <3>4. /\ DOMAIN pending' = DOMAIN pending /\ pending' = [j \in DOMAIN pending' |-> pending'[j]]
          /\ \A j \in DOMAIN pending : pending'[j] = IF j = k THEN e ELSE pending[j]
      BY <3>1
    <3>5. \A j \in DOMAIN pending : pending'[j] = pending[j] \/ OfStream(pending'[j])
      BY <3>3, <3>4
    <3> QED BY <2>1, <3>4, <3>5, ListedMap DEF QueuesOk
  <2> QED BY <2>2, <2>3
<1> QED BY <1>1, <1>2 DEF FeedRemote

LEMMA TellKeeps ==
    ASSUME events \in Seq(Events), NEW e \in Events, Tell(e)
    PROVE  events' \in Seq(Events)
BY DEF Tell, Offered

LEMMA EventIs ==
    /\ \A k \in {"connected", "disconnected"} : Event(k, None) \in Events
    /\ \A k \in {"joined", "left"}, p \in PeerIds : Event(k, p) \in Events
BY DEF Event, Events

LEMMA NextEventIs ==
    ASSUME events \in Seq(Events), NEW kind, NextEvent(kind)
    PROVE  /\ Tail(events) \in Seq(Events)
           /\ kind \in {"joined", "left"} => Head(events).peer \in PeerIds
<1>1. events # <<>> /\ Head(events).kind = kind
  BY DEF NextEvent
<1>2. Head(events) \in Events /\ Tail(events) \in Seq(Events)
  BY <1>1
<1> QED BY <1>1, <1>2 DEF Events

LEMMA ResetKeeps ==
    ASSUME Reset, QueuesOk
    PROVE  Exclusive(table') /\ IdsOk' /\ Listed(pending') /\ Listed(todo')
<1>1. Exclusive(table')
  BY EmptyExclusive DEF Reset
<1>2. IdsOk'
  BY DEF Reset, IdsOk
<1> QED BY <1>1, <1>2, ListedEmpty DEF Reset, QueuesOk

LEMMA PlaceKeeps ==
    ASSUME TableInv, PlaceInSlot \/ MergeIntoFirst
    PROVE  /\ Exclusive(table') /\ Listed(todo') /\ UNCHANGED <<identityOf, pending>>
<1> DEFINE r == Head(todo)
           a == Assign(table, MappingOf(r.peer, r.stream))
<1>1. todo # <<>> /\ table' = a.table /\ todo' = Tail(todo) /\ UNCHANGED <<identityOf, pending>>
  BY DEF PlaceInSlot, MergeIntoFirst
<1>2. OfStream(r) /\ Listed(todo')
  BY <1>1, ListedTail DEF TableInv, QueuesOk
<1>3. MappingOf(r.peer, r.stream) \in Mappings
  BY <1>2, MappingIs DEF TableInv, OfStream
<1>4. Exclusive(a.table)
  BY <1>3, AssignIs DEF TableInv
<1> QED BY <1>1, <1>2, <1>4

LEMMA PeerSteps ==
    ASSUME TableInv, NEW p \in PeerIds
    PROVE  /\ NotifyPeerJoined(p, IdentityFor[p]) => Exclusive(table') /\ IdsOk' /\ UNCHANGED <<pending, todo>>
           /\ RemovePeer(p) => Exclusive(table') /\ IdsOk' /\ Listed(pending') /\ UNCHANGED todo
<1>1. IdentityFor[p] \in Identities
  BY PluginAssumption
<1>2. ASSUME NotifyPeerJoined(p, IdentityFor[p])
      PROVE  Exclusive(table') /\ IdsOk' /\ UNCHANGED <<pending, todo>>
  <2>1. Exclusive(RekeyClient(table, p, IdentityFor[p]))
    BY <1>1, RekeyIs DEF TableInv
  <2>2. Exclusive(ReclaimReserved(RekeyClient(table, p, IdentityFor[p]), IdentityFor[p]).table)
    BY <2>1, ReclaimIs
  <2>3. IdsOk'
    BY <1>1, <1>2 DEF NotifyPeerJoined, TableInv, IdsOk
  <2> QED BY <1>2, <2>2, <2>3 DEF NotifyPeerJoined
<1>3. ASSUME RemovePeer(p)
      PROVE  Exclusive(table') /\ IdsOk' /\ Listed(pending') /\ UNCHANGED todo
  <2>1. Exclusive(table')
    BY <1>3, ReleaseAllIs DEF RemovePeer, Released, TableInv
  <2>2. IdsOk'
    BY <1>3 DEF RemovePeer, TableInv, IdsOk
  <2>3. Listed(pending')
    <3>1. PICK X : pending \in Seq(X) /\ \A y \in X : OfStream(y)
      BY DEF TableInv, QueuesOk, Listed
    <3>2. \A k \in DOMAIN pending : OfStream(pending[k])
      BY <3>1
    <3>3. pending' = [k \in DOMAIN pending |-> [pending[k] EXCEPT !.premixed = FALSE]]
      BY <1>3 DEF RemovePeer, Unmarked
    <3>4. /\ DOMAIN pending' = DOMAIN pending /\ pending' = [k \in DOMAIN pending' |-> pending'[k]]
          /\ \A k \in DOMAIN pending : pending'[k] = [pending[k] EXCEPT !.premixed = FALSE]
      BY <3>3
    <3>5. \A k \in DOMAIN pending : OfStream(pending'[k])
      BY <3>2, <3>4 DEF OfStream
    <3> QED BY <3>4, <3>5, ListedMap DEF TableInv, QueuesOk
  <2> QED BY <1>3, <2>1, <2>2, <2>3 DEF RemovePeer
<1> QED BY <1>2, <1>3

LEMMA TableInit == Init => TableInv
<1> SUFFICES ASSUME Init PROVE TableInv
  OBVIOUS
<1>1. Exclusive(table) /\ IdsOk
  BY EmptyExclusive DEF Init, RingInit, IdsOk
<1>2. QueuesOk
  BY ListedEmpty DEF Init, RingInit, QueuesOk
<1> QED BY <1>1, <1>2 DEF TableInv

\* Every step keeps the invariant of the table, one case per action.
LEMMA TableStep ==
    ASSUME TableInv, [Next]_vars
    PROVE  TableInv'
<1> USE DEF TableInv
<1>0. /\ UNCHANGED <<table, identityOf>> => Exclusive(table') /\ IdsOk'
      /\ UNCHANGED pending => Listed(pending')
      /\ UNCHANGED todo => Listed(todo')
      /\ UNCHANGED frames => Listed(frames')
      /\ UNCHANGED events => events' \in Seq(Events)
  BY DEF IdsOk, QueuesOk
<1>1. CASE UNCHANGED vars
  BY <1>0, <1>1 DEF vars, ringVars, QueuesOk
<1>2. CASE Connect \/ Disconnect \/ \E p \in PeerIds : PeerJoined(p) \/ PeerEnters(p) \/ PeerLeft(p)
  <2>1. UNCHANGED ringVars /\ UNCHANGED frames
    BY <1>2 DEF Connect, Disconnect, PeerJoined, PeerEnters, PeerLeft
  <2>2. UNCHANGED events \/ \E e \in Events : Tell(e)
    BY <1>2, EventIs DEF Connect, Disconnect, PeerJoined, PeerEnters, PeerLeft
  <2>3. events' \in Seq(Events)
    BY <1>0, <2>2, TellKeeps DEF QueuesOk
  <2> QED BY <1>0, <2>1, <2>3 DEF ringVars, QueuesOk
<1>3. CASE \E x \in Sources : AudioFrame(x)
  <2>1. PICK x \in Sources : AudioFrame(x)
    BY <1>3
  <2> DEFINE f == [peer |-> x[1], stream |-> x[2], index |-> IndexAt(sent[x]), at |-> sent[x] % BlocksPer]
  <2>2. UNCHANGED ringVars /\ UNCHANGED events /\ frames' = Offered(frames, FrameCap, f)
    BY <2>1 DEF AudioFrame
  <2>3. OfStream(f)
    BY PluginAssumption DEF OfStream
  <2> HIDE DEF f
  <2>4. Listed(frames')
    BY <1>0, <2>2, <2>3, ListedAppend DEF Offered, QueuesOk
  <2> QED BY <1>0, <2>2, <2>4 DEF ringVars, QueuesOk
<1>4. CASE OnConnected
  <2>1. events' \in Seq(Events)
    BY <1>4, NextEventIs DEF OnConnected, QueuesOk
  <2> QED BY <1>0, <1>4, <2>1 DEF OnConnected, ringVars, QueuesOk
<1>5. CASE OnJoined
  <2>1. Head(events).peer \in PeerIds /\ events' \in Seq(Events) /\ UNCHANGED frames
    BY <1>5, NextEventIs DEF OnJoined, QueuesOk
  <2>2. NotifyPeerJoined(Head(events).peer, IdentityFor[Head(events).peer])
    BY <1>5 DEF OnJoined
  <2> QED BY <1>0, <2>1, <2>2, PeerSteps DEF QueuesOk
<1>6. CASE OnLeft
  <2>1. Head(events).peer \in PeerIds /\ events' \in Seq(Events) /\ UNCHANGED frames
    BY <1>6, NextEventIs DEF OnLeft, QueuesOk
  <2>2. RemovePeer(Head(events).peer)
    BY <1>6 DEF OnLeft
  <2> QED BY <1>0, <2>1, <2>2, PeerSteps DEF QueuesOk
<1>7. CASE OnDisconnected
  <2>1. events' \in Seq(Events)
    BY <1>7, NextEventIs DEF OnDisconnected, QueuesOk
  <2> QED BY <1>7, <2>1, ResetKeeps, ListedEmpty DEF OnDisconnected, QueuesOk
<1>8. CASE EventsDrained
  BY <1>0, <1>8 DEF EventsDrained, ringVars, QueuesOk
<1>9. CASE OnFrame
  <2> DEFINE f == Head(frames)
  <2>1. OfStream(f) /\ Listed(frames') /\ UNCHANGED events
    BY <1>9, ListedTail DEF OnFrame, QueuesOk
  <2>2. \E audio : FeedRemote(f.peer, f.stream, f.index, audio)
    BY <1>9 DEF OnFrame
  <2> HIDE DEF f
  <2>3. UNCHANGED <<table, identityOf, todo>> /\ Listed(pending')
    BY <2>1, <2>2, FeedKeeps
  <2> QED BY <1>0, <2>1, <2>3 DEF QueuesOk
<1>10. CASE FramesDrained
  <2>1. UNCHANGED <<table, identityOf, events, frames>>
    BY <1>10 DEF FramesDrained, NoBoundary, Swap
  <2>2. Listed(pending') /\ Listed(todo')
    BY <1>0, <1>10, ListedEmpty DEF FramesDrained, NoBoundary, Swap, QueuesOk
  <2> QED BY <1>0, <2>1, <2>2 DEF QueuesOk
<1>11. CASE PlaceEntry
  <2>1. UNCHANGED <<events, frames>>
    BY <1>11 DEF PlaceEntry
  <2>2. CASE KeepOrEvict
    <3>1. OfStream(Head(todo)) /\ Listed(todo') /\ UNCHANGED <<table, identityOf>>
      BY <2>2, ListedTail DEF KeepOrEvict, QueuesOk
    <3>2. pending' = pending \/ pending' = Append(pending, Head(todo))
      BY <2>2 DEF KeepOrEvict
    <3>3. Listed(pending')
      BY <1>0, <3>1, <3>2, ListedAppend DEF QueuesOk
    <3> QED BY <1>0, <2>1, <3>1, <3>3 DEF QueuesOk
  <2>3. CASE PlaceInSlot \/ MergeIntoFirst
    BY <1>0, <2>1, <2>3, PlaceKeeps DEF QueuesOk, IdsOk
  <2> QED BY <1>11, <2>2, <2>3 DEF PlaceEntry
<1>12. CASE PlayBlock
  BY <1>0, <1>12 DEF PlayBlock, Play, QueuesOk
<1>13. CASE TransportRestarts
  BY <1>0, <1>13 DEF TransportRestarts, ResetTransport, QueuesOk
<1>14. CASE Initialize
  <2>1. Exclusive(table') /\ IdsOk'
    BY <1>14, EmptyExclusive DEF Initialize, RingRenewed, IdsOk
  <2>2. QueuesOk'
    BY <1>14, ListedEmpty DEF Initialize, RingRenewed, QueuesOk
  <2> QED BY <2>1, <2>2
<1>15. CASE HostResets
  BY <1>0, <1>15, ResetKeeps DEF HostResets, QueuesOk
<1> QED
  BY <1>1, <1>2, <1>3, <1>4, <1>5, <1>6, <1>7, <1>8, <1>9, <1>10, <1>11, <1>12, <1>13, <1>14, <1>15
  DEF Next

\* Two channels never share a playback slot, and the table's flags are those of its
\* entries: SlotTable in ring.rs, with any number of peers, channels and slots.
THEOREM RingSlotsAlwaysExclusive == Spec => []SlotsExclusive
<1>1. TableInv => SlotsExclusive
  BY DEF TableInv, Exclusive, SlotsExclusive
<1> QED BY <1>1, TableInit, TableStep, PTL DEF Spec

(***************************************************************************)
(* The playback slots and the table.                                       *)
(*                                                                         *)
(* remove_peer frees the table's entries by identity and the playback      *)
(* slots by peer id; that the two meet needs every entry to be the mapping *)
(* of the stream its slot plays, and the identity map to have one session  *)
(* of an identity at a time: the application takes the older one out       *)
(* before it announces the newer.                                          *)
(***************************************************************************)
OneSession == \A p, q \in PeerIds : identityOf[p] = identityOf[q] /\ identityOf[p] # None => p = q
DistinctIdentities == \A p, q \in PeerIds : IdentityFor[p] = IdentityFor[q] => p = q

SlotsOk ==
    /\ DOMAIN slots = SlotNums
    /\ \A i \in SlotNums : /\ {"peer", "stream", "active"} \subseteq DOMAIN slots[i]
                           /\ slots[i].active \in BOOLEAN
Owned(e) == slots[e.slot].peer \in PeerIds /\ e.m = MappingOf(slots[e.slot].peer, slots[e.slot].stream)
AgreeInv == SlotsOk /\ SlotsAgree /\ \A e \in In(table) : Owned(e)

\* A step that changes neither the table, nor the names, nor which stream a slot plays.
SlotsKept == \A i \in SlotNums : /\ slots'[i].active = slots[i].active /\ slots'[i].peer = slots[i].peer
                                 /\ slots'[i].stream = slots[i].stream

LEMMA ClientsDiffer ==
    ASSUME OneSession, IdsOk, NEW p \in PeerIds, NEW q \in PeerIds, ClientOf(p) = ClientOf(q)
    PROVE  p = q
BY SlotAssumption DEF OneSession, IdsOk, ClientOf

LEMMA KeptAgrees ==
    ASSUME Exclusive(table), AgreeInv, SlotsOk', SlotsKept, In(table') = In(table),
           table'.occupied = table.occupied, UNCHANGED identityOf
    PROVE  AgreeInv'
<1>1. \A e \in In(table) : e.slot \in SlotNums
  BY OneEntryPerSlot DEF Entries
<1>2. \A e \in In(table') : Owned(e)'
  BY <1>1 DEF AgreeInv, SlotsKept, Owned, MappingOf, ClientOf
<1>3. SlotsAgree'
  BY DEF AgreeInv, SlotsKept, SlotsAgree
<1> QED BY <1>2, <1>3 DEF AgreeInv

LEMMA EmptyAgrees ==
    ASSUME SlotsOk', table' = EmptyTable, \A i \in SlotNums : ~slots'[i].active
    PROVE  AgreeInv'
<1>1. In(table') = {} /\ table'.occupied = {}
  BY EmptyExclusive DEF EmptyTable, Table
<1> QED BY <1>1 DEF AgreeInv, SlotsAgree

LEMMA JoinAgrees ==
    ASSUME TableInv, AgreeInv, NEW p \in PeerIds, NotifyPeerJoined(p, IdentityFor[p])
    PROVE  AgreeInv'
<1> DEFINE id == IdentityFor[p]
           t  == RekeyClient(table, p, id)
           r  == ReclaimReserved(t, id)
           back == {r.back[k] : k \in DOMAIN r.back}
           renamed(e) == [e EXCEPT !.m.client = IF @ = p THEN id ELSE @]
           theOne(i) == CHOOSE e \in back : e.slot = i
<1>1. id \in Identities /\ id # None
  BY SlotAssumption, PluginAssumption
<1>2. Exclusive(t) /\ t.occupied = table.occupied /\ In(t) = {renamed(e) : e \in In(table)}
  BY <1>1, RekeyIs DEF TableInv
<1>3. /\ Exclusive(r.table) /\ In(r.table) = In(t) \cup back
      /\ \A e \in back : e \in Entries /\ e.m.client = id /\ e.slot \notin table.occupied
  <2> HIDE DEF t, id
  <2>1. Exclusive(r.table) /\ In(r.table) = In(t) \cup back
    BY <1>2, ReclaimIs
  <2>2. \A e \in back : e \in Entries /\ e.m.client = id /\ e.slot \notin t.occupied
    BY <1>2, ReclaimIs
  <2> HIDE DEF back, r
  <2> QED BY <1>2, <2>1, <2>2
<1>4. /\ table' = r.table /\ identityOf' = [identityOf EXCEPT ![p] = id]
      /\ slots' = [i \in SlotNums |->
                        IF \E e \in back : e.slot = i
                        THEN [slots[i] EXCEPT !.peer = p, !.active = TRUE, !.tail = EmptyBag,
                                !.stream = theOne(i).m.channel]
                        ELSE slots[i]]
  BY DEF NotifyPeerJoined
<1> HIDE DEF id, r, t, back, renamed, theOne
<1>5. \A e \in back : theOne(e.slot) = e
  <2>1. \A e, f \in back : e.slot = f.slot => e = f
    BY <1>3, OneEntryPerSlot
  <2> QED BY <2>1 DEF theOne
<1>6. ASSUME NEW e \in back
      PROVE  /\ e.slot \in SlotNums /\ slots'[e.slot].active = TRUE
             /\ slots'[e.slot].peer = p /\ slots'[e.slot].stream = e.m.channel
  <2>1. e.slot \in SlotNums
    BY <1>3 DEF Entries
  <2> QED BY <1>4, <1>5, <2>1 DEF AgreeInv, SlotsOk
<1>7. \A i \in SlotNums : (\A e \in back : e.slot # i) => slots'[i] = slots[i]
  BY <1>4
<1>8. SlotsOk'
  BY <1>4 DEF AgreeInv, SlotsOk
<1>9. /\ table.occupied = {e.slot : e \in In(table)} /\ r.table.occupied = {e.slot : e \in In(r.table)}
      /\ t.occupied = {e.slot : e \in In(t)}
  BY <1>2, <1>3, OneEntryPerSlot DEF TableInv
<1>10. SlotsAgree'
  <2>1. r.table.occupied = table.occupied \cup {e.slot : e \in back}
    <3>1. {e.slot : e \in In(t) \cup back} = {e.slot : e \in In(t)} \cup {e.slot : e \in back}
      OBVIOUS
    <3> QED BY <1>2, <1>3, <1>9, <3>1
  <2>2. ASSUME NEW i \in SlotNums PROVE slots'[i].active <=> i \in r.table.occupied
    <3>1. CASE \E e \in back : e.slot = i
      BY <1>6, <2>1, <3>1
    <3>2. CASE \A e \in back : e.slot # i
      BY <1>7, <2>1, <3>2 DEF AgreeInv, SlotsAgree
    <3> QED BY <3>1, <3>2
  <2> QED BY <1>4, <2>2 DEF SlotsAgree
<1>11. ASSUME NEW e \in In(table) PROVE Owned(renamed(e))'
  <2>1. e \in Entries /\ e.slot \in table.occupied /\ e.slot \in SlotNums
    BY <1>9, OneEntryPerSlot DEF TableInv, Entries
  <2>2. slots'[e.slot] = slots[e.slot]
    BY <1>3, <1>7, <2>1
  <2>3. PICK q \in PeerIds : q = slots[e.slot].peer /\ e.m = MappingOf(q, slots[e.slot].stream)
    BY DEF AgreeInv, Owned
  <2>4. e.m.client = ClientOf(q) /\ e.m.channel = slots[e.slot].stream
    BY <2>3 DEF MappingOf
  <2>5. ClientOf(q)' = IF ClientOf(q) = p THEN id ELSE ClientOf(q)
    <3>1. CASE q = p
      BY <1>1, <1>4, <2>3, <3>1 DEF ClientOf, TableInv, IdsOk, id
    <3>2. CASE q # p
      <4>1. ClientOf(q) # p
        BY <2>3, <3>2, SlotAssumption DEF ClientOf, TableInv, IdsOk
      <4>2. identityOf'[q] = identityOf[q]
        BY <1>4, <2>3, <3>2 DEF TableInv, IdsOk
      <4> QED BY <4>1, <4>2 DEF ClientOf
    <3> QED BY <3>1, <3>2
  <2>6. /\ renamed(e).slot = e.slot
        /\ renamed(e).m = [client |-> IF e.m.client = p THEN id ELSE e.m.client, channel |-> e.m.channel]
    BY <2>1 DEF renamed, Entries, Mappings
  <2> QED BY <2>2, <2>3, <2>4, <2>5, <2>6 DEF Owned, MappingOf
<1>12. ASSUME NEW e \in back PROVE Owned(e)'
  <2>1. e \in Entries /\ e.m.client = id
    BY <1>3
  <2>2. ClientOf(p)' = id
    BY <1>1, <1>4 DEF ClientOf, TableInv, IdsOk
  <2>3. e.m = [client |-> id, channel |-> e.m.channel]
    BY <2>1 DEF Entries, Mappings
  <2> QED BY <1>6, <2>2, <2>3 DEF Owned, MappingOf
<1>13. \A e \in In(table') : Owned(e)'
  <2>1. In(table') = {renamed(e) : e \in In(table)} \cup back
    BY <1>2, <1>3, <1>4
  <2> QED BY <1>11, <1>12, <2>1
<1> QED BY <1>8, <1>10, <1>13 DEF AgreeInv

LEMMA LeaveAgrees ==
    ASSUME OneSession, TableInv, AgreeInv, NEW p \in PeerIds, RemovePeer(p)
    PROVE  AgreeInv'
<1>1. /\ table' = ReleaseAllForClient(table, ClientOf(p))
      /\ identityOf' = [identityOf EXCEPT ![p] = None]
      /\ slots' = [i \in SlotNums |->
                        IF slots[i].peer = p
                        THEN [slots[i] EXCEPT !.active = FALSE, !.samples = <<>>, !.readPos = 0]
                        ELSE slots[i]]
  BY DEF RemovePeer, Released
<1>2. Exclusive(table') /\ In(table') = {e \in In(table) : e.m.client # ClientOf(p)}
  BY <1>1, ReleaseAllIs DEF TableInv
<1>3. SlotsOk'
  BY <1>1 DEF AgreeInv, SlotsOk
<1>4. ASSUME NEW e \in In(table)
      PROVE  /\ e.slot \in SlotNums /\ slots[e.slot].peer \in PeerIds
             /\ e.m = MappingOf(slots[e.slot].peer, slots[e.slot].stream)
             /\ e.m.client = ClientOf(p) <=> slots[e.slot].peer = p
  <2>1. e \in Entries /\ Owned(e)
    BY OneEntryPerSlot DEF TableInv, AgreeInv
  <2>2. e.m.client = ClientOf(slots[e.slot].peer)
    BY <2>1 DEF Owned, MappingOf
  <2> QED BY <2>1, <2>2, ClientsDiffer DEF Owned, TableInv, Entries
<1>5. /\ table.occupied = {e.slot : e \in In(table)} /\ table'.occupied = {e.slot : e \in In(table')}
      /\ \A e, f \in In(table) : e.slot = f.slot => e = f
  BY <1>2, OneEntryPerSlot DEF TableInv
<1>6. ASSUME NEW i \in SlotNums PROVE slots'[i].active <=> i \in table'.occupied
  <2>1. slots[i].active <=> i \in table.occupied
    BY DEF AgreeInv, SlotsAgree
  <2>2. CASE slots[i].peer = p
    <3>1. ~slots'[i].active
      BY <1>1, <2>2 DEF AgreeInv, SlotsOk
    <3>2. i \notin table'.occupied
      BY <1>2, <1>4, <1>5, <2>2
    <3> QED BY <3>1, <3>2
  <2>3. CASE slots[i].peer # p
    <3>1. slots'[i].active = slots[i].active
      BY <1>1, <2>3
    <3>2. i \in table.occupied <=> i \in table'.occupied
      BY <1>2, <1>4, <1>5, <2>3
    <3> QED BY <2>1, <3>1, <3>2
  <2> QED BY <2>2, <2>3
<1>7. ASSUME NEW e \in In(table') PROVE Owned(e)'
  <2> DEFINE q == slots[e.slot].peer
  <2>1. e \in In(table) /\ e.slot \in SlotNums /\ q \in PeerIds /\ q # p
        /\ e.m = MappingOf(q, slots[e.slot].stream)
    BY <1>2, <1>4
  <2>2. slots'[e.slot] = slots[e.slot]
    BY <1>1, <2>1
  <2>3. ClientOf(q)' = ClientOf(q)
    BY <1>1, <2>1 DEF ClientOf, TableInv, IdsOk
  <2> QED BY <2>1, <2>2, <2>3 DEF Owned, MappingOf
<1> QED BY <1>3, <1>6, <1>7 DEF AgreeInv, SlotsAgree

LEMMA PlaceAgrees ==
    ASSUME TableInv, AgreeInv, PlaceInSlot
    PROVE  AgreeInv'
<1> DEFINE r == Head(todo)
           m == MappingOf(r.peer, r.stream)
           a == Assign(table, m)
           i == a.slot
<1>1. r.peer \in PeerIds /\ r.stream \in Streams /\ m \in Mappings
  <2>1. OfStream(r)
    BY ListedTail DEF PlaceInSlot, TableInv, QueuesOk
  <2> QED BY <2>1, MappingIs DEF OfStream, TableInv
<1>2. /\ table' = a.table /\ UNCHANGED identityOf /\ i # None
      /\ \E heard : slots' = [slots EXCEPT ![i] = [Taken(r, i) EXCEPT !.samples = heard, !.readPos = 0]]
  BY DEF PlaceInSlot
<1>3. Exclusive(a.table) /\ i \in SlotNums /\ In(a.table) = In(table) \cup {Entry(m, i)}
  BY <1>1, <1>2, AssignIs DEF TableInv
<1> HIDE DEF i, a, m, r
<1>4. /\ Taken(r, i).peer = r.peer /\ Taken(r, i).stream = r.stream /\ Taken(r, i).active = TRUE
      /\ {"peer", "stream", "active"} \subseteq DOMAIN Taken(r, i)
  BY <1>3 DEF Taken, AgreeInv, SlotsOk
<1>5. /\ slots'[i].peer = r.peer /\ slots'[i].stream = r.stream /\ slots'[i].active = TRUE
      /\ {"peer", "stream", "active"} \subseteq DOMAIN slots'[i]
      /\ DOMAIN slots' = SlotNums /\ \A j \in SlotNums : j # i => slots'[j] = slots[j]
  BY <1>2, <1>3, <1>4 DEF AgreeInv, SlotsOk
<1>6. SlotsOk'
  BY <1>5 DEF AgreeInv, SlotsOk
<1>7. Entry(m, i).m = m /\ Entry(m, i).slot = i
  BY DEF Entry
<1>8. /\ table.occupied = {e.slot : e \in In(table)} /\ table'.occupied = {e.slot : e \in In(table')}
      /\ \A e, f \in In(table') : e.slot = f.slot => e = f
      /\ \A e \in In(table) : e.slot \in SlotNums
  BY <1>2, <1>3, OneEntryPerSlot DEF TableInv, Entries
<1>9. table'.occupied = table.occupied \cup {i}
  BY <1>2, <1>3, <1>7, <1>8
<1>10. SlotsAgree'
  BY <1>5, <1>9 DEF AgreeInv, SlotsAgree
<1>11. ASSUME NEW e \in In(table') PROVE Owned(e)'
  <2>1. CASE e.slot = i
    <3>1. e = Entry(m, i)
      BY <1>2, <1>3, <1>7, <1>8, <2>1
    <3> QED BY <1>1, <1>2, <1>5, <1>7, <3>1 DEF Owned, MappingOf, ClientOf, m
  <2>2. CASE e.slot # i
    <3>1. e \in In(table) /\ slots'[e.slot] = slots[e.slot]
      BY <1>2, <1>3, <1>5, <1>7, <1>8, <2>2
    <3> QED BY <1>2, <3>1 DEF AgreeInv, Owned, MappingOf, ClientOf
  <2> QED BY <2>1, <2>2
<1> QED BY <1>6, <1>10, <1>11 DEF AgreeInv

LEMMA MergeAgrees ==
    ASSUME TableInv, AgreeInv, MergeIntoFirst
    PROVE  AgreeInv'
<1> DEFINE r == Head(todo)
           m == MappingOf(r.peer, r.stream)
           a == Assign(table, m)
           z == SlotFor(a.table, MappingOf(r.peer, 0))
<1>1. m \in Mappings
  <2>1. OfStream(r)
    BY ListedTail DEF MergeIntoFirst, TableInv, QueuesOk
  <2> QED BY <2>1, MappingIs DEF OfStream, TableInv
<1>2. /\ table' = a.table /\ UNCHANGED identityOf /\ a.slot = None
      /\ slots' = IF z = None THEN slots
                  ELSE [slots EXCEPT ![z].samples = Merged(@, r.samples), ![z].readPos = 0]
  BY DEF MergeIntoFirst
<1> HIDE DEF z, m, r
<1>3. Exclusive(a.table) /\ In(a.table) = In(table)
  <2>1. Exclusive(table)
    BY DEF TableInv
  <2>2. None \notin SlotNums
    BY SlotAssumption DEF SlotNums
  <2> QED BY <1>1, <1>2, <2>1, <2>2, AssignIs
<1> HIDE DEF a
<1>4. SlotsOk' /\ SlotsKept
  BY <1>2 DEF AgreeInv, SlotsOk, SlotsKept
<1>5. table'.occupied = table.occupied
  BY <1>2, <1>3, OneEntryPerSlot DEF TableInv
<1> QED BY <1>2, <1>3, <1>4, <1>5, KeptAgrees DEF TableInv

LEMMA AgreeInit == Init => AgreeInv
<1> SUFFICES ASSUME Init PROVE AgreeInv
  OBVIOUS
<1>1. SlotsOk /\ \A i \in SlotNums : ~slots[i].active
  BY DEF Init, RingInit, SlotsOk, EmptySlot
<1>2. In(table) = {} /\ table.occupied = {}
  BY EmptyExclusive DEF Init, RingInit, EmptyTable, Table
<1> QED BY <1>1, <1>2 DEF AgreeInv, SlotsAgree

\* Every step keeps the agreement, one case per action.
LEMMA AgreeStep ==
    ASSUME OneSession, TableInv, AgreeInv, [Next]_vars
    PROVE  AgreeInv'
<1>0. ASSUME UNCHANGED <<table, identityOf>>, SlotsOk', SlotsKept PROVE AgreeInv'
  BY <1>0, KeptAgrees DEF TableInv
<1>a. ASSUME UNCHANGED <<table, identityOf, slots>> PROVE AgreeInv'
  BY <1>a, <1>0 DEF AgreeInv, SlotsOk, SlotsKept
<1>b. ASSUME Reset PROVE AgreeInv'
  <2>1. SlotsOk' /\ \A i \in SlotNums : ~slots'[i].active
    BY <1>b DEF Reset, AgreeInv, SlotsOk
  <2> QED BY <1>b, <2>1, EmptyAgrees DEF Reset
<1>1. CASE UNCHANGED vars
  BY <1>1, <1>a DEF vars, ringVars
<1>2. CASE \/ Connect \/ Disconnect \/ \E p \in PeerIds : PeerJoined(p) \/ PeerEnters(p) \/ PeerLeft(p)
           \/ \E x \in Sources : AudioFrame(x)
           \/ OnConnected \/ EventsDrained
  <2>1. UNCHANGED ringVars
    BY <1>2 DEF Connect, Disconnect, PeerJoined, PeerEnters, PeerLeft, AudioFrame, OnConnected, EventsDrained
  <2> QED BY <1>a, <2>1 DEF ringVars
<1>3. CASE OnJoined
  <2>1. Head(events).peer \in PeerIds
    BY <1>3, NextEventIs DEF OnJoined, TableInv, QueuesOk
  <2> QED BY <1>3, <2>1, JoinAgrees DEF OnJoined
<1>4. CASE OnLeft
  <2>1. Head(events).peer \in PeerIds
    BY <1>4, NextEventIs DEF OnLeft, TableInv, QueuesOk
  <2> QED BY <1>4, <2>1, LeaveAgrees DEF OnLeft
<1>5. CASE OnDisconnected \/ HostResets
  BY <1>5, <1>b DEF OnDisconnected, HostResets
<1>6. CASE OnFrame
  <2> DEFINE f == Head(frames)
  <2>1. \E audio : FeedRemote(f.peer, f.stream, f.index, audio)
    BY <1>6 DEF OnFrame
  <2> HIDE DEF f
  <2>2. UNCHANGED <<table, identityOf>>
    BY <2>1 DEF FeedRemote, LiveAppend, Queue
  <2>3. UNCHANGED slots \/ \E i, audio : slots' = [slots EXCEPT ![i].samples = @ \o audio]
    BY <2>1 DEF FeedRemote, LiveAppend, Queue
  <2>4. SlotsOk' /\ SlotsKept
    BY <2>3 DEF AgreeInv, SlotsOk, SlotsKept
  <2> QED BY <1>0, <2>2, <2>4
<1>7. CASE FramesDrained
  <2>1. UNCHANGED <<table, identityOf>> /\ (UNCHANGED slots \/ slots' = TailsCaptured)
    BY <1>7 DEF FramesDrained, NoBoundary, Swap
  <2>2. SlotsOk' /\ SlotsKept
    BY <2>1 DEF AgreeInv, SlotsOk, SlotsKept, TailsCaptured
  <2> QED BY <1>0, <2>1, <2>2
<1>8. CASE PlaceEntry
  <2>1. CASE KeepOrEvict
    BY <1>a, <2>1 DEF KeepOrEvict
  <2> QED BY <1>8, <2>1, PlaceAgrees, MergeAgrees DEF PlaceEntry
<1>9. CASE PlayBlock
  <2>1. UNCHANGED <<table, identityOf>> /\ slots' = [i \in SlotNums |-> SlotRead(i)]
    BY <1>9 DEF PlayBlock, Play
  <2>2. SlotsOk' /\ SlotsKept
    BY <2>1 DEF AgreeInv, SlotsOk, SlotsKept, SlotRead
  <2> QED BY <1>0, <2>1, <2>2
<1>10. CASE TransportRestarts
  <2>1. UNCHANGED <<table, identityOf>> /\ slots' = [i \in SlotNums |-> [slots[i] EXCEPT !.readPos = 0]]
    BY <1>10 DEF TransportRestarts, ResetTransport
  <2>2. SlotsOk' /\ SlotsKept
    BY <2>1 DEF AgreeInv, SlotsOk, SlotsKept
  <2> QED BY <1>0, <2>1, <2>2
<1>11. CASE Initialize
  <2>1. table' = EmptyTable /\ slots' = [i \in SlotNums |-> EmptySlot]
    BY <1>11 DEF Initialize, RingRenewed
  <2>2. SlotsOk' /\ \A i \in SlotNums : ~slots'[i].active
    BY <2>1 DEF SlotsOk, EmptySlot
  <2> QED BY <2>1, <2>2, EmptyAgrees
<1> QED
  BY <1>1, <1>2, <1>3, <1>4, <1>5, <1>6, <1>7, <1>8, <1>9, <1>10, <1>11 DEF Next

\* A playback slot is active exactly while the table has it taken, also for an identity that
\* comes back in another session, as long as the older session has been removed before the
\* newer one is announced: remove_peer and notify_peer_joined in ring.rs, the eviction of the
\* Hello handler in session.go.
THEOREM ReturningSlotsAgree == Spec /\ []OneSession => []SlotsAgree
<1>1. AgreeInv => SlotsAgree
  BY DEF AgreeInv
<1>2. TableInv /\ AgreeInv /\ OneSession /\ [Next]_vars => (TableInv /\ AgreeInv)'
  BY TableStep, AgreeStep
<1>3. Init => TableInv /\ AgreeInv
  BY TableInit, AgreeInit
<1> QED BY <1>1, <1>2, <1>3, PTL DEF Spec

\* A playback slot is active exactly while the table has it taken, whatever order audio,
\* Hello, rename, departure and loss of events come in, if every session has an identity of
\* its own: remove_peer and notify_peer_joined in ring.rs.
THEOREM RingSlotsAlwaysAgree ==
    ASSUME DistinctIdentities
    PROVE  Spec => []SlotsAgree
<1>1. TableInv => OneSession
  BY DEF DistinctIdentities, OneSession, TableInv, IdsOk
<1>2. TableInv /\ [Next]_vars => TableInv'
  BY TableStep
<1> QED BY <1>1, <1>2, TableInit, ReturningSlotsAgree, PTL DEF Spec

----------------------------------------------------------------------------
(***************************************************************************)
(* The mix.                                                                *)
(*                                                                         *)
(* What a position of a buffer holds is a bag of sounds.  First the        *)
(* algebra of those bags, then what the summing helpers of the ring add    *)
(* and keep, then the invariant of the buffers upon them.                  *)
(***************************************************************************)
Sounds == [peer : PeerIds, stream : Streams, index : Nat, at : Nat, part : {"body", "tail"}]
Heard  == UNION {[D -> Nat \ {0}] : D \in SUBSET Sounds}
Bodies(b) == {x \in DOMAIN b : x.part = "body"}

LEMMA HeardIs ==
    ASSUME NEW b
    PROVE  b \in Heard <=> /\ DOMAIN b \in SUBSET Sounds /\ b = [x \in DOMAIN b |-> b[x]]
                           /\ \A x \in DOMAIN b : b[x] \in Nat \ {0}
<1>1. ASSUME b \in Heard PROVE DOMAIN b \in SUBSET Sounds /\ b \in [DOMAIN b -> Nat \ {0}]
  <2>1. PICK D \in SUBSET Sounds : b \in [D -> Nat \ {0}]
    BY <1>1 DEF Heard
  <2> QED BY <2>1
<1>2. ASSUME DOMAIN b \in SUBSET Sounds, b \in [DOMAIN b -> Nat \ {0}] PROVE b \in Heard
  BY <1>2 DEF Heard
<1>3. b \in [DOMAIN b -> Nat \ {0}] <=> b = [x \in DOMAIN b |-> b[x]] /\ \A x \in DOMAIN b : b[x] \in Nat \ {0}
  OBVIOUS
<1> QED BY <1>1, <1>2, <1>3

\* How often a sound is in a bag.
Times(b, x) == IF x \in DOMAIN b THEN b[x] ELSE 0

LEMMA TimesIs ==
    ASSUME NEW b \in Heard, NEW x
    PROVE  Times(b, x) \in Nat /\ (Times(b, x) = 0 <=> x \notin DOMAIN b)
BY HeardIs DEF Times

LEMMA SumTimes ==
    ASSUME NEW a, NEW b
    PROVE  /\ DOMAIN (a (+) b) = DOMAIN a \cup DOMAIN b
           /\ \A x \in DOMAIN a \cup DOMAIN b : (a (+) b)[x] = Times(a, x) + Times(b, x)
           /\ a (+) b = [x \in DOMAIN (a (+) b) |-> (a (+) b)[x]]
           /\ Bodies(a (+) b) = Bodies(a) \cup Bodies(b)
<1>1. a (+) b = [x \in DOMAIN a \cup DOMAIN b |-> Times(a, x) + Times(b, x)]
  BY DEF (+), Times
<1>2. DOMAIN (a (+) b) = DOMAIN a \cup DOMAIN b
  BY <1>1
<1>3. Bodies(a (+) b) = Bodies(a) \cup Bodies(b)
  BY <1>2 DEF Bodies
<1> QED BY <1>1, <1>2, <1>3

LEMMA SumDomain == \A a, b : DOMAIN a \subseteq DOMAIN (a (+) b) /\ DOMAIN b \subseteq DOMAIN (a (+) b)
BY DEF (+)

LEMMA SumHeard ==
    ASSUME NEW a \in Heard, NEW b \in Heard
    PROVE  a (+) b \in Heard /\ \A x : Times(a (+) b, x) = Times(a, x) + Times(b, x)
<1> DEFINE c == a (+) b
<1>1. /\ DOMAIN c = DOMAIN a \cup DOMAIN b /\ c = [x \in DOMAIN c |-> c[x]]
      /\ \A x \in DOMAIN a \cup DOMAIN b : c[x] = Times(a, x) + Times(b, x)
  BY SumTimes
<1> HIDE DEF c
<1>2. DOMAIN c \in SUBSET Sounds
  BY <1>1, HeardIs
<1>3. \A x \in DOMAIN c : c[x] \in Nat \ {0}
  BY <1>1, TimesIs
<1>4. ASSUME NEW x PROVE Times(c, x) = Times(a, x) + Times(b, x)
  <2>1. CASE x \in DOMAIN c
    BY <1>1, <2>1 DEF Times
  <2>2. CASE x \notin DOMAIN c
    BY <1>1, <2>2 DEF Times
  <2> QED BY <2>1, <2>2
<1> QED BY <1>1, <1>2, <1>3, <1>4, HeardIs DEF c

LEMMA SameTimes ==
    ASSUME NEW a \in Heard, NEW b \in Heard, \A x : Times(a, x) = Times(b, x)
    PROVE  a = b
<1>1. DOMAIN a = DOMAIN b
  BY TimesIs
<1>2. \A x \in DOMAIN a : a[x] = b[x]
  BY <1>1 DEF Times
<1>3. a = [x \in DOMAIN a |-> a[x]] /\ b = [x \in DOMAIN b |-> b[x]]
  BY HeardIs
<1> QED BY <1>1, <1>2, <1>3

LEMMA SumAlgebra ==
    /\ EmptyBag \in Heard /\ DOMAIN EmptyBag = {} /\ Bodies(EmptyBag) = {}
    /\ \A a \in Heard : a (+) EmptyBag = a /\ EmptyBag (+) a = a
    /\ \A a \in Heard : \A b \in Heard : a (+) b = b (+) a
    /\ \A a \in Heard : \A b \in Heard : \A c \in Heard : (a (+) b) (+) c = a (+) (b (+) c)
<1>1. DOMAIN EmptyBag = {} /\ EmptyBag = [x \in DOMAIN EmptyBag |-> EmptyBag[x]]
  BY DEF EmptyBag, SetToBag
<1>2. EmptyBag \in Heard
  <2>1. DOMAIN EmptyBag \in SUBSET Sounds /\ \A x \in DOMAIN EmptyBag : EmptyBag[x] \in Nat \ {0}
    BY <1>1
  <2> QED BY <1>1, <2>1, HeardIs
<1>3. \A x : Times(EmptyBag, x) = 0
  BY <1>1 DEF Times
<1>4. ASSUME NEW a \in Heard PROVE a (+) EmptyBag = a /\ EmptyBag (+) a = a
  <2>1. \A x : Times(a (+) EmptyBag, x) = Times(a, x) /\ Times(EmptyBag (+) a, x) = Times(a, x)
    BY <1>2, <1>3, SumHeard, TimesIs
  <2>2. a (+) EmptyBag \in Heard /\ EmptyBag (+) a \in Heard
    BY <1>2, SumHeard
  <2> QED BY <2>1, <2>2, SameTimes
<1>5. ASSUME NEW a \in Heard, NEW b \in Heard PROVE a (+) b = b (+) a
  <2>1. \A x : Times(a (+) b, x) = Times(b (+) a, x)
    BY SumHeard, TimesIs
  <2>2. a (+) b \in Heard /\ b (+) a \in Heard
    BY SumHeard
  <2> QED BY <2>1, <2>2, SameTimes
<1>6. ASSUME NEW a \in Heard, NEW b \in Heard, NEW c \in Heard PROVE (a (+) b) (+) c = a (+) (b (+) c)
  <2>1. a (+) b \in Heard /\ b (+) c \in Heard
    BY SumHeard
  <2>2. (a (+) b) (+) c \in Heard /\ a (+) (b (+) c) \in Heard
    BY <2>1, SumHeard
  <2>3. ASSUME NEW x PROVE Times((a (+) b) (+) c, x) = Times(a (+) (b (+) c), x)
    <3>1. Times((a (+) b) (+) c, x) = (Times(a, x) + Times(b, x)) + Times(c, x)
      BY <2>1, SumHeard
    <3>2. Times(a (+) (b (+) c), x) = Times(a, x) + (Times(b, x) + Times(c, x))
      BY <2>1, SumHeard
    <3> QED BY <3>1, <3>2, TimesIs
  <2> QED BY <2>2, <2>3, SameTimes
<1>7. Bodies(EmptyBag) = {}
  BY <1>1 DEF Bodies
<1> QED BY <1>1, <1>2, <1>4, <1>5, <1>6, <1>7

LEMMA AudioHeard ==
    ASSUME NEW p \in PeerIds, NEW s \in Streams, NEW n \in Nat, NEW k \in Nat
    PROVE  Audio(p, s, n, k) \in Heard
<1>1. Block(p, s, n, k, "body") \in Sounds
  BY DEF Block, Sounds
<1> DEFINE x == Block(p, s, n, k, "body")
<1> HIDE DEF x
<1>2. Audio(p, s, n, k) = [y \in {x} |-> 1]
  BY DEF Audio, SetToBag, x
<1>3. [y \in {x} |-> 1] \in Heard
  BY <1>1, HeardIs DEF x
<1> QED BY <1>2, <1>3

LEMMA TailHeard ==
    ASSUME NEW b \in Heard
    PROVE  TailOf(b) \in Heard /\ Bodies(TailOf(b)) = {}
<1> DEFINE S == {[x EXCEPT !.part = "tail"] : x \in {y \in BagToSet(b) : y.part = "body"}}
<1>1. S \in SUBSET Sounds /\ \A x \in S : x.part = "tail"
  <2>1. BagToSet(b) \in SUBSET Sounds
    BY HeardIs DEF BagToSet
  <2> HIDE DEF BagToSet
  <2> QED BY <2>1 DEF Sounds
<1> HIDE DEF S
<1>2. TailOf(b) = [x \in S |-> 1]
  BY DEF TailOf, SetToBag, S
<1>3. [x \in S |-> 1] \in Heard
  BY <1>1, HeardIs
<1>4. Bodies([x \in S |-> 1]) = {}
  BY <1>1 DEF Bodies
<1> QED BY <1>2, <1>3, <1>4

(***************************************************************************)
(* Summing into a buffer                                                   *)
(***************************************************************************)
\* What a stream has been given is in a buffer of length len, up to the buffer's capacity.
Within(samples, buf, len) ==
    \A k \in 1..Len(samples) : k <= Cap => k <= len /\ Bodies(samples[k]) \subseteq DOMAIN buf[k - 1]

\* What summing leaves of a buffer: b and n are the buffer and its length afterwards.
Summed(b, n, buf, len, samples, offset) ==
    /\ n \in 0..Cap /\ len <= n
    /\ \A k \in 1..Len(samples) : offset + k <= Cap => offset + k <= n
    /\ \A i \in Positions : i < offset \/ i >= offset + Len(samples) => b[i] = buf[i]
    /\ \A i \in Positions : i >= offset /\ i < offset + Len(samples) =>
            /\ i < n
            /\ b[i] = IF i >= len THEN samples[i - offset + 1] ELSE buf[i] (+) samples[i - offset + 1]
    /\ \A i \in Positions : i < n => i < len \/ i < offset + Len(samples)

LEMMA SummedIs ==
    ASSUME NEW buf, NEW len \in 0..Cap, NEW samples \in Seq(Heard), NEW offset \in Nat
    PROVE  Summed(SummedIn(buf, len, samples, offset), SummedLen(len, samples, offset),
                  buf, len, samples, offset)
<1> DEFINE end == Shorter(offset + Len(samples), Cap)
           n == SummedLen(len, samples, offset)
<1>1. Len(samples) \in Nat /\ Cap \in Nat /\ Positions = 0..(Cap - 1)
  BY CapAssumption DEF Positions
<1>2. /\ end <= Cap /\ end <= offset + Len(samples) /\ (end = Cap \/ end = offset + Len(samples))
      /\ end \in Nat
  BY <1>1 DEF Shorter
<1>3. n = IF offset >= Cap THEN len ELSE IF len >= end THEN len ELSE end
  BY DEF SummedLen, Longer
<1>4. \A i \in Positions : SummedIn(buf, len, samples, offset)[i] =
            IF i < offset \/ i >= end THEN buf[i]
            ELSE IF i >= len THEN samples[i - offset + 1]
            ELSE buf[i] (+) samples[i - offset + 1]
  BY DEF SummedIn
<1> HIDE DEF end, n
<1>5. n \in 0..Cap /\ len <= n
  BY <1>1, <1>2, <1>3
<1>6. \A k \in 1..Len(samples) : offset + k <= Cap => offset + k <= n
  BY <1>1, <1>2, <1>3
<1>7. ASSUME NEW i \in Positions
      PROVE  /\ i < offset \/ i >= offset + Len(samples) =>
                    SummedIn(buf, len, samples, offset)[i] = buf[i]
             /\ i >= offset /\ i < offset + Len(samples) =>
                    /\ i < n
                    /\ SummedIn(buf, len, samples, offset)[i] =
                         IF i >= len THEN samples[i - offset + 1] ELSE buf[i] (+) samples[i - offset + 1]
             /\ i < n => i < len \/ i < offset + Len(samples)
  <2>1. i \in Nat /\ i < Cap
    BY <1>1
  <2>2. (i < offset \/ i >= end) <=> (i < offset \/ i >= offset + Len(samples))
    BY <1>1, <1>2, <2>1
  <2>3. i >= offset /\ i < offset + Len(samples) => i < n
    BY <1>1, <1>2, <1>3, <2>1
  <2>4. i < n => i < len \/ i < offset + Len(samples)
    BY <1>1, <1>2, <1>3, <2>1
  <2>5. CASE i < offset \/ i >= offset + Len(samples)
    BY <1>1, <1>4, <2>1, <2>2, <2>4, <2>5
  <2>6. CASE ~(i < offset \/ i >= offset + Len(samples))
    <3>1. /\ i >= offset /\ i < offset + Len(samples)
      BY <1>1, <2>1, <2>6
    <3>2. SummedIn(buf, len, samples, offset)[i] =
             IF i >= len THEN samples[i - offset + 1] ELSE buf[i] (+) samples[i - offset + 1]
      BY <1>4, <2>2, <2>6
    <3> QED BY <2>3, <2>4, <2>6, <3>1, <3>2
  <2> QED BY <2>5, <2>6
<1> QED BY <1>5, <1>6, <1>7 DEF n, Summed

LEMMA SummedKeeps ==
    ASSUME NEW buf, NEW len \in 0..Cap, NEW samples \in Seq(Heard), NEW offset \in Nat,
           NEW others \in Seq(Heard), Within(others, buf, len)
    PROVE  Within(others, SummedIn(buf, len, samples, offset), SummedLen(len, samples, offset))
<1> DEFINE b == SummedIn(buf, len, samples, offset)
           n == SummedLen(len, samples, offset)
<1>0. Summed(b, n, buf, len, samples, offset)
  BY SummedIs
<1> HIDE DEF b, n
<1>1. ASSUME NEW k \in 1..Len(others), k <= Cap
      PROVE  k <= n /\ Bodies(others[k]) \subseteq DOMAIN b[k - 1]
  <2>1. Len(others) \in Nat /\ Len(samples) \in Nat /\ Cap \in Nat
    BY CapAssumption
  <2>2. k <= len /\ Bodies(others[k]) \subseteq DOMAIN buf[k - 1]
    BY <1>1 DEF Within
  <2>3. k - 1 \in Positions /\ k - 1 < len
    BY <1>1, <2>1, <2>2 DEF Positions
  <2> DEFINE i == k - 1
  <2>4. len <= n /\ n \in 0..Cap
    BY <1>0 DEF Summed
  <2>5. b[i] = buf[i] \/ b[i] = buf[i] (+) samples[i - offset + 1]
    <3>1. i \in Positions /\ i \in Nat /\ ~(i >= len)
      BY <2>1, <2>3
    <3>2. CASE i < offset \/ i >= offset + Len(samples)
      BY <1>0, <3>1, <3>2 DEF Summed
    <3>3. CASE i >= offset /\ i < offset + Len(samples)
      BY <1>0, <3>1, <3>3 DEF Summed
    <3> HIDE DEF i
    <3> QED BY <2>1, <3>1, <3>2, <3>3
  <2>6. DOMAIN buf[i] \subseteq DOMAIN b[i]
    <3> HIDE DEF i
    <3> QED BY <2>5, SumDomain
  <2> QED BY <2>1, <2>2, <2>4, <2>6
<1>2. Within(others, b, n)
  BY <1>1 DEF Within
<1> QED BY <1>2 DEF b, n

LEMMA SummedAppends ==
    ASSUME NEW buf, NEW len \in 0..Cap, NEW samples \in Seq(Heard), NEW head \in Seq(Heard),
           Within(head, buf, len)
    PROVE  Within(head \o samples, SummedIn(buf, len, samples, Len(head)),
                  SummedLen(len, samples, Len(head)))
<1> DEFINE o == Len(head)
           b == SummedIn(buf, len, samples, o)
           n == SummedLen(len, samples, o)
<1>1. o \in Nat /\ Len(samples) \in Nat /\ Cap \in Nat
  BY CapAssumption
<1>0. Summed(b, n, buf, len, samples, o)
  BY <1>1, SummedIs
<1>2. Within(head, b, n)
  BY <1>1, SummedKeeps
<1> HIDE DEF b, n
<1>3. /\ Len(head \o samples) = o + Len(samples)
      /\ \A k \in 1..(o + Len(samples)) :
            (head \o samples)[k] = IF k <= o THEN head[k] ELSE samples[k - o]
  BY ConcatProperties
<1>4. ASSUME NEW k \in 1..(o + Len(samples)), k <= Cap, ~(k <= o)
      PROVE  k <= n /\ Bodies(samples[k - o]) \subseteq DOMAIN b[k - 1]
  <2> DEFINE j == k - o
             i == k - 1
  <2>1. j \in 1..Len(samples) /\ o + j = k /\ i \in Positions /\ i >= o /\ i < o + Len(samples)
        /\ i - o + 1 = j
    BY <1>1, <1>4 DEF Positions
  <2>2. k <= n
    BY <1>0, <1>1, <1>4, <2>1 DEF Summed
  <2>3. b[i] = IF i >= len THEN samples[i - o + 1] ELSE buf[i] (+) samples[i - o + 1]
    BY <1>0, <1>1, <2>1 DEF Summed
  <2>4. Bodies(samples[j]) \subseteq DOMAIN b[i]
    <3> HIDE DEF j, i
    <3>1. Bodies(samples[j]) \subseteq DOMAIN samples[j]
      BY DEF Bodies
    <3> QED BY <2>1, <2>3, <3>1, SumDomain
  <2> QED BY <2>2, <2>4
<1> HIDE DEF o
<1>5. ASSUME NEW k \in 1..Len(head \o samples), k <= Cap
      PROVE  k <= n /\ Bodies((head \o samples)[k]) \subseteq DOMAIN b[k - 1]
  <2>1. k \in 1..(o + Len(samples))
    BY <1>3
  <2>2. CASE k <= o
    <3>1. k \in 1..Len(head)
      BY <1>1, <2>1, <2>2 DEF o
    <3>2. k <= n /\ Bodies(head[k]) \subseteq DOMAIN b[k - 1]
      BY <1>2, <1>5, <3>1 DEF Within
    <3> QED BY <1>3, <2>1, <2>2, <3>2
  <2>3. CASE ~(k <= o)
    BY <1>3, <1>4, <1>5, <2>1, <2>3
  <2> QED BY <2>2, <2>3
<1>6. Within(head \o samples, b, n)
  BY <1>5 DEF Within
<1> QED BY <1>6 DEF b, n, o

LEMMA WithinEmpty ==
    ASSUME NEW buf, NEW len
    PROVE  Within(<<>>, buf, len)
BY DEF Within

\* The whole of an entry, summed in from the start.
LEMMA SummedWhole ==
    ASSUME NEW buf, NEW len \in 0..Cap, NEW samples \in Seq(Heard)
    PROVE  Within(samples, SummedIn(buf, len, samples, 0), SummedLen(len, samples, 0))
<1>1. <<>> \in Seq(Heard) /\ Len(<<>>) = 0 /\ <<>> \o samples = samples
  OBVIOUS
<1>2. Within(<<>> \o samples, SummedIn(buf, len, samples, Len(<<>>)), SummedLen(len, samples, Len(<<>>)))
  BY <1>1, WithinEmpty, SummedAppends
<1> QED BY <1>1, <1>2

\* Only what the bodies are matters, not the tails that a fade has added.
LEMMA SameBodies ==
    ASSUME NEW s \in Seq(Heard), NEW t \in Seq(Heard), Len(s) = Len(t),
           \A k \in 1..Len(s) : Bodies(s[k]) \subseteq Bodies(t[k]),
           NEW buf, NEW len, Within(t, buf, len)
    PROVE  Within(s, buf, len)
BY DEF Within

(***************************************************************************)
(* What the queues and the slots hold.                                     *)
(***************************************************************************)
Waiting == [peer : PeerIds, stream : Streams, index : Nat, samples : Seq(Heard), premixed : BOOLEAN]
Frames  == [peer : PeerIds, stream : Streams, index : Nat, at : Nat]

HeldOk ==
    /\ DOMAIN slots = SlotNums
    /\ \A i \in SlotNums : /\ {"samples", "tail"} \subseteq DOMAIN slots[i]
                           /\ slots[i].samples \in Seq(Heard)
                           /\ slots[i].tail \in Heard /\ Bodies(slots[i].tail) = {}
WaitOk  == pending \in Seq(Waiting) /\ todo \in Seq(Waiting) /\ (phase # "swap" => todo = <<>>)
CountOk == /\ mixLen \in 0..Cap /\ nextLen \in 0..Cap
           /\ DOMAIN mix = Positions /\ DOMAIN next = Positions
           /\ current \in Nat \cup {None} /\ playing \in Nat \cup {None}
InputOk == frames \in Seq(Frames) /\ remote \in Nat \cup {None} /\ sent \in [Sources -> Nat]
HeardInv == HeldOk /\ WaitOk /\ CountOk /\ InputOk

LEMMA FrameHeard ==
    ASSUME HeardInv, frames # <<>>
    PROVE  /\ Head(frames) \in Frames /\ Tail(frames) \in Seq(Frames)
           /\ <<Audio(Head(frames).peer, Head(frames).stream, Head(frames).index, Head(frames).at)>> \in Seq(Heard)
<1>1. Head(frames) \in Frames /\ Tail(frames) \in Seq(Frames)
  BY DEF HeardInv, InputOk
<1>2. Audio(Head(frames).peer, Head(frames).stream, Head(frames).index, Head(frames).at) \in Heard
  BY <1>1, AudioHeard DEF Frames
<1> QED BY <1>1, <1>2

LEMMA NoneFresh == None \notin Nat /\ 0 \in 0..Cap
BY SlotAssumption, CapAssumption

\* What the audio thread takes from a queue when an entry continues.
LEMMA ContinuedIs ==
    ASSUME NEW e \in Waiting, NEW audio \in Seq(Heard), NEW premix \in BOOLEAN
    PROVE  /\ Continued(e, audio, premix) \in Waiting
           /\ Continued(e, audio, premix).samples = e.samples \o audio
           /\ Continued(e, audio, premix).premixed = (e.premixed \/ premix)
           /\ Continued(e, audio, premix).index = e.index
           /\ Continued(e, audio, premix).peer = e.peer
           /\ Continued(e, audio, premix).stream = e.stream
<1>1. e.samples \o audio \in Seq(Heard) /\ (e.premixed \/ premix) \in BOOLEAN
  BY DEF Waiting
<1> QED BY <1>1 DEF Waiting, Continued

QueueAt(p, s, n) == SelectInSeq(pending, LAMBDA e : e.peer = p /\ e.stream = s /\ e.index = n)

LEMMA QueueAtIs ==
    ASSUME pending \in Seq(Waiting), NEW p, NEW s, NEW n
    PROVE  \/ QueueAt(p, s, n) = 0
           \/ /\ QueueAt(p, s, n) \in 1..Len(pending)
              /\ pending[QueueAt(p, s, n)].peer = p /\ pending[QueueAt(p, s, n)].stream = s
              /\ pending[QueueAt(p, s, n)].index = n
<1> DEFINE I == {i \in 1..Len(pending) : pending[i].peer = p /\ pending[i].stream = s /\ pending[i].index = n}
<1>1. QueueAt(p, s, n) = IF I # {} THEN Min(I) ELSE 0
  BY DEF QueueAt, SelectInSeq
<1>2. CASE I = {}
  BY <1>1, <1>2
<1>3. CASE I # {}
  <2>1. I \in SUBSET Nat
    OBVIOUS
  <2>2. Min(I) \in I
    <3> HIDE DEF I
    <3> QED BY <1>3, <2>1, MinIsMember
  <2> QED BY <1>1, <1>3, <2>2
<1> QED BY <1>2, <1>3

\* What queuing does, without its LET: k is the entry it continues, 0 for none.
Queued(p, s, n, audio, k) ==
    LET premix  == current = n
        head    == IF k = 0 THEN <<>> ELSE pending[k].samples
        missing == premix /\ k # 0 /\ ~pending[k].premixed
        filled  == IF missing THEN SummedIn(next, nextLen, head, 0) ELSE next
        filledLen == IF missing THEN SummedLen(nextLen, head, 0) ELSE nextLen
    IN  /\ pending' =
             IF k = 0 THEN Append(pending, PendingEntry(p, s, n, audio, premix))
             ELSE [pending EXCEPT ![k] = Continued(pending[k], audio, premix)]
        /\ next' = IF premix THEN SummedIn(filled, filledLen, audio, Len(head)) ELSE next
        /\ nextLen' = IF premix THEN SummedLen(filledLen, audio, Len(head)) ELSE nextLen

LEMMA QueueIs ==
    ASSUME pending \in Seq(Waiting), NEW p, NEW s, NEW n, NEW audio, Queue(p, s, n, audio)
    PROVE  /\ Queued(p, s, n, audio, QueueAt(p, s, n))
           /\ UNCHANGED <<table, slots, identityOf, current, playing, mix, mixLen, mixPos, todo, prev>>
<1> DEFINE k == QueueAt(p, s, n)
<1>1. UNCHANGED <<table, slots, identityOf, current, playing, mix, mixLen, mixPos, todo, prev>>
  BY DEF Queue
<1>2. Queued(p, s, n, audio, k)
  BY DEF Queue, Queued, QueueAt
<1> QED BY <1>1, <1>2

(***************************************************************************)
(* Coverage: what is marked as mixed ahead is in the buffer mixed ahead,   *)
(* and what a slot plays is in the mix.                                    *)
(***************************************************************************)
\* An entry that is marked belongs to interval n and is wholly in the buffer.
InBuffer(e, n, buf, len) == e.premixed => e.index = n /\ Within(e.samples, buf, len)
AllIn(q, n, buf, len) == \A j \in 1..Len(q) : InBuffer(q[j], n, buf, len)

LEMMA AllInKeeps ==
    ASSUME NEW q \in Seq(Waiting), NEW n, NEW buf, NEW len \in 0..Cap, AllIn(q, n, buf, len),
           NEW samples \in Seq(Heard), NEW offset \in Nat
    PROVE  AllIn(q, n, SummedIn(buf, len, samples, offset), SummedLen(len, samples, offset))
<1> DEFINE b == SummedIn(buf, len, samples, offset)
           l == SummedLen(len, samples, offset)
<1>1. ASSUME NEW j \in 1..Len(q) PROVE InBuffer(q[j], n, b, l)
  <2> DEFINE t == q[j].samples
  <2>1. t \in Seq(Heard)
    <3>1. q[j] \in Waiting
      OBVIOUS
    <3> QED BY <3>1 DEF Waiting
  <2>2. Within(t, buf, len) => Within(t, b, l)
    <3> HIDE DEF t
    <3> QED BY <2>1, SummedKeeps
  <2> HIDE DEF b, l
  <2> QED BY <2>2 DEF AllIn, InBuffer
<1> HIDE DEF b, l
<1>2. AllIn(q, n, b, l)
  BY <1>1 DEF AllIn
<1> QED BY <1>2 DEF b, l

LEMMA AllInTail ==
    ASSUME NEW q \in Seq(Waiting), q # <<>>, NEW n, NEW buf, NEW len, AllIn(q, n, buf, len)
    PROVE  /\ Head(q) \in Waiting /\ Tail(q) \in Seq(Waiting)
           /\ InBuffer(Head(q), n, buf, len) /\ AllIn(Tail(q), n, buf, len)
<1>1. Head(q) \in Waiting /\ Tail(q) \in Seq(Waiting) /\ Head(q) = q[1] /\ 1 \in 1..Len(q)
  OBVIOUS
<1>2. ASSUME NEW j \in 1..Len(Tail(q)) PROVE Tail(q)[j] = q[j + 1] /\ j + 1 \in 1..Len(q)
  OBVIOUS
<1>3. AllIn(Tail(q), n, buf, len)
  BY <1>2 DEF AllIn
<1> QED BY <1>1, <1>3 DEF AllIn

LEMMA AllInAppend ==
    ASSUME NEW q \in Seq(Waiting), NEW e \in Waiting, NEW n, NEW buf, NEW len,
           AllIn(q, n, buf, len), InBuffer(e, n, buf, len)
    PROVE  AllIn(Append(q, e), n, buf, len)
<1>1. ASSUME NEW j \in 1..Len(Append(q, e)) PROVE InBuffer(Append(q, e)[j], n, buf, len)
  <2>1. (j \in 1..Len(q) /\ Append(q, e)[j] = q[j]) \/ Append(q, e)[j] = e
    OBVIOUS
  <2>2. CASE j \in 1..Len(q) /\ Append(q, e)[j] = q[j]
    BY <2>2 DEF AllIn
  <2> QED BY <2>1, <2>2
<1> QED BY <1>1 DEF AllIn

LEMMA AllInReplaced ==
    ASSUME NEW q \in Seq(Waiting), NEW k \in 1..Len(q), NEW e \in Waiting, NEW n, NEW buf, NEW len,
           AllIn(q, n, buf, len), InBuffer(e, n, buf, len)
    PROVE  AllIn([q EXCEPT ![k] = e], n, buf, len)
<1>1. ASSUME NEW j \in 1..Len([q EXCEPT ![k] = e]) PROVE InBuffer([q EXCEPT ![k] = e][j], n, buf, len)
  <2>1. j \in 1..Len(q) /\ [q EXCEPT ![k] = e][j] = (IF j = k THEN e ELSE q[j])
    OBVIOUS
  <2>2. InBuffer(q[j], n, buf, len)
    BY <2>1 DEF AllIn
  <2> QED BY <2>1, <2>2
<1> QED BY <1>1 DEF AllIn

\* feed_remote keeps the buffer mixed ahead whole: its increment, and its backfill.
LEMMA QueueCovers ==
    ASSUME pending \in Seq(Waiting), nextLen \in 0..Cap, current \in Nat \cup {None},
           NEW p \in PeerIds, NEW s \in Streams, NEW n \in Nat, NEW audio \in Seq(Heard),
           Queue(p, s, n, audio)
    PROVE  /\ pending' \in Seq(Waiting) /\ nextLen' \in 0..Cap
           /\ AllIn(pending, current, next, nextLen) => AllIn(pending', current', next', nextLen')
<1> DEFINE k == QueueAt(p, s, n)
           premix == current = n
           All == AllIn(pending, current, next, nextLen)
<1>1. Queued(p, s, n, audio, k) /\ current' = current
  BY QueueIs
<1>2. k = 0 \/ (k \in 1..Len(pending) /\ pending[k] \in Waiting /\ pending[k].index = n)
  <2>1. k = 0 \/ (k \in 1..Len(pending) /\ pending[k].index = n)
    BY QueueAtIs
  <2> HIDE DEF k
  <2> QED BY <2>1
<1>3. premix \in BOOLEAN
  BY Zenon
<1> HIDE DEF k
<1>4. CASE k = 0
  <2> DEFINE e == PendingEntry(p, s, n, audio, premix)
  <2>1. e \in Waiting /\ e.samples = audio /\ e.premixed = premix /\ e.index = n
    BY <1>3 DEF PendingEntry, Waiting
  <2>2. pending' = Append(pending, e)
    BY <1>1, <1>4 DEF Queued
  <2>3. next' = IF premix THEN SummedIn(next, nextLen, audio, 0) ELSE next
    BY <1>1, <1>4 DEF Queued
  <2>4. nextLen' = IF premix THEN SummedLen(nextLen, audio, 0) ELSE nextLen
    BY <1>1, <1>4 DEF Queued
  <2> HIDE DEF e
  <2>5. CASE premix
    <3> DEFINE b == SummedIn(next, nextLen, audio, 0)
               l == SummedLen(nextLen, audio, 0)
    <3>1. Summed(b, l, next, nextLen, audio, 0) /\ Within(audio, b, l)
      BY SummedIs, SummedWhole
    <3>2. All => AllIn(pending, current, b, l)
      BY AllInKeeps
    <3> HIDE DEF b, l
    <3>3. l \in 0..Cap
      BY <3>1 DEF Summed
    <3>4. InBuffer(e, current, b, l)
      BY <2>1, <2>5, <3>1 DEF InBuffer
    <3>5. All => AllIn(Append(pending, e), current, b, l)
      BY <2>1, <3>2, <3>4, AllInAppend
    <3>6. next' = b /\ nextLen' = l
      BY <2>3, <2>4, <2>5 DEF b, l
    <3> QED BY <1>1, <2>1, <2>2, <3>3, <3>5, <3>6
  <2>6. CASE ~premix
    <3>1. InBuffer(e, current, next, nextLen)
      BY <2>1, <2>6 DEF InBuffer
    <3>2. All => AllIn(Append(pending, e), current, next, nextLen)
      BY <2>1, <3>1, AllInAppend
    <3> QED BY <1>1, <2>1, <2>2, <2>3, <2>4, <2>6, <3>2
  <2> QED BY <2>5, <2>6
<1>5. CASE k # 0
  <2> DEFINE o == pending[k]
             head == o.samples
             e == Continued(o, audio, premix)
  <2>1. k \in 1..Len(pending) /\ o \in Waiting /\ o.index = n /\ head \in Seq(Heard) /\ o.premixed \in BOOLEAN
    BY <1>2, <1>5 DEF Waiting
  <2>2. pending' = [pending EXCEPT ![k] = e]
    BY <1>1, <1>5 DEF Queued
  <2>3. e \in Waiting /\ e.samples = head \o audio /\ e.premixed = (o.premixed \/ premix) /\ e.index = n
    <3> HIDE DEF o, premix
    <3> QED BY <1>3, <2>1, ContinuedIs DEF premix
  <2>4. ASSUME premix, o.premixed
        PROVE  next' = SummedIn(next, nextLen, audio, Len(head)) /\ nextLen' = SummedLen(nextLen, audio, Len(head))
    BY <1>1, <1>5, <2>4 DEF Queued
  <2>5. ASSUME premix, ~o.premixed
        PROVE  /\ next' = SummedIn(SummedIn(next, nextLen, head, 0), SummedLen(nextLen, head, 0), audio, Len(head))
               /\ nextLen' = SummedLen(SummedLen(nextLen, head, 0), audio, Len(head))
    BY <1>1, <1>5, <2>5 DEF Queued
  <2>6. ASSUME ~premix PROVE next' = next /\ nextLen' = nextLen
    BY <1>1, <1>5, <2>6 DEF Queued
  <2>7. All => InBuffer(o, current, next, nextLen)
    BY <2>1 DEF AllIn
  <2> HIDE DEF e, o, head
  <2>8. pending' \in Seq(Waiting)
    BY <2>1, <2>2, <2>3
  <2>9. ASSUME NEW b, NEW l \in 0..Cap, premix,
               next' = SummedIn(b, l, audio, Len(head)), nextLen' = SummedLen(l, audio, Len(head))
        PROVE  /\ nextLen' \in 0..Cap
               /\ AllIn(pending, current, b, l) /\ Within(head, b, l) =>
                      AllIn(pending', current, next', nextLen')
    <3> DEFINE c == SummedIn(b, l, audio, Len(head))
               m == SummedLen(l, audio, Len(head))
    <3>1. Len(head) \in Nat
      BY <2>1
    <3>2. Summed(c, m, b, l, audio, Len(head))
      BY <3>1, SummedIs
    <3>3. AllIn(pending, current, b, l) => AllIn(pending, current, c, m)
      BY <3>1, AllInKeeps
    <3>4. Within(head, b, l) => Within(head \o audio, c, m)
      BY <2>1, SummedAppends
    <3>5. next' = c /\ nextLen' = m
      BY <2>9
    <3> HIDE DEF c, m
    <3>6. m \in 0..Cap
      BY <3>2 DEF Summed
    <3>7. Within(head, b, l) => InBuffer(e, current, c, m)
      BY <2>3, <2>9, <3>4 DEF InBuffer
    <3>8. AllIn(pending, current, b, l) /\ Within(head, b, l) => AllIn([pending EXCEPT ![k] = e], current, c, m)
      BY <2>1, <2>3, <3>3, <3>7, AllInReplaced
    <3> QED BY <2>2, <3>5, <3>6, <3>8
  <2>10. CASE premix /\ o.premixed
    <3>1. All => Within(head, next, nextLen)
      BY <2>7, <2>10 DEF InBuffer, head
    <3> QED BY <1>1, <2>4, <2>8, <2>9, <2>10, <3>1
  <2>11. CASE premix /\ ~o.premixed
    <3> DEFINE b == SummedIn(next, nextLen, head, 0)
               l == SummedLen(nextLen, head, 0)
    <3>1. Summed(b, l, next, nextLen, head, 0) /\ Within(head, b, l)
      BY <2>1, SummedIs, SummedWhole
    <3>2. All => AllIn(pending, current, b, l)
      BY <2>1, AllInKeeps
    <3>3. next' = SummedIn(b, l, audio, Len(head)) /\ nextLen' = SummedLen(l, audio, Len(head))
      BY <2>5, <2>11
    <3> HIDE DEF b, l
    <3>4. l \in 0..Cap
      BY <3>1 DEF Summed
    <3> QED BY <1>1, <2>8, <2>9, <2>11, <3>1, <3>2, <3>3, <3>4
  <2>12. CASE ~premix
    <3>1. All => InBuffer(e, current, next, nextLen)
      BY <2>1, <2>3, <2>7, <2>12 DEF InBuffer
    <3>2. All => AllIn([pending EXCEPT ![k] = e], current, next, nextLen)
      BY <2>1, <2>3, <3>1, AllInReplaced
    <3> QED BY <1>1, <2>2, <2>6, <2>8, <2>12, <3>2
  <2> QED BY <2>10, <2>11, <2>12
<1> QED BY <1>4, <1>5

CoverInv ==
    /\ \A i \in SlotNums : Within(slots[i].samples, mix, mixLen)
    /\ AllIn(pending, current, next, nextLen)
    /\ AllIn(todo, playing, mix, mixLen)
\* The transport has not restarted: reset_transport forgets the buffers' lengths and keeps
\* the marks that rely on them.
MixInv == HeardInv /\ (~restarted => CoverInv)

LEMMA SummedDomain ==
    \A buf, len, samples, offset : DOMAIN SummedIn(buf, len, samples, offset) = Positions
BY DEF SummedIn

LEMMA LiveAppendCovers ==
    ASSUME HeldOk, WaitOk, CountOk, NEW p, NEW s, NEW n, NEW audio \in Seq(Heard),
           LiveAppend(p, s, n, audio)
    PROVE  /\ HeldOk' /\ mixLen' \in 0..Cap /\ DOMAIN mix' = Positions
           /\ UNCHANGED <<current, playing, next, nextLen, pending, todo>>
           /\ CoverInv => CoverInv'
<1> DEFINE i == FirstSlot(SlotsOf(p, s))
           held == slots[i].samples
           at == Len(held)
           gap == [j \in Positions |-> IF j >= mixLen /\ j < at THEN EmptyBag ELSE mix[j]]
           b == SummedIn(gap, mixLen, audio, at)
           l == SummedLen(mixLen, audio, at)
<1>1. /\ mix' = IF at < Cap THEN b ELSE mix
      /\ mixLen' = l
      /\ slots' = IF at < Cap THEN [slots EXCEPT ![i].samples = @ \o audio] ELSE slots
      /\ UNCHANGED <<current, playing, next, nextLen, pending, todo>>
      /\ SlotsOf(p, s) # {}
  BY DEF LiveAppend
<1>2. i \in SlotNums
  <2>1. SlotsOf(p, s) \in SUBSET Nat /\ SlotsOf(p, s) \subseteq SlotNums
    BY DEF SlotsOf, SlotNums
  <2>2. FirstSlot(SlotsOf(p, s)) = Min(SlotsOf(p, s))
    BY DEF FirstSlot, Min
  <2> QED BY <1>1, <2>1, <2>2, MinIsMember
<1>3. held \in Seq(Heard) /\ at \in Nat
  BY <1>2 DEF HeldOk
<1>4. mixLen \in 0..Cap /\ Cap \in Nat /\ pending \in Seq(Waiting) /\ todo \in Seq(Waiting)
  BY CapAssumption DEF CountOk, WaitOk
<1>5. Summed(b, l, gap, mixLen, audio, at)
  <2> HIDE DEF gap, at
  <2> QED BY <1>3, <1>4, SummedIs
<1>6. l \in 0..Cap /\ (at >= Cap => l = mixLen)
  <2>1. at >= Cap => l = mixLen
    BY <1>3, <1>4 DEF SummedLen
  <2> HIDE DEF l, b, gap
  <2> QED BY <1>5, <2>1 DEF Summed
<1>7. ASSUME NEW t \in Seq(Heard), Within(t, mix, mixLen) PROVE Within(t, gap, mixLen)
  <2>1. ASSUME NEW k \in 1..Len(t), k <= Cap PROVE k <= mixLen /\ Bodies(t[k]) \subseteq DOMAIN gap[k - 1]
    <3>1. k <= mixLen /\ Bodies(t[k]) \subseteq DOMAIN mix[k - 1]
      BY <1>7, <2>1 DEF Within
    <3>2. k - 1 \in Positions /\ ~(k - 1 >= mixLen)
      BY <1>4, <2>1, <3>1 DEF Positions
    <3> QED BY <3>1, <3>2
  <2> HIDE DEF gap
  <2> QED BY <2>1 DEF Within
<1>8. ASSUME NEW t \in Seq(Heard), Within(t, mix, mixLen) PROVE Within(t, b, l)
  <2>1. Within(t, gap, mixLen)
    BY <1>7, <1>8
  <2> HIDE DEF gap, at
  <2> QED BY <1>3, <1>4, <2>1, SummedKeeps
<1>9. Within(held, mix, mixLen) => Within(held \o audio, b, l)
  <2>1. Within(held, mix, mixLen) => Within(held, gap, mixLen)
    BY <1>3, <1>7
  <2> HIDE DEF gap, held
  <2> QED BY <1>3, <1>4, <2>1, SummedAppends
<1>10. DOMAIN mix' = Positions
  BY <1>1, SummedDomain DEF CountOk
<1>11. /\ DOMAIN slots' = SlotNums
       /\ \A j \in SlotNums : /\ {"samples", "tail"} \subseteq DOMAIN slots'[j] /\ slots'[j].tail = slots[j].tail
                              /\ slots'[j].samples = IF j = i /\ at < Cap THEN held \o audio ELSE slots[j].samples
  <2> HIDE DEF i, b, l
  <2> QED BY <1>1, <1>2 DEF HeldOk
<1> HIDE DEF i, held, at, gap, b, l
<1>12. HeldOk'
  <2>1. held \o audio \in Seq(Heard)
    BY <1>3
  <2> QED BY <1>11, <2>1 DEF HeldOk
<1>13. ASSUME CoverInv PROVE CoverInv'
  <2>1. CASE at < Cap
    <3>1. mix' = b /\ mixLen' = l
      BY <1>1, <2>1
    <3>2. ASSUME NEW j \in SlotNums PROVE Within(slots'[j].samples, b, l)
      <4>1. slots[j].samples \in Seq(Heard) /\ Within(slots[j].samples, mix, mixLen)
        BY <1>13 DEF CoverInv, HeldOk
      <4>2. CASE j = i
        BY <1>9, <1>11, <2>1, <4>1, <4>2 DEF held
      <4>3. CASE j # i
        BY <1>8, <1>11, <4>1, <4>3
      <4> QED BY <4>2, <4>3
    <3>3. AllIn(todo, playing, b, l)
      <4>1. ASSUME NEW j \in 1..Len(todo) PROVE InBuffer(todo[j], playing, b, l)
        <5>1. todo[j] \in Waiting
          BY <1>4
        <5>2. todo[j].samples \in Seq(Heard)
          BY <5>1 DEF Waiting
        <5>3. InBuffer(todo[j], playing, mix, mixLen)
          BY <1>13 DEF CoverInv, AllIn
        <5> QED BY <1>8, <5>2, <5>3 DEF InBuffer
      <4> QED BY <4>1 DEF AllIn
    <3> QED BY <1>1, <1>13, <3>1, <3>2, <3>3 DEF CoverInv
  <2>2. CASE ~(at < Cap)
    <3>1. mix' = mix /\ mixLen' = mixLen /\ \A j \in SlotNums : slots'[j].samples = slots[j].samples
      BY <1>1, <1>3, <1>4, <1>6, <1>11, <2>2
    <3> QED BY <1>1, <1>13, <3>1 DEF CoverInv
  <2> QED BY <2>1, <2>2
<1> QED BY <1>1, <1>6, <1>10, <1>12, <1>13

LEMMA SwapCovers ==
    ASSUME HeldOk, WaitOk, CountOk, NEW idx \in Nat \cup {None}, Swap(idx)
    PROVE  /\ HeldOk' /\ CountOk' /\ pending' = <<>> /\ todo' = pending
           /\ CoverInv => CoverInv'
<1>1. /\ slots' = TailsCaptured /\ playing' = current /\ current' = idx
      /\ mix' = IF nextLen = 0 THEN next ELSE [next EXCEPT ![0] = @ (+) SummedTail(TailsCaptured)]
      /\ next' = mix /\ mixLen' = nextLen /\ nextLen' = 0
      /\ todo' = pending /\ pending' = <<>>
  BY DEF Swap
<1>2. /\ DOMAIN slots' = SlotNums
      /\ \A i \in SlotNums : /\ {"samples", "tail"} \subseteq DOMAIN slots'[i] /\ slots'[i].samples = <<>>
                             /\ slots'[i].tail = IF slots[i].active /\ slots[i].samples # <<>>
                                                 THEN TailOf(Last(slots[i].samples)) ELSE slots[i].tail
  BY <1>1 DEF TailsCaptured, HeldOk
<1>3. HeldOk'
  <2>1. ASSUME NEW i \in SlotNums PROVE slots'[i].tail \in Heard /\ Bodies(slots'[i].tail) = {}
    <3>1. slots[i].samples \in Seq(Heard) /\ slots[i].tail \in Heard /\ Bodies(slots[i].tail) = {}
      BY DEF HeldOk
    <3>2. ASSUME slots[i].samples # <<>> PROVE Last(slots[i].samples) \in Heard
      BY <3>1, <3>2 DEF Last
    <3>3. slots[i].samples # <<>> => /\ TailOf(Last(slots[i].samples)) \in Heard
                                     /\ Bodies(TailOf(Last(slots[i].samples))) = {}
      BY <3>2, TailHeard
    <3> QED BY <1>2, <3>1, <3>3
  <2>2. <<>> \in Seq(Heard)
    OBVIOUS
  <2> QED BY <1>2, <2>1, <2>2 DEF HeldOk
<1> DEFINE x == SummedTail(TailsCaptured)
<1> HIDE DEF x
<1>4. mix' = (IF nextLen = 0 THEN next ELSE [next EXCEPT ![0] = @ (+) x])
  BY <1>1 DEF x
<1>5. CountOk'
  <2>1. DOMAIN mix' = Positions /\ DOMAIN next' = Positions
    BY <1>1, <1>4 DEF CountOk
  <2>2. mixLen' \in 0..Cap /\ nextLen' \in 0..Cap
    BY <1>1, NoneFresh DEF CountOk
  <2>3. current' \in Nat \cup {None} /\ playing' \in Nat \cup {None}
    BY <1>1 DEF CountOk
  <2> QED BY <2>1, <2>2, <2>3 DEF CountOk
<1>6. \A j \in Positions : DOMAIN next[j] \subseteq DOMAIN mix'[j]
  BY <1>4, SumDomain DEF CountOk
<1>7. ASSUME CoverInv PROVE CoverInv'
  <2>1. \A i \in SlotNums : Within(slots'[i].samples, mix', mixLen')
    BY <1>2, WithinEmpty
  <2>2. AllIn(pending', current', next', nextLen')
    BY <1>1 DEF AllIn
  <2>3. ASSUME NEW j \in 1..Len(pending) PROVE InBuffer(pending[j], current, mix', nextLen)
    <3>1. InBuffer(pending[j], current, next, nextLen)
      BY <1>7 DEF CoverInv, AllIn
    <3>2. pending[j] \in Waiting
      BY DEF WaitOk
    <3> DEFINE t == pending[j].samples
    <3>3. t \in Seq(Heard)
      BY <3>2 DEF Waiting
    <3> HIDE DEF t
    <3>4. ASSUME Within(t, next, nextLen) PROVE Within(t, mix', nextLen)
      <4>1. ASSUME NEW k \in 1..Len(t), k <= Cap
            PROVE k <= nextLen /\ Bodies(t[k]) \subseteq DOMAIN mix'[k - 1]
        <5>1. k <= nextLen /\ Bodies(t[k]) \subseteq DOMAIN next[k - 1]
          BY <3>4, <4>1 DEF Within
        <5>2. k - 1 \in Positions
          BY <3>3, <4>1, CapAssumption DEF Positions
        <5> QED BY <1>6, <5>1, <5>2
      <4> QED BY <4>1 DEF Within
    <3> QED BY <3>1, <3>4 DEF InBuffer, t
  <2>4. AllIn(todo', playing', mix', mixLen')
    BY <1>1, <2>3 DEF AllIn
  <2> QED BY <2>1, <2>2, <2>4 DEF CoverInv
<1> QED BY <1>1, <1>3, <1>5, <1>7

LEMMA FadedIs ==
    ASSUME NEW samples \in Seq(Heard), NEW tail \in Heard, Bodies(tail) = {}
    PROVE  /\ Faded(samples, tail) \in Seq(Heard) /\ Len(Faded(samples, tail)) = Len(samples)
           /\ \A k \in 1..Len(samples) : Bodies(Faded(samples, tail)[k]) = Bodies(samples[k])
<1>1. Faded(samples, tail) = [k \in 1..Len(samples) |-> IF k = 1 THEN samples[k] (+) tail ELSE samples[k]]
  BY DEF Faded
<1>2. ASSUME NEW k \in 1..Len(samples)
      PROVE  samples[k] (+) tail \in Heard /\ Bodies(samples[k] (+) tail) = Bodies(samples[k])
  <2> DEFINE h == samples[k]
  <2>1. h \in Heard
    OBVIOUS
  <2> HIDE DEF h
  <2>2. h (+) tail \in Heard /\ Bodies(h (+) tail) = Bodies(h) \cup Bodies(tail)
    BY <2>1, SumHeard, SumTimes
  <2> QED BY <2>2 DEF h
<1>3. \A k \in 1..Len(samples) : samples[k] \in Heard
  OBVIOUS
<1>4. \A k \in 1..Len(samples) : /\ Faded(samples, tail)[k] \in Heard
                                 /\ Bodies(Faded(samples, tail)[k]) = Bodies(samples[k])
  BY <1>1, <1>2, <1>3
<1>5. Faded(samples, tail) \in [1..Len(samples) -> Heard]
  <2>1. Faded(samples, tail) = [k \in 1..Len(samples) |-> Faded(samples, tail)[k]]
    BY <1>1
  <2> HIDE DEF Faded
  <2> QED BY <1>4, <2>1
<1>6. \A t \in [1..Len(samples) -> Heard] : t \in Seq(Heard) /\ Len(t) = Len(samples)
  OBVIOUS
<1> QED BY <1>4, <1>5, <1>6

LEMMA MergedIs ==
    ASSUME NEW a \in Seq(Heard), NEW b \in Seq(Heard)
    PROVE  /\ Merged(a, b) \in Seq(Heard) /\ Len(Merged(a, b)) = Longer(Len(a), Len(b))
           /\ \A k \in 1..Longer(Len(a), Len(b)) :
                Bodies(Merged(a, b)[k]) = (IF k <= Len(a) THEN Bodies(a[k]) ELSE {})
                                          \cup (IF k <= Len(b) THEN Bodies(b[k]) ELSE {})
<1> DEFINE n == Longer(Len(a), Len(b))
           x(k) == IF k <= Len(a) THEN a[k] ELSE EmptyBag
           y(k) == IF k <= Len(b) THEN b[k] ELSE EmptyBag
<1>1. n \in Nat /\ Merged(a, b) = [k \in 1..n |-> x(k) (+) y(k)]
  BY DEF Merged, Longer
<1> HIDE DEF n
<1>2. ASSUME NEW k \in 1..n
      PROVE  x(k) \in Heard /\ y(k) \in Heard /\ Bodies(x(k)) = (IF k <= Len(a) THEN Bodies(a[k]) ELSE {})
             /\ Bodies(y(k)) = (IF k <= Len(b) THEN Bodies(b[k]) ELSE {})
  <2>1. k <= Len(a) => a[k] \in Heard
    BY <1>1
  <2>2. k <= Len(b) => b[k] \in Heard
    BY <1>1
  <2> QED BY <2>1, <2>2, SumAlgebra
<1> HIDE DEF x, y
<1>3. ASSUME NEW k \in 1..n
      PROVE  x(k) (+) y(k) \in Heard /\ Bodies(x(k) (+) y(k)) = Bodies(x(k)) \cup Bodies(y(k))
  BY <1>2, SumHeard, SumTimes
<1>4. \A k \in 1..n : Merged(a, b)[k] = x(k) (+) y(k)
  BY <1>1
<1>5. Merged(a, b) \in [1..n -> Heard]
  <2>1. Merged(a, b) = [k \in 1..n |-> Merged(a, b)[k]]
    BY <1>1
  <2> QED BY <1>3, <1>4, <2>1
<1>6. \A t \in [1..n -> Heard] : t \in Seq(Heard) /\ Len(t) = n
  BY <1>1
<1> QED BY <1>2, <1>3, <1>4, <1>5, <1>6 DEF n

\* What a placed entry does to the mix, whatever of it is heard with a fade.
LEMMA MixedCovers ==
    ASSUME WaitOk, CountOk, NEW r \in Waiting, NEW audio \in Seq(Heard), Len(audio) = Len(r.samples),
           \A k \in 1..Len(audio) : Bodies(audio[k]) = Bodies(r.samples[k]),
           mix' = MixedWith(r, audio), mixLen' = MixedLen(r, audio)
    PROVE  /\ mixLen' \in 0..Cap /\ DOMAIN mix' = Positions
           /\ \A t \in Seq(Heard) : Within(t, mix, mixLen) => Within(t, mix', mixLen')
           /\ InBuffer(r, playing, mix, mixLen) => Within(audio, mix', mixLen')
<1>1. CASE r.premixed
  <2>1. mix' = mix /\ mixLen' = mixLen
    BY <1>1 DEF MixedWith, MixedLen
  <2> DEFINE t == r.samples
  <2>2. t \in Seq(Heard)
    BY DEF Waiting
  <2>3. InBuffer(r, playing, mix, mixLen) => Within(t, mix, mixLen)
    BY <1>1 DEF InBuffer
  <2>4. Len(audio) = Len(t) /\ \A k \in 1..Len(audio) : Bodies(audio[k]) \subseteq Bodies(t[k])
    OBVIOUS
  <2> HIDE DEF t
  <2>5. Within(t, mix, mixLen) => Within(audio, mix, mixLen)
    BY <2>2, <2>4, SameBodies
  <2> QED BY <2>1, <2>3, <2>5 DEF CountOk
<1>2. CASE ~r.premixed
  <2> DEFINE b == SummedIn(mix, mixLen, audio, 0)
             l == SummedLen(mixLen, audio, 0)
  <2>1. mix' = b /\ mixLen' = l
    BY <1>2 DEF MixedWith, MixedLen
  <2>2. mixLen \in 0..Cap
    BY DEF CountOk
  <2>3. Summed(b, l, mix, mixLen, audio, 0) /\ Within(audio, b, l)
    BY <2>2, SummedIs, SummedWhole
  <2>4. \A t \in Seq(Heard) : Within(t, mix, mixLen) => Within(t, b, l)
    BY <2>2, SummedKeeps
  <2>5. DOMAIN b = Positions
    BY SummedDomain
  <2> HIDE DEF b, l
  <2>6. l \in 0..Cap
    BY <2>3 DEF Summed
  <2> QED BY <2>1, <2>3, <2>4, <2>5, <2>6
<1> QED BY <1>1, <1>2

LEMMA AllInFollows ==
    ASSUME NEW q \in Seq(Waiting), NEW n, NEW b, NEW l, NEW c, NEW m, AllIn(q, n, b, l),
           \A t \in Seq(Heard) : Within(t, b, l) => Within(t, c, m)
    PROVE  AllIn(q, n, c, m)
<1>1. ASSUME NEW j \in 1..Len(q) PROVE InBuffer(q[j], n, c, m)
  <2>1. q[j] \in Waiting /\ InBuffer(q[j], n, b, l)
    BY DEF AllIn
  <2>2. q[j].samples \in Seq(Heard)
    BY <2>1 DEF Waiting
  <2> QED BY <2>1, <2>2 DEF InBuffer
<1> QED BY <1>1 DEF AllIn

LEMMA PlaceCovers ==
    ASSUME TableInv, HeldOk, WaitOk, CountOk, PlaceInSlot
    PROVE  /\ HeldOk' /\ mixLen' \in 0..Cap /\ DOMAIN mix' = Positions
           /\ UNCHANGED <<current, playing, next, nextLen, pending>> /\ todo' = Tail(todo)
           /\ CoverInv => CoverInv'
<1> DEFINE r == Head(todo)
           m == MappingOf(r.peer, r.stream)
           a == Assign(table, m)
           i == a.slot
           heard == Faded(r.samples, Taken(r, i).tail)
<1>1. /\ todo # <<>> /\ todo' = Tail(todo) /\ UNCHANGED <<current, playing, next, nextLen, pending>>
      /\ i # None
      /\ slots' = [slots EXCEPT ![i] = [Taken(r, i) EXCEPT !.samples = heard, !.readPos = 0]]
      /\ mix' = MixedWith(r, heard) /\ mixLen' = MixedLen(r, heard)
  BY DEF PlaceInSlot
<1>2. r \in Waiting /\ r.samples \in Seq(Heard) /\ m \in Mappings
  <2>1. r \in Waiting
    BY <1>1 DEF WaitOk
  <2>2. m \in Mappings
    BY <2>1, MappingIs DEF Waiting, TableInv
  <2> QED BY <2>1, <2>2 DEF Waiting
<1>3. i \in SlotNums
  BY <1>1, <1>2, AssignIs DEF TableInv
<1> HIDE DEF i, a, m
<1>4. /\ Taken(r, i).tail \in Heard /\ Bodies(Taken(r, i).tail) = {}
      /\ {"samples", "tail"} \subseteq DOMAIN Taken(r, i)
  <2>1. EmptyBag \in Heard /\ Bodies(EmptyBag) = {}
    BY SumAlgebra
  <2> QED BY <1>3, <2>1 DEF Taken, HeldOk
<1> DEFINE tail == Taken(r, i).tail
           t == r.samples
<1>5. heard = Faded(t, tail) /\ t \in Seq(Heard) /\ tail \in Heard /\ Bodies(tail) = {}
  BY <1>2, <1>4
<1> HIDE DEF heard, tail, t
<1>6. /\ heard \in Seq(Heard) /\ Len(heard) = Len(t)
      /\ \A k \in 1..Len(heard) : Bodies(heard[k]) = Bodies(t[k])
  BY <1>5, FadedIs
<1>7. /\ mixLen' \in 0..Cap /\ DOMAIN mix' = Positions
      /\ \A x \in Seq(Heard) : Within(x, mix, mixLen) => Within(x, mix', mixLen')
      /\ InBuffer(r, playing, mix, mixLen) => Within(heard, mix', mixLen')
  BY <1>1, <1>2, <1>6, MixedCovers DEF t
<1> HIDE DEF r
<1>8. /\ DOMAIN slots' = SlotNums
      /\ \A j \in SlotNums : j # i => slots'[j] = slots[j]
      /\ {"samples", "tail"} \subseteq DOMAIN slots'[i] /\ slots'[i].samples = heard /\ slots'[i].tail = tail
  BY <1>1, <1>3, <1>4 DEF HeldOk, tail
<1>9. HeldOk'
  BY <1>5, <1>6, <1>8 DEF HeldOk
<1>10. ASSUME CoverInv PROVE CoverInv'
  <2>1. InBuffer(r, playing, mix, mixLen) /\ AllIn(Tail(todo), playing, mix, mixLen)
        /\ Tail(todo) \in Seq(Waiting)
    BY <1>1, <1>10, AllInTail DEF CoverInv, WaitOk, r
  <2>2. AllIn(todo', playing', mix', mixLen')
    BY <1>1, <1>7, <2>1, AllInFollows
  <2>3. ASSUME NEW j \in SlotNums PROVE Within(slots'[j].samples, mix', mixLen')
    <3>1. slots[j].samples \in Seq(Heard) /\ Within(slots[j].samples, mix, mixLen)
      BY <1>10 DEF CoverInv, HeldOk
    <3> QED BY <1>7, <1>8, <2>1, <3>1
  <2> QED BY <1>1, <1>10, <2>2, <2>3 DEF CoverInv
<1> QED BY <1>1, <1>7, <1>9, <1>10

LEMMA MergeCovers ==
    ASSUME HeldOk, WaitOk, CountOk, MergeIntoFirst
    PROVE  /\ HeldOk' /\ mixLen' \in 0..Cap /\ DOMAIN mix' = Positions
           /\ UNCHANGED <<current, playing, next, nextLen, pending>> /\ todo' = Tail(todo)
           /\ CoverInv => CoverInv'
<1> DEFINE r == Head(todo)
           z == SlotFor(Assign(table, MappingOf(r.peer, r.stream)).table, MappingOf(r.peer, 0))
           t == r.samples
<1>1. /\ todo # <<>> /\ todo' = Tail(todo) /\ UNCHANGED <<current, playing, next, nextLen, pending>>
      /\ slots' = IF z = None THEN slots
                  ELSE [slots EXCEPT ![z].samples = Merged(@, t), ![z].readPos = 0]
      /\ mix' = MixedWith(r, t) /\ mixLen' = MixedLen(r, t)
  BY DEF MergeIntoFirst
<1> HIDE DEF z
<1>2. r \in Waiting /\ t \in Seq(Heard)
  <2>1. r \in Waiting
    BY <1>1 DEF WaitOk
  <2> QED BY <2>1 DEF Waiting
<1>3. /\ mixLen' \in 0..Cap /\ DOMAIN mix' = Positions
      /\ \A x \in Seq(Heard) : Within(x, mix, mixLen) => Within(x, mix', mixLen')
      /\ InBuffer(r, playing, mix, mixLen) => Within(t, mix', mixLen')
  BY <1>1, <1>2, MixedCovers
<1> HIDE DEF r, t
<1>4. /\ DOMAIN slots' = SlotNums
      /\ \A j \in SlotNums : /\ {"samples", "tail"} \subseteq DOMAIN slots'[j] /\ slots'[j].tail = slots[j].tail
                             /\ slots'[j].samples = IF z # None /\ j = z THEN Merged(slots[j].samples, t)
                                                    ELSE slots[j].samples
  BY <1>1 DEF HeldOk
<1>5. ASSUME NEW j \in SlotNums
      PROVE  /\ slots[j].samples \in Seq(Heard) /\ Merged(slots[j].samples, t) \in Seq(Heard)
             /\ Within(slots[j].samples, mix', mixLen') /\ Within(t, mix', mixLen') =>
                    Within(Merged(slots[j].samples, t), mix', mixLen')
  <2> DEFINE h == slots[j].samples
             g == Merged(h, t)
             n == Longer(Len(h), Len(t))
  <2>1. h \in Seq(Heard)
    BY DEF HeldOk
  <2> HIDE DEF h
  <2>2. /\ g \in Seq(Heard) /\ Len(g) = n
        /\ \A k \in 1..n : Bodies(g[k]) = (IF k <= Len(h) THEN Bodies(h[k]) ELSE {})
                                          \cup (IF k <= Len(t) THEN Bodies(t[k]) ELSE {})
    BY <1>2, <2>1, MergedIs
  <2>3. n \in Nat /\ (n = Len(h) \/ n = Len(t)) /\ Len(h) <= n /\ Len(t) <= n /\ Len(h) \in Nat /\ Len(t) \in Nat
    BY <1>2, <2>1 DEF Longer
  <2> HIDE DEF g, n
  <2>4. ASSUME Within(h, mix', mixLen'), Within(t, mix', mixLen') PROVE Within(g, mix', mixLen')
    <3>1. ASSUME NEW k \in 1..n, k <= Cap PROVE k <= mixLen' /\ Bodies(g[k]) \subseteq DOMAIN mix'[k - 1]
      <4>1. k \in 1..Len(h) => k <= mixLen' /\ Bodies(h[k]) \subseteq DOMAIN mix'[k - 1]
        BY <2>4, <3>1 DEF Within
      <4>2. k \in 1..Len(t) => k <= mixLen' /\ Bodies(t[k]) \subseteq DOMAIN mix'[k - 1]
        BY <2>4, <3>1 DEF Within
      <4>3. k \in 1..Len(h) \/ k \in 1..Len(t)
        BY <2>3
      <4>4. (k <= Len(h) <=> k \in 1..Len(h)) /\ (k <= Len(t) <=> k \in 1..Len(t))
        BY <2>3
      <4>5. Bodies(g[k]) = (IF k \in 1..Len(h) THEN Bodies(h[k]) ELSE {})
                           \cup (IF k \in 1..Len(t) THEN Bodies(t[k]) ELSE {})
        BY <2>2, <4>4
      <4> QED BY <4>1, <4>2, <4>3, <4>5
    <3> QED BY <2>2, <3>1 DEF Within
  <2> QED BY <2>1, <2>2, <2>4 DEF h, g
<1>6. HeldOk'
  BY <1>4, <1>5 DEF HeldOk
<1>7. ASSUME CoverInv PROVE CoverInv'
  <2>1. InBuffer(r, playing, mix, mixLen) /\ AllIn(Tail(todo), playing, mix, mixLen)
        /\ Tail(todo) \in Seq(Waiting)
    BY <1>1, <1>7, AllInTail DEF CoverInv, WaitOk, r
  <2>2. AllIn(todo', playing', mix', mixLen')
    BY <1>1, <1>3, <2>1, AllInFollows
  <2>3. ASSUME NEW j \in SlotNums PROVE Within(slots'[j].samples, mix', mixLen')
    <3>1. Within(slots[j].samples, mix', mixLen')
      BY <1>3, <1>5, <1>7 DEF CoverInv
    <3> QED BY <1>3, <1>4, <1>5, <2>1, <3>1
  <2> QED BY <1>1, <1>7, <2>2, <2>3 DEF CoverInv
<1> QED BY <1>1, <1>3, <1>6, <1>7

\* The rest of the ring's operations: they give away audio, or leave the buffers alone.
LEMMA RingSteps ==
    ASSUME HeldOk, WaitOk, CountOk
    PROVE  /\ \A p, id : NotifyPeerJoined(p, id) =>
                    HeldOk' /\ CountOk' /\ UNCHANGED <<pending, todo>> /\ (CoverInv => CoverInv')
           /\ \A p : RemovePeer(p) =>
                    HeldOk' /\ CountOk' /\ pending' \in Seq(Waiting) /\ UNCHANGED todo
                    /\ (CoverInv => CoverInv')
           /\ Reset => HeldOk' /\ CountOk' /\ pending' = <<>> /\ UNCHANGED todo
                       /\ (todo = <<>> => CoverInv')
           /\ ResetTransport => HeldOk' /\ CountOk' /\ UNCHANGED <<pending, todo>>
           /\ RingRenewed => HeldOk' /\ CountOk' /\ pending' = <<>> /\ todo' = <<>> /\ CoverInv'
           /\ Play => HeldOk' /\ CountOk' /\ UNCHANGED <<pending, todo>> /\ (CoverInv => CoverInv')
           /\ \A idx \in Nat \cup {None} : NoBoundary(idx) =>
                    HeldOk' /\ CountOk' /\ UNCHANGED <<pending, todo>>
                    /\ (todo = <<>> /\ CoverInv => CoverInv')
<1>0. EmptyBag \in Heard /\ Bodies(EmptyBag) = {} /\ <<>> \in Seq(Heard)
  BY SumAlgebra
<1>e. AllIn(<<>>, current', next', nextLen') /\ AllIn(<<>>, playing', mix', mixLen')
  BY DEF AllIn
<1>w. \A buf, len : Within(<<>>, buf, len)
  BY WithinEmpty
<1>1. ASSUME NEW p, NEW id, NotifyPeerJoined(p, id)
      PROVE  HeldOk' /\ CountOk' /\ UNCHANGED <<pending, todo>> /\ (CoverInv => CoverInv')
  <2>1. /\ UNCHANGED <<current, playing, mix, mixLen, next, nextLen, pending, todo>>
        /\ DOMAIN slots' = SlotNums
        /\ \A i \in SlotNums : /\ {"samples", "tail"} \subseteq DOMAIN slots'[i]
                               /\ slots'[i].samples = slots[i].samples
                               /\ slots'[i].tail \in {slots[i].tail, EmptyBag}
    BY <1>1 DEF NotifyPeerJoined, HeldOk
  <2>2. HeldOk' /\ CountOk'
    BY <1>0, <2>1 DEF HeldOk, CountOk
  <2> QED BY <2>1, <2>2 DEF CoverInv
<1>2. ASSUME NEW p, RemovePeer(p)
      PROVE  HeldOk' /\ CountOk' /\ pending' \in Seq(Waiting) /\ UNCHANGED todo /\ (CoverInv => CoverInv')
  <2>1. /\ UNCHANGED <<current, playing, mix, mixLen, todo>> /\ pending' = Unmarked /\ nextLen' = 0
        /\ DOMAIN next' = Positions
        /\ DOMAIN slots' = SlotNums
        /\ \A i \in SlotNums : /\ {"samples", "tail"} \subseteq DOMAIN slots'[i]
                               /\ slots'[i].samples \in {slots[i].samples, <<>>}
                               /\ slots'[i].tail = slots[i].tail
    BY <1>2 DEF RemovePeer, HeldOk
  <2>2. HeldOk' /\ CountOk'
    <3>1. HeldOk'
      BY <1>0, <2>1 DEF HeldOk
    <3>2. CountOk'
      BY <2>1, NoneFresh DEF CountOk
    <3> QED BY <3>1, <3>2
  <2>3. ASSUME NEW k \in 1..Len(pending)
        PROVE [pending[k] EXCEPT !.premixed = FALSE] \in Waiting
              /\ [pending[k] EXCEPT !.premixed = FALSE].premixed = FALSE
    <3>1. pending[k] \in Waiting
      BY DEF WaitOk
    <3> QED BY <3>1 DEF Waiting
  <2>4. pending' \in [1..Len(pending) -> Waiting] /\ \A k \in 1..Len(pending) : pending'[k].premixed = FALSE
    BY <2>1, <2>3 DEF Unmarked, WaitOk
  <2>5. pending' \in Seq(Waiting) /\ Len(pending') = Len(pending)
    BY <2>4 DEF WaitOk
  <2>6. AllIn(pending', current', next', nextLen')
    BY <2>4, <2>5 DEF AllIn, InBuffer
  <2>7. CoverInv => CoverInv'
    BY <1>w, <2>1, <2>6 DEF CoverInv
  <2> QED BY <2>1, <2>2, <2>5, <2>7
<1>3. ASSUME Reset
      PROVE HeldOk' /\ CountOk' /\ pending' = <<>> /\ UNCHANGED todo /\ (todo = <<>> => CoverInv')
  <2>1. /\ UNCHANGED <<mix, next, todo>> /\ pending' = <<>> /\ nextLen' = 0 /\ mixLen' = 0
        /\ current' = None /\ playing' = None
        /\ DOMAIN slots' = SlotNums
        /\ \A i \in SlotNums : /\ {"samples", "tail"} \subseteq DOMAIN slots'[i]
                               /\ slots'[i].samples = <<>> /\ slots'[i].tail = EmptyBag
    BY <1>3 DEF Reset, HeldOk
  <2>2. HeldOk' /\ CountOk'
    <3>1. HeldOk'
      BY <1>0, <2>1 DEF HeldOk
    <3>2. CountOk'
      BY <2>1, NoneFresh DEF CountOk
    <3> QED BY <3>1, <3>2
  <2> QED BY <1>e, <1>w, <2>1, <2>2 DEF CoverInv
<1>4. ASSUME ResetTransport PROVE HeldOk' /\ CountOk' /\ UNCHANGED <<pending, todo>>
  <2>1. /\ UNCHANGED <<mix, next, pending, todo>> /\ nextLen' = 0 /\ mixLen' = 0
        /\ current' = None /\ playing' = None
        /\ DOMAIN slots' = SlotNums
        /\ \A i \in SlotNums : /\ {"samples", "tail"} \subseteq DOMAIN slots'[i]
                               /\ slots'[i].samples = slots[i].samples /\ slots'[i].tail = slots[i].tail
    BY <1>4 DEF ResetTransport, HeldOk
  <2>2. HeldOk'
    BY <2>1 DEF HeldOk
  <2>3. CountOk'
    BY <2>1, NoneFresh DEF CountOk
  <2> QED BY <2>1, <2>2, <2>3
<1>5. ASSUME RingRenewed PROVE HeldOk' /\ CountOk' /\ pending' = <<>> /\ todo' = <<>> /\ CoverInv'
  <2>1. /\ pending' = <<>> /\ todo' = <<>> /\ nextLen' = 0 /\ mixLen' = 0
        /\ DOMAIN mix' = Positions /\ DOMAIN next' = Positions
        /\ current' = None /\ playing' = None
        /\ DOMAIN slots' = SlotNums
        /\ \A i \in SlotNums : /\ {"samples", "tail"} \subseteq DOMAIN slots'[i]
                               /\ slots'[i].samples = <<>> /\ slots'[i].tail = EmptyBag
    BY <1>5 DEF RingRenewed, EmptySlot, Silence
  <2>2. HeldOk'
    BY <1>0, <2>1 DEF HeldOk
  <2>3. CountOk'
    BY <2>1, NoneFresh DEF CountOk
  <2> QED BY <1>e, <1>w, <2>1, <2>2, <2>3 DEF CoverInv
<1>6. ASSUME Play PROVE HeldOk' /\ CountOk' /\ UNCHANGED <<pending, todo>> /\ (CoverInv => CoverInv')
  <2>1. /\ UNCHANGED <<current, playing, mix, mixLen, next, nextLen, pending, todo>>
        /\ DOMAIN slots' = SlotNums
        /\ \A i \in SlotNums : /\ {"samples", "tail"} \subseteq DOMAIN slots'[i]
                               /\ slots'[i].samples = slots[i].samples /\ slots'[i].tail = slots[i].tail
    BY <1>6 DEF Play, SlotRead, HeldOk
  <2>2. HeldOk' /\ CountOk'
    BY <2>1 DEF HeldOk, CountOk
  <2> QED BY <2>1, <2>2 DEF CoverInv
<1>7. ASSUME NEW idx \in Nat \cup {None}, NoBoundary(idx)
      PROVE  HeldOk' /\ CountOk' /\ UNCHANGED <<pending, todo>> /\ (todo = <<>> /\ CoverInv => CoverInv')
  <2>1. /\ UNCHANGED <<slots, mix, mixLen, next, nextLen, pending, todo>>
        /\ current' \in Nat \cup {None} /\ playing' \in Nat \cup {None}
        /\ current' = current \/ current = None
    BY <1>7 DEF NoBoundary, CountOk
  <2>2. HeldOk' /\ CountOk'
    BY <2>1 DEF HeldOk, CountOk
  <2>3. ASSUME AllIn(pending, current, next, nextLen) PROVE AllIn(pending, current', next, nextLen)
    <3>1. ASSUME current = None, NEW j \in 1..Len(pending) PROVE ~pending[j].premixed
      <4>1. pending[j] \in Waiting /\ InBuffer(pending[j], None, next, nextLen)
        BY <2>3, <3>1 DEF AllIn, WaitOk
      <4>2. pending[j].index \in Nat
        BY <4>1 DEF Waiting
      <4> QED BY <4>1, <4>2, NoneFresh DEF InBuffer
    <3>2. CASE current = None
      BY <3>1, <3>2 DEF AllIn, InBuffer
    <3> QED BY <2>1, <2>3, <3>2
  <2>4. CoverInv /\ todo = <<>> => CoverInv'
    BY <1>e, <2>1, <2>3 DEF CoverInv
  <2> QED BY <2>1, <2>2, <2>4
<1> QED BY <1>1, <1>2, <1>3, <1>4, <1>5, <1>6, <1>7

LEMMA KeepCovers ==
    ASSUME WaitOk, KeepOrEvict
    PROVE  /\ pending' \in Seq(Waiting) /\ todo' \in Seq(Waiting)
           /\ UNCHANGED <<slots, current, playing, mix, mixLen, next, nextLen>>
           /\ CoverInv => CoverInv'
<1> DEFINE r == Head(todo)
<1>1. /\ todo # <<>> /\ r.index # playing /\ todo' = Tail(todo)
      /\ pending' \in {pending, Append(pending, r)}
      /\ UNCHANGED <<slots, current, playing, mix, mixLen, next, nextLen>>
  BY DEF KeepOrEvict
<1>2. r \in Waiting /\ Tail(todo) \in Seq(Waiting) /\ pending \in Seq(Waiting)
  BY <1>1 DEF WaitOk
<1>3. ASSUME CoverInv PROVE CoverInv'
  <2>1. InBuffer(r, playing, mix, mixLen) /\ AllIn(Tail(todo), playing, mix, mixLen)
    BY <1>1, <1>3, AllInTail DEF CoverInv, WaitOk
  <2> HIDE DEF r
  <2>2. InBuffer(r, current, next, nextLen)
    BY <1>1, <2>1 DEF InBuffer
  <2>3. AllIn(Append(pending, r), current, next, nextLen)
    BY <1>2, <1>3, <2>2, AllInAppend DEF CoverInv
  <2> QED BY <1>1, <1>3, <2>1, <2>3 DEF CoverInv
<1> QED BY <1>1, <1>2, <1>3

LEMMA MixInit == Init => MixInv
<1> SUFFICES ASSUME Init PROVE MixInv
  OBVIOUS
<1>0. EmptyBag \in Heard /\ Bodies(EmptyBag) = {} /\ <<>> \in Seq(Heard) /\ 0 \in 0..Cap
  BY SumAlgebra, NoneFresh
<1>1. HeldOk
  BY <1>0 DEF Init, RingInit, EmptySlot, HeldOk
<1>2. WaitOk /\ CountOk /\ InputOk
  BY <1>0 DEF Init, RingInit, Silence, WaitOk, CountOk, InputOk
<1>3. CoverInv
  <2>1. \A i \in SlotNums : slots[i].samples = <<>>
    BY DEF Init, RingInit, EmptySlot
  <2>2. pending = <<>> /\ todo = <<>>
    BY DEF Init, RingInit
  <2> QED BY <2>1, <2>2, WithinEmpty DEF CoverInv, AllIn
<1> QED BY <1>1, <1>2, <1>3 DEF MixInv, HeardInv

\* What the callback and the IPC thread hand each other stays what it is.
LEMMA InputStep ==
    ASSUME HeardInv, [Next]_vars
    PROVE  InputOk'
<1> USE DEF HeardInv
<1>1. CASE UNCHANGED <<frames, remote, sent>>
  BY <1>1 DEF InputOk
<1>2. CASE \E x \in Sources : AudioFrame(x)
  <2>1. PICK x \in Sources : AudioFrame(x)
    BY <1>2
  <2> DEFINE f == [peer |-> x[1], stream |-> x[2], index |-> IndexAt(sent[x]), at |-> sent[x] % BlocksPer]
  <2>2. /\ frames' = Offered(frames, FrameCap, f) /\ sent' = [sent EXCEPT ![x] = @ + 1] /\ UNCHANGED remote
    BY <2>1 DEF AudioFrame
  <2>3. f \in Frames
    <3>1. x[1] \in PeerIds /\ x[2] \in Streams
      BY PluginAssumption
    <3>2. sent[x] \in Nat /\ BlocksPer \in Nat \ {0}
      BY PluginAssumption DEF InputOk
    <3>3. IndexAt(sent[x]) \in Nat /\ sent[x] % BlocksPer \in Nat
      BY <3>2 DEF IndexAt
    <3> QED BY <3>1, <3>3 DEF Frames
  <2> HIDE DEF f
  <2>4. frames' \in Seq(Frames)
    BY <2>2, <2>3 DEF InputOk, Offered
  <2>5. sent' \in [Sources -> Nat]
    BY <2>2 DEF InputOk
  <2> QED BY <2>2, <2>4, <2>5 DEF InputOk
<1>3. CASE OnFrame
  <2>1. /\ frames # <<>> /\ frames' = Tail(frames) /\ UNCHANGED sent
        /\ remote' = IF remote = None THEN Head(frames).index ELSE Longer(remote, Head(frames).index)
    BY <1>3 DEF OnFrame, envVars
  <2>2. Head(frames) \in Frames /\ Tail(frames) \in Seq(Frames)
    BY <2>1 DEF InputOk
  <2>3. Head(frames).index \in Nat
    BY <2>2 DEF Frames
  <2>4. remote' \in Nat \cup {None}
    BY <2>1, <2>3 DEF InputOk, Longer
  <2> QED BY <2>1, <2>2, <2>4 DEF InputOk
<1>4. CASE OnDisconnected \/ HostResets \/ Initialize
  <2>1. frames' \in {frames, <<>>} /\ remote' \in {remote, None} /\ UNCHANGED sent
    BY <1>4 DEF OnDisconnected, HostResets, Initialize, envVars
  <2>2. <<>> \in Seq(Frames)
    OBVIOUS
  <2> QED BY <2>1, <2>2 DEF InputOk
<1>5. CASE \/ UNCHANGED vars \/ Connect \/ Disconnect
           \/ \E p \in PeerIds : PeerJoined(p) \/ PeerEnters(p) \/ PeerLeft(p)
           \/ OnConnected \/ OnJoined \/ OnLeft \/ EventsDrained
           \/ FramesDrained \/ PlaceEntry \/ PlayBlock \/ TransportRestarts
  <2>1. UNCHANGED <<frames, remote, sent>>
    BY <1>5 DEF vars, envVars, Connect, Disconnect, PeerJoined, PeerEnters, PeerLeft, OnConnected,
       OnJoined, OnLeft, EventsDrained, FramesDrained, PlaceEntry, PlayBlock, TransportRestarts
  <2> QED BY <1>1, <2>1
<1> QED BY <1>2, <1>3, <1>4, <1>5 DEF Next

\* Every step keeps what the buffers hold, one case per action.
LEMMA MixStep ==
    ASSUME TableInv, MixInv, [Next]_vars
    PROVE  MixInv'
<1>0. HeardInv /\ HeldOk /\ WaitOk /\ CountOk /\ InputOk /\ InputOk'
  BY InputStep DEF MixInv, HeardInv
<1>r. remote \in Nat \cup {None}
  BY <1>0 DEF InputOk
<1>a. ASSUME HeldOk', WaitOk', CountOk', restarted' = restarted, CoverInv => CoverInv' PROVE MixInv'
  BY <1>0, <1>a DEF MixInv, HeardInv
<1>b. ASSUME UNCHANGED ringVars, UNCHANGED restarted, phase' # "swap" => todo = <<>> PROVE MixInv'
  <2>1. HeldOk' /\ WaitOk' /\ CountOk' /\ (CoverInv => CoverInv')
    BY <1>0, <1>b DEF ringVars, HeldOk, WaitOk, CountOk, CoverInv
  <2> QED BY <1>a, <1>b, <2>1
<1>c. (phase # "swap" => todo = <<>>) /\ pending \in Seq(Waiting) /\ todo \in Seq(Waiting)
  BY <1>0 DEF WaitOk
<1>1. CASE UNCHANGED vars
  BY <1>1, <1>b, <1>c DEF vars
<1>2. CASE \/ Connect \/ Disconnect \/ \E p \in PeerIds : PeerJoined(p) \/ PeerEnters(p) \/ PeerLeft(p)
           \/ \E x \in Sources : AudioFrame(x)
           \/ OnConnected \/ EventsDrained
  <2>1. UNCHANGED ringVars /\ UNCHANGED restarted /\ (phase' # "swap" => todo = <<>>)
    BY <1>2, <1>c DEF Connect, Disconnect, PeerJoined, PeerEnters, PeerLeft, AudioFrame, OnConnected,
       EventsDrained, NextEvent
  <2> QED BY <1>b, <2>1
<1>3. CASE OnJoined
  <2>1. /\ \E p, id : NotifyPeerJoined(p, id)
        /\ UNCHANGED restarted /\ todo = <<>> /\ phase' = "events"
    BY <1>3, <1>c DEF OnJoined, NextEvent
  <2>2. HeldOk' /\ CountOk' /\ UNCHANGED <<pending, todo>> /\ (CoverInv => CoverInv')
    BY <1>0, <2>1, RingSteps
  <2> QED BY <1>a, <1>c, <2>1, <2>2 DEF WaitOk
<1>4. CASE OnLeft
  <2>1. /\ \E p : RemovePeer(p)
        /\ UNCHANGED restarted /\ todo = <<>> /\ phase' = "events"
    BY <1>4, <1>c DEF OnLeft, NextEvent
  <2>2. HeldOk' /\ CountOk' /\ pending' \in Seq(Waiting) /\ UNCHANGED todo /\ (CoverInv => CoverInv')
    BY <1>0, <2>1, RingSteps
  <2> QED BY <1>a, <1>c, <2>1, <2>2 DEF WaitOk
<1>5. CASE OnDisconnected \/ HostResets
  <2>1. Reset /\ UNCHANGED restarted /\ todo = <<>>
    BY <1>5, <1>c DEF OnDisconnected, HostResets, NextEvent
  <2>2. HeldOk' /\ CountOk' /\ pending' = <<>> /\ UNCHANGED todo /\ CoverInv'
    BY <1>0, <2>1, RingSteps
  <2>3. WaitOk'
    BY <2>1, <2>2 DEF WaitOk
  <2> QED BY <1>a, <2>1, <2>2, <2>3
<1>6. CASE OnFrame
  <2> DEFINE f == Head(frames)
             audio == <<Audio(f.peer, f.stream, f.index, f.at)>>
  <2>1. FeedRemote(f.peer, f.stream, f.index, audio) /\ frames # <<>>
        /\ UNCHANGED restarted /\ UNCHANGED phase
    BY <1>6 DEF OnFrame
  <2>2. f \in Frames /\ audio \in Seq(Heard)
    BY <1>0, <2>1, FrameHeard
  <2>3. f.peer \in PeerIds /\ f.stream \in Streams /\ f.index \in Nat
    BY <2>2 DEF Frames
  <2> HIDE DEF f, audio
  <2>4. CASE LiveAppend(f.peer, f.stream, f.index, audio)
    <3>1. /\ HeldOk' /\ mixLen' \in 0..Cap /\ DOMAIN mix' = Positions
          /\ UNCHANGED <<current, playing, next, nextLen, pending, todo>>
          /\ CoverInv => CoverInv'
      BY <1>0, <2>2, <2>4, LiveAppendCovers
    <3>2. WaitOk' /\ CountOk'
      BY <1>0, <2>1, <3>1 DEF WaitOk, CountOk
    <3> QED BY <1>a, <2>1, <3>1, <3>2
  <2>5. CASE Queue(f.peer, f.stream, f.index, audio)
    <3>1. /\ pending' \in Seq(Waiting) /\ nextLen' \in 0..Cap
          /\ AllIn(pending, current, next, nextLen) => AllIn(pending', current', next', nextLen')
      BY <1>0, <2>2, <2>3, <2>5, QueueCovers DEF WaitOk, CountOk
    <3>2. UNCHANGED <<slots, current, playing, mix, mixLen, todo>>
      BY <2>5 DEF Queue
    <3>3. DOMAIN next' = Positions
      <4>1. Queued(f.peer, f.stream, f.index, audio, QueueAt(f.peer, f.stream, f.index))
        BY <1>c, <2>5, QueueIs
      <4>2. next' = next \/ \E b, l, o : next' = SummedIn(b, l, audio, o)
        BY <4>1 DEF Queued
      <4> QED BY <1>0, <4>2, SummedDomain DEF CountOk
    <3>4. HeldOk' /\ WaitOk' /\ CountOk' /\ (CoverInv => CoverInv')
      <4>1. HeldOk' /\ WaitOk'
        BY <1>0, <2>1, <3>1, <3>2 DEF HeldOk, WaitOk
      <4>2. CountOk'
        BY <1>0, <3>1, <3>2, <3>3 DEF CountOk
      <4>3. CoverInv => CoverInv'
        BY <3>1, <3>2 DEF CoverInv
      <4> QED BY <4>1, <4>2, <4>3
    <3> QED BY <1>a, <2>1, <3>4
  <2> QED BY <2>1, <2>4, <2>5 DEF FeedRemote
<1>7. CASE FramesDrained
  <2>0. UNCHANGED restarted /\ todo = <<>>
    BY <1>7, <1>c DEF FramesDrained
  <2>1. CASE NoBoundary(remote)
    <3>1. HeldOk' /\ CountOk' /\ UNCHANGED <<pending, todo>> /\ (CoverInv => CoverInv')
      BY <1>0, <1>r, <2>0, <2>1, RingSteps
    <3> QED BY <1>a, <1>c, <2>0, <3>1 DEF WaitOk
  <2>2. CASE Swap(remote) /\ phase' = "swap"
    <3>1. HeldOk' /\ CountOk' /\ pending' = <<>> /\ todo' = pending /\ (CoverInv => CoverInv')
      BY <1>0, <1>r, <2>2, SwapCovers
    <3>2. WaitOk'
      BY <1>c, <2>2, <3>1 DEF WaitOk
    <3> QED BY <1>a, <2>0, <3>1, <3>2
  <2> QED BY <1>7, <2>1, <2>2 DEF FramesDrained
<1>8. CASE PlaceEntry
  <2>0. UNCHANGED restarted /\ UNCHANGED phase /\ phase = "swap"
    BY <1>8 DEF PlaceEntry
  <2>1. CASE KeepOrEvict
    <3>1. /\ pending' \in Seq(Waiting) /\ todo' \in Seq(Waiting)
          /\ UNCHANGED <<slots, current, playing, mix, mixLen, next, nextLen>>
          /\ CoverInv => CoverInv'
      BY <1>0, <2>1, KeepCovers
    <3>2. HeldOk' /\ WaitOk' /\ CountOk'
      BY <1>0, <2>0, <3>1 DEF HeldOk, WaitOk, CountOk
    <3> QED BY <1>a, <2>0, <3>1, <3>2
  <2>2. CASE PlaceInSlot \/ MergeIntoFirst
    <3>1. /\ HeldOk' /\ mixLen' \in 0..Cap /\ DOMAIN mix' = Positions
          /\ UNCHANGED <<current, playing, next, nextLen, pending>> /\ todo' = Tail(todo)
          /\ CoverInv => CoverInv'
      BY <1>0, <2>2, PlaceCovers, MergeCovers
    <3>2. todo # <<>>
      BY <2>2 DEF PlaceInSlot, MergeIntoFirst
    <3>3. WaitOk' /\ CountOk'
      BY <1>0, <1>c, <2>0, <3>1, <3>2 DEF WaitOk, CountOk
    <3> QED BY <1>a, <2>0, <3>1, <3>3
  <2> QED BY <1>8, <2>1, <2>2 DEF PlaceEntry
<1>9. CASE PlayBlock
  <2>1. Play /\ UNCHANGED restarted /\ todo = <<>> /\ phase' = "begin"
    BY <1>9, <1>c DEF PlayBlock
  <2>2. HeldOk' /\ CountOk' /\ UNCHANGED <<pending, todo>> /\ (CoverInv => CoverInv')
    BY <1>0, <2>1, RingSteps
  <2> QED BY <1>a, <1>c, <2>1, <2>2 DEF WaitOk
<1>10. CASE TransportRestarts
  <2>1. ResetTransport /\ restarted' = TRUE /\ todo = <<>>
    BY <1>10, <1>c DEF TransportRestarts
  <2>2. HeldOk' /\ CountOk' /\ UNCHANGED <<pending, todo>>
    BY <1>0, <2>1, RingSteps
  <2>3. WaitOk'
    BY <1>c, <2>1, <2>2 DEF WaitOk
  <2> QED BY <1>0, <2>1, <2>2, <2>3 DEF MixInv, HeardInv
<1>11. CASE Initialize
  <2>1. RingRenewed /\ UNCHANGED restarted
    BY <1>11 DEF Initialize
  <2>2. HeldOk' /\ CountOk' /\ pending' = <<>> /\ todo' = <<>> /\ CoverInv'
    BY <1>0, <2>1, RingSteps
  <2>3. WaitOk'
    BY <2>2 DEF WaitOk
  <2> QED BY <1>a, <2>1, <2>2, <2>3
<1> QED
  BY <1>1, <1>2, <1>3, <1>4, <1>5, <1>6, <1>7, <1>8, <1>9, <1>10, <1>11 DEF Next

\* What a slot's own output plays is in the main mix at the same position, as long as the
\* transport has not restarted: feed_remote's live append and its increments, the swap and
\* the placement at the boundary in ring.rs, with any streams, blocks and capacity.
THEOREM SlotsPlayTheMix == Spec => []SlotAudioInMix
<1>1. MixInv => SlotAudioInMix
  <2> SUFFICES ASSUME MixInv, Undisturbed, NEW i \in SlotNums,
                      NEW k \in DOMAIN slots[i].samples \cap 1..Cap,
                      NEW x \in BagToSet(slots[i].samples[k]), x.part = "body"
               PROVE  BagIn(x, mix[k - 1])
    BY DEF SlotAudioInMix
  <2>1. Within(slots[i].samples, mix, mixLen) /\ slots[i].samples \in Seq(Heard)
    BY DEF MixInv, HeardInv, HeldOk, CoverInv, Undisturbed
  <2>2. k \in 1..Len(slots[i].samples) /\ k <= Cap
    BY <2>1, CapAssumption
  <2>3. Bodies(slots[i].samples[k]) \subseteq DOMAIN mix[k - 1]
    BY <2>1, <2>2 DEF Within
  <2>4. x \in Bodies(slots[i].samples[k])
    BY DEF Bodies, BagToSet
  <2> QED BY <2>3, <2>4 DEF BagIn, BagToSet
<1>2. TableInv /\ MixInv /\ [Next]_vars => (TableInv /\ MixInv)'
  BY TableStep, MixStep
<1> QED BY <1>1, <1>2, TableInit, MixInit, PTL DEF Spec

(***************************************************************************)
(* The buffer mixed ahead as a sum.                                        *)
(*                                                                         *)
(* FoldSet takes the entries in the order of CHOOSE.  As summing sounds is *)
(* commutative and associative, it is the running total over the queue,    *)
(* and that changes by what an operation adds to one entry.                *)
(***************************************************************************)
Runs(t, w, N) ==
    t \in [0..N -> Heard] /\ t[0] = EmptyBag /\ \A n \in 1..N : t[n] = t[n - 1] (+) w[n]
Total(w, N) == (CHOOSE t : Runs(t, w, N))[N]

LEMMA RunExists ==
    ASSUME NEW N \in Nat, NEW w \in [1..N -> Heard]
    PROVE  \E t : Runs(t, w, N)
<1> DEFINE Upto(n) == \E t : Runs(t, w, n)
           S == {n \in Nat : n <= N => Upto(n)}
<1>1. 0 \in S
  <2> DEFINE t == [n \in 0..0 |-> EmptyBag]
  <2>1. t \in [0..0 -> Heard] /\ t[0] = EmptyBag /\ 1..0 = {}
    BY SumAlgebra
  <2> HIDE DEF t
  <2>2. Runs(t, w, 0)
    BY <2>1 DEF Runs
  <2> QED BY <2>2
<1>2. ASSUME NEW n \in Nat, n \in S PROVE n + 1 \in S
  <2> SUFFICES ASSUME n + 1 <= N PROVE Upto(n + 1)
    <3> HIDE DEF Upto
    <3> QED OBVIOUS
  <2>0. Upto(n)
    <3> HIDE DEF Upto
    <3> QED BY <1>2
  <2>1. PICK t : Runs(t, w, n)
    BY <2>0
  <2> DEFINE h == [m \in 0..(n + 1) |-> IF m = n + 1 THEN t[n] (+) w[n + 1] ELSE t[m]]
  <2>2. t \in [0..n -> Heard] /\ t[0] = EmptyBag /\ \A m \in 1..n : t[m] = t[m - 1] (+) w[m]
    BY <2>1 DEF Runs
  <2>3. t[n] (+) w[n + 1] \in Heard
    <3>1. t[n] \in Heard /\ w[n + 1] \in Heard
      BY <2>2
    <3> QED BY <3>1, SumHeard
  <2>4. h \in [0..(n + 1) -> Heard]
    BY <2>2, <2>3
  <2>5. h[0] = EmptyBag
    BY <2>2
  <2>6. ASSUME NEW m \in 1..(n + 1) PROVE h[m] = h[m - 1] (+) w[m]
    <3>1. CASE m = n + 1
      <4>1. h[m] = t[n] (+) w[n + 1] /\ h[n] = t[n] /\ m - 1 = n
        BY <3>1
      <4> QED BY <3>1, <4>1
    <3>2. CASE m # n + 1
      <4>1. m \in 1..n /\ h[m] = t[m] /\ h[m - 1] = t[m - 1]
        BY <3>2
      <4> QED BY <2>2, <4>1
    <3> QED BY <3>1, <3>2
  <2> HIDE DEF h
  <2>7. Runs(h, w, n + 1)
    BY <2>4, <2>5, <2>6 DEF Runs
  <2> QED BY <2>7
<1>3. \A n \in Nat : n \in S
  <2> HIDE DEF S
  <2> QED BY <1>1, <1>2, NatSet
<1>4. Upto(N)
  <2> HIDE DEF Upto
  <2> QED BY <1>3
<1> QED BY <1>4

\* The run itself, as a value.
LEMMA TotalRun ==
    ASSUME NEW N \in Nat, NEW w \in [1..N -> Heard]
    PROVE  \E t : Runs(t, w, N) /\ Total(w, N) = t[N] /\ Total(w, N) \in Heard
<1> DEFINE t == CHOOSE t : Runs(t, w, N)
<1>1. Runs(t, w, N)
  BY RunExists
<1>2. Total(w, N) = t[N]
  BY DEF Total
<1> HIDE DEF t
<1>3. t[N] \in Heard
  BY <1>1 DEF Runs
<1> QED BY <1>1, <1>2, <1>3

\* Two families that differ in one place only, by x.
Differs(w, v, N, k, x) ==
    \A n \in 1..N : v[n] = IF n = k THEN w[n] (+) x ELSE w[n]

LEMMA RunDiffers ==
    ASSUME NEW N \in Nat, NEW w \in [1..N -> Heard], NEW v \in [1..N -> Heard], NEW k \in Nat \ {0},
           NEW x \in Heard, Differs(w, v, N, k, x), NEW t, Runs(t, w, N), NEW u, Runs(u, v, N)
    PROVE  u[N] = IF k <= N THEN t[N] (+) x ELSE t[N]
<1> DEFINE S == {n \in Nat : n <= N => u[n] = IF k <= n THEN t[n] (+) x ELSE t[n]}
<1>0. /\ t \in [0..N -> Heard] /\ t[0] = EmptyBag /\ \A n \in 1..N : t[n] = t[n - 1] (+) w[n]
      /\ u \in [0..N -> Heard] /\ u[0] = EmptyBag /\ \A n \in 1..N : u[n] = u[n - 1] (+) v[n]
  BY DEF Runs
<1>1. 0 \in S
  BY <1>0
<1>2. ASSUME NEW n \in Nat, n \in S PROVE n + 1 \in S
  <2> SUFFICES ASSUME n + 1 <= N PROVE u[n + 1] = IF k <= n + 1 THEN t[n + 1] (+) x ELSE t[n + 1]
    OBVIOUS
  <2> DEFINE m == n + 1
             a == t[n]
             b == w[m]
  <2>1. m \in 1..N /\ m - 1 = n /\ n <= N
    OBVIOUS
  <2>2. u[n] = IF k <= n THEN a (+) x ELSE a
    BY <1>2, <2>1
  <2>3. t[m] = a (+) b /\ u[m] = u[n] (+) v[m]
    BY <1>0, <2>1
  <2>4. v[m] = IF m = k THEN b (+) x ELSE b
    BY <2>1 DEF Differs
  <2>5. a \in Heard /\ b \in Heard
    BY <1>0, <2>1
  <2>6. m = k => ~(k <= n)
    OBVIOUS
  <2>7. k <= m <=> (k <= n \/ m = k)
    OBVIOUS
  <2> HIDE DEF m, a, b
  <2>8. (a (+) x) (+) b = (a (+) b) (+) x /\ a (+) (b (+) x) = (a (+) b) (+) x
    <3>1. (a (+) x) (+) b = a (+) (x (+) b)
      BY <2>5, SumAlgebra
    <3>2. x (+) b = b (+) x
      BY <2>5, SumAlgebra
    <3>3. a (+) (b (+) x) = (a (+) b) (+) x
      BY <2>5, SumAlgebra
    <3> QED BY <3>1, <3>2, <3>3
  <2>9. u[m] = IF k <= m THEN t[m] (+) x ELSE t[m]
    BY <2>2, <2>3, <2>4, <2>6, <2>7, <2>8
  <2> QED BY <2>9 DEF m
<1>3. \A n \in Nat : n \in S
  <2> HIDE DEF S
  <2> QED BY <1>1, <1>2, NatSet
<1> QED BY <1>3

LEMMA TotalDiffers ==
    ASSUME NEW N \in Nat, NEW w \in [1..N -> Heard], NEW v \in [1..N -> Heard], NEW k \in 1..N,
           NEW x \in Heard, Differs(w, v, N, k, x)
    PROVE  Total(v, N) = Total(w, N) (+) x
<1>1. PICK t : Runs(t, w, N) /\ Total(w, N) = t[N]
  BY TotalRun
<1>2. PICK u : Runs(u, v, N) /\ Total(v, N) = u[N]
  BY TotalRun
<1>3. k \in Nat \ {0} /\ k <= N
  OBVIOUS
<1>4. u[N] = IF k <= N THEN t[N] (+) x ELSE t[N]
  BY <1>1, <1>2, <1>3, RunDiffers
<1> QED BY <1>1, <1>2, <1>3, <1>4

\* One more term.
LEMMA TotalGrows ==
    ASSUME NEW N \in Nat, NEW w \in [1..N -> Heard], NEW v \in [1..(N + 1) -> Heard],
           \A n \in 1..N : v[n] = w[n]
    PROVE  Total(v, N + 1) = Total(w, N) (+) v[N + 1]
<1>1. PICK t : Runs(t, w, N) /\ Total(w, N) = t[N]
  BY TotalRun
<1>2. PICK u : Runs(u, v, N + 1) /\ Total(v, N + 1) = u[N + 1]
  BY TotalRun
<1>3. /\ u \in [0..(N + 1) -> Heard] /\ u[0] = EmptyBag
      /\ \A n \in 1..(N + 1) : u[n] = u[n - 1] (+) v[n]
  BY <1>2 DEF Runs
<1> DEFINE s == [n \in 0..N |-> u[n]]
           r == [n \in 1..N |-> v[n]]
<1>4. s \in [0..N -> Heard] /\ s[0] = EmptyBag /\ s[N] = u[N] /\ r \in [1..N -> Heard]
  BY <1>3
<1>5. ASSUME NEW n \in 1..N PROVE s[n] = s[n - 1] (+) r[n]
  <2>1. n \in 1..(N + 1) /\ n - 1 \in 0..N /\ n \in 0..N
    OBVIOUS
  <2> QED BY <1>3, <2>1
<1>6. EmptyBag \in Heard
  BY SumAlgebra
<1>7. \A n \in 1..N : r[n] = w[n]
  OBVIOUS
<1> HIDE DEF s, r
<1>8. Runs(s, r, N) /\ r \in [1..N -> Heard]
  BY <1>4, <1>5 DEF Runs
<1> DEFINE k == N + 1
<1>9. k \in Nat \ {0} /\ ~(k <= N)
  OBVIOUS
<1>10. Differs(w, r, N, k, EmptyBag)
  BY <1>7 DEF Differs
<1> HIDE DEF k
<1>11. s[N] = IF k <= N THEN t[N] (+) EmptyBag ELSE t[N]
  BY <1>1, <1>6, <1>8, <1>9, <1>10, RunDiffers
<1>12. u[N] = t[N]
  BY <1>4, <1>9, <1>11
<1>13. u[N + 1] = u[N] (+) v[N + 1]
  <2>1. N + 1 \in 1..(N + 1) /\ (N + 1) - 1 = N
    OBVIOUS
  <2> QED BY <1>3, <2>1
<1> QED BY <1>1, <1>2, <1>12, <1>13

LEMMA TotalNothing ==
    ASSUME NEW N \in Nat, NEW w \in [1..N -> Heard], \A n \in 1..N : w[n] = EmptyBag
    PROVE  Total(w, N) = EmptyBag
<1>1. PICK t : Runs(t, w, N) /\ Total(w, N) = t[N]
  BY TotalRun
<1>2. t[0] = EmptyBag /\ \A n \in 1..N : t[n] = t[n - 1] (+) w[n]
  BY <1>1 DEF Runs
<1>3. EmptyBag (+) EmptyBag = EmptyBag
  BY SumAlgebra
<1>4. t[0] \in {EmptyBag}
  BY <1>2
<1>5. \A k \in 1..N : t[k - 1] \in {EmptyBag} => t[k] \in {EmptyBag}
  BY <1>2, <1>3
<1>6. \A k \in 0..N : t[k] \in {EmptyBag}
  BY <1>4, <1>5, IndexInduction
<1> QED BY <1>1, <1>6

Chosen(s) == CHOOSE x \in s : TRUE
Limited(w, N, s) == [n \in 1..N |-> IF n \in s THEN w[n] ELSE EmptyBag]
Adds(F, w, K) == F = [s \in SUBSET K |-> IF s = {} THEN EmptyBag ELSE F[s \ {Chosen(s)}] (+) w[Chosen(s)]]

LEMMA LimitedStep ==
    ASSUME NEW N \in Nat, NEW w \in [1..N -> Heard], NEW s \in SUBSET (1..N)
    PROVE  /\ Limited(w, N, s) \in [1..N -> Heard]
           /\ \A k \in s : Total(Limited(w, N, s), N) = Total(Limited(w, N, s \ {k}), N) (+) w[k]
           /\ s = {} => Total(Limited(w, N, s), N) = EmptyBag
<1>1. EmptyBag \in Heard /\ \A a \in Heard : EmptyBag (+) a = a
  BY SumAlgebra
<1>2. \A r \in SUBSET (1..N) : Limited(w, N, r) \in [1..N -> Heard]
  BY <1>1 DEF Limited
<1>3. ASSUME NEW k \in s PROVE Total(Limited(w, N, s), N) = Total(Limited(w, N, s \ {k}), N) (+) w[k]
  <2> DEFINE a == Limited(w, N, s \ {k})
             b == Limited(w, N, s)
  <2>1. a \in [1..N -> Heard] /\ b \in [1..N -> Heard] /\ k \in 1..N /\ w[k] \in Heard
    BY <1>2
  <2>2. Differs(a, b, N, k, w[k])
    BY <1>1, <2>1 DEF Differs, Limited
  <2> HIDE DEF a, b
  <2>3. Total(b, N) = Total(a, N) (+) w[k]
    BY <2>1, <2>2, TotalDiffers
  <2> QED BY <2>3 DEF a, b
<1>4. ASSUME s = {} PROVE Total(Limited(w, N, s), N) = EmptyBag
  <2> DEFINE a == Limited(w, N, s)
  <2>1. a \in [1..N -> Heard] /\ \A n \in 1..N : a[n] = EmptyBag
    BY <1>2, <1>4 DEF Limited
  <2> HIDE DEF a
  <2>2. Total(a, N) = EmptyBag
    BY <2>1, TotalNothing
  <2> QED BY <2>2 DEF a
<1> QED BY <1>2, <1>3, <1>4

LEMMA AddsExists ==
    ASSUME NEW N \in Nat, NEW w \in [1..N -> Heard], NEW K \in SUBSET (1..N)
    PROVE  \E F : Adds(F, w, K)
<1> DEFINE V(s) == Total(Limited(w, N, s), N)
           F == [s \in SUBSET K |-> V(s)]
<1>1. ASSUME NEW s \in SUBSET K
      PROVE  V(s) = IF s = {} THEN EmptyBag ELSE V(s \ {Chosen(s)}) (+) w[Chosen(s)]
  <2>1. s \in SUBSET (1..N)
    OBVIOUS
  <2>2. s # {} => Chosen(s) \in s
    BY DEF Chosen
  <2> QED BY <2>1, <2>2, LimitedStep
<1> HIDE DEF V
<1>2. ASSUME NEW s \in SUBSET K
      PROVE  F[s] = IF s = {} THEN EmptyBag ELSE F[s \ {Chosen(s)}] (+) w[Chosen(s)]
  <2>1. s \ {Chosen(s)} \in SUBSET K
    OBVIOUS
  <2> QED BY <1>1, <2>1
<1>3. F = [s \in SUBSET K |-> F[s]]
  OBVIOUS
<1> HIDE DEF F
<1>4. Adds(F, w, K)
  BY <1>2, <1>3 DEF Adds
<1> QED BY <1>4

LEMMA AddsIsTotal ==
    ASSUME NEW N \in Nat, NEW w \in [1..N -> Heard], NEW K \in SUBSET (1..N), NEW F, Adds(F, w, K)
    PROVE  F[K] = Total(Limited(w, N, K), N)
<1> DEFINE T == {n \in Nat : \A s \in SUBSET K : Cardinality(s) = n => F[s] = Total(Limited(w, N, s), N)}
<1>0. \A s \in SUBSET K : IsFiniteSet(s) /\ Cardinality(s) \in Nat /\ s \in SUBSET (1..N)
  <2>1. IsFiniteSet(1..N)
    BY FS_Interval
  <2> QED BY <2>1, FS_Subset, FS_CardinalityType
<1>1. 0 \in T
  <2> SUFFICES ASSUME NEW s \in SUBSET K, Cardinality(s) = 0 PROVE F[s] = Total(Limited(w, N, s), N)
    OBVIOUS
  <2>1. s = {}
    BY <1>0, FS_EmptySet
  <2>2. F[s] = EmptyBag
    BY <2>1 DEF Adds
  <2>3. Total(Limited(w, N, s), N) = EmptyBag
    BY <1>0, <2>1, LimitedStep
  <2> QED BY <2>2, <2>3
<1>2. ASSUME NEW n \in Nat, n \in T PROVE n + 1 \in T
  <2> SUFFICES ASSUME NEW s \in SUBSET K, Cardinality(s) = n + 1 PROVE F[s] = Total(Limited(w, N, s), N)
    OBVIOUS
  <2> DEFINE x == Chosen(s)
             r == s \ {x}
  <2>1. s # {}
    BY FS_EmptySet
  <2>2. x \in s /\ r \in SUBSET K
    BY <2>1 DEF Chosen
  <2>3. F[s] = F[r] (+) w[x]
    BY <2>1 DEF Adds
  <2> HIDE DEF x
  <2>4. Cardinality(r) = n
    <3>1. IsFiniteSet(s) /\ Cardinality(s) = n + 1
      BY <1>0
    <3>2. Cardinality(r) = Cardinality(s) - 1
      BY <2>2, <3>1, FS_RemoveElement
    <3> QED BY <3>1, <3>2
  <2>5. F[r] = Total(Limited(w, N, r), N)
    BY <1>2, <2>2, <2>4
  <2>6. Total(Limited(w, N, s), N) = Total(Limited(w, N, r), N) (+) w[x]
    BY <1>0, <2>2, LimitedStep
  <2> QED BY <2>3, <2>5, <2>6
<1>3. Cardinality(K) \in T
  <2> HIDE DEF T
  <2> QED BY <1>0, <1>1, <1>2, NatSet
<1> QED BY <1>3

\* What an entry contributes to a position, and a queue of entries.
Given(samples, offset, i) ==
    IF i >= offset /\ i < offset + Len(samples) THEN samples[i - offset + 1] ELSE EmptyBag
Part(e, i) == IF e.premixed THEN Given(e.samples, 0, i) ELSE EmptyBag
Parts(q, i) == [k \in 1..Len(q) |-> Part(q[k], i)]
Premixed(q, i) == Total(Parts(q, i), Len(q))

LEMMA GivenHeard ==
    ASSUME NEW samples \in Seq(Heard), NEW offset \in Nat, NEW i \in Nat
    PROVE  Given(samples, offset, i) \in Heard
<1>1. EmptyBag \in Heard
  BY SumAlgebra
<1>2. ASSUME i >= offset, i < offset + Len(samples) PROVE i - offset + 1 \in 1..Len(samples)
  BY <1>2
<1> QED BY <1>1, <1>2 DEF Given

LEMMA PartHeard ==
    ASSUME NEW e \in Waiting, NEW i \in Nat
    PROVE  Part(e, i) \in Heard
<1>1. EmptyBag \in Heard
  BY SumAlgebra
<1> DEFINE t == e.samples
<1>2. t \in Seq(Heard)
  BY DEF Waiting
<1>3. Given(t, 0, i) \in Heard
  <2> HIDE DEF t
  <2> QED BY <1>2, GivenHeard
<1> QED BY <1>1, <1>3 DEF Part

LEMMA PartsHeard ==
    ASSUME NEW q \in Seq(Waiting), NEW i \in Nat
    PROVE  Parts(q, i) \in [1..Len(q) -> Heard] /\ Len(q) \in Nat /\ Premixed(q, i) \in Heard
<1>1. \A k \in 1..Len(q) : Part(q[k], i) \in Heard
  <2>1. \A k \in 1..Len(q) : q[k] \in Waiting
    OBVIOUS
  <2> QED BY <2>1, PartHeard
<1>2. Parts(q, i) \in [1..Len(q) -> Heard] /\ Len(q) \in Nat
  BY <1>1 DEF Parts
<1>3. Premixed(q, i) \in Heard
  BY <1>2, TotalRun DEF Premixed
<1> QED BY <1>2, <1>3

LEMMA PremixedIs ==
    ASSUME pending \in Seq(Waiting), NEW i \in Positions
    PROVE  PremixedAt(i) = Premixed(pending, i)
<1> DEFINE N == Len(pending)
           K == {k \in DOMAIN pending : pending[k].premixed /\ i < Len(pending[k].samples)}
           w == Parts(pending, i)
           Rec(F) == F = [s \in SUBSET K |-> IF s = {} THEN EmptyBag
                                             ELSE F[s \ {Chosen(s)}] (+) pending[Chosen(s)].samples[i + 1]]
           F == CHOOSE G : Rec(G)
<1>1. i \in Nat /\ N \in Nat /\ DOMAIN pending = 1..N
  BY CapAssumption DEF Positions
<1>2. w \in [1..N -> Heard] /\ K \in SUBSET (1..N)
  BY <1>1, PartsHeard
<1>3. PremixedAt(i) = F[K]
  BY DEF PremixedAt, FoldSet, MapThenFoldSet, Chosen
<1>4. ASSUME NEW k \in 1..N
      PROVE  w[k] = IF k \in K THEN pending[k].samples[i + 1] ELSE EmptyBag
  <2>1. pending[k] \in Waiting
    OBVIOUS
  <2>2. Len(pending[k].samples) \in Nat /\ 0 + Len(pending[k].samples) = Len(pending[k].samples)
    BY <2>1 DEF Waiting
  <2>3. i - 0 + 1 = i + 1 /\ i >= 0
    BY <1>1
  <2>4. Given(pending[k].samples, 0, i) = IF i < Len(pending[k].samples) THEN pending[k].samples[i + 1] ELSE EmptyBag
    BY <2>2, <2>3 DEF Given
  <2> QED BY <1>1, <2>4 DEF Parts, Part
<1>5. ASSUME NEW G PROVE Adds(G, w, K) <=> Rec(G)
  <2> HIDE DEF w, N
  <2>1. ASSUME NEW s \in SUBSET K, s # {} PROVE w[Chosen(s)] = pending[Chosen(s)].samples[i + 1]
    <3>1. Chosen(s) \in K /\ Chosen(s) \in 1..N
      BY <1>2, <2>1 DEF Chosen
    <3> HIDE DEF K
    <3> QED BY <1>4, <3>1
  <2> HIDE DEF K
  <2>2. ASSUME NEW s \in SUBSET K
        PROVE  (IF s = {} THEN EmptyBag ELSE G[s \ {Chosen(s)}] (+) w[Chosen(s)])
                = (IF s = {} THEN EmptyBag ELSE G[s \ {Chosen(s)}] (+) pending[Chosen(s)].samples[i + 1])
    BY <2>1
  <2>3. [s \in SUBSET K |-> IF s = {} THEN EmptyBag ELSE G[s \ {Chosen(s)}] (+) w[Chosen(s)]]
        = [s \in SUBSET K |-> IF s = {} THEN EmptyBag ELSE G[s \ {Chosen(s)}] (+) pending[Chosen(s)].samples[i + 1]]
    BY <2>2, Zenon
  <2> QED BY <2>3, Zenon DEF Adds
<1> HIDE DEF Rec
<1>6. Rec(F)
  <2> HIDE DEF w, K, N
  <2>1. PICK G : Adds(G, w, K)
    BY <1>1, <1>2, AddsExists
  <2>2. Rec(G)
    BY <1>5, <2>1
  <2> QED BY <2>2
<1> HIDE DEF F
<1>7. F[K] = Total(Limited(w, N, K), N)
  <2>1. Adds(F, w, K)
    BY <1>5, <1>6
  <2> HIDE DEF w, K, N
  <2> QED BY <1>1, <1>2, <2>1, AddsIsTotal
<1>8. Limited(w, N, K) = w
  <2> HIDE DEF w, K, N
  <2>1. \A k \in 1..N : k \notin K => w[k] = EmptyBag
    BY <1>4
  <2> QED BY <1>2, <2>1 DEF Limited
<1> QED BY <1>3, <1>7, <1>8 DEF Premixed

LEMMA PremixedAppend ==
    ASSUME NEW q \in Seq(Waiting), NEW e \in Waiting, NEW i \in Nat
    PROVE  Premixed(Append(q, e), i) = Premixed(q, i) (+) Part(e, i)
<1> DEFINE N == Len(q)
           u == Append(q, e)
           w == Parts(q, i)
           v == Parts(u, i)
<1>1. /\ u \in Seq(Waiting) /\ Len(u) = N + 1 /\ N \in Nat /\ u[N + 1] = e
      /\ \A n \in 1..N : u[n] = q[n]
  OBVIOUS
<1>2. w \in [1..N -> Heard] /\ v \in [1..(N + 1) -> Heard]
  <2> HIDE DEF u
  <2> QED BY <1>1, PartsHeard
<1>3. (\A n \in 1..N : v[n] = w[n]) /\ v[N + 1] = Part(e, i)
  <2> HIDE DEF u
  <2>1. \A n \in 1..(N + 1) : v[n] = Part(u[n], i)
    BY <1>1 DEF Parts
  <2>2. \A n \in 1..N : w[n] = Part(q[n], i)
    BY DEF Parts
  <2>3. \A n \in 1..N : n \in 1..(N + 1)
    BY <1>1
  <2>4. N + 1 \in 1..(N + 1)
    BY <1>1
  <2> HIDE DEF N, v, w
  <2> QED BY <1>1, <2>1, <2>2, <2>3, <2>4
<1> HIDE DEF N, u, w, v
<1>4. Total(v, N + 1) = Total(w, N) (+) v[N + 1]
  BY <1>1, <1>2, <1>3, TotalGrows
<1> QED BY <1>1, <1>3, <1>4 DEF Premixed, N, u, w, v

LEMMA PremixedReplaced ==
    ASSUME NEW q \in Seq(Waiting), NEW k \in 1..Len(q), NEW e \in Waiting, NEW i \in Nat,
           NEW x \in Heard, Part(e, i) = Part(q[k], i) (+) x
    PROVE  Premixed([q EXCEPT ![k] = e], i) = Premixed(q, i) (+) x
<1> DEFINE N == Len(q)
           u == [q EXCEPT ![k] = e]
           w == Parts(q, i)
           v == Parts(u, i)
<1>1. /\ u \in Seq(Waiting) /\ Len(u) = N /\ N \in Nat /\ k \in 1..N
      /\ \A n \in 1..N : u[n] = IF n = k THEN e ELSE q[n]
  OBVIOUS
<1>2. w \in [1..N -> Heard] /\ v \in [1..N -> Heard]
  <2> HIDE DEF u
  <2> QED BY <1>1, PartsHeard
<1>3. Differs(w, v, N, k, x)
  <2> HIDE DEF u
  <2>1. \A n \in 1..N : v[n] = Part(u[n], i)
    BY <1>1 DEF Parts
  <2>2. \A n \in 1..N : w[n] = Part(q[n], i)
    BY DEF Parts
  <2> HIDE DEF N, v, w
  <2> QED BY <1>1, <2>1, <2>2 DEF Differs
<1> HIDE DEF N, u, w, v
<1>4. Total(v, N) = Total(w, N) (+) x
  BY <1>1, <1>2, <1>3, TotalDiffers
<1> QED BY <1>1, <1>4 DEF Premixed, N, u, w, v

LEMMA PremixedNone ==
    ASSUME NEW q \in Seq(Waiting), \A k \in 1..Len(q) : ~q[k].premixed, NEW i \in Nat
    PROVE  Premixed(q, i) = EmptyBag
<1> DEFINE N == Len(q)
           w == Parts(q, i)
<1>1. N \in Nat /\ w \in [1..N -> Heard] /\ \A n \in 1..N : w[n] = EmptyBag
  BY PartsHeard DEF Parts, Part
<1> HIDE DEF N, w
<1>2. Total(w, N) = EmptyBag
  BY <1>1, TotalNothing
<1> QED BY <1>2 DEF Premixed, N, w

\* What a buffer of a length says of a position.
LevelAt(buf, len, i) == IF i < len THEN buf[i] ELSE EmptyBag

LEMMA LevelSummed ==
    ASSUME NEW buf, NEW len \in 0..Cap, NEW samples \in Seq(Heard), NEW offset \in Nat,
           \A j \in Positions : j < offset => j < len,
           NEW i \in Positions, LevelAt(buf, len, i) \in Heard
    PROVE  LevelAt(SummedIn(buf, len, samples, offset), SummedLen(len, samples, offset), i)
             = LevelAt(buf, len, i) (+) Given(samples, offset, i)
<1> DEFINE b == SummedIn(buf, len, samples, offset)
           n == SummedLen(len, samples, offset)
           g == Given(samples, offset, i)
           l == LevelAt(buf, len, i)
<1>1. Summed(b, n, buf, len, samples, offset)
  BY SummedIs
<1>2. i \in Nat /\ i < Cap /\ len \in Nat /\ Len(samples) \in Nat /\ Cap \in Nat
  BY CapAssumption DEF Positions
<1> HIDE DEF b, n
<1>3. n \in 0..Cap /\ len <= n
  BY <1>1 DEF Summed
<1>4. CASE i >= offset /\ i < offset + Len(samples)
  <2> DEFINE x == samples[i - offset + 1]
  <2>1. i < n /\ b[i] = IF i >= len THEN x ELSE buf[i] (+) x
    BY <1>1, <1>4 DEF Summed
  <2>2. g = x
    BY <1>4 DEF Given
  <2>3. x \in Heard
    <3>1. i - offset + 1 \in 1..Len(samples)
      BY <1>2, <1>4
    <3> QED BY <3>1
  <2> HIDE DEF x, g
  <2>4. EmptyBag (+) x = x
    BY <2>3, SumAlgebra
  <2>5. CASE i >= len
    <3>1. l = EmptyBag
      BY <1>2, <2>5 DEF LevelAt
    <3> QED BY <2>1, <2>2, <2>4, <2>5, <3>1 DEF LevelAt, g, b, n
  <2>6. CASE i < len
    <3>1. l = buf[i] /\ ~(i >= len)
      BY <1>2, <2>6 DEF LevelAt
    <3>2. LevelAt(b, n, i) = buf[i] (+) x
      BY <2>1, <3>1 DEF LevelAt
    <3> QED BY <2>2, <3>1, <3>2 DEF g, b, n
  <2> QED BY <1>2, <2>5, <2>6
<1>5. CASE i < offset \/ i >= offset + Len(samples)
  <2>1. b[i] = buf[i]
    BY <1>1, <1>5 DEF Summed
  <2>2. i < n <=> i < len
    <3>1. i < n => i < len \/ i < offset + Len(samples)
      BY <1>1 DEF Summed
    <3> QED BY <1>2, <1>3, <1>5, <3>1
  <2>3. g = EmptyBag
    BY <1>2, <1>5 DEF Given
  <2>4. l (+) EmptyBag = l
    <3> HIDE DEF l
    <3> QED BY SumAlgebra DEF l
  <2> QED BY <2>1, <2>2, <2>3, <2>4 DEF LevelAt, b, n
<1> QED BY <1>2, <1>4, <1>5

\* The buffer mixed ahead is the sum of the entries marked premixed.
PremixOk == \A i \in Positions : Premixed(pending, i) = LevelAt(next, nextLen, i)

LEMMA WithinReaches ==
    ASSUME NEW head \in Seq(Heard), NEW buf, NEW len \in 0..Cap, Within(head, buf, len)
    PROVE  \A j \in Positions : j < Len(head) => j < len
<1> SUFFICES ASSUME NEW j \in Positions, j < Len(head) PROVE j < len
  OBVIOUS
<1>1. j + 1 \in 1..Len(head) /\ j + 1 <= Cap /\ j \in Nat
  BY CapAssumption DEF Positions
<1>2. j + 1 <= len
  BY <1>1 DEF Within
<1> QED BY <1>1, <1>2

LEMMA QueuePremixes ==
    ASSUME pending \in Seq(Waiting), nextLen \in 0..Cap, current \in Nat \cup {None},
           AllIn(pending, current, next, nextLen), PremixOk,
           NEW p \in PeerIds, NEW s \in Streams, NEW n \in Nat, NEW audio \in Seq(Heard),
           Queue(p, s, n, audio)
    PROVE  PremixOk'
<1> DEFINE k == QueueAt(p, s, n)
           premix == current = n
<1> SUFFICES ASSUME NEW i \in Positions
             PROVE  Premixed(pending', i) = LevelAt(next', nextLen', i)
  BY DEF PremixOk
<1>1. Queued(p, s, n, audio, k)
  BY QueueIs
<1>2. k = 0 \/ (k \in 1..Len(pending) /\ pending[k] \in Waiting /\ pending[k].index = n)
  <2>1. k = 0 \/ (k \in 1..Len(pending) /\ pending[k].index = n)
    BY QueueAtIs
  <2> HIDE DEF k
  <2> QED BY <2>1
<1>3. premix \in BOOLEAN
  BY Zenon
<1>4. i \in Nat
  BY CapAssumption DEF Positions
<1> DEFINE old == Premixed(pending, i)
           level == LevelAt(next, nextLen, i)
<1>5. old = level /\ old \in Heard /\ level \in Heard
  BY <1>4, PartsHeard DEF PremixOk
<1>6. EmptyBag \in Heard /\ \A a \in Heard : a (+) EmptyBag = a /\ EmptyBag (+) a = a
  BY SumAlgebra
<1> HIDE DEF k, old
<1>7. CASE k = 0
  <2> DEFINE e == PendingEntry(p, s, n, audio, premix)
  <2>1. e \in Waiting /\ e.samples = audio /\ e.premixed = premix
    BY <1>3 DEF PendingEntry, Waiting
  <2>2. /\ pending' = Append(pending, e)
        /\ next' = IF premix THEN SummedIn(next, nextLen, audio, 0) ELSE next
        /\ nextLen' = IF premix THEN SummedLen(nextLen, audio, 0) ELSE nextLen
    BY <1>1, <1>7 DEF Queued
  <2> HIDE DEF e
  <2>3. Premixed(pending', i) = level (+) Part(e, i)
    BY <1>4, <1>5, <2>1, <2>2, PremixedAppend DEF old
  <2>4. CASE premix
    <3>1. Part(e, i) = Given(audio, 0, i)
      BY <2>1, <2>4 DEF Part
    <3>2. LevelAt(SummedIn(next, nextLen, audio, 0), SummedLen(nextLen, audio, 0), i)
            = level (+) Given(audio, 0, i)
      <4>1. \A j \in Positions : j < 0 => j < nextLen
        BY CapAssumption DEF Positions
      <4> QED BY <1>5, <4>1, LevelSummed
    <3> HIDE DEF level
    <3> QED BY <2>2, <2>3, <2>4, <3>1, <3>2
  <2>5. CASE ~premix
    <3>1. Part(e, i) = EmptyBag
      BY <2>1, <2>5 DEF Part
    <3>2. level (+) EmptyBag = level
      <4> HIDE DEF level
      <4> QED BY <1>5, <1>6
    <3> QED BY <2>2, <2>3, <2>5, <3>1, <3>2
  <2> QED BY <2>4, <2>5
<1>8. CASE k # 0
  <2> DEFINE o == pending[k]
             head == o.samples
             e == Continued(o, audio, premix)
             h == Given(head, 0, i)
             x == Given(audio, Len(head), i)
  <2>1. k \in 1..Len(pending) /\ o \in Waiting /\ o.index = n /\ head \in Seq(Heard) /\ o.premixed \in BOOLEAN
    BY <1>2, <1>8 DEF Waiting
  <2>2. pending' = [pending EXCEPT ![k] = e]
    BY <1>1, <1>8 DEF Queued
  <2>3. e \in Waiting /\ e.samples = head \o audio /\ e.premixed = (o.premixed \/ premix)
    <3> HIDE DEF o, premix
    <3> QED BY <1>3, <2>1, ContinuedIs DEF premix
  <2>4. ASSUME premix, o.premixed
        PROVE  next' = SummedIn(next, nextLen, audio, Len(head)) /\ nextLen' = SummedLen(nextLen, audio, Len(head))
    BY <1>1, <1>8, <2>4 DEF Queued
  <2>5. ASSUME premix, ~o.premixed
        PROVE  /\ next' = SummedIn(SummedIn(next, nextLen, head, 0), SummedLen(nextLen, head, 0), audio, Len(head))
               /\ nextLen' = SummedLen(SummedLen(nextLen, head, 0), audio, Len(head))
    BY <1>1, <1>8, <2>5 DEF Queued
  <2>6. ASSUME ~premix PROVE next' = next /\ nextLen' = nextLen
    BY <1>1, <1>8, <2>6 DEF Queued
  <2>7. InBuffer(o, current, next, nextLen)
    BY <2>1 DEF AllIn
  <2> HIDE DEF e, o, head
  <2>8. Len(head) \in Nat /\ Len(audio) \in Nat /\ h \in Heard /\ x \in Heard
    <3>1. Len(head) \in Nat /\ Len(audio) \in Nat
      BY <2>1
    <3> QED BY <1>4, <2>1, <3>1, GivenHeard
  \* The whole of the entry is what it had and what it gets.
  <2>9. Given(head \o audio, 0, i) = h (+) x
    <3> DEFINE l == Len(head)
    <3>1. /\ Len(head \o audio) = l + Len(audio)
          /\ \A j \in 1..(l + Len(audio)) : (head \o audio)[j] = IF j <= l THEN head[j] ELSE audio[j - l]
      BY <2>1, ConcatProperties
    <3> HIDE DEF l, h, x
    <3>2. CASE i < l
      <4>1. i + 1 \in 1..(l + Len(audio)) /\ i + 1 <= l /\ i - 0 + 1 = i + 1 /\ i >= 0 /\ ~(i >= l)
        BY <1>4, <2>8, <3>2 DEF l
      <4>2. Given(head \o audio, 0, i) = head[i + 1] /\ h = head[i + 1] /\ x = EmptyBag
        BY <1>4, <2>8, <3>1, <4>1 DEF Given, h, x, l
      <4> QED BY <1>6, <2>8, <4>2
    <3>3. CASE i >= l /\ i < l + Len(audio)
      <4>1. i + 1 \in 1..(l + Len(audio)) /\ ~(i + 1 <= l) /\ i - 0 + 1 = i + 1 /\ i >= 0 /\ ~(i < l)
            /\ (i + 1) - l = i - l + 1
        BY <1>4, <2>8, <3>3 DEF l
      <4>2. Given(head \o audio, 0, i) = audio[i - l + 1] /\ h = EmptyBag /\ x = audio[i - l + 1]
        BY <1>4, <2>8, <3>1, <3>3, <4>1 DEF Given, h, x, l
      <4> QED BY <1>6, <2>8, <4>2
    <3>4. CASE i >= l + Len(audio)
      <4>1. ~(i < l + Len(audio)) /\ ~(i < l)
        BY <1>4, <2>8, <3>4 DEF l
      <4>2. Given(head \o audio, 0, i) = EmptyBag /\ h = EmptyBag /\ x = EmptyBag
        BY <1>4, <2>8, <3>1, <4>1 DEF Given, h, x, l
      <4> QED BY <1>6, <4>2
    <3> QED BY <1>4, <2>8, <3>2, <3>3, <3>4 DEF l
  <2>10. ASSUME NEW y \in Heard, Part(e, i) = Part(o, i) (+) y
         PROVE  Premixed(pending', i) = level (+) y
    <3>1. Premixed([pending EXCEPT ![k] = e], i) = Premixed(pending, i) (+) y
      BY <1>4, <2>1, <2>3, <2>10, PremixedReplaced DEF o
    <3> QED BY <1>5, <2>2, <3>1 DEF old
  \* Summing what comes after the head, into a buffer that reaches as far as the head.
  <2>11. ASSUME NEW b, NEW m \in 0..Cap, Within(head, b, m), LevelAt(b, m, i) \in Heard
         PROVE  LevelAt(SummedIn(b, m, audio, Len(head)), SummedLen(m, audio, Len(head)), i)
                  = LevelAt(b, m, i) (+) x
    <3>1. \A j \in Positions : j < Len(head) => j < m
      BY <2>1, <2>11, WithinReaches
    <3> QED BY <2>8, <2>11, <3>1, LevelSummed
  <2>12. CASE premix /\ o.premixed
    <3>1. Part(e, i) = Part(o, i) (+) x
      BY <2>3, <2>9, <2>12 DEF Part, head
    <3>2. Within(head, next, nextLen)
      BY <2>7, <2>12 DEF InBuffer, head
    <3>3. LevelAt(next', nextLen', i) = level (+) x
      BY <1>5, <2>4, <2>11, <2>12, <3>2
    <3> QED BY <2>8, <2>10, <3>1, <3>3
  <2>13. CASE premix /\ ~o.premixed
    <3> DEFINE b == SummedIn(next, nextLen, head, 0)
               m == SummedLen(nextLen, head, 0)
    <3>1. Summed(b, m, next, nextLen, head, 0) /\ Within(head, b, m)
      BY <2>1, SummedIs, SummedWhole
    <3>2. LevelAt(b, m, i) = level (+) h
      <4>1. \A j \in Positions : j < 0 => j < nextLen
        BY CapAssumption DEF Positions
      <4> QED BY <1>5, <2>1, <4>1, LevelSummed
    <3>3. next' = SummedIn(b, m, audio, Len(head)) /\ nextLen' = SummedLen(m, audio, Len(head))
      BY <2>5, <2>13
    <3> HIDE DEF b, m, h, x, level
    <3>4. m \in 0..Cap
      BY <3>1 DEF Summed
    <3>5. level (+) h \in Heard /\ h (+) x \in Heard
      BY <1>5, <2>8, SumHeard
    <3>6. LevelAt(next', nextLen', i) = (level (+) h) (+) x
      BY <2>11, <3>1, <3>2, <3>3, <3>4, <3>5
    <3>7. Part(e, i) = h (+) x /\ Part(o, i) = EmptyBag
      BY <2>3, <2>9, <2>13 DEF Part
    <3>8. Part(e, i) = Part(o, i) (+) (h (+) x)
      BY <1>6, <3>5, <3>7
    <3>9. (level (+) h) (+) x = level (+) (h (+) x)
      BY <1>5, <2>8, SumAlgebra
    <3> QED BY <2>10, <3>5, <3>6, <3>8, <3>9
  <2>14. CASE ~premix
    <3>1. ~o.premixed
      BY <2>1, <2>7, <2>14 DEF InBuffer
    <3>2. Part(e, i) = EmptyBag /\ Part(o, i) = EmptyBag
      BY <2>3, <2>14, <3>1 DEF Part
    <3>3. Part(e, i) = Part(o, i) (+) EmptyBag
      BY <1>6, <3>2
    <3>4. Premixed(pending', i) = level (+) EmptyBag
      BY <1>6, <2>10, <3>3
    <3>5. level (+) EmptyBag = level
      <4> HIDE DEF level
      <4> QED BY <1>5, <1>6
    <3> QED BY <2>6, <2>14, <3>4, <3>5
  <2> QED BY <2>12, <2>13, <2>14
<1> QED BY <1>7, <1>8

\* Every step keeps the sum, one case per action.
LEMMA PremixStep ==
    ASSUME HeardInv, CoverInv, PremixOk, [Next]_vars, ~restarted'
    PROVE  PremixOk'
<1>0. pending \in Seq(Waiting) /\ todo \in Seq(Waiting) /\ nextLen \in 0..Cap /\ current \in Nat \cup {None}
  BY DEF HeardInv, WaitOk, CountOk
<1>p. \A i \in Positions : i \in Nat /\ ~(i < 0)
  BY CapAssumption DEF Positions
<1>a. ASSUME UNCHANGED <<pending, next, nextLen>> PROVE PremixOk'
  BY <1>a DEF PremixOk
<1>b. ASSUME pending' \in Seq(Waiting), \A k \in 1..Len(pending') : ~pending'[k].premixed, nextLen' = 0
      PROVE  PremixOk'
  BY <1>b, <1>p, PremixedNone DEF PremixOk, LevelAt
<1>c. ASSUME pending' = <<>>, nextLen' = 0 PROVE PremixOk'
  <2>1. <<>> \in Seq(Waiting) /\ Len(<<>>) = 0
    OBVIOUS
  <2> QED BY <1>b, <1>c, <2>1
<1>1. CASE \/ UNCHANGED vars \/ Connect \/ Disconnect
           \/ \E p \in PeerIds : PeerJoined(p) \/ PeerEnters(p) \/ PeerLeft(p)
           \/ \E x \in Sources : AudioFrame(x)
           \/ OnConnected \/ EventsDrained
  <2>1. UNCHANGED ringVars
    BY <1>1 DEF vars, Connect, Disconnect, PeerJoined, PeerEnters, PeerLeft, AudioFrame, OnConnected, EventsDrained
  <2> QED BY <1>a, <2>1 DEF ringVars
<1>2. CASE OnJoined \/ PlayBlock
  BY <1>2, <1>a DEF OnJoined, NotifyPeerJoined, PlayBlock, Play
<1>3. CASE OnLeft
  <2>1. pending' = Unmarked /\ nextLen' = 0
    BY <1>3 DEF OnLeft, RemovePeer
  <2>2. ASSUME NEW k \in 1..Len(pending)
        PROVE [pending[k] EXCEPT !.premixed = FALSE] \in Waiting
              /\ [pending[k] EXCEPT !.premixed = FALSE].premixed = FALSE
    <3>1. pending[k] \in Waiting
      BY <1>0
    <3> QED BY <3>1 DEF Waiting
  <2>3. pending' \in [1..Len(pending) -> Waiting] /\ \A k \in 1..Len(pending) : pending'[k].premixed = FALSE
    BY <1>0, <2>1, <2>2 DEF Unmarked
  <2>4. pending' \in Seq(Waiting) /\ Len(pending') = Len(pending)
    BY <1>0, <2>3
  <2> QED BY <1>b, <2>1, <2>3, <2>4
<1>4. CASE OnDisconnected \/ HostResets \/ Initialize
  BY <1>4, <1>c DEF OnDisconnected, HostResets, Initialize, Reset, RingRenewed
<1>5. CASE OnFrame
  <2> DEFINE f == Head(frames)
             audio == <<Audio(f.peer, f.stream, f.index, f.at)>>
  <2>1. FeedRemote(f.peer, f.stream, f.index, audio) /\ frames # <<>>
    BY <1>5 DEF OnFrame
  <2>2. f \in Frames /\ audio \in Seq(Heard)
    BY <2>1, FrameHeard
  <2>3. f.peer \in PeerIds /\ f.stream \in Streams /\ f.index \in Nat
    BY <2>2 DEF Frames
  <2> HIDE DEF f, audio
  <2>4. CASE LiveAppend(f.peer, f.stream, f.index, audio)
    BY <1>a, <2>4 DEF LiveAppend
  <2>5. CASE Queue(f.peer, f.stream, f.index, audio)
    <3>1. AllIn(pending, current, next, nextLen)
      BY DEF CoverInv
    <3> QED BY <1>0, <2>2, <2>3, <2>5, <3>1, QueuePremixes
  <2> QED BY <2>1, <2>4, <2>5 DEF FeedRemote
<1>6. CASE FramesDrained
  <2>1. UNCHANGED <<pending, next, nextLen>> \/ (pending' = <<>> /\ nextLen' = 0)
    BY <1>6 DEF FramesDrained, NoBoundary, Swap
  <2> QED BY <1>a, <1>c, <2>1
<1>7. CASE PlaceEntry
  <2>1. CASE KeepOrEvict
    <3> DEFINE r == Head(todo)
    <3>1. /\ todo # <<>> /\ r.index # playing /\ UNCHANGED <<next, nextLen>>
          /\ pending' \in {pending, Append(pending, r)}
      BY <2>1 DEF KeepOrEvict
    <3>2. r \in Waiting /\ InBuffer(r, playing, mix, mixLen)
      BY <1>0, <3>1, AllInTail DEF CoverInv
    <3> HIDE DEF r
    <3>3. ~r.premixed
      BY <3>1, <3>2 DEF InBuffer
    <3>4. ASSUME NEW i \in Positions PROVE Premixed(Append(pending, r), i) = Premixed(pending, i)
      <4>1. Premixed(Append(pending, r), i) = Premixed(pending, i) (+) Part(r, i)
        BY <1>0, <1>p, <3>2, PremixedAppend
      <4>2. Part(r, i) = EmptyBag
        BY <3>3 DEF Part
      <4>3. Premixed(pending, i) \in Heard
        BY <1>0, <1>p, PartsHeard
      <4>4. \A a \in Heard : a (+) EmptyBag = a
        BY SumAlgebra
      <4> QED BY <4>1, <4>2, <4>3, <4>4
    <3> QED BY <3>1, <3>4 DEF PremixOk
  <2>2. CASE PlaceInSlot \/ MergeIntoFirst
    BY <1>a, <2>2 DEF PlaceInSlot, MergeIntoFirst
  <2> QED BY <1>7, <2>1, <2>2 DEF PlaceEntry
<1>8. CASE TransportRestarts
  BY <1>8 DEF TransportRestarts
<1> QED
  BY <1>1, <1>2, <1>3, <1>4, <1>5, <1>6, <1>7, <1>8 DEF Next

\* A transport that has restarted once has restarted for good.
LEMMA RestartedForGood == [Next]_vars => (~restarted' => ~restarted)
BY DEF Next, vars, envVars, Connect, Disconnect, PeerJoined, PeerEnters, PeerLeft, AudioFrame, OnConnected,
   OnJoined, OnLeft, OnDisconnected, EventsDrained, OnFrame, FramesDrained, PlaceEntry, PlayBlock,
   TransportRestarts, Initialize, HostResets

\* The buffer mixed ahead is the sum of the entries marked premixed, whole and once each,
\* and those belong to the interval that is played next, as long as the transport has not
\* restarted: feed_remote's increments and backfill, remove_peer's undoing of them, the swap
\* and the loop over the entries in ring.rs, with any streams, blocks and capacity.
THEOREM PremixAlwaysExact == Spec => []PremixExact
<1>1. MixInv /\ (~restarted => PremixOk) => PremixExact
  <2> SUFFICES ASSUME MixInv, PremixOk, Undisturbed PROVE PremixExact
    BY DEF PremixExact, Undisturbed
  <2>1. pending \in Seq(Waiting) /\ AllIn(pending, current, next, nextLen)
    BY DEF MixInv, HeardInv, WaitOk, CoverInv, Undisturbed
  <2>2. ASSUME NEW i \in Positions PROVE PremixedAt(i) = IF i < nextLen THEN next[i] ELSE EmptyBag
    BY <2>1, PremixedIs DEF PremixOk, LevelAt
  <2>3. ASSUME NEW k \in DOMAIN pending, pending[k].premixed PROVE pending[k].index = current
    <3>1. k \in 1..Len(pending)
      BY <2>1
    <3> QED BY <2>1, <2>3, <3>1 DEF AllIn, InBuffer
  <2> QED BY <2>2, <2>3 DEF PremixExact
<1>2. Init => (~restarted => PremixOk)
  <2> SUFFICES ASSUME Init PROVE PremixOk
    OBVIOUS
  <2>1. pending = <<>> /\ nextLen = 0
    BY DEF Init, RingInit
  <2>2. <<>> \in Seq(Waiting) /\ Len(<<>>) = 0
    OBVIOUS
  <2>3. \A i \in Positions : i \in Nat /\ ~(i < 0)
    BY CapAssumption DEF Positions
  <2>4. ASSUME NEW i \in Positions PROVE Premixed(pending, i) = EmptyBag
    <3>1. i \in Nat /\ pending \in Seq(Waiting) /\ \A k \in 1..Len(pending) : ~pending[k].premixed
      BY <2>1, <2>2, <2>3
    <3> QED BY <3>1, PremixedNone
  <2> QED BY <2>1, <2>3, <2>4 DEF PremixOk, LevelAt
<1>3. TableInv /\ MixInv /\ (~restarted => PremixOk) /\ [Next]_vars
        => (TableInv /\ MixInv /\ (~restarted => PremixOk))'
  <2> SUFFICES ASSUME TableInv, MixInv, ~restarted => PremixOk, [Next]_vars
               PROVE  TableInv' /\ MixInv' /\ (~restarted' => PremixOk')
    OBVIOUS
  <2>1. ~restarted' => ~restarted
    BY RestartedForGood
  <2>2. ~restarted' => PremixOk'
    BY <2>1, PremixStep DEF MixInv
  <2> QED BY <2>2, TableStep, MixStep
<1> QED BY <1>1, <1>2, <1>3, TableInit, MixInit, PTL DEF Spec

(***************************************************************************)
(* No block twice.                                                         *)
(*                                                                         *)
(* A block is spent when it has been sent and is not in the audio channel  *)
(* any more: what comes out of the channel is not, so it is nowhere yet.   *)
(* An entry holds blocks of its own stream and interval, and no two        *)
(* entries are of one; hence an entry that is not marked shares nothing    *)
(* with the buffer mixed ahead.                                            *)
(***************************************************************************)
Number(x) == x.index * BlocksPer + x.at
IsFrame(x, f) == x.peer = f.peer /\ x.stream = f.stream /\ x.index = f.index /\ x.at = f.at
Sent(x, sn) == Number(x) \in Nat /\ \E y \in Sources : y[1] = x.peer /\ y[2] = x.stream /\ Number(x) < sn[y]
Spent(x, sn, fr) == Sent(x, sn) /\ \A j \in 1..Len(fr) : ~IsFrame(x, fr[j])

IsOf(x, e) == x.peer = e.peer /\ x.stream = e.stream /\ x.index = e.index
OwnEntry(e, sn, fr) ==
    \A k \in 1..Len(e.samples) : \A x \in Bodies(e.samples[k]) :
        e.samples[k][x] = 1 /\ IsOf(x, e) /\ Spent(x, sn, fr)
AllOwn(q, sn, fr) == \A j \in 1..Len(q) : OwnEntry(q[j], sn, fr)
Unlike(q, e) == \A j \in 1..Len(q) : ~IsOf(q[j], e)
Apart(q, t) == \A k \in 1..Len(t) : Unlike(q, t[k])
AllUnlike(q) == \A j \in 1..Len(q) : \A k \in 1..Len(q) : IsOf(q[j], q[k]) => j = k

SoundTo(buf, len, sn, fr) ==
    \A i \in Positions : i < len => \A x \in Bodies(buf[i]) : buf[i][x] = 1 /\ Spent(x, sn, fr)
\* What is mixed ahead is of entries that are marked.
OfMarked(buf, len, q) ==
    \A i \in Positions : i < len =>
        \A x \in Bodies(buf[i]) : \E j \in 1..Len(q) : q[j].premixed /\ IsOf(x, q[j])
\* Nothing in the mix is of an entry that is still to be summed.
NoneOfUnmarked(buf, len, q) ==
    \A i \in Positions : i < len =>
        \A x \in Bodies(buf[i]) : \A j \in 1..Len(q) : ~q[j].premixed => ~IsOf(x, q[j])
FramesOnce(sn, fr) ==
    /\ \A j \in 1..Len(fr) : Sent(fr[j], sn)
    /\ \A j \in 1..Len(fr) : \A k \in 1..Len(fr) : IsFrame(fr[j], fr[k]) => j = k

\* The queue and the buffer mixed ahead; the entries to be placed and the mix.
AheadOnce(q, buf, len, sn, fr) ==
    AllOwn(q, sn, fr) /\ AllUnlike(q) /\ SoundTo(buf, len, sn, fr) /\ OfMarked(buf, len, q)
MixOnce(q, buf, len, sn, fr) ==
    AllOwn(q, sn, fr) /\ AllUnlike(q) /\ SoundTo(buf, len, sn, fr) /\ NoneOfUnmarked(buf, len, q)

OnceInv ==
    /\ FramesOnce(sent, frames)
    /\ AheadOnce(pending, next, nextLen, sent, frames)
    /\ MixOnce(todo, mix, mixLen, sent, frames)
    /\ Apart(pending, todo)

LEMMA SpentFollows ==
    ASSUME NEW sn, NEW fr, NEW sm, NEW gr, \A x : Spent(x, sn, fr) => Spent(x, sm, gr)
    PROVE  /\ \A q : AllOwn(q, sn, fr) => AllOwn(q, sm, gr)
           /\ \A b, n : SoundTo(b, n, sn, fr) => SoundTo(b, n, sm, gr)
<1> HIDE DEF Spent
<1>1. ASSUME NEW q, AllOwn(q, sn, fr) PROVE AllOwn(q, sm, gr)
  BY <1>1 DEF AllOwn, OwnEntry
<1>2. ASSUME NEW b, NEW n, SoundTo(b, n, sn, fr) PROVE SoundTo(b, n, sm, gr)
  BY <1>2 DEF SoundTo
<1> QED BY <1>1, <1>2

\* A sum of two bags that share no block has each block as often as they have.
Once(b) == \A x \in Bodies(b) : b[x] = 1

LEMMA OnceSum ==
    ASSUME NEW a, NEW b, Once(a), Once(b), \A x \in Bodies(a) : x \notin Bodies(b)
    PROVE  Once(a (+) b) /\ Bodies(a (+) b) = Bodies(a) \cup Bodies(b)
<1> DEFINE c == a (+) b
<1>1. /\ \A x \in DOMAIN a \cup DOMAIN b : c[x] = Times(a, x) + Times(b, x)
      /\ Bodies(c) = Bodies(a) \cup Bodies(b)
  BY SumTimes
<1> HIDE DEF c
<1>2. ASSUME NEW x \in Bodies(c) PROVE c[x] = 1
  <2>1. CASE x \in Bodies(a)
    <3>1. x \in DOMAIN a /\ a[x] = 1 /\ x \notin DOMAIN b
      BY <2>1 DEF Bodies, Once
    <3> QED BY <1>1, <3>1 DEF Times
  <2>2. CASE x \in Bodies(b) /\ x \notin Bodies(a)
    <3>1. x \in DOMAIN b /\ b[x] = 1 /\ x \notin DOMAIN a
      BY <2>2 DEF Bodies, Once
    <3> QED BY <1>1, <3>1 DEF Times
  <2> QED BY <1>1, <2>1, <2>2
<1> QED BY <1>1, <1>2 DEF Once, c

\* What a buffer has after a sum it had before, or it comes from what was summed in.
FromEither(b, n, buf, len, samples) ==
    \A i \in Positions : i < n =>
        \A x \in Bodies(b[i]) : \/ i < len /\ x \in Bodies(buf[i])
                                \/ \E k \in 1..Len(samples) : x \in Bodies(samples[k])
NothingShared(samples, offset, buf, len) ==
    \A i \in Positions : i < len /\ i >= offset /\ i < offset + Len(samples) =>
        \A x \in Bodies(buf[i]) : x \notin Bodies(samples[i - offset + 1])
AllSound(samples, sn, fr) ==
    \A k \in 1..Len(samples) : Once(samples[k]) /\ \A x \in Bodies(samples[k]) : Spent(x, sn, fr)

LEMMA SummedSound ==
    ASSUME NEW buf, NEW len \in 0..Cap, NEW samples \in Seq(Heard), NEW offset \in Nat, NEW sn, NEW fr,
           SoundTo(buf, len, sn, fr), AllSound(samples, sn, fr), NothingShared(samples, offset, buf, len),
           \A i \in Positions : i < offset => i < len
    PROVE  /\ SoundTo(SummedIn(buf, len, samples, offset), SummedLen(len, samples, offset), sn, fr)
           /\ FromEither(SummedIn(buf, len, samples, offset), SummedLen(len, samples, offset), buf, len, samples)
<1> DEFINE b == SummedIn(buf, len, samples, offset)
           n == SummedLen(len, samples, offset)
<1>1. Summed(b, n, buf, len, samples, offset)
  BY SummedIs
<1> HIDE DEF b, n
<1>2. ASSUME NEW i \in Positions, i < n
      PROVE  \/ i < len /\ b[i] = buf[i]
             \/ /\ i >= offset /\ i < offset + Len(samples) /\ i - offset + 1 \in 1..Len(samples)
                /\ b[i] = IF i >= len THEN samples[i - offset + 1] ELSE buf[i] (+) samples[i - offset + 1]
  <2>1. i \in Nat /\ Len(samples) \in Nat /\ len \in Nat
    BY CapAssumption DEF Positions
  <2>2. CASE i >= offset /\ i < offset + Len(samples)
    BY <1>1, <2>1, <2>2 DEF Summed
  <2>3. CASE ~(i >= offset /\ i < offset + Len(samples))
    <3>1. b[i] = buf[i]
      BY <1>1, <2>1, <2>3 DEF Summed
    <3>2. i < len
      BY <1>1, <1>2, <2>1, <2>3 DEF Summed
    <3> QED BY <3>1, <3>2
  <2> QED BY <2>2, <2>3
<1>3. ASSUME NEW i \in Positions, i < n
      PROVE  /\ Once(b[i]) /\ \A x \in Bodies(b[i]) : Spent(x, sn, fr)
             /\ \A x \in Bodies(b[i]) : \/ i < len /\ x \in Bodies(buf[i])
                                        \/ \E k \in 1..Len(samples) : x \in Bodies(samples[k])
  <2>1. CASE i < len /\ b[i] = buf[i]
    <3>1. Once(buf[i]) /\ \A x \in Bodies(buf[i]) : Spent(x, sn, fr)
      BY <2>1 DEF SoundTo, Once
    <3> QED BY <2>1, <3>1
  <2>2. CASE /\ i >= offset /\ i < offset + Len(samples) /\ i - offset + 1 \in 1..Len(samples)
             /\ b[i] = IF i >= len THEN samples[i - offset + 1] ELSE buf[i] (+) samples[i - offset + 1]
    <3> DEFINE k == i - offset + 1
               s == samples[k]
    <3>1. k \in 1..Len(samples) /\ Once(s) /\ \A x \in Bodies(s) : Spent(x, sn, fr)
      BY <2>2 DEF AllSound
    <3>2. CASE i >= len
      <4>1. b[i] = s
        BY <2>2, <3>2
      <4> QED BY <3>1, <4>1
    <3>3. CASE i < len
      <4>1. b[i] = buf[i] (+) s
        BY <2>2, <3>3, CapAssumption DEF Positions
      <4>2. Once(buf[i]) /\ \A x \in Bodies(buf[i]) : Spent(x, sn, fr)
        BY <3>3 DEF SoundTo, Once
      <4>3. \A x \in Bodies(buf[i]) : x \notin Bodies(s)
        BY <2>2, <3>3 DEF NothingShared
      <4> HIDE DEF s, k
      <4>4. Once(b[i]) /\ Bodies(b[i]) = Bodies(buf[i]) \cup Bodies(s)
        BY <3>1, <4>1, <4>2, <4>3, OnceSum
      <4>5. ASSUME NEW x \in Bodies(b[i])
            PROVE  Spent(x, sn, fr) /\ (x \in Bodies(buf[i]) \/ x \in Bodies(s))
        BY <3>1, <4>2, <4>4
      <4>6. \A x \in Bodies(s) : \E j \in 1..Len(samples) : x \in Bodies(samples[j])
        BY <3>1 DEF s
      <4> QED BY <3>3, <4>4, <4>5, <4>6
    <3> QED BY <3>2, <3>3, CapAssumption DEF Positions
  <2> QED BY <1>2, <1>3, <2>1, <2>2
<1>4. SoundTo(b, n, sn, fr)
  BY <1>3 DEF SoundTo, Once
<1>5. FromEither(b, n, buf, len, samples)
  BY <1>3 DEF FromEither
<1> QED BY <1>4, <1>5 DEF b, n

LEMMA QueueAtNone ==
    ASSUME pending \in Seq(Waiting), NEW p, NEW s, NEW n, QueueAt(p, s, n) = 0
    PROVE  \A j \in 1..Len(pending) : ~(pending[j].peer = p /\ pending[j].stream = s /\ pending[j].index = n)
<1> DEFINE I == {i \in 1..Len(pending) : pending[i].peer = p /\ pending[i].stream = s /\ pending[i].index = n}
<1>1. QueueAt(p, s, n) = IF I # {} THEN Min(I) ELSE 0
  BY DEF QueueAt, SelectInSeq
<1>2. I = {}
  <2>1. I \in SUBSET Nat /\ \A i \in I : i # 0
    OBVIOUS
  <2>2. I # {} => Min(I) \in I
    <3> HIDE DEF I
    <3> QED BY <2>1, MinIsMember
  <2> HIDE DEF I
  <2> QED BY <1>1, <2>1, <2>2
<1> QED BY <1>2

LEMMA OwnAppend ==
    ASSUME NEW q \in Seq(Waiting), NEW e \in Waiting, NEW sn, NEW fr
    PROVE  /\ AllOwn(q, sn, fr) /\ OwnEntry(e, sn, fr) => AllOwn(Append(q, e), sn, fr)
           /\ AllUnlike(q) /\ Unlike(q, e) => AllUnlike(Append(q, e))
           /\ \A b, l : OfMarked(b, l, q) => OfMarked(b, l, Append(q, e))
<1> DEFINE t == Append(q, e)
<1>1. /\ Len(t) = Len(q) + 1 /\ \A j \in 1..Len(q) : t[j] = q[j]
      /\ t[Len(q) + 1] = e /\ Len(q) \in Nat
      /\ \A j \in 1..Len(t) : j \in 1..Len(q) \/ j = Len(q) + 1
  OBVIOUS
<1> HIDE DEF t
<1>2. ASSUME AllOwn(q, sn, fr), OwnEntry(e, sn, fr) PROVE AllOwn(t, sn, fr)
  BY <1>1, <1>2 DEF AllOwn
<1>3. ASSUME AllUnlike(q), Unlike(q, e) PROVE AllUnlike(t)
  <2>1. ASSUME NEW j \in 1..Len(t), NEW k \in 1..Len(t), IsOf(t[j], t[k]) PROVE j = k
    <3>1. CASE j \in 1..Len(q) /\ k \in 1..Len(q)
      <4>1. IsOf(q[j], q[k])
        BY <1>1, <2>1, <3>1
      <4> QED BY <1>3, <3>1, <4>1 DEF AllUnlike
    <3>2. CASE j \in 1..Len(q) /\ k = Len(q) + 1
      <4>1. IsOf(q[j], e)
        BY <1>1, <2>1, <3>2
      <4> QED BY <1>3, <3>2, <4>1 DEF Unlike
    <3>3. CASE j = Len(q) + 1 /\ k \in 1..Len(q)
      <4>1. IsOf(e, q[k])
        BY <1>1, <2>1, <3>3
      <4>2. IsOf(q[k], e)
        BY <4>1 DEF IsOf
      <4> QED BY <1>3, <3>3, <4>2 DEF Unlike
    <3> QED BY <1>1, <3>1, <3>2, <3>3
  <2> QED BY <2>1 DEF AllUnlike
<1>4. ASSUME NEW b, NEW l, OfMarked(b, l, q) PROVE OfMarked(b, l, t)
  <2>1. ASSUME NEW i \in Positions, i < l, NEW x \in Bodies(b[i])
        PROVE  \E j \in 1..Len(t) : t[j].premixed /\ IsOf(x, t[j])
    <3>1. PICK j \in 1..Len(q) : q[j].premixed /\ IsOf(x, q[j])
      BY <1>4, <2>1 DEF OfMarked
    <3>2. j \in 1..Len(t) /\ t[j] = q[j]
      BY <1>1
    <3> QED BY <3>1, <3>2
  <2> QED BY <2>1 DEF OfMarked
<1> QED BY <1>2, <1>3, <1>4 DEF t

\* An entry in the place of another of the same stream and interval.
LEMMA OwnReplaced ==
    ASSUME NEW q \in Seq(Waiting), NEW k \in 1..Len(q), NEW e \in Waiting, IsOf(e, q[k]), NEW sn, NEW fr
    PROVE  /\ AllOwn(q, sn, fr) /\ OwnEntry(e, sn, fr) => AllOwn([q EXCEPT ![k] = e], sn, fr)
           /\ AllUnlike(q) => AllUnlike([q EXCEPT ![k] = e])
           /\ (q[k].premixed => e.premixed) =>
                \A b, l : OfMarked(b, l, q) => OfMarked(b, l, [q EXCEPT ![k] = e])
<1> DEFINE t == [q EXCEPT ![k] = e]
<1>1. Len(t) = Len(q) /\ t[k] = e /\ \A j \in 1..Len(q) : j # k => t[j] = q[j]
  OBVIOUS
<1> HIDE DEF t
<1>2. ASSUME AllOwn(q, sn, fr), OwnEntry(e, sn, fr) PROVE AllOwn(t, sn, fr)
  BY <1>1, <1>2 DEF AllOwn
<1>3. \A x : \A j \in 1..Len(q) : IsOf(x, t[j]) <=> IsOf(x, q[j])
  <2>1. ASSUME NEW x PROVE IsOf(x, e) <=> IsOf(x, q[k])
    BY DEF IsOf
  <2> QED BY <1>1, <2>1
<1>4. \A y : \A j \in 1..Len(q) : IsOf(t[j], y) <=> IsOf(q[j], y)
  <2>1. ASSUME NEW y PROVE IsOf(e, y) <=> IsOf(q[k], y)
    BY DEF IsOf
  <2> QED BY <1>1, <2>1
<1>5. ASSUME AllUnlike(q) PROVE AllUnlike(t)
  BY <1>1, <1>3, <1>4, <1>5 DEF AllUnlike
<1>6. ASSUME q[k].premixed => e.premixed, NEW b, NEW l, OfMarked(b, l, q) PROVE OfMarked(b, l, t)
  <2>1. ASSUME NEW i \in Positions, i < l, NEW x \in Bodies(b[i])
        PROVE  \E j \in 1..Len(t) : t[j].premixed /\ IsOf(x, t[j])
    <3>1. PICK j \in 1..Len(q) : q[j].premixed /\ IsOf(x, q[j])
      BY <1>6, <2>1 DEF OfMarked
    <3>2. j \in 1..Len(t) /\ t[j].premixed
      BY <1>1, <1>6, <3>1
    <3>3. IsOf(x, t[j])
      BY <1>3, <3>1
    <3> QED BY <3>2, <3>3
  <2> QED BY <2>1 DEF OfMarked
<1> QED BY <1>2, <1>5, <1>6 DEF t

\* What is summed in for an entry that is marked.
LEMMA SummedOfMarked ==
    ASSUME NEW b, NEW n, NEW buf, NEW len, NEW samples, NEW q, NEW j \in 1..Len(q),
           OfMarked(buf, len, q), FromEither(b, n, buf, len, samples), q[j].premixed,
           \A k \in 1..Len(samples) : \A x \in Bodies(samples[k]) : IsOf(x, q[j])
    PROVE  OfMarked(b, n, q)
<1>1. ASSUME NEW i \in Positions, i < n, NEW x \in Bodies(b[i])
      PROVE  \E m \in 1..Len(q) : q[m].premixed /\ IsOf(x, q[m])
  <2>1. (i < len /\ x \in Bodies(buf[i])) \/ \E k \in 1..Len(samples) : x \in Bodies(samples[k])
    BY <1>1 DEF FromEither
  <2>2. CASE i < len /\ x \in Bodies(buf[i])
    BY <2>2 DEF OfMarked
  <2>3. CASE \E k \in 1..Len(samples) : x \in Bodies(samples[k])
    BY <2>3
  <2> QED BY <2>1, <2>2, <2>3
<1> QED BY <1>1 DEF OfMarked

\* Audio of a stream's interval that has just been taken out of the channel: sn and fr are
\* what was sent and what was in the channel before, sm and gr after.
Passes(sn, fr, sm, gr) == \A x : Spent(x, sn, fr) => Spent(x, sm, gr)
Fresh(audio, sn, fr) == \A k \in 1..Len(audio) : \A x \in Bodies(audio[k]) : ~Spent(x, sn, fr)
IsAudio(audio, p, s, n) ==
    \A k \in 1..Len(audio) : \A x \in Bodies(audio[k]) : x.peer = p /\ x.stream = s /\ x.index = n

\* Fresh audio shares nothing with a buffer.
LEMMA FreshShares ==
    ASSUME NEW audio \in Seq(Heard), NEW buf, NEW len, NEW sn, NEW fr, NEW offset \in Nat,
           SoundTo(buf, len, sn, fr), Fresh(audio, sn, fr)
    PROVE  NothingShared(audio, offset, buf, len)
<1>1. ASSUME NEW i \in Positions, i < len, i >= offset, i < offset + Len(audio), NEW x \in Bodies(buf[i])
      PROVE  x \notin Bodies(audio[i - offset + 1])
  <2>1. i - offset + 1 \in 1..Len(audio)
    BY <1>1, CapAssumption DEF Positions
  <2>2. Spent(x, sn, fr)
    BY <1>1 DEF SoundTo
  <2> QED BY <2>1, <2>2 DEF Fresh
<1> QED BY <1>1 DEF NothingShared

LEMMA ContinuedOwn ==
    ASSUME NEW o \in Waiting, NEW e \in Waiting, NEW audio \in Seq(Heard), e.samples = o.samples \o audio,
           IsOf(e, o), NEW sm, NEW gr, OwnEntry(o, sm, gr), AllSound(audio, sm, gr),
           IsAudio(audio, o.peer, o.stream, o.index)
    PROVE  OwnEntry(e, sm, gr)
<1> DEFINE h == o.samples
           s == e.samples
<1>1. h \in Seq(Heard) /\ s = h \o audio
  BY DEF Waiting
<1> HIDE DEF h, s
<1>2. ASSUME NEW k \in 1..Len(s)
      PROVE  (k \in 1..Len(h) /\ s[k] = h[k]) \/ (k - Len(h) \in 1..Len(audio) /\ s[k] = audio[k - Len(h)])
  BY <1>1
<1>3. ASSUME NEW k \in 1..Len(s), NEW x \in Bodies(s[k])
      PROVE  s[k][x] = 1 /\ IsOf(x, e) /\ Spent(x, sm, gr)
  <2>1. CASE k \in 1..Len(h) /\ s[k] = h[k]
    <3>1. h[k][x] = 1 /\ IsOf(x, o) /\ Spent(x, sm, gr)
      BY <1>3, <2>1 DEF OwnEntry, h
    <3>2. IsOf(x, e)
      BY <3>1 DEF IsOf
    <3> QED BY <2>1, <3>1, <3>2
  <2>2. CASE k - Len(h) \in 1..Len(audio) /\ s[k] = audio[k - Len(h)]
    <3> DEFINE m == k - Len(h)
    <3>1. m \in 1..Len(audio) /\ s[k] = audio[m] /\ x \in Bodies(audio[m])
      BY <1>3, <2>2
    <3> HIDE DEF m
    <3>2. audio[m][x] = 1 /\ Spent(x, sm, gr)
      BY <3>1 DEF AllSound, Once
    <3>3. x.peer = o.peer /\ x.stream = o.stream /\ x.index = o.index
      BY <3>1 DEF IsAudio
    <3>4. IsOf(x, e)
      BY <3>3 DEF IsOf
    <3> QED BY <3>1, <3>2, <3>4
  <2> QED BY <1>2, <2>1, <2>2
<1> QED BY <1>3 DEF OwnEntry, s

LEMMA QueueOnce ==
    ASSUME pending \in Seq(Waiting), nextLen \in 0..Cap, AllIn(pending, current, next, nextLen),
           NEW sn, NEW fr, NEW sm, NEW gr, Passes(sn, fr, sm, gr),
           AheadOnce(pending, next, nextLen, sn, fr),
           NEW p \in PeerIds, NEW s \in Streams, NEW n \in Nat, NEW audio \in Seq(Heard),
           AllSound(audio, sm, gr), Fresh(audio, sn, fr), IsAudio(audio, p, s, n),
           Queue(p, s, n, audio)
    PROVE  AheadOnce(pending', next', nextLen', sm, gr)
<1> DEFINE k == QueueAt(p, s, n)
           premix == current = n
<1>1. Queued(p, s, n, audio, k)
  BY QueueIs
<1>2. /\ k = 0 => \A j \in 1..Len(pending) : ~(pending[j].peer = p /\ pending[j].stream = s /\ pending[j].index = n)
      /\ k # 0 => /\ k \in 1..Len(pending)
                  /\ pending[k].peer = p /\ pending[k].stream = s /\ pending[k].index = n
  BY QueueAtIs, QueueAtNone
<1>3. premix \in BOOLEAN
  BY Zenon
<1>4. /\ AllOwn(pending, sm, gr) /\ AllUnlike(pending) /\ SoundTo(next, nextLen, sm, gr)
      /\ OfMarked(next, nextLen, pending) /\ SoundTo(next, nextLen, sn, fr) /\ AllOwn(pending, sn, fr)
  BY SpentFollows DEF AheadOnce, Passes
<1> HIDE DEF k
<1>5. CASE k = 0
  <2> DEFINE e == PendingEntry(p, s, n, audio, premix)
  <2>1. /\ e \in Waiting /\ e.samples = audio /\ e.premixed = premix
        /\ e.index = n /\ e.peer = p /\ e.stream = s
    BY <1>3 DEF PendingEntry, Waiting
  <2>2. pending' = Append(pending, e)
    BY <1>1, <1>5 DEF Queued
  <2>3. next' = IF premix THEN SummedIn(next, nextLen, audio, 0) ELSE next
    BY <1>1, <1>5 DEF Queued
  <2>4. nextLen' = IF premix THEN SummedLen(nextLen, audio, 0) ELSE nextLen
    BY <1>1, <1>5 DEF Queued
  <2> HIDE DEF e
  <2>5. Unlike(pending, e)
    BY <1>2, <1>5, <2>1 DEF Unlike, IsOf
  <2>6. OwnEntry(e, sm, gr)
    BY <2>1 DEF OwnEntry, AllSound, Once, IsAudio, IsOf
  <2>7. AllOwn(pending', sm, gr) /\ AllUnlike(pending') /\ OfMarked(next, nextLen, pending')
    BY <1>4, <2>1, <2>2, <2>5, <2>6, OwnAppend
  <2>8. CASE ~premix
    BY <1>4, <2>3, <2>4, <2>7, <2>8 DEF AheadOnce
  <2>9. CASE premix
    <3> DEFINE b == SummedIn(next, nextLen, audio, 0)
               l == SummedLen(nextLen, audio, 0)
    <3>1. NothingShared(audio, 0, next, nextLen)
      BY <1>4, FreshShares
    <3>2. \A i \in Positions : i < 0 => i < nextLen
      BY DEF Positions
    <3>3. SoundTo(b, l, sm, gr) /\ FromEither(b, l, next, nextLen, audio)
      BY <1>4, <3>1, <3>2, SummedSound
    <3>4. next' = b /\ nextLen' = l
      BY <2>3, <2>4, <2>9
    <3> HIDE DEF b, l
    <3> DEFINE j == Len(pending) + 1
    <3>5. j \in 1..Len(pending') /\ pending'[j] = e
      BY <2>1, <2>2
    <3>6. \A i \in 1..Len(audio) : \A x \in Bodies(audio[i]) : IsOf(x, pending'[j])
      BY <2>1, <3>5 DEF IsAudio, IsOf
    <3>7. pending'[j].premixed
      BY <2>1, <2>9, <3>5
    <3> HIDE DEF j
    <3>8. OfMarked(b, l, pending')
      BY <2>7, <3>3, <3>5, <3>6, <3>7, SummedOfMarked
    <3> QED BY <2>7, <3>3, <3>4, <3>8 DEF AheadOnce
  <2> QED BY <2>8, <2>9
<1>6. CASE k # 0
  <2> DEFINE o == pending[k]
             head == o.samples
             e == Continued(o, audio, premix)
  <2>1. /\ k \in 1..Len(pending) /\ o \in Waiting /\ head \in Seq(Heard) /\ o.premixed \in BOOLEAN
        /\ o.peer = p /\ o.stream = s /\ o.index = n
    <3>1. k \in 1..Len(pending) /\ o \in Waiting
      BY <1>2, <1>6
    <3>2. o.peer = p /\ o.stream = s /\ o.index = n
      BY <1>2, <1>6
    <3> HIDE DEF o
    <3>3. o.samples \in Seq(Heard) /\ o.premixed \in BOOLEAN
      BY <3>1 DEF Waiting
    <3> QED BY <3>1, <3>2, <3>3
  <2>2. pending' = [pending EXCEPT ![k] = e]
    BY <1>1, <1>6 DEF Queued
  <2>3. /\ e \in Waiting /\ e.samples = head \o audio /\ e.premixed = (o.premixed \/ premix)
        /\ e.peer = o.peer /\ e.stream = o.stream /\ e.index = o.index
    <3> HIDE DEF premix
    <3>1. o \in Waiting /\ premix \in BOOLEAN
      BY <1>3, <2>1
    <3> HIDE DEF o
    <3> QED BY <3>1, ContinuedIs
  <2>4. ASSUME premix, o.premixed
        PROVE  next' = SummedIn(next, nextLen, audio, Len(head)) /\ nextLen' = SummedLen(nextLen, audio, Len(head))
    BY <1>1, <1>6, <2>4 DEF Queued
  <2>5. ASSUME premix, ~o.premixed
        PROVE  /\ next' = SummedIn(SummedIn(next, nextLen, head, 0), SummedLen(nextLen, head, 0), audio, Len(head))
               /\ nextLen' = SummedLen(SummedLen(nextLen, head, 0), audio, Len(head))
    BY <1>1, <1>6, <2>5 DEF Queued
  <2>6. ASSUME ~premix PROVE next' = next /\ nextLen' = nextLen
    BY <1>1, <1>6, <2>6 DEF Queued
  <2>7. InBuffer(o, current, next, nextLen) /\ OwnEntry(o, sm, gr) /\ OwnEntry(o, sn, fr)
    BY <1>4, <2>1 DEF AllIn, AllOwn
  <2> HIDE DEF e, o, head
  <2>8. IsOf(e, o) /\ (o.premixed => e.premixed)
    BY <2>3 DEF IsOf
  <2>9. OwnEntry(e, sm, gr)
    <3>1. IsAudio(audio, o.peer, o.stream, o.index) /\ e.samples = o.samples \o audio
      BY <2>1, <2>3 DEF head
    <3> QED BY <2>1, <2>3, <2>7, <2>8, <3>1, ContinuedOwn
  <2>10. /\ AllOwn(pending', sm, gr) /\ AllUnlike(pending') /\ OfMarked(next, nextLen, pending')
         /\ k \in 1..Len(pending') /\ pending'[k] = e
    <3>1. e \in Waiting /\ IsOf(e, pending[k]) /\ (pending[k].premixed => e.premixed)
      BY <2>3, <2>8 DEF o
    <3>2. /\ AllOwn([pending EXCEPT ![k] = e], sm, gr) /\ AllUnlike([pending EXCEPT ![k] = e])
          /\ OfMarked(next, nextLen, [pending EXCEPT ![k] = e])
      BY <1>4, <2>1, <2>9, <3>1, OwnReplaced
    <3> QED BY <2>1, <2>2, <3>2
  \* The audio goes behind what is there of the entry.
  <2>11. ASSUME NEW b, NEW l \in 0..Cap, premix, SoundTo(b, l, sm, gr), OfMarked(b, l, pending'),
                NothingShared(audio, Len(head), b, l), Within(head, b, l),
                next' = SummedIn(b, l, audio, Len(head)), nextLen' = SummedLen(l, audio, Len(head))
         PROVE  SoundTo(next', nextLen', sm, gr) /\ OfMarked(next', nextLen', pending')
    <3> DEFINE c == SummedIn(b, l, audio, Len(head))
               m == SummedLen(l, audio, Len(head))
    <3>1. Len(head) \in Nat /\ \A i \in Positions : i < Len(head) => i < l
      BY <2>1, <2>11, WithinReaches
    <3>2. SoundTo(c, m, sm, gr) /\ FromEither(c, m, b, l, audio)
      BY <2>11, <3>1, SummedSound
    <3>3. next' = c /\ nextLen' = m
      BY <2>11
    <3> HIDE DEF c, m
    <3>4. \A i \in 1..Len(audio) : \A x \in Bodies(audio[i]) : IsOf(x, pending'[k])
      BY <2>1, <2>3, <2>10 DEF IsAudio, IsOf
    <3>5. pending'[k].premixed
      BY <2>3, <2>10, <2>11
    <3>6. OfMarked(c, m, pending')
      BY <2>10, <2>11, <3>2, <3>4, <3>5, SummedOfMarked
    <3> QED BY <3>2, <3>3, <3>6
  <2>12. Len(head) \in Nat
    BY <2>1
  <2>13. CASE premix /\ o.premixed
    <3>1. Within(head, next, nextLen)
      BY <2>7, <2>13 DEF InBuffer, head
    <3>2. NothingShared(audio, Len(head), next, nextLen)
      BY <1>4, <2>12, FreshShares
    <3> QED BY <1>4, <2>4, <2>10, <2>11, <2>13, <3>1, <3>2 DEF AheadOnce
  <2>14. CASE premix /\ ~o.premixed
    <3> DEFINE b == SummedIn(next, nextLen, head, 0)
               l == SummedLen(nextLen, head, 0)
    <3>1. Summed(b, l, next, nextLen, head, 0) /\ Within(head, b, l)
      BY <2>1, SummedIs, SummedWhole
    \* What the buffer has is of marked entries, and this one is not.
    <3>2. NothingShared(head, 0, next, nextLen)
      <4>1. ASSUME NEW i \in Positions, i < nextLen, i >= 0, i < 0 + Len(head), NEW x \in Bodies(next[i]),
                   x \in Bodies(head[i - 0 + 1])
            PROVE  FALSE
        <5>1. i - 0 + 1 \in 1..Len(head)
          BY <4>1, <2>12, CapAssumption DEF Positions
        <5>2. IsOf(x, o)
          BY <2>7, <4>1, <5>1 DEF OwnEntry, head
        <5>3. PICK j \in 1..Len(pending) : pending[j].premixed /\ IsOf(x, pending[j])
          BY <1>4, <4>1 DEF OfMarked
        <5>4. IsOf(pending[j], pending[k])
          BY <5>2, <5>3 DEF IsOf, o
        <5>5. j = k
          BY <1>4, <2>1, <5>4 DEF AllUnlike
        <5> QED BY <2>14, <5>3, <5>5 DEF o
      <4> QED BY <4>1 DEF NothingShared
    <3>3. AllSound(head, sm, gr) /\ AllSound(head, sn, fr)
      BY <2>7 DEF OwnEntry, AllSound, Once, head
    <3>4. \A i \in Positions : i < 0 => i < nextLen
      BY DEF Positions
    <3>5. SoundTo(b, l, sm, gr) /\ FromEither(b, l, next, nextLen, head) /\ SoundTo(b, l, sn, fr)
      BY <1>4, <2>1, <3>2, <3>3, <3>4, SummedSound
    <3>6. next' = SummedIn(b, l, audio, Len(head)) /\ nextLen' = SummedLen(l, audio, Len(head))
      BY <2>5, <2>14
    <3> HIDE DEF b, l
    <3>7. l \in 0..Cap
      BY <3>1 DEF Summed
    <3>8. OfMarked(b, l, pending')
      <4>1. \A i \in 1..Len(head) : \A x \in Bodies(head[i]) : IsOf(x, pending'[k])
        BY <2>7, <2>3, <2>10 DEF OwnEntry, IsOf, head
      <4>2. pending'[k].premixed
        BY <2>3, <2>10, <2>14
      <4> QED BY <2>10, <3>5, <4>1, <4>2, SummedOfMarked
    <3>9. NothingShared(audio, Len(head), b, l)
      BY <2>12, <3>5, FreshShares
    <3>10. SoundTo(next', nextLen', sm, gr) /\ OfMarked(next', nextLen', pending')
      BY <2>11, <2>14, <3>1, <3>5, <3>6, <3>7, <3>8, <3>9
    <3> QED BY <2>10, <3>10 DEF AheadOnce
  <2>15. CASE ~premix
    BY <1>4, <2>6, <2>10, <2>15 DEF AheadOnce
  <2> QED BY <2>13, <2>14, <2>15
<1> QED BY <1>5, <1>6

(***************************************************************************)
(* The steps of the ring that change the mix                               *)
(***************************************************************************)
LEMMA LiveAppendOnce ==
    ASSUME HeldOk, WaitOk, CountOk, \A i \in SlotNums : Within(slots[i].samples, mix, mixLen),
           NEW sn, NEW fr, NEW sm, NEW gr, Passes(sn, fr, sm, gr), SoundTo(mix, mixLen, sn, fr),
           NEW p, NEW s, NEW n, NEW audio \in Seq(Heard), AllSound(audio, sm, gr), Fresh(audio, sn, fr),
           LiveAppend(p, s, n, audio)
    PROVE  SoundTo(mix', mixLen', sm, gr) /\ UNCHANGED <<next, nextLen, pending, todo>>
<1> DEFINE i == FirstSlot(SlotsOf(p, s))
           held == slots[i].samples
           at == Len(held)
           gap == [j \in Positions |-> IF j >= mixLen /\ j < at THEN EmptyBag ELSE mix[j]]
           b == SummedIn(gap, mixLen, audio, at)
           l == SummedLen(mixLen, audio, at)
<1>1. /\ mix' = IF at < Cap THEN b ELSE mix
      /\ mixLen' = l
      /\ UNCHANGED <<next, nextLen, pending, todo>>
      /\ SlotsOf(p, s) # {}
  BY DEF LiveAppend
<1>2. i \in SlotNums
  <2>1. SlotsOf(p, s) \in SUBSET Nat /\ SlotsOf(p, s) \subseteq SlotNums
    BY DEF SlotsOf, SlotNums
  <2>2. FirstSlot(SlotsOf(p, s)) = Min(SlotsOf(p, s))
    BY DEF FirstSlot, Min
  <2> QED BY <1>1, <2>1, <2>2, MinIsMember
<1>3. held \in Seq(Heard) /\ at \in Nat /\ Within(held, mix, mixLen)
  BY <1>2 DEF HeldOk
<1>4. mixLen \in 0..Cap /\ Cap \in Nat
  BY CapAssumption DEF CountOk
<1>5. SoundTo(mix, mixLen, sm, gr)
  BY SpentFollows DEF Passes
<1>6. at >= Cap => l = mixLen
  BY <1>3, <1>4 DEF SummedLen
<1>7. \A j \in Positions : j < mixLen => gap[j] = mix[j]
  BY <1>4 DEF Positions
<1> HIDE DEF gap
<1>8. SoundTo(gap, mixLen, sm, gr) /\ SoundTo(gap, mixLen, sn, fr)
  BY <1>5, <1>7 DEF SoundTo
<1> HIDE DEF held, at
<1>9. CASE at < Cap
  <2>1. \A j \in Positions : j < at => j < mixLen
    BY <1>3, <1>4, WithinReaches DEF at
  <2>2. NothingShared(audio, at, gap, mixLen)
    BY <1>3, <1>8, FreshShares
  <2>3. SoundTo(b, l, sm, gr)
    BY <1>3, <1>4, <1>8, <2>1, <2>2, SummedSound
  <2>4. mix' = b /\ mixLen' = l
    BY <1>1, <1>9
  <2> HIDE DEF b, l
  <2> QED BY <1>1, <2>3, <2>4
<1>10. CASE ~(at < Cap)
  <2>1. mix' = mix /\ mixLen' = mixLen
    BY <1>1, <1>3, <1>4, <1>6, <1>10
  <2> QED BY <1>1, <1>5, <2>1
<1> QED BY <1>9, <1>10

\* A sum of tails has no block in it.
LEMMA TailsOnly ==
    ASSUME NEW sl, \A i \in SlotNums : sl[i].tail \in Heard /\ Bodies(sl[i].tail) = {}
    PROVE  Bodies(SummedTail(sl)) = {}
<1> DEFINE N == MaxSlots
           K == {i \in SlotNums : sl[i].active}
           Rec(F) == F = [s \in SUBSET K |-> IF s = {} THEN EmptyBag
                                             ELSE F[s \ {Chosen(s)}] (+) sl[Chosen(s)].tail]
           F == CHOOSE G : Rec(G)
           w == [n \in 1..N |-> sl[n - 1].tail]
           Shift(s) == {n \in 1..N : n - 1 \in s}
<1>1. SummedTail(sl) = F[K]
  BY DEF SummedTail, FoldSet, MapThenFoldSet, Chosen
<1>2. N \in Nat /\ SlotNums = 0..(N - 1) /\ K \subseteq SlotNums
  BY SlotAssumption DEF SlotNums
<1>3. w \in [1..N -> Heard]
  BY <1>2
<1> HIDE DEF K
<1>4. \E G : Rec(G)
  <2> DEFINE V(s) == Total(Limited(w, N, Shift(s)), N)
             G == [s \in SUBSET K |-> V(s)]
  <2>1. ASSUME NEW s \in SUBSET K
        PROVE  V(s) = IF s = {} THEN EmptyBag ELSE V(s \ {Chosen(s)}) (+) sl[Chosen(s)].tail
    <3>1. CASE s = {}
      <4>1. Shift(s) = {} /\ Shift(s) \in SUBSET (1..N)
        BY <3>1
      <4> HIDE DEF w, Shift
      <4>2. V(s) = EmptyBag
        BY <1>2, <1>3, <4>1, LimitedStep
      <4> QED BY <3>1, <4>2
    <3>2. CASE s # {}
      <4> DEFINE x == Chosen(s)
      <4>1. x \in s /\ x \in 0..(N - 1)
        BY <1>2, <3>2 DEF Chosen
      <4> HIDE DEF x
      <4>2. /\ Shift(s) \in SUBSET (1..N) /\ x + 1 \in Shift(s)
            /\ Shift(s) \ {x + 1} = Shift(s \ {x}) /\ w[x + 1] = sl[x].tail
        BY <1>2, <4>1
      <4> HIDE DEF w, Shift
      <4>3. Total(Limited(w, N, Shift(s)), N) = Total(Limited(w, N, Shift(s) \ {x + 1}), N) (+) w[x + 1]
        BY <1>2, <1>3, <4>2, LimitedStep
      <4>4. V(s) = V(s \ {x}) (+) sl[x].tail
        BY <4>2, <4>3
      <4> QED BY <3>2, <4>4 DEF x
    <3> QED BY <3>1, <3>2
  <2> HIDE DEF V
  <2>2. ASSUME NEW s \in SUBSET K
        PROVE  G[s] = IF s = {} THEN EmptyBag ELSE G[s \ {Chosen(s)}] (+) sl[Chosen(s)].tail
    <3>1. s \ {Chosen(s)} \in SUBSET K
      OBVIOUS
    <3> QED BY <2>1, <3>1
  <2>3. G = [s \in SUBSET K |-> G[s]]
    OBVIOUS
  <2> HIDE DEF G
  <2>4. Rec(G)
    BY <2>2, <2>3
  <2> QED BY <2>4
<1> HIDE DEF Rec, w, Shift
<1>5. Rec(F)
  BY <1>4
<1> HIDE DEF F
<1>6. /\ \A s \in SUBSET K : F[s] = IF s = {} THEN EmptyBag ELSE F[s \ {Chosen(s)}] (+) sl[Chosen(s)].tail
      /\ \A s \in SUBSET K : IsFiniteSet(s) /\ Cardinality(s) \in Nat
  <2>1. \A s \in SUBSET K : F[s] = IF s = {} THEN EmptyBag ELSE F[s \ {Chosen(s)}] (+) sl[Chosen(s)].tail
    BY <1>5 DEF Rec
  <2>2. IsFiniteSet(SlotNums)
    BY <1>2, FS_Interval
  <2> QED BY <1>2, <2>1, <2>2, FS_Subset, FS_CardinalityType
<1> DEFINE T == {n \in Nat : \A s \in SUBSET K : Cardinality(s) = n => Bodies(F[s]) = {}}
<1>7. 0 \in T
  <2> SUFFICES ASSUME NEW s \in SUBSET K, Cardinality(s) = 0 PROVE Bodies(F[s]) = {}
    OBVIOUS
  <2>1. s = {}
    BY <1>6, FS_EmptySet
  <2>2. F[s] = EmptyBag
    BY <1>6, <2>1
  <2> QED BY <2>2, SumAlgebra
<1>8. ASSUME NEW n \in Nat, n \in T PROVE n + 1 \in T
  <2> SUFFICES ASSUME NEW s \in SUBSET K, Cardinality(s) = n + 1 PROVE Bodies(F[s]) = {}
    OBVIOUS
  <2> DEFINE x == Chosen(s)
             r == s \ {x}
  <2>1. s # {}
    BY FS_EmptySet
  <2>2. x \in s /\ r \in SUBSET K
    BY <2>1 DEF Chosen
  <2>3. F[s] = F[r] (+) sl[x].tail
    BY <1>6, <2>1
  <2> HIDE DEF x
  <2>4. Cardinality(r) = n
    <3>1. IsFiniteSet(s) /\ Cardinality(s) = n + 1
      BY <1>6
    <3>2. Cardinality(r) = Cardinality(s) - 1
      BY <2>2, <3>1, FS_RemoveElement
    <3> QED BY <3>1, <3>2
  <2>5. Bodies(F[r]) = {}
    BY <1>8, <2>2, <2>4
  <2>6. Bodies(sl[x].tail) = {}
    BY <1>2, <2>2
  <2> DEFINE a == F[r]
             d == sl[x].tail
  <2> HIDE DEF a, d
  <2>7. Bodies(a (+) d) = Bodies(a) \cup Bodies(d)
    BY SumTimes
  <2> QED BY <2>3, <2>5, <2>6, <2>7 DEF a, d
<1>9. Cardinality(K) \in T
  <2> HIDE DEF T
  <2> QED BY <1>6, <1>7, <1>8, NatSet
<1> QED BY <1>1, <1>9

LEMMA SwapOnce ==
    ASSUME HeldOk, WaitOk, CountOk, NEW idx \in Nat \cup {None}, Swap(idx), NEW sn, NEW fr,
           AheadOnce(pending, next, nextLen, sn, fr)
    PROVE  /\ MixOnce(todo', mix', mixLen', sn, fr) /\ AheadOnce(pending', next', nextLen', sn, fr)
           /\ Apart(pending', todo')
<1> DEFINE sl == TailsCaptured
           x == SummedTail(sl)
<1>1. /\ slots' = sl /\ mixLen' = nextLen /\ nextLen' = 0 /\ todo' = pending /\ pending' = <<>>
      /\ mix' = IF nextLen = 0 THEN next ELSE [next EXCEPT ![0] = @ (+) x]
  BY DEF Swap
<1>2. HeldOk'
  BY SwapCovers
<1>3. Bodies(x) = {}
  <2>1. \A i \in SlotNums : sl[i].tail \in Heard /\ Bodies(sl[i].tail) = {}
    BY <1>1, <1>2 DEF HeldOk
  <2> HIDE DEF sl
  <2> QED BY <2>1, TailsOnly
<1> HIDE DEF x, sl
<1>4. ASSUME NEW i \in Positions, i < nextLen
      PROVE  Once(mix'[i]) /\ Bodies(mix'[i]) = Bodies(next[i])
  <2>1. Once(next[i])
    BY <1>4 DEF AheadOnce, SoundTo, Once
  <2>2. Once(x)
    BY <1>3 DEF Once
  <2>3. mix'[i] = next[i] \/ mix'[i] = next[i] (+) x
    BY <1>1 DEF CountOk
  <2> DEFINE a == next[i]
  <2> HIDE DEF a
  <2>4. Once(a) => Once(a (+) x) /\ Bodies(a (+) x) = Bodies(a)
    BY <1>3, <2>2, OnceSum
  <2> QED BY <2>1, <2>3, <2>4 DEF a
<1>5. SoundTo(mix', mixLen', sn, fr)
  <2>1. ASSUME NEW i \in Positions, i < nextLen, NEW y \in Bodies(mix'[i])
        PROVE  mix'[i][y] = 1 /\ Spent(y, sn, fr)
    <3>1. y \in Bodies(next[i])
      BY <1>4, <2>1
    <3> QED BY <1>4, <2>1, <3>1 DEF AheadOnce, SoundTo, Once
  <2> QED BY <1>1, <2>1 DEF SoundTo
\* What is in it is of marked entries, hence not of another.
<1>6. NoneOfUnmarked(mix', mixLen', todo')
  <2>1. ASSUME NEW i \in Positions, i < nextLen, NEW y \in Bodies(mix'[i]), NEW j \in 1..Len(pending),
               ~pending[j].premixed, IsOf(y, pending[j])
        PROVE  FALSE
    <3>1. y \in Bodies(next[i])
      BY <1>4, <2>1
    <3>2. PICK k \in 1..Len(pending) : pending[k].premixed /\ IsOf(y, pending[k])
      BY <2>1, <3>1 DEF AheadOnce, OfMarked
    <3>3. IsOf(pending[j], pending[k])
      BY <2>1, <3>2 DEF IsOf
    <3>4. j = k
      BY <3>3 DEF AheadOnce, AllUnlike
    <3> QED BY <2>1, <3>2, <3>4
  <2> QED BY <1>1, <2>1 DEF NoneOfUnmarked
<1>7. AheadOnce(pending', next', nextLen', sn, fr) /\ Apart(pending', todo')
  <2>1. AllOwn(<<>>, sn, fr) /\ AllUnlike(<<>>) /\ Apart(<<>>, pending)
    BY DEF AllOwn, AllUnlike, Apart, Unlike
  <2>2. SoundTo(next', 0, sn, fr) /\ OfMarked(next', 0, <<>>)
    BY DEF SoundTo, OfMarked, Positions
  <2> QED BY <1>1, <2>1, <2>2 DEF AheadOnce
<1> QED BY <1>1, <1>5, <1>6, <1>7 DEF AheadOnce, MixOnce

LEMMA OwnTail ==
    ASSUME NEW q \in Seq(Waiting), q # <<>>, NEW sn, NEW fr, AllOwn(q, sn, fr), AllUnlike(q)
    PROVE  /\ Head(q) \in Waiting /\ Tail(q) \in Seq(Waiting)
           /\ OwnEntry(Head(q), sn, fr) /\ AllOwn(Tail(q), sn, fr) /\ AllUnlike(Tail(q))
           /\ \A j \in 1..Len(Tail(q)) : ~IsOf(Head(q), Tail(q)[j])
           /\ \A b, l : NoneOfUnmarked(b, l, q) => NoneOfUnmarked(b, l, Tail(q))
           /\ \A t : Apart(t, q) => Apart(t, Tail(q)) /\ Unlike(t, Head(q))
<1> DEFINE t == Tail(q)
<1>1. /\ Head(q) \in Waiting /\ t \in Seq(Waiting) /\ Head(q) = q[1] /\ 1 \in 1..Len(q)
      /\ \A j \in 1..Len(t) : t[j] = q[j + 1] /\ j + 1 \in 1..Len(q) /\ 1 # j + 1
      /\ \A j \in 1..Len(t) : \A k \in 1..Len(t) : j + 1 = k + 1 => j = k
  OBVIOUS
<1> HIDE DEF t
<1>2. OwnEntry(Head(q), sn, fr) /\ AllOwn(t, sn, fr)
  BY <1>1 DEF AllOwn
<1>3. AllUnlike(t) /\ \A j \in 1..Len(t) : ~IsOf(Head(q), t[j])
  BY <1>1 DEF AllUnlike
<1>4. \A b, l : NoneOfUnmarked(b, l, q) => NoneOfUnmarked(b, l, t)
  BY <1>1 DEF NoneOfUnmarked
<1>5. \A u : Apart(u, q) => Apart(u, t) /\ Unlike(u, Head(q))
  BY <1>1 DEF Apart
<1> QED BY <1>1, <1>2, <1>3, <1>4, <1>5 DEF t

LEMMA FadedSound ==
    ASSUME NEW samples \in Seq(Heard), NEW tail \in Heard, Bodies(tail) = {}, NEW sn, NEW fr,
           AllSound(samples, sn, fr)
    PROVE  AllSound(Faded(samples, tail), sn, fr)
<1> DEFINE f == Faded(samples, tail)
<1>1. /\ f = [k \in 1..Len(samples) |-> IF k = 1 THEN samples[k] (+) tail ELSE samples[k]]
      /\ Len(f) = Len(samples)
      /\ \A k \in 1..Len(samples) : Bodies(f[k]) = Bodies(samples[k])
  BY FadedIs DEF Faded
<1> HIDE DEF f
<1>2. ASSUME NEW k \in 1..Len(samples) PROVE Once(f[k]) /\ \A x \in Bodies(f[k]) : Spent(x, sn, fr)
  <2> DEFINE a == samples[k]
  <2>1. Once(a) /\ \A x \in Bodies(a) : Spent(x, sn, fr)
    BY DEF AllSound
  <2>2. f[k] = a \/ f[k] = a (+) tail
    BY <1>1
  <2> HIDE DEF a
  <2>3. Once(tail)
    BY DEF Once
  <2>4. Once(a (+) tail)
    BY <2>1, <2>3, OnceSum
  <2>5. Bodies(f[k]) = Bodies(a)
    BY <1>1 DEF a
  <2> QED BY <2>1, <2>2, <2>4, <2>5
<1> QED BY <1>1, <1>2 DEF AllSound, f

\* One entry more in the mix, one less to be placed.
LEMMA MixedOnce ==
    ASSUME WaitOk, CountOk, todo # <<>>, NEW audio \in Seq(Heard), Len(audio) = Len(Head(todo).samples),
           \A k \in 1..Len(audio) : Bodies(audio[k]) = Bodies(Head(todo).samples[k]),
           NEW sn, NEW fr, AllSound(audio, sn, fr), MixOnce(todo, mix, mixLen, sn, fr),
           mix' = MixedWith(Head(todo), audio), mixLen' = MixedLen(Head(todo), audio)
    PROVE  MixOnce(Tail(todo), mix', mixLen', sn, fr)
<1> DEFINE r == Head(todo)
           q == Tail(todo)
<1>1. /\ r \in Waiting /\ q \in Seq(Waiting) /\ OwnEntry(r, sn, fr) /\ AllOwn(q, sn, fr) /\ AllUnlike(q)
      /\ \A j \in 1..Len(q) : ~IsOf(r, q[j])
      /\ NoneOfUnmarked(mix, mixLen, q)
  BY OwnTail DEF WaitOk, MixOnce
<1>2. SoundTo(mix, mixLen, sn, fr)
  BY DEF MixOnce
<1>3. /\ r.premixed => mix' = mix /\ mixLen' = mixLen
      /\ ~r.premixed => mix' = SummedIn(mix, mixLen, audio, 0) /\ mixLen' = SummedLen(mixLen, audio, 0)
  BY DEF MixedWith, MixedLen
<1>4. ~r.premixed => \A i \in Positions : i < mixLen => \A x \in Bodies(mix[i]) : ~IsOf(x, r)
  <2>1. r = todo[1] /\ 1 \in 1..Len(todo)
    BY DEF WaitOk
  <2> QED BY <2>1 DEF MixOnce, NoneOfUnmarked
<1>5. \A k \in 1..Len(audio) : \A x \in Bodies(audio[k]) : IsOf(x, r)
  BY <1>1 DEF OwnEntry
<1> HIDE DEF r, q
<1>6. CASE r.premixed
  BY <1>1, <1>2, <1>3, <1>6 DEF MixOnce, q
<1>7. CASE ~r.premixed
  <2> DEFINE b == SummedIn(mix, mixLen, audio, 0)
             l == SummedLen(mixLen, audio, 0)
  <2>1. NothingShared(audio, 0, mix, mixLen)
    <3>1. ASSUME NEW i \in Positions, i < mixLen, i >= 0, i < 0 + Len(audio), NEW x \in Bodies(mix[i])
          PROVE  x \notin Bodies(audio[i - 0 + 1])
      <4>1. i - 0 + 1 \in 1..Len(audio)
        BY <3>1, CapAssumption DEF Positions
      <4> QED BY <1>4, <1>5, <1>7, <3>1, <4>1
    <3> QED BY <3>1 DEF NothingShared
  <2>2. mixLen \in 0..Cap /\ \A i \in Positions : i < 0 => i < mixLen
    BY DEF CountOk, Positions
  <2>3. SoundTo(b, l, sn, fr) /\ FromEither(b, l, mix, mixLen, audio)
    BY <1>2, <2>1, <2>2, SummedSound
  <2>4. mix' = b /\ mixLen' = l
    BY <1>3, <1>7
  <2> HIDE DEF b, l
  <2>5. NoneOfUnmarked(b, l, q)
    <3>1. ASSUME NEW i \in Positions, i < l, NEW x \in Bodies(b[i]), NEW j \in 1..Len(q), ~q[j].premixed,
                 IsOf(x, q[j])
          PROVE  FALSE
      <4>1. (i < mixLen /\ x \in Bodies(mix[i])) \/ \E k \in 1..Len(audio) : x \in Bodies(audio[k])
        BY <2>3, <3>1 DEF FromEither
      <4>2. CASE i < mixLen /\ x \in Bodies(mix[i])
        BY <1>1, <3>1, <4>2 DEF NoneOfUnmarked
      <4>3. CASE \E k \in 1..Len(audio) : x \in Bodies(audio[k])
        <5>1. IsOf(x, r)
          BY <1>5, <4>3
        <5>2. IsOf(r, q[j])
          BY <3>1, <5>1 DEF IsOf
        <5> QED BY <1>1, <5>2
      <4> QED BY <4>1, <4>2, <4>3
    <3> QED BY <3>1 DEF NoneOfUnmarked
  <2> QED BY <1>1, <2>3, <2>4, <2>5 DEF MixOnce, q
<1> QED BY <1>6, <1>7

LEMMA OwnSound ==
    ASSUME NEW e, NEW sn, NEW fr, OwnEntry(e, sn, fr)
    PROVE  AllSound(e.samples, sn, fr)
BY DEF OwnEntry, AllSound, Once

LEMMA PlaceOnce ==
    ASSUME TableInv, HeldOk, WaitOk, CountOk, PlaceInSlot \/ MergeIntoFirst, NEW sn, NEW fr,
           MixOnce(todo, mix, mixLen, sn, fr), Apart(pending, todo)
    PROVE  /\ MixOnce(todo', mix', mixLen', sn, fr) /\ Apart(pending', todo')
           /\ UNCHANGED <<next, nextLen, pending>>
<1> DEFINE r == Head(todo)
           t == r.samples
<1>1. /\ todo # <<>> /\ todo' = Tail(todo) /\ UNCHANGED <<next, nextLen, pending>>
  BY DEF PlaceInSlot, MergeIntoFirst
<1>2. r \in Waiting /\ OwnEntry(r, sn, fr) /\ Apart(pending', todo')
  BY <1>1, OwnTail DEF WaitOk, MixOnce
<1>3. t \in Seq(Heard) /\ AllSound(t, sn, fr)
  BY <1>2, OwnSound DEF Waiting
<1>4. CASE MergeIntoFirst
  <2>1. mix' = MixedWith(r, t) /\ mixLen' = MixedLen(r, t)
    BY <1>4 DEF MergeIntoFirst
  <2> QED BY <1>1, <1>2, <1>3, <2>1, MixedOnce
<1>5. CASE PlaceInSlot
  <2> DEFINE m == MappingOf(r.peer, r.stream)
             i == Assign(table, m).slot
             tail == Taken(r, i).tail
             heard == Faded(t, tail)
  <2>1. i # None /\ mix' = MixedWith(r, heard) /\ mixLen' = MixedLen(r, heard)
    BY <1>5 DEF PlaceInSlot
  <2>2. m \in Mappings
    BY <1>2, MappingIs DEF Waiting, TableInv
  <2>3. i \in SlotNums
    BY <2>1, <2>2, AssignIs DEF TableInv
  <2> HIDE DEF i, m
  <2>4. tail \in Heard /\ Bodies(tail) = {}
    <3>1. EmptyBag \in Heard /\ Bodies(EmptyBag) = {}
      BY SumAlgebra
    <3> QED BY <2>3, <3>1 DEF Taken, HeldOk
  <2> HIDE DEF tail
  <2>5. /\ heard \in Seq(Heard) /\ Len(heard) = Len(t) /\ AllSound(heard, sn, fr)
        /\ \A k \in 1..Len(heard) : Bodies(heard[k]) = Bodies(t[k])
    BY <1>3, <2>4, FadedIs, FadedSound
  <2> HIDE DEF heard
  <2> QED BY <1>1, <1>2, <2>1, <2>5, MixedOnce
<1> QED BY <1>4, <1>5

LEMMA KeepOnce ==
    ASSUME WaitOk, KeepOrEvict, NEW sn, NEW fr,
           AheadOnce(pending, next, nextLen, sn, fr), MixOnce(todo, mix, mixLen, sn, fr), Apart(pending, todo)
    PROVE  /\ AheadOnce(pending', next', nextLen', sn, fr) /\ MixOnce(todo', mix', mixLen', sn, fr)
           /\ Apart(pending', todo')
<1> DEFINE r == Head(todo)
           q == Tail(todo)
<1>1. /\ todo # <<>> /\ todo' = q /\ UNCHANGED <<mix, mixLen, next, nextLen>>
      /\ pending' = pending \/ pending' = Append(pending, r)
  BY DEF KeepOrEvict
<1>2. /\ r \in Waiting /\ q \in Seq(Waiting) /\ OwnEntry(r, sn, fr) /\ AllOwn(q, sn, fr) /\ AllUnlike(q)
      /\ \A j \in 1..Len(q) : ~IsOf(r, q[j])
      /\ NoneOfUnmarked(mix, mixLen, q) /\ Apart(pending, q) /\ Unlike(pending, r)
  BY <1>1, OwnTail DEF WaitOk, MixOnce
<1> HIDE DEF r, q
<1>3. MixOnce(todo', mix', mixLen', sn, fr)
  BY <1>1, <1>2 DEF MixOnce
<1>4. CASE pending' = pending
  BY <1>1, <1>2, <1>3, <1>4
<1>5. CASE pending' = Append(pending, r)
  <2>1. /\ AllOwn(pending', sn, fr) /\ AllUnlike(pending') /\ OfMarked(next, nextLen, pending')
    BY <1>2, <1>5, OwnAppend DEF AheadOnce, WaitOk
  <2>2. Apart(pending', q)
    <3>1. ASSUME NEW k \in 1..Len(q), NEW j \in 1..Len(pending') PROVE ~IsOf(pending'[j], q[k])
      <4>1. (j \in 1..Len(pending) /\ pending'[j] = pending[j]) \/ pending'[j] = r
        BY <1>5 DEF WaitOk
      <4> QED BY <1>2, <4>1 DEF Apart, Unlike
    <3> QED BY <3>1 DEF Apart, Unlike
  <2> QED BY <1>1, <1>3, <2>1, <2>2 DEF AheadOnce
<1> QED BY <1>1, <1>4, <1>5

\* How a stream's blocks are numbered: through its intervals, one after the other.
LEMMA NumberIs ==
    ASSUME NEW n \in Nat, NEW f, f.index = IndexAt(n), f.at = n % BlocksPer
    PROVE  Number(f) = n
<1> DEFINE q == n \div BlocksPer
           r == n % BlocksPer
           m == BlocksPer * q
<1>0. BlocksPer \in Nat \ {0}
  BY PluginAssumption
<1>1. r = n - m /\ q \in Nat
  BY <1>0
<1>2. f.index = q /\ f.at = r
  BY DEF IndexAt
<1> HIDE DEF q, r
<1>3. m \in Nat /\ q * BlocksPer = m
  BY <1>0, <1>1
<1>4. Number(f) = q * BlocksPer + r
  BY <1>2 DEF Number
<1> HIDE DEF m
<1>5. m + r = n
  BY <1>1, <1>3
<1> QED BY <1>3, <1>4, <1>5

LEMMA SameFrame ==
    ASSUME NEW x, NEW f, IsFrame(x, f)
    PROVE  x.peer = f.peer /\ x.stream = f.stream /\ Number(x) = Number(f)
BY DEF IsFrame, Number

\* A new block is not among those that have been sent.
LEMMA FrameIsNew ==
    ASSUME sent \in [Sources -> Nat], NEW x \in Sources,
           NEW f, f.peer = x[1], f.stream = x[2], Number(f) = sent[x]
    PROVE  /\ \A y : Sent(y, sent) => ~IsFrame(y, f)
           /\ \A y : Sent(y, sent) => Sent(y, [sent EXCEPT ![x] = @ + 1])
           /\ Sent(f, [sent EXCEPT ![x] = @ + 1])
<1> DEFINE sn == [sent EXCEPT ![x] = @ + 1]
<1>0. /\ \A z \in Sources : sent[z] \in Nat /\ sn[z] \in Nat /\ sent[z] <= sn[z]
      /\ sn[x] = sent[x] + 1
  OBVIOUS
<1>1. ASSUME NEW y, Sent(y, sent), IsFrame(y, f) PROVE FALSE
  <2>1. PICK z \in Sources : z[1] = y.peer /\ z[2] = y.stream /\ Number(y) < sent[z]
    BY <1>1 DEF Sent
  <2>2. z[1] = x[1] /\ z[2] = x[2] /\ Number(y) = sent[x]
    BY <1>1, <2>1, SameFrame
  <2>3. z = x
    <3>1. x \in PeerIds \X Streams /\ z \in PeerIds \X Streams
      BY PluginAssumption
    <3> QED BY <2>2, <3>1
  <2> QED BY <1>0, <2>1, <2>2, <2>3
<1> HIDE DEF sn
<1>2. ASSUME NEW y, Sent(y, sent) PROVE Sent(y, sn)
  <2>1. PICK z \in Sources : z[1] = y.peer /\ z[2] = y.stream /\ Number(y) < sent[z]
    BY <1>2 DEF Sent
  <2> DEFINE m == Number(y)
  <2>2. m \in Nat /\ m < sent[z]
    BY <1>2, <2>1 DEF Sent
  <2> HIDE DEF m
  <2>3. m < sn[z]
    BY <1>0, <2>2
  <2> QED BY <2>1, <2>2, <2>3 DEF Sent, m
<1>3. Sent(f, sn)
  BY <1>0 DEF Sent
<1> QED BY <1>1, <1>2, <1>3 DEF sn

LEMMA AudioFrameOnce ==
    ASSUME InputOk, FramesOnce(sent, frames), NEW x \in Sources, AudioFrame(x)
    PROVE  Passes(sent, frames, sent', frames') /\ FramesOnce(sent', frames')
<1> DEFINE f == [peer |-> x[1], stream |-> x[2], index |-> IndexAt(sent[x]), at |-> sent[x] % BlocksPer]
<1>0. sent \in [Sources -> Nat] /\ frames \in Seq(Frames)
  BY DEF InputOk
<1>1. /\ sent' = [sent EXCEPT ![x] = @ + 1]
      /\ frames' = frames \/ frames' = Append(frames, f)
  BY DEF AudioFrame, Offered
<1>2. f.peer = x[1] /\ f.stream = x[2] /\ Number(f) = sent[x]
  <2>1. sent[x] \in Nat
    BY <1>0
  <2>2. Number(f) = sent[x]
    BY <2>1, NumberIs
  <2> QED BY <2>2
<1> HIDE DEF f
<1>3. /\ \A y : Sent(y, sent) => ~IsFrame(y, f) /\ Sent(y, sent')
      /\ Sent(f, sent')
  BY <1>0, <1>1, <1>2, FrameIsNew
<1>4. CASE frames' = frames
  <2>1. Passes(sent, frames, sent', frames')
    BY <1>3, <1>4 DEF Passes, Spent
  <2>2. FramesOnce(sent', frames')
    BY <1>3, <1>4 DEF FramesOnce
  <2> QED BY <2>1, <2>2
<1>5. CASE frames' = Append(frames, f)
  <2>1. /\ Len(frames') = Len(frames) + 1 /\ Len(frames) \in Nat
        /\ \A j \in 1..Len(frames) : frames'[j] = frames[j]
        /\ frames'[Len(frames) + 1] = f
    BY <1>0, <1>5
  <2>2. \A j \in 1..Len(frames') : j \in 1..Len(frames) \/ j = Len(frames) + 1
    BY <2>1
  <2>3. ASSUME NEW y, Spent(y, sent, frames) PROVE Spent(y, sent', frames')
    <3>1. Sent(y, sent') /\ ~IsFrame(y, f)
      BY <1>3, <2>3 DEF Spent
    <3>2. ASSUME NEW j \in 1..Len(frames') PROVE ~IsFrame(y, frames'[j])
      BY <2>1, <2>2, <2>3, <3>1 DEF Spent
    <3> QED BY <3>1, <3>2 DEF Spent
  <2>4. ASSUME NEW j \in 1..Len(frames') PROVE Sent(frames'[j], sent')
    BY <1>3, <2>1, <2>2 DEF FramesOnce
  <2>5. ASSUME NEW j \in 1..Len(frames'), NEW k \in 1..Len(frames'), IsFrame(frames'[j], frames'[k])
        PROVE  j = k
    <3>1. CASE j \in 1..Len(frames) /\ k \in 1..Len(frames)
      BY <2>1, <2>5, <3>1 DEF FramesOnce
    <3>2. CASE j \in 1..Len(frames) /\ k = Len(frames) + 1
      BY <1>3, <2>1, <2>5, <3>2 DEF FramesOnce
    <3>3. CASE j = Len(frames) + 1 /\ k \in 1..Len(frames)
      <4>1. IsFrame(frames[k], f)
        BY <2>1, <2>5, <3>3 DEF IsFrame
      <4> QED BY <1>3, <3>3, <4>1 DEF FramesOnce
    <3> QED BY <2>2, <3>1, <3>2, <3>3
  <2> QED BY <2>3, <2>4, <2>5 DEF Passes, FramesOnce
<1> QED BY <1>1, <1>4, <1>5

\* A frame that is taken out of the channel was not spent, and is now.
LEMMA TakenOnce ==
    ASSUME InputOk, FramesOnce(sent, frames), frames # <<>>
    PROVE  LET f     == Head(frames)
               audio == <<Audio(f.peer, f.stream, f.index, f.at)>>
           IN  /\ Passes(sent, frames, sent, Tail(frames)) /\ FramesOnce(sent, Tail(frames))
               /\ AllSound(audio, sent, Tail(frames)) /\ Fresh(audio, sent, frames)
               /\ IsAudio(audio, f.peer, f.stream, f.index)
<1> DEFINE f == Head(frames)
           t == Tail(frames)
           a == Audio(f.peer, f.stream, f.index, f.at)
           b == Block(f.peer, f.stream, f.index, f.at, "body")
           audio == <<a>>
<1>0. /\ Len(frames) \in Nat /\ Len(t) = Len(frames) - 1 /\ f = frames[1] /\ 1 \in 1..Len(frames)
      /\ \A j \in 1..Len(t) : t[j] = frames[j + 1] /\ j + 1 \in 1..Len(frames) /\ j + 1 # 1
  BY DEF InputOk
<1>1. /\ b.peer = f.peer /\ b.stream = f.stream /\ b.index = f.index /\ b.at = f.at /\ b.part = "body"
  BY DEF Block
<1>2. a = [y \in {b} |-> 1]
  BY DEF Audio, SetToBag
<1>3. Len(audio) = 1 /\ audio[1] = a
  OBVIOUS
<1> HIDE DEF f, t, b, a
<1>4. DOMAIN a = {b} /\ a[b] = 1
  BY <1>2
<1>5. Bodies(a) = {b} /\ Once(a)
  BY <1>1, <1>4 DEF Bodies, Once
<1> HIDE DEF audio
<1>6. \A k \in 1..Len(audio) : audio[k] = a
  BY <1>3
<1>7. IsFrame(b, frames[1]) /\ IsFrame(frames[1], b)
  BY <1>0, <1>1 DEF IsFrame
<1>8. ASSUME NEW y, Spent(y, sent, frames) PROVE Spent(y, sent, t)
  BY <1>0, <1>8 DEF Spent
<1>9. FramesOnce(sent, t)
  <2>1. ASSUME NEW j \in 1..Len(t) PROVE Sent(t[j], sent)
    BY <1>0 DEF FramesOnce
  <2>2. ASSUME NEW j \in 1..Len(t), NEW k \in 1..Len(t), IsFrame(t[j], t[k]) PROVE j = k
    <3>1. j + 1 = k + 1
      BY <1>0, <2>2 DEF FramesOnce
    <3> QED BY <3>1
  <2> QED BY <2>1, <2>2 DEF FramesOnce
<1>10. Spent(b, sent, t)
  <2>1. Sent(b, sent)
    <3>1. Sent(frames[1], sent)
      BY <1>0 DEF FramesOnce
    <3>2. b.peer = frames[1].peer /\ b.stream = frames[1].stream /\ Number(b) = Number(frames[1])
      BY <1>7, SameFrame
    <3> QED BY <3>1, <3>2 DEF Sent
  <2>2. ASSUME NEW j \in 1..Len(t), IsFrame(b, t[j]) PROVE FALSE
    <3>1. IsFrame(frames[1], frames[j + 1])
      BY <1>0, <1>7, <2>2 DEF IsFrame
    <3> QED BY <1>0, <3>1 DEF FramesOnce
  <2> QED BY <2>1, <2>2 DEF Spent
<1>11. ~Spent(b, sent, frames)
  BY <1>0, <1>7 DEF Spent
<1>12. AllSound(audio, sent, t) /\ Fresh(audio, sent, frames)
  BY <1>5, <1>6, <1>10, <1>11 DEF AllSound, Fresh
<1>13. IsAudio(audio, f.peer, f.stream, f.index)
  BY <1>1, <1>5, <1>6 DEF IsAudio
<1>14. Passes(sent, frames, sent, t)
  BY <1>8 DEF Passes
<1> QED BY <1>9, <1>12, <1>13, <1>14 DEF f, t, a, audio

\* Nothing waits, nothing is mixed.
LEMMA NothingOnce ==
    ASSUME NEW buf, NEW sn, NEW fr
    PROVE  /\ AheadOnce(<<>>, buf, 0, sn, fr)
           /\ MixOnce(<<>>, buf, 0, sn, fr)
           /\ \A q : Apart(q, <<>>)
<1>1. /\ Len(<<>>) = 0 /\ \A i \in Positions : ~(i < 0)
      /\ \A j : j \notin 1..0
  BY CapAssumption DEF Positions
<1>2. AllOwn(<<>>, sn, fr) /\ AllUnlike(<<>>)
  BY <1>1 DEF AllOwn, AllUnlike
<1>3. SoundTo(buf, 0, sn, fr) /\ OfMarked(buf, 0, <<>>) /\ NoneOfUnmarked(buf, 0, <<>>)
  BY <1>1 DEF SoundTo, OfMarked, NoneOfUnmarked
<1>4. \A q : Apart(q, <<>>)
  BY <1>1 DEF Apart
<1> QED BY <1>2, <1>3, <1>4 DEF AheadOnce, MixOnce

\* remove_peer: no entry is marked, and the buffer is empty.
LEMMA UnmarkedOnce ==
    ASSUME pending \in Seq(Waiting), NEW buf, NEW sn, NEW fr, AllOwn(pending, sn, fr), AllUnlike(pending)
    PROVE  AheadOnce(Unmarked, buf, 0, sn, fr)
<1> DEFINE u == Unmarked
<1>1. ASSUME NEW k \in 1..Len(pending)
      PROVE  LET e == [pending[k] EXCEPT !.premixed = FALSE]
             IN  /\ e.peer = pending[k].peer /\ e.stream = pending[k].stream
                 /\ e.index = pending[k].index /\ e.samples = pending[k].samples
  <2>1. pending[k] \in Waiting
    OBVIOUS
  <2> QED BY <2>1 DEF Waiting
<1>2. u = [k \in 1..Len(pending) |-> [pending[k] EXCEPT !.premixed = FALSE]]
  BY DEF Unmarked
<1> HIDE DEF u
<1>3. Len(u) = Len(pending)
  BY <1>2
<1>4. ASSUME NEW k \in 1..Len(pending)
      PROVE  /\ u[k].peer = pending[k].peer /\ u[k].stream = pending[k].stream
             /\ u[k].index = pending[k].index /\ u[k].samples = pending[k].samples
  BY <1>1, <1>2
<1>5. AllOwn(u, sn, fr)
  BY <1>3, <1>4 DEF AllOwn, OwnEntry, IsOf
<1>6. AllUnlike(u)
  BY <1>3, <1>4 DEF AllUnlike, IsOf
<1>7. SoundTo(buf, 0, sn, fr) /\ OfMarked(buf, 0, u)
  BY CapAssumption DEF SoundTo, OfMarked, Positions
<1> QED BY <1>5, <1>6, <1>7 DEF AheadOnce, u

\* Every step keeps the blocks single, one case per action.
LEMMA OnceStep ==
    ASSUME TableInv, HeardInv, CoverInv, OnceInv, [Next]_vars, ~restarted'
    PROVE  OnceInv'
<1>0. HeldOk /\ WaitOk /\ CountOk /\ InputOk
  BY DEF HeardInv
<1>w. pending \in Seq(Waiting) /\ todo \in Seq(Waiting) /\ (phase # "swap" => todo = <<>>)
  BY <1>0 DEF WaitOk
<1>o. /\ FramesOnce(sent, frames)
      /\ AheadOnce(pending, next, nextLen, sent, frames)
      /\ MixOnce(todo, mix, mixLen, sent, frames)
      /\ Apart(pending, todo)
  BY DEF OnceInv
<1>e. ASSUME Passes(sent, frames, sent', frames')
      PROVE  /\ AheadOnce(pending, next, nextLen, sent', frames')
             /\ MixOnce(todo, mix, mixLen, sent', frames')
  BY <1>e, <1>o, SpentFollows DEF Passes, AheadOnce, MixOnce
<1>i. ASSUME FramesOnce(sent', frames'),
             AheadOnce(pending', next', nextLen', sent', frames'),
             MixOnce(todo', mix', mixLen', sent', frames'), Apart(pending', todo')
      PROVE  OnceInv'
  BY <1>i DEF OnceInv
<1> HIDE DEF OnceInv
<1>a. ASSUME UNCHANGED <<pending, next, nextLen, todo, mix, mixLen, sent, frames>> PROVE OnceInv'
  BY <1>a, <1>i, <1>o
<1>c. ASSUME FramesOnce(sent', frames'), pending' = <<>>, nextLen' = 0, todo' = <<>>, mixLen' = 0
      PROVE  OnceInv'
  BY <1>c, <1>i, NothingOnce
<1>n. FramesOnce(sent, <<>>)
  <2>1. \A j : j \notin 1..Len(<<>>)
    OBVIOUS
  <2> QED BY <2>1 DEF FramesOnce
<1>1. CASE \/ UNCHANGED vars \/ Connect \/ Disconnect
           \/ \E p \in PeerIds : PeerJoined(p) \/ PeerEnters(p) \/ PeerLeft(p)
           \/ OnConnected \/ EventsDrained
  <2>1. UNCHANGED ringVars /\ UNCHANGED <<sent, frames>>
    BY <1>1 DEF vars, envVars, Connect, Disconnect, PeerJoined, PeerEnters, PeerLeft, OnConnected, EventsDrained
  <2> QED BY <1>a, <2>1 DEF ringVars
<1>2. CASE OnJoined \/ PlayBlock
  <2>1. UNCHANGED <<pending, next, nextLen, todo, mix, mixLen, sent, frames>>
    BY <1>2 DEF OnJoined, NotifyPeerJoined, PlayBlock, Play, envVars
  <2> QED BY <1>a, <2>1
<1>3. CASE \E x \in Sources : AudioFrame(x)
  <2>1. PICK x \in Sources : AudioFrame(x)
    BY <1>3
  <2>2. Passes(sent, frames, sent', frames') /\ FramesOnce(sent', frames')
    BY <1>0, <1>o, <2>1, AudioFrameOnce
  <2>3. UNCHANGED <<pending, next, nextLen, todo, mix, mixLen>>
    BY <2>1 DEF AudioFrame, ringVars
  <2> QED BY <1>e, <1>i, <1>o, <2>2, <2>3
<1>4. CASE OnLeft
  <2>1. /\ pending' = Unmarked /\ nextLen' = 0 /\ todo = <<>>
        /\ UNCHANGED <<todo, mix, mixLen, sent, frames>>
    BY <1>4, <1>w DEF OnLeft, RemovePeer, NextEvent, envVars
  <2>2. AheadOnce(pending', next', nextLen', sent', frames')
    BY <1>o, <1>w, <2>1, UnmarkedOnce DEF AheadOnce
  <2>3. Apart(pending', todo')
    BY <2>1, NothingOnce
  <2> QED BY <1>i, <1>o, <2>1, <2>2, <2>3
<1>5. CASE OnDisconnected \/ HostResets \/ Initialize
  <2>1. /\ pending' = <<>> /\ nextLen' = 0 /\ todo' = <<>> /\ mixLen' = 0
        /\ sent' = sent /\ frames' \in {frames, <<>>}
    BY <1>5, <1>w DEF OnDisconnected, HostResets, Initialize, NextEvent, Reset, RingRenewed, envVars
  <2> QED BY <1>c, <1>n, <1>o, <2>1
<1>6. CASE OnFrame
  <2> DEFINE f == Head(frames)
             audio == <<Audio(f.peer, f.stream, f.index, f.at)>>
  <2>1. /\ FeedRemote(f.peer, f.stream, f.index, audio) /\ frames # <<>>
        /\ todo = <<>> /\ frames' = Tail(frames) /\ sent' = sent
    BY <1>6, <1>w DEF OnFrame, envVars
  <2>2. f \in Frames /\ audio \in Seq(Heard)
    BY <2>1, FrameHeard
  <2>3. f.peer \in PeerIds /\ f.stream \in Streams /\ f.index \in Nat
    BY <2>2 DEF Frames
  <2>4. /\ Passes(sent, frames, sent', frames') /\ FramesOnce(sent', frames')
        /\ AllSound(audio, sent', frames') /\ Fresh(audio, sent, frames)
        /\ IsAudio(audio, f.peer, f.stream, f.index)
    BY <1>0, <1>o, <2>1, TakenOnce
  <2> HIDE DEF f, audio
  <2>5. CASE LiveAppend(f.peer, f.stream, f.index, audio)
    <3>1. \A i \in SlotNums : Within(slots[i].samples, mix, mixLen)
      BY DEF CoverInv
    <3>2. SoundTo(mix, mixLen, sent, frames)
      BY <1>o DEF MixOnce
    <3>3. SoundTo(mix', mixLen', sent', frames') /\ UNCHANGED <<next, nextLen, pending, todo>>
      BY <1>0, <2>2, <2>4, <2>5, <3>1, <3>2, LiveAppendOnce
    <3>4. MixOnce(todo', mix', mixLen', sent', frames')
      <4>1. \A j : j \notin 1..Len(<<>>)
        OBVIOUS
      <4>2. AllOwn(<<>>, sent', frames') /\ AllUnlike(<<>>) /\ NoneOfUnmarked(mix', mixLen', <<>>)
        BY <4>1 DEF AllOwn, AllUnlike, NoneOfUnmarked
      <4> QED BY <2>1, <3>3, <4>2 DEF MixOnce
    <3> QED BY <1>e, <1>i, <1>o, <2>4, <3>3, <3>4
  <2>6. CASE Queue(f.peer, f.stream, f.index, audio)
    <3>1. AllIn(pending, current, next, nextLen) /\ nextLen \in 0..Cap
      BY <1>0 DEF CoverInv, CountOk
    <3>2. AheadOnce(pending', next', nextLen', sent', frames')
      BY <1>o, <1>w, <2>2, <2>3, <2>4, <2>6, <3>1, QueueOnce
    <3>3. UNCHANGED <<mix, mixLen, todo>>
      BY <2>6 DEF Queue
    <3>4. Apart(pending', todo')
      BY <2>1, <3>3, NothingOnce
    <3> QED BY <1>e, <1>i, <2>4, <3>2, <3>3, <3>4
  <2> QED BY <2>1, <2>5, <2>6 DEF FeedRemote
<1>7. CASE FramesDrained
  <2>1. UNCHANGED <<sent, frames>>
    BY <1>7 DEF FramesDrained, envVars
  <2>2. CASE NoBoundary(remote)
    BY <1>a, <2>1, <2>2 DEF NoBoundary
  <2>3. CASE Swap(remote)
    <3>1. remote \in Nat \cup {None}
      BY <1>0 DEF InputOk
    <3>2. /\ MixOnce(todo', mix', mixLen', sent, frames) /\ AheadOnce(pending', next', nextLen', sent, frames)
          /\ Apart(pending', todo')
      BY <1>0, <1>o, <2>3, <3>1, SwapOnce
    <3> QED BY <1>i, <1>o, <2>1, <3>2
  <2> QED BY <1>7, <2>2, <2>3 DEF FramesDrained
<1>8. CASE PlaceEntry
  <2>1. UNCHANGED <<sent, frames>>
    BY <1>8 DEF PlaceEntry, envVars
  <2>2. CASE KeepOrEvict
    <3>1. /\ AheadOnce(pending', next', nextLen', sent, frames) /\ MixOnce(todo', mix', mixLen', sent, frames)
          /\ Apart(pending', todo')
      BY <1>0, <1>o, <2>2, KeepOnce
    <3> QED BY <1>i, <1>o, <2>1, <3>1
  <2>3. CASE PlaceInSlot \/ MergeIntoFirst
    <3>1. /\ MixOnce(todo', mix', mixLen', sent, frames) /\ Apart(pending', todo')
          /\ UNCHANGED <<next, nextLen, pending>>
      BY <1>0, <1>o, <2>3, PlaceOnce
    <3> QED BY <1>i, <1>o, <2>1, <3>1
  <2> QED BY <1>8, <2>2, <2>3 DEF PlaceEntry
<1>9. CASE TransportRestarts
  BY <1>9 DEF TransportRestarts
<1> QED
  BY <1>1, <1>2, <1>3, <1>4, <1>5, <1>6, <1>7, <1>8, <1>9 DEF Next

\* No block of audio is in the main mix twice, as long as the transport has not restarted:
\* what feed_remote appends while it plays, what it mixes ahead and what swap_intervals adds
\* for the entries that are not marked never overlap, with any streams, blocks and capacity.
THEOREM NothingMixedTwice == Spec => []NoDoubleMix
<1>1. (~restarted => OnceInv) => NoDoubleMix
  <2> SUFFICES ASSUME ~restarted, OnceInv, NEW i \in Positions, i < mixLen,
                      NEW x \in BagToSet(mix[i]), x.part = "body"
               PROVE  mix[i][x] = 1
    BY DEF NoDoubleMix
  <2>1. x \in Bodies(mix[i])
    BY DEF Bodies, BagToSet
  <2> QED BY <2>1 DEF OnceInv, MixOnce, SoundTo
<1>2. Init => OnceInv
  <2> SUFFICES ASSUME Init PROVE OnceInv
    OBVIOUS
  <2>1. pending = <<>> /\ nextLen = 0 /\ todo = <<>> /\ mixLen = 0 /\ frames = <<>>
    BY DEF Init, RingInit
  <2>2. \A j : j \notin 1..Len(<<>>)
    OBVIOUS
  <2>3. FramesOnce(sent, frames)
    BY <2>1, <2>2 DEF FramesOnce
  <2> QED BY <2>1, <2>3, NothingOnce DEF OnceInv
<1>3. TableInv /\ MixInv /\ (~restarted => OnceInv) /\ [Next]_vars
        => (TableInv /\ MixInv /\ (~restarted => OnceInv))'
  <2> SUFFICES ASSUME TableInv, MixInv, ~restarted => OnceInv, [Next]_vars
               PROVE  TableInv' /\ MixInv' /\ (~restarted' => OnceInv')
    OBVIOUS
  <2>1. ~restarted' => ~restarted
    BY RestartedForGood
  <2>2. ~restarted' => OnceInv'
    BY <2>1, OnceStep DEF MixInv
  <2> QED BY <2>2, TableStep, MixStep
<1> QED BY <1>1, <1>2, <1>3, TableInit, MixInit, PTL DEF Spec
=============================================================================
