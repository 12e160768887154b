---------------------- MODULE PartitionPrograms_proofs ----------------------
(***************************************************************************)
(* A handle to a partition stays good while programs make, move and drop   *)
(* entries of the table it is in: theorems of PartitionPrograms, for every *)
(* number of devices and handles, any drives and any options.              *)
(*                                                                         *)
(* UseInv says of each cached table that the reference counts are those of *)
(* the handles, and that a handle's entry is where and what it was when it *)
(* was opened.  Validation and tivo_partition_add change only entries      *)
(* without handles: those from "startpart" up and free ones (Kept).        *)
(***************************************************************************)
EXTENDS PartitionPrograms, FiniteSetTheorems, WellFoundedInduction, TLAPS

-----------------------------------------------------------------------------
(* Least and greatest numbers, and the members of a set in their order.    *)

\* A set of numbers has a least one, and one with a bound a greatest.
LEMMA LeastIs ==
  ASSUME NEW S, S \subseteq Nat, S # {}
  PROVE  \E m \in S : \A n \in S : m <= n
<1>1. PICK m \in S : \A n \in S : ~(<<n, m>> \in OpToRel(<, Nat))
  BY NatLessThanWellFounded, WFMin
<1>2. \A n \in S : ~(n < m)
  BY <1>1 DEF OpToRel
<1> QED BY <1>2

\* The greatest member.
LEMMA GreatestIs ==
  ASSUME NEW N \in Nat, NEW S, S \subseteq 0..N, S # {}
  PROVE  \E m \in S : \A n \in S : n <= m
<1> DEFINE B == {k \in Nat : \A n \in S : n <= k}
<1>1. N \in B
  OBVIOUS
<1>2. PICK k \in B : \A l \in B : k <= l
  <2>1. B \subseteq Nat /\ B # {}
    BY <1>1
  <2> HIDE DEF B
  <2> QED BY <2>1, LeastIs
<1>3. k \in S
  <2> SUFFICES ASSUME k \notin S PROVE FALSE
    OBVIOUS
  <2>1. \A n \in S : n \in Nat /\ n <= k /\ n # k
    BY <1>2
  <2>2. k # 0
    <3>1. PICK n \in S : TRUE
      OBVIOUS
    <3> QED BY <2>1, <3>1
  <2>3. k - 1 \in B
    BY <1>2, <2>1, <2>2
  <2> QED BY <1>2, <2>3
<1> QED BY <1>2, <1>3

\* How many members of S are no larger than n.
UpTo(S, n) == {m \in S : m <= n}

\* Counting the entries of a table with some quality.
LEMMA SubsetsFinite ==
  ASSUME NEW N \in Nat, NEW S, S \subseteq 1..N
  PROVE  IsFiniteSet(S) /\ Cardinality(S) \in Nat /\ Cardinality(S) <= N
<1>1. IsFiniteSet(1..N) /\ Cardinality(1..N) = N
  BY FS_Interval
<1>2. IsFiniteSet(S) /\ Cardinality(S) <= N
  BY <1>1, FS_Subset
<1> QED BY <1>2, FS_CardinalityType

\* How many members there are up to n.
LEMMA UpToIs ==
  ASSUME NEW N \in Nat, NEW S, S \subseteq 1..N, NEW n \in 0..N
  PROVE  /\ IsFiniteSet(UpTo(S, n)) /\ Cardinality(UpTo(S, n)) \in Nat
         /\ n = N => UpTo(S, n) = S
         /\ n = 0 => Cardinality(UpTo(S, n)) = 0
         /\ 1..n \subseteq S => Cardinality(UpTo(S, n)) = n
<1>0. \A m \in S : m \in Nat /\ m >= 1 /\ m <= N
  OBVIOUS
<1>1. UpTo(S, n) \subseteq 1..N
  BY DEF UpTo
<1>2. IsFiniteSet(UpTo(S, n)) /\ Cardinality(UpTo(S, n)) \in Nat
  BY <1>1, SubsetsFinite
<1>3. ASSUME n = 0 PROVE Cardinality(UpTo(S, n)) = 0
  <2>1. \A k : k \notin UpTo(S, n)
    <3> SUFFICES ASSUME NEW k \in S, k <= n PROVE FALSE
      BY DEF UpTo
    <3> QED BY <1>0, <1>3
  <2>2. UpTo(S, n) = {}
    BY <2>1
  <2> QED BY <2>2, FS_EmptySet
<1>4. n = N => UpTo(S, n) = S
  BY <1>0 DEF UpTo
<1>5. ASSUME 1..n \subseteq S PROVE Cardinality(UpTo(S, n)) = n
  <2>1. UpTo(S, n) = 1..n
    <3>1. \A k : k \in UpTo(S, n) => k \in 1..n
      BY <1>0 DEF UpTo
    <3>2. \A k : k \in 1..n => k \in S /\ k <= n
      BY <1>5
    <3> QED BY <3>1, <3>2 DEF UpTo
  <2>2. n >= 1 => Cardinality(1..n) = n
    BY FS_Interval
  <2> QED BY <1>3, <2>1, <2>2
<1> QED BY <1>2, <1>3, <1>4, <1>5

\* Counting on by one.
LEMMA UpToNext ==
  ASSUME NEW N \in Nat, NEW S, S \subseteq 1..N, NEW m \in 0..N, NEW n \in 0..N, n = m + 1
  PROVE  /\ n \in S => Cardinality(UpTo(S, n)) = Cardinality(UpTo(S, m)) + 1
         /\ n \notin S => Cardinality(UpTo(S, n)) = Cardinality(UpTo(S, m))
<1>0. \A k \in S : k \in Nat /\ k >= 1 /\ k <= N
  OBVIOUS
<1>1. IsFiniteSet(UpTo(S, m)) /\ n \notin UpTo(S, m) /\ Cardinality(UpTo(S, m)) \in Nat
  <2>1. n \notin UpTo(S, m)
    BY DEF UpTo
  <2> QED BY <2>1, UpToIs
<1>4. \A k \in S : k <= n <=> k <= m \/ k = n
  BY <1>0
<1>2. CASE n \in S
  <2>1. UpTo(S, n) = UpTo(S, m) \cup {n}
    BY <1>2, <1>4 DEF UpTo
  <2> QED BY <1>1, <1>2, <2>1, FS_AddElement
<1>3. CASE n \notin S
  <2>1. UpTo(S, n) = UpTo(S, m)
    BY <1>3, <1>4 DEF UpTo
  <2> QED BY <1>3, <2>1
<1> QED BY <1>2, <1>3

\* There is an i-th member.
LEMMA NthIs ==
  ASSUME NEW N \in Nat, NEW S, S \subseteq 1..N, NEW i \in 1..Cardinality(S)
  PROVE  \E n \in S : Cardinality(UpTo(S, n)) = i
<1> DEFINE Reach == {n \in Nat : n <= N /\ Cardinality(UpTo(S, n)) >= i}
<1>0. N \in 0..N /\ 0 \in 0..N
  OBVIOUS
<1>1. /\ Cardinality(S) \in Nat /\ UpTo(S, N) = S /\ Cardinality(UpTo(S, 0)) = 0
  <2> HIDE DEF Reach
  <2> QED BY <1>0, UpToIs, SubsetsFinite
<1>2. N \in Reach
  BY <1>1
<1>3. PICK n \in Reach : \A m \in Reach : n <= m
  <2>1. Reach \subseteq Nat /\ Reach # {}
    BY <1>2
  <2> HIDE DEF Reach
  <2> QED BY <2>1, LeastIs
<1>4. n \in 0..N /\ Cardinality(UpTo(S, n)) >= i /\ n # 0
  BY <1>1, <1>3
<1>5. PICK m \in 0..N : n = m + 1
  <2>1. n - 1 \in 0..N /\ n = (n - 1) + 1
    BY <1>4
  <2> QED BY <2>1
<1>6. m \notin Reach
  <2> HIDE DEF Reach
  <2> QED BY <1>3, <1>5
<1>7. Cardinality(UpTo(S, m)) \in Nat /\ Cardinality(UpTo(S, n)) \in Nat
  BY <1>4, <1>5, UpToIs
<1>8. Cardinality(UpTo(S, m)) < i
  BY <1>5, <1>6, <1>7
<1> HIDE DEF Reach
<1>9. /\ n \in S => Cardinality(UpTo(S, n)) = Cardinality(UpTo(S, m)) + 1
      /\ n \notin S => Cardinality(UpTo(S, n)) = Cardinality(UpTo(S, m))
  <2>1. n \in 0..N /\ m \in 0..N /\ n = m + 1
    BY <1>4, <1>5
  <2> QED BY <2>1, UpToNext
<1> QED BY <1>1, <1>4, <1>7, <1>8, <1>9

-----------------------------------------------------------------------------
(* Tables: lists of entries, of which there is at least the map's own.     *)

IsEntry(p) ==
  /\ p = [start |-> p.start, sectors |-> p.sectors, name |-> p.name, type |-> p.type,
          refs |-> p.refs]
  /\ p.refs \in Nat \ {0}

IsList(parts) ==
  /\ \E S : parts \in Seq(S)
  /\ Len(parts) >= 1
  /\ \A n \in 1..Len(parts) : IsEntry(parts[n])

IsTable(t) ==
  /\ t = [parts |-> t.parts, devsize |-> t.devsize, valid |-> t.valid, dirty |-> t.dirty,
          noninit |-> t.noninit]
  /\ IsList(t.parts)

\* A new entry has no handles.
LEMMA EntryIs ==
  ASSUME NEW s, NEW k, NEW name, NEW type
  PROVE  /\ IsEntry(Entry(s, k, name, type)) /\ Entry(s, k, name, type).refs = 1
         /\ Entry(s, k, name, type).type = type
BY DEF Entry, IsEntry

\* An entry that is truncated.
Placed(p, s, k) == [p EXCEPT !.start = s, !.sectors = k]

\* An entry that is moved or shrunk keeps its handles and its type.
LEMMA PlacedIs ==
  ASSUME NEW p, IsEntry(p), NEW s, NEW k
  PROVE  LET q == Placed(p, s, k) IN IsEntry(q) /\ q.refs = p.refs /\ q.type = p.type
<1> DEFINE q == Placed(p, s, k)
<1>1. q = [start |-> s, sectors |-> k, name |-> p.name, type |-> p.type, refs |-> p.refs]
  <2> DEFINE r == [start |-> p.start, sectors |-> p.sectors, name |-> p.name, type |-> p.type,
                   refs |-> p.refs]
  <2>1. q = [r EXCEPT !.start = s, !.sectors = k]
    BY DEF IsEntry, Placed
  <2> QED BY <2>1
<1> QED BY <1>1 DEF IsEntry

\* A function on 1..k is a list.
LEMMA ListOf ==
  ASSUME NEW k \in Nat \ {0}, NEW f, f = [i \in 1..k |-> f[i]], \A i \in 1..k : IsEntry(f[i])
  PROVE  IsList(f) /\ Len(f) = k
<1>1. f \in Seq({f[i] : i \in 1..k}) /\ Len(f) = k
  OBVIOUS
<1>2. \E S : f \in Seq(S)
  BY <1>1
<1>3. Len(f) = k /\ k >= 1
  BY <1>1
<1>4. \A i \in 1..Len(f) : IsEntry(f[i])
  BY <1>3
<1> QED BY <1>2, <1>3, <1>4, Zenon DEF IsList

\* A list is a function on its places.
LEMMA ListIs ==
  ASSUME NEW parts, IsList(parts)
  PROVE  /\ Len(parts) \in Nat /\ Len(parts) >= 1
         /\ parts = [i \in 1..Len(parts) |-> parts[i]]
         /\ DOMAIN parts = 1..Len(parts)
<1>1. PICK S : parts \in Seq(S)
  BY DEF IsList
<1> QED BY <1>1 DEF IsList

\* A table is not the mark for none.
LEMMA TableIsNot ==
  ASSUME NEW t, IsTable(t)
  PROVE  t # NoTable
<1>1. "parts" \in DOMAIN t
  BY DEF IsTable
<1>2. DOMAIN NoTable = {}
  BY DEF NoTable
<1> QED BY <1>1, <1>2

-----------------------------------------------------------------------------
(* The operations on a table.                                              *)

\* What is at startpart or behind it is not in use.
LEMMA StartPartIs ==
  ASSUME NEW t, IsTable(t)
  PROVE  /\ StartPart(t) \in 2..(Len(t.parts) + 1)
         /\ \A n \in Numbers(t) : n >= StartPart(t) => t.parts[n].refs = 1
<1> DEFINE L == Len(t.parts)
<1>1. L \in Nat /\ L >= 1 /\ \A n \in 1..L : t.parts[n].refs \in Nat \ {0}
  BY ListIs DEF IsTable, IsList, IsEntry
<1>2. \A n \in Numbers(t) : n >= 2 /\ n \notin InUse(t) => t.parts[n].refs = 1
  BY <1>1 DEF InUse, Numbers
<1>3. CASE InUse(t) = {}
  BY <1>1, <1>2, <1>3 DEF StartPart
<1>4. CASE InUse(t) # {}
  <2>1. InUse(t) \subseteq 0..L
    BY <1>1 DEF InUse
  <2>2. PICK n \in InUse(t) : \A m \in InUse(t) : m <= n
    BY <1>1, <1>4, <2>1, GreatestIs
  <2> DEFINE top == CHOOSE k \in InUse(t) : \A m \in InUse(t) : m <= k
  <2>3. top \in InUse(t) /\ \A m \in InUse(t) : m <= top
    BY <2>2
  <2>4. StartPart(t) = 1 + top
    BY <1>4 DEF StartPart
  <2> HIDE DEF top
  <2>5. top \in 2..L
    BY <2>3 DEF InUse
  <2> QED BY <1>1, <1>2, <2>3, <2>4, <2>5 DEF Numbers
<1> QED BY <1>3, <1>4

\* Clearing a range leaves the entries before startpart where they are, and those that stay
\* behind it are not in use; no entry comes to it.
LEMMA ClearedIs ==
  ASSUME NEW t, IsTable(t), NEW r
  PROVE  LET left == Cleared(t, r) IN
         /\ IsList(left) /\ Len(left) >= StartPart(t) - 1
         /\ \A i \in 1..(StartPart(t) - 1) : left[i] = t.parts[i]
         /\ \A i \in 1..Len(left) : i >= StartPart(t) => left[i].refs = 1
         /\ Len(left) <= Len(t.parts)
         /\ \A i \in 1..Len(left) : \E n \in Numbers(t) :
              left[i] = t.parts[n] \/ left[i] = Truncated(t, n, r)
<1> DEFINE L == Len(t.parts)
           sp == StartPart(t)
           kept == Numbers(t) \ Deleted(t, r)
           Nth(i) == CHOOSE n \in kept : Cardinality({m \in kept : m <= n}) = i
           left == Cleared(t, r)
<1>1. L \in Nat /\ L >= 1 /\ sp \in 2..(L + 1) /\ \A n \in 1..L : IsEntry(t.parts[n])
  BY ListIs, StartPartIs DEF IsTable, IsList
<1>2. kept \subseteq 1..L /\ \A n \in 1..L : n < sp => n \in kept
  BY <1>1 DEF Numbers, Deleted, Inside
<1>3. left = [i \in 1..Cardinality(kept) |->
                IF i < sp THEN t.parts[i] ELSE Truncated(t, Nth(i), r)]
  BY DEF Cleared
<1>4. \A n \in 1..L : n >= sp => t.parts[n].refs = 1
  BY StartPartIs DEF Numbers
<1> HIDE DEF kept, sp, L
<1>5. Cardinality(kept) \in Nat /\ IsFiniteSet(kept) /\ Cardinality(kept) <= L
  BY <1>1, <1>2, SubsetsFinite
<1>6. Cardinality(kept) >= sp - 1
  <2>1. 1..(sp - 1) \subseteq kept /\ sp - 1 \in Nat /\ sp - 1 >= 1
    BY <1>1, <1>2
  <2>2. Cardinality(1..(sp - 1)) = sp - 1
    BY <2>1, FS_Interval
  <2> QED BY <1>5, <2>1, <2>2, FS_Subset
<1>7. ASSUME NEW i \in 1..Cardinality(kept), i >= sp
      PROVE  Nth(i) \in 1..L /\ Nth(i) >= sp
  <2>1. \E n \in kept : Cardinality(UpTo(kept, n)) = i
    BY <1>1, <1>2, NthIs
  <2>2. Nth(i) \in kept /\ Cardinality(UpTo(kept, Nth(i))) = i
    BY <2>1 DEF UpTo
  <2> HIDE DEF Nth
  <2>3. Nth(i) \in 0..L /\ Nth(i) \in 1..L
    <3>1. Nth(i) \in 1..L
      BY <1>2, <2>2
    <3> QED BY <1>1, <3>1
  <2>4. ASSUME Nth(i) < sp PROVE FALSE
    <3>1. 1..Nth(i) \subseteq kept
      BY <1>1, <1>2, <2>3, <2>4
    <3>2. Cardinality(UpTo(kept, Nth(i))) = Nth(i)
      BY <1>1, <1>2, <2>3, <3>1, UpToIs
    <3>3. Nth(i) = i
      BY <2>2, <3>2
    <3> QED BY <1>1, <1>5, <1>7, <2>4, <3>3
  <2> QED BY <1>1, <2>3, <2>4
<1>8. ASSUME NEW n \in 1..L PROVE IsEntry(Truncated(t, n, r)) /\ Truncated(t, n, r).refs = t.parts[n].refs
  <2>1. PICK p : p = t.parts[n]
    OBVIOUS
  <2>2. IsEntry(p)
    BY <1>1, <2>1
  <2>3. PICK q : q = Truncated(t, n, r)
    OBVIOUS
  <2>4. q = p \/ \E s, k : q = Placed(p, s, k)
    BY <2>1, <2>3 DEF Truncated, Placed
  <2>5. IsEntry(q) /\ q.refs = p.refs
    <3>1. CASE q = p
      BY <2>2, <3>1
    <3>2. ASSUME NEW s, NEW k, q = Placed(p, s, k)
          PROVE  IsEntry(q) /\ q.refs = p.refs
      BY <2>2, <3>2, PlacedIs
    <3> QED BY <2>4, <3>1, <3>2
  <2> QED BY <2>1, <2>3, <2>5
<1> HIDE DEF Nth
<1>9. ASSUME NEW i \in 1..Cardinality(kept)
      PROVE  /\ IsEntry(left[i])
             /\ i < sp => left[i] = t.parts[i]
             /\ i >= sp => left[i].refs = 1
             /\ \E n \in 1..L : left[i] = t.parts[n] \/ left[i] = Truncated(t, n, r)
  <2>1. CASE i < sp
    <3>1. i \in 1..L /\ left[i] = t.parts[i]
      BY <1>1, <1>3, <1>5, <2>1
    <3> QED BY <1>1, <1>5, <2>1, <3>1
  <2>2. CASE i >= sp
    <3>1. left[i] = Truncated(t, Nth(i), r)
      BY <1>1, <1>3, <1>5, <2>2
    <3>2. Nth(i) \in 1..L /\ Nth(i) >= sp
      BY <1>7, <2>2
    <3> QED BY <1>1, <1>4, <1>8, <1>5, <2>2, <3>1, <3>2
  <2> QED BY <1>1, <1>5, <2>1, <2>2
<1>10. IsList(left) /\ Len(left) = Cardinality(kept)
  <2>1. Cardinality(kept) \in Nat \ {0}
    BY <1>1, <1>5, <1>6
  <2>2. left = [i \in 1..Cardinality(kept) |-> left[i]]
    BY <1>3
  <2> HIDE DEF left
  <2> QED BY <1>9, <2>1, <2>2, ListOf
<1>11. \A i \in 1..(sp - 1) : i \in 1..Cardinality(kept) /\ i < sp
  BY <1>1, <1>5, <1>6
<1> HIDE DEF left
<1>12. /\ IsList(left) /\ Len(left) >= sp - 1
       /\ \A i \in 1..(sp - 1) : left[i] = t.parts[i]
       /\ \A i \in 1..Len(left) : i >= sp => left[i].refs = 1
       /\ Len(left) <= L
       /\ \A i \in 1..Len(left) : \E n \in 1..L :
            left[i] = t.parts[n] \/ left[i] = Truncated(t, n, r)
  BY <1>5, <1>6, <1>9, <1>10, <1>11
<1> QED BY <1>12 DEF left, sp, L, Numbers

\* The place behind which only free entries are, when none is asked for.
LEMMA PlaceIs ==
  ASSUME NEW parts, IsList(parts), NEW before \in Int
  PROVE  /\ PlaceIn(parts, before) \in 2..(Len(parts) + 1)
         /\ \/ before >= 2 /\ PlaceIn(parts, before) = before
            \/ \A n \in 2..Len(parts) : parts[n].type # "free" => n < PlaceIn(parts, before)
<1>1. Len(parts) \in Nat /\ Len(parts) >= 1
  BY ListIs
<1> DEFINE L == Len(parts)
           asked == ~(before > L + 1 \/ before <= 1)
           Tail2 == {n \in Nat : n >= 2 /\ n <= L + 1 /\ \A m \in n..L : parts[m].type = "free"}
           Good(n) == /\ \A m \in n..Len(parts) : parts[m].type = "free"
                      /\ n = 2 \/ parts[n - 1].type # "free"
<1>2. CASE asked
  BY <1>1, <1>2 DEF PlaceIn
<1>3. CASE ~asked
  <2>1. L + 1 \in Tail2
    BY <1>1
  <2>2. PICK n \in Tail2 : \A m \in Tail2 : n <= m
    <3>1. Tail2 \subseteq Nat /\ Tail2 # {}
      BY <2>1
    <3> HIDE DEF Tail2
    <3> QED BY <3>1, LeastIs
  <2>3. Good(n)
    <3> SUFFICES ASSUME n # 2, parts[n - 1].type = "free" PROVE FALSE
      BY <2>2
    <3>1. PICK k \in Nat : n = k + 1
      <4>1. n - 1 \in Nat /\ n = (n - 1) + 1
        BY <2>2
      <4> QED BY <4>1
    <3>2. k >= 2 /\ k <= L + 1
      BY <1>1, <2>2, <3>1
    <3>3. parts[k].type = "free"
      <4>1. n - 1 = k
        BY <3>1
      <4> QED BY <4>1
    <3>4. \A m \in k..L : m = k \/ m \in n..L
      BY <1>1, <3>1
    <3>5. k \in Tail2
      BY <2>2, <3>2, <3>3, <3>4
    <3> QED BY <2>2, <3>1, <3>5
  <2>4. n \in 2..(L + 1)
    BY <1>1, <2>2
  <2> DEFINE p == CHOOSE m \in 2..(L + 1) : Good(m)
  <2>5. p \in 2..(L + 1) /\ Good(p)
    <3> HIDE DEF Good
    <3> QED BY <2>3, <2>4
  <2>6. PlaceIn(parts, before) = p
    BY <1>3 DEF PlaceIn
  <2> HIDE DEF p
  <2>7. ASSUME NEW m \in 2..L, parts[m].type # "free" PROVE m < p
    BY <1>1, <2>5, <2>7
  <2> QED BY <2>5, <2>6, <2>7
<1> QED BY <1>2, <1>3

-----------------------------------------------------------------------------
(* A table of a device with what handles there are to it.                  *)

\* The handles to a partition.
HoldersOf(dev, n) == {h \in OpenOn(dev) : open[h].number = n}

\* A handle's entry is as it was opened, and is not free space.
InPlace(t, h) ==
  LET p == t.parts[open[h].number]
  IN  /\ open[h].number \in Numbers(t)
      /\ open[h].at = [start |-> p.start, sectors |-> p.sectors]
      /\ p.type # "free"

\* "refs" counts the handles, and one.
TableOn(t, dev) ==
  /\ IsTable(t)
  /\ \A n \in Numbers(t) : t.parts[n].refs = 1 + Cardinality(HoldersOf(dev, n))
  /\ \A h \in OpenOn(dev) : InPlace(t, h)

\* The handles to a partition can be counted; none is counted when there is none.
LEMMA HoldersAre ==
  ASSUME NEW dev, NEW n
  PROVE  /\ IsFiniteSet(HoldersOf(dev, n)) /\ Cardinality(HoldersOf(dev, n)) \in Nat
         /\ Cardinality(HoldersOf(dev, n)) = 0 <=> \A h \in OpenOn(dev) : open[h].number # n
<1>1. HoldersOf(dev, n) \subseteq Handles
  BY DEF HoldersOf, OpenOn
<1>2. IsFiniteSet(HoldersOf(dev, n))
  BY <1>1, HandlesOK, FS_Subset
<1>3. HoldersOf(dev, n) = {} <=> \A h \in OpenOn(dev) : open[h].number # n
  BY DEF HoldersOf
<1> QED BY <1>2, <1>3, FS_CardinalityType, FS_EmptySet

\* An entry with a count of one has no handle, and the other way round.
LEMMA UnusedIs ==
  ASSUME NEW t, NEW dev, TableOn(t, dev), NEW n \in Numbers(t)
  PROVE  t.parts[n].refs = 1 <=> \A h \in OpenOn(dev) : open[h].number # n
<1>1. t.parts[n].refs = 1 + Cardinality(HoldersOf(dev, n))
  BY DEF TableOn
<1>2. Cardinality(HoldersOf(dev, n)) \in Nat
  BY HoldersAre
<1>3. t.parts[n].refs = 1 <=> Cardinality(HoldersOf(dev, n)) = 0
  BY <1>1, <1>2
<1> QED BY <1>3, HoldersAre

\* What a change of a table must keep of the entries in use, and may do with the others.
Same(p, q) == p.start = q.start /\ p.sectors = q.sectors /\ p.type = q.type /\ p.refs = q.refs
Kept(t, u, dev) ==
  /\ \A h \in OpenOn(dev) : /\ open[h].number \in Numbers(u)
                            /\ Same(u.parts[open[h].number], t.parts[open[h].number])
  /\ \A n \in Numbers(u) : (\A h \in OpenOn(dev) : open[h].number # n) => u.parts[n].refs = 1

\* A change that keeps the entries in use keeps the table right.
LEMMA KeptOn ==
  ASSUME NEW t, NEW dev, TableOn(t, dev), NEW u, IsTable(u), Kept(t, u, dev)
  PROVE  TableOn(u, dev)
<1>1. ASSUME NEW h \in OpenOn(dev) PROVE InPlace(u, h)
  BY <1>1 DEF TableOn, InPlace, Kept, Same
<1>2. ASSUME NEW n \in Numbers(u) PROVE u.parts[n].refs = 1 + Cardinality(HoldersOf(dev, n))
  <2>1. CASE \A h \in OpenOn(dev) : open[h].number # n
    <3>1. u.parts[n].refs = 1
      BY <2>1 DEF Kept
    <3>2. Cardinality(HoldersOf(dev, n)) = 0
      BY <2>1, HoldersAre
    <3> QED BY <3>1, <3>2
  <2>2. ASSUME NEW h \in OpenOn(dev), open[h].number = n
        PROVE  u.parts[n].refs = 1 + Cardinality(HoldersOf(dev, n))
    BY <2>2 DEF TableOn, InPlace, Kept, Same
  <2> QED BY <2>1, <2>2
<1> QED BY <1>1, <1>2 DEF TableOn

-----------------------------------------------------------------------------
(* Validation.                                                             *)

Judged(t, v) == [t EXCEPT !.valid = v]
Longer(t, e) == [t EXCEPT !.parts = Append(@, e)]

\* The result of validation is noted in the table.
LEMMA JudgedOn ==
  ASSUME NEW t, NEW dev, TableOn(t, dev), NEW v
  PROVE  TableOn(Judged(t, v), dev)
<1> DEFINE u == Judged(t, v)
<1>1. u = [parts |-> t.parts, devsize |-> t.devsize, valid |-> v, dirty |-> t.dirty,
           noninit |-> t.noninit]
  <2> DEFINE r == [parts |-> t.parts, devsize |-> t.devsize, valid |-> t.valid, dirty |-> t.dirty,
                   noninit |-> t.noninit]
  <2>1. u = [r EXCEPT !.valid = v]
    BY DEF TableOn, IsTable, Judged
  <2> QED BY <2>1
<1> HIDE DEF u
<1>2. IsTable(u) /\ u.parts = t.parts
  BY <1>1 DEF TableOn, IsTable
<1> QED BY <1>2 DEF u, TableOn, InPlace, Numbers

\* An entry is added at the end.
LEMMA LongerOn ==
  ASSUME NEW t, NEW dev, TableOn(t, dev), NEW e, IsEntry(e), e.refs = 1
  PROVE  TableOn(Longer(t, e), dev)
<1> DEFINE u == Longer(t, e)
           L == Len(t.parts)
<1>0. L \in Nat /\ L >= 1 /\ \E S : t.parts \in Seq(S)
  BY ListIs DEF TableOn, IsTable, IsList
<1>1. u = [parts |-> Append(t.parts, e), devsize |-> t.devsize, valid |-> t.valid,
           dirty |-> t.dirty, noninit |-> t.noninit]
  <2> DEFINE r == [parts |-> t.parts, devsize |-> t.devsize, valid |-> t.valid, dirty |-> t.dirty,
                   noninit |-> t.noninit]
  <2>1. u = [r EXCEPT !.parts = Append(@, e)]
    BY DEF TableOn, IsTable, Longer
  <2> QED BY <2>1
<1> HIDE DEF u
<1>2. u.parts = Append(t.parts, e)
  BY <1>1
<1>3. /\ Len(u.parts) = L + 1 /\ \E S : u.parts \in Seq(S)
      /\ u.parts[L + 1] = e /\ \A n \in 1..L : u.parts[n] = t.parts[n]
  <2>1. PICK S : t.parts \in Seq(S)
    BY <1>0
  <2>2. t.parts \in Seq(S \cup {e}) /\ e \in S \cup {e}
    BY <2>1
  <2>3. u.parts \in Seq(S \cup {e})
    BY <1>2, <2>2
  <2> QED BY <1>2, <2>2, <2>3
<1>4. IsList(u.parts)
  <2>1. ASSUME NEW n \in 1..Len(u.parts) PROVE IsEntry(u.parts[n])
    <3>1. n = L + 1 \/ n \in 1..L
      BY <1>0, <1>3
    <3>2. \A m \in 1..L : IsEntry(t.parts[m])
      BY DEF TableOn, IsTable, IsList
    <3> QED BY <1>3, <3>1, <3>2
  <2> QED BY <1>0, <1>3, <2>1 DEF IsList
<1>5. IsTable(u)
  BY <1>1, <1>4 DEF IsTable
<1>6. Kept(t, u, dev)
  <2>1. ASSUME NEW h \in OpenOn(dev)
        PROVE  /\ open[h].number \in Numbers(u)
               /\ Same(u.parts[open[h].number], t.parts[open[h].number])
    <3>1. open[h].number \in 1..L
      BY DEF TableOn, InPlace, Numbers
    <3> QED BY <1>0, <1>3, <3>1 DEF Same, Numbers
  <2>2. ASSUME NEW n \in Numbers(u), \A h \in OpenOn(dev) : open[h].number # n
        PROVE  u.parts[n].refs = 1
    <3>1. CASE n \in 1..L
      <4>1. n \in Numbers(t)
        BY <3>1 DEF Numbers
      <4> QED BY <1>3, <2>2, <3>1, <4>1, UnusedIs
    <3>2. CASE n = L + 1
      BY <1>3, <3>2
    <3> QED BY <1>0, <1>3, <3>1, <3>2 DEF Numbers
  <2> QED BY <2>1, <2>2 DEF Kept
<1>7. TableOn(u, dev)
  BY <1>5, <1>6, KeptOn
<1> QED BY <1>7 DEF u

\* Validation gives the rest of the device an entry at the end, if anything.
LEMMA ValidateOn ==
  ASSUME NEW t, NEW dev, TableOn(t, dev)
  PROVE  TableOn(Validate(t), dev)
<1>1. \/ Validate(t) = t
      \/ \E v : Validate(t) = Judged(t, v)
      \/ \E v, s, k : Validate(t) = Judged(Longer(t, Entry(s, k, <<"Extra", 0>>, "free")), v)
  <2> DEFINE walk == Walk(t)
             tail == t.devsize - walk.upTo
             e == Entry(walk.upTo, tail, <<"Extra", 0>>, "free")
             v == \A n \in Numbers(t) : n \in walk.met \/ t.parts[n].sectors = 0
  <2>1. \/ Validate(t) = t
        \/ Validate(t) = Judged(IF tail > Slack THEN Longer(t, e) ELSE t, v)
    BY DEF Validate, Judged, Longer
  <2> HIDE DEF walk, v
  <2> QED BY <2>1
<1>2. ASSUME NEW v, Validate(t) = Judged(t, v) PROVE TableOn(Validate(t), dev)
  BY <1>2, JudgedOn
<1>3. ASSUME NEW v, NEW s, NEW k,
             Validate(t) = Judged(Longer(t, Entry(s, k, <<"Extra", 0>>, "free")), v)
      PROVE  TableOn(Validate(t), dev)
  <2>1. PICK e : e = Entry(s, k, <<"Extra", 0>>, "free")
    OBVIOUS
  <2>2. IsEntry(e) /\ e.refs = 1
    BY <2>1, EntryIs
  <2>3. TableOn(Longer(t, e), dev)
    BY <2>2, LongerOn
  <2> QED BY <1>3, <2>1, <2>3, JudgedOn
<1> QED BY <1>1, <1>2, <1>3

-----------------------------------------------------------------------------
(* tivo_partition_add.                                                     *)

\* The entries from a place on have moved up by one.
MovedUp(parts, at, p, new) ==
  /\ IsList(new) /\ Len(new) = Len(parts) + 1
  /\ \A i \in 1..(Len(parts) + 1) :
       /\ i < at => new[i] = parts[i]
       /\ i = at => new[i] = p
       /\ i > at => \E k \in 1..Len(parts) : i = k + 1 /\ new[i] = parts[k]

\* What stands where when an entry is put in.
LEMMA InsertedIs ==
  ASSUME NEW parts, IsList(parts), NEW at \in 2..(Len(parts) + 1), NEW p, IsEntry(p)
  PROVE  MovedUp(parts, at, p, Inserted(parts, at, p))
<1> DEFINE L == Len(parts)
           new == Inserted(parts, at, p)
<1>1. L \in Nat /\ L >= 1 /\ \A n \in 1..L : IsEntry(parts[n])
  BY ListIs DEF IsList
<1>2. new = [i \in 1..(L + 1) |-> IF i < at THEN parts[i] ELSE IF i = at THEN p ELSE parts[i - 1]]
  BY DEF Inserted
<1>3. ASSUME NEW i \in 1..(L + 1)
      PROVE  /\ i < at => new[i] = parts[i] /\ i \in 1..L
             /\ i = at => new[i] = p
             /\ i > at => \E k \in 1..L : i = k + 1 /\ new[i] = parts[k]
  <2>1. i \in Nat /\ at \in Nat /\ at >= 2 /\ at <= L + 1 /\ i >= 1 /\ i <= L + 1
    BY <1>1
  <2>2. i < at => new[i] = parts[i] /\ i \in 1..L
    BY <1>1, <1>2, <2>1
  <2>3. i = at => new[i] = p
    BY <1>2, <2>1
  <2>4. ASSUME i > at PROVE i - 1 \in 1..L /\ i = (i - 1) + 1 /\ new[i] = parts[i - 1]
    BY <1>1, <1>2, <2>1, <2>4
  <2> QED BY <2>2, <2>3, <2>4
<1> HIDE DEF new
<1>4. ASSUME NEW i \in 1..(L + 1) PROVE IsEntry(new[i])
  <2>1. i < at \/ i = at \/ i > at
    BY <1>1
  <2> QED BY <1>1, <1>3, <2>1
<1>5. IsList(new) /\ Len(new) = L + 1
  <2>1. L + 1 \in Nat \ {0}
    BY <1>1
  <2>2. new = [i \in 1..(L + 1) |-> new[i]]
    BY <1>2
  <2> QED BY <1>4, <2>1, <2>2, ListOf
<1>6. /\ IsList(new) /\ Len(new) = L + 1
      /\ \A i \in 1..(L + 1) : /\ i < at => new[i] = parts[i]
                               /\ i = at => new[i] = p
                               /\ i > at => \E k \in 1..L : i = k + 1 /\ new[i] = parts[k]
  BY <1>3, <1>5
<1> QED BY <1>6 DEF new, MovedUp

WithParts(t, parts) == [t EXCEPT !.parts = parts, !.dirty = TRUE]

\* A table with another list.
LEMMA WithPartsIs ==
  ASSUME NEW t, IsTable(t), NEW parts, IsList(parts)
  PROVE  IsTable(WithParts(t, parts)) /\ WithParts(t, parts).parts = parts
<1> DEFINE u == WithParts(t, parts)
<1>1. u = [parts |-> parts, devsize |-> t.devsize, valid |-> t.valid, dirty |-> TRUE,
           noninit |-> t.noninit]
  <2> DEFINE r == [parts |-> t.parts, devsize |-> t.devsize, valid |-> t.valid, dirty |-> t.dirty,
                   noninit |-> t.noninit]
  <2>1. u = [r EXCEPT !.parts = parts, !.dirty = TRUE]
    BY DEF IsTable, WithParts
  <2> QED BY <2>1
<1> QED BY <1>1 DEF IsTable

\* What is in use lies before startpart.
LEMMA InUseBefore ==
  ASSUME NEW t, NEW dev, TableOn(t, dev), NEW h \in OpenOn(dev)
  PROVE  open[h].number \in Numbers(t) /\ open[h].number < StartPart(t)
<1>1. open[h].number \in Numbers(t) /\ IsTable(t)
  BY DEF TableOn, InPlace
<1>2. t.parts[open[h].number].refs # 1
  BY <1>1, UnusedIs
<1> QED BY <1>1, <1>2, StartPartIs, ListIs DEF Numbers, IsTable

\* The new entry, and what makes room for it, are at startpart or behind it.
LEMMA AddedOn ==
  ASSUME NEW t, NEW dev, TableOn(t, dev),
         NEW size, NEW before \in Int, NEW name, NEW type
  PROVE  /\ TableOn(Added(t, size, before, name, type).table, dev)
         /\ Added(t, size, before, name, type).number \in Int
<1> DEFINE r == RangeFor(t, size)
           left == Cleared(t, r)
           at == PlaceIn(left, before)
           p == Entry(r.first, size, name, type)
           new == Inserted(left, at, p)
           u == WithParts(t, new)
           sp == StartPart(t)
           L == Len(left)
<1>1. CASE AddRefused(t, size, before)
  BY <1>1 DEF Added
<1>2. CASE ~AddRefused(t, size, before)
  <2>1. Added(t, size, before, name, type) = [table |-> u, number |-> at]
    BY <1>2 DEF Added, WithParts
  <2>2. ~(before > 1 /\ before < sp)
    BY <1>2 DEF AddRefused
  <2>3. IsTable(t) /\ sp \in 2..(Len(t.parts) + 1) /\ Len(t.parts) \in Nat
    BY StartPartIs, ListIs DEF TableOn, IsTable
  <2> HIDE DEF r
  <2>4. /\ IsList(left) /\ L >= sp - 1
        /\ \A i \in 1..(sp - 1) : left[i] = t.parts[i]
        /\ \A i \in 1..L : i >= sp => left[i].refs = 1
    BY <2>3, ClearedIs
  <2> HIDE DEF left, sp
  <2>5. L \in Nat /\ at \in 2..(L + 1)
    BY <2>4, PlaceIs, ListIs
  <2>6. IsEntry(p) /\ p.refs = 1
    BY EntryIs
  <2>7. /\ \/ before >= 2 /\ at = before
           \/ \A n \in 2..L : left[n].type # "free" => n < at
    BY <2>4, PlaceIs
  <2> HIDE DEF p, at
  <2>8. /\ IsList(new) /\ Len(new) = L + 1
        /\ \A i \in 1..(L + 1) : /\ i < at => new[i] = left[i]
                                 /\ i = at => new[i] = p
                                 /\ i > at => \E k \in 1..L : i = k + 1 /\ new[i] = left[k]
    <3>1. MovedUp(left, at, p, new)
      BY <2>4, <2>5, <2>6, InsertedIs
    <3> HIDE DEF new
    <3> QED BY <3>1 DEF MovedUp
  <2> HIDE DEF new
  <2>9. IsTable(u) /\ u.parts = new /\ Numbers(u) = 1..(L + 1)
    BY <2>3, <2>8, WithPartsIs DEF Numbers
  <2>10. ASSUME NEW h \in OpenOn(dev)
         PROVE  LET n == open[h].number IN n \in 1..(L + 1) /\ n < at /\ n < sp
    <3> DEFINE n == open[h].number
    <3>1. n \in 1..Len(t.parts) /\ n < sp
      BY InUseBefore DEF Numbers, sp
    <3>2. n \in 1..L /\ n \in 1..(sp - 1)
      BY <2>3, <2>4, <2>5, <3>1
    <3>3. t.parts[n].type # "free"
      BY DEF TableOn, InPlace
    <3>4. left[n].type # "free"
      BY <2>4, <3>2, <3>3
    <3> HIDE DEF n
    <3>5. n < at
      <4>1. CASE before >= 2 /\ at = before
        BY <2>2, <2>3, <2>5, <3>2, <4>1
      <4>2. CASE \A m \in 2..L : left[m].type # "free" => m < at
        BY <2>5, <3>2, <3>4, <4>2
      <4> QED BY <2>7, <4>1, <4>2
    <3> QED BY <2>5, <3>1, <3>2, <3>5 DEF n
  <2>11. ASSUME NEW h \in OpenOn(dev)
         PROVE  LET n == open[h].number IN n \in Numbers(u) /\ Same(u.parts[n], t.parts[n])
    <3> DEFINE n == open[h].number
    <3>1. n \in 1..(L + 1) /\ n < at /\ n < sp
      BY <2>10
    <3> HIDE DEF n
    <3>2. new[n] = left[n] /\ n \in 1..(sp - 1)
      BY <2>3, <2>5, <2>8, <3>1
    <3>3. new[n] = t.parts[n]
      BY <2>4, <3>2
    <3> QED BY <2>9, <3>1, <3>3 DEF Same, n
  <2>12. ASSUME NEW n \in Numbers(u), \A h \in OpenOn(dev) : open[h].number # n
         PROVE  u.parts[n].refs = 1
    <3>1. ASSUME NEW k \in 1..L, k >= sp \/ \A h \in OpenOn(dev) : open[h].number # k
          PROVE  left[k].refs = 1
      <4>1. CASE k >= sp
        BY <2>4, <4>1
      <4>2. CASE k < sp
        <5>1. k \in 1..(sp - 1) /\ k \in Numbers(t) /\ \A h \in OpenOn(dev) : open[h].number # k
          BY <2>3, <2>5, <3>1, <4>2 DEF Numbers
        <5>2. t.parts[k].refs = 1
          BY <5>1, UnusedIs
        <5> QED BY <2>4, <5>1, <5>2
      <4> QED BY <2>3, <2>5, <4>1, <4>2
    <3>2. n \in 1..(L + 1)
      BY <2>9
    <3>3. CASE n < at
      <4>1. n \in 1..L /\ new[n] = left[n]
        BY <2>5, <2>8, <3>2, <3>3
      <4> QED BY <2>9, <2>12, <3>1, <4>1
    <3>4. CASE n = at
      BY <2>6, <2>8, <2>9, <3>2, <3>4
    <3>5. CASE n > at
      <4>1. PICK k \in 1..L : n = k + 1 /\ new[n] = left[k]
        BY <2>8, <3>2, <3>5
      <4>2. k >= sp \/ \A h \in OpenOn(dev) : open[h].number # k
        <5>1. k >= at
          BY <2>5, <3>5, <4>1
        <5>2. ASSUME NEW h \in OpenOn(dev) PROVE open[h].number # k
          <6>1. open[h].number \in 1..(L + 1) /\ open[h].number < at
            BY <2>10
          <6> QED BY <2>5, <5>1, <6>1
        <5> QED BY <5>2
      <4> QED BY <2>9, <3>1, <4>1, <4>2
    <3> QED BY <2>5, <3>2, <3>3, <3>4, <3>5
  <2>13. Kept(t, u, dev)
    <3> HIDE DEF u
    <3> QED BY <2>11, <2>12 DEF Kept
  <2>14. TableOn(u, dev)
    <3> HIDE DEF u
    <3> QED BY <2>9, <2>13, KeptOn
  <2>15. at \in Int
    BY <2>5
  <2> HIDE DEF u
  <2> QED BY <2>1, <2>14, <2>15
<1> QED BY <1>1, <1>2

-----------------------------------------------------------------------------
(* The tables of all devices, and what is on the drives.                   *)

\* A drive has a map whose first sector says how many entries there are.
DriveOK(d) ==
  /\ d = [boot |-> d.boot, size |-> d.size, map |-> d.map]
  /\ 1 \in DOMAIN d.map /\ d.map[1].count \in Nat

DrivesOK(drives) ==
  /\ drives = [d \in Devices |-> drives[d]]
  /\ \A d \in Devices : DriveOK(drives[d])

TableIn(tables, d) == IF tables[d] = NoTable THEN OpenOn(d) = {} ELSE TableOn(tables[d], d)

\* No handle is lost or points to another place, whatever becomes of the tables.
UseInv ==
  /\ DrivesOK(disk)
  /\ table = [d \in Devices |-> table[d]]
  /\ open = [h \in Handles |-> open[h]]
  /\ \A h \in Handles : open[h] # Closed => open[h].dev \in Devices
  /\ \A d \in Devices : TableIn(table, d)
  /\ writing # NoWrite => /\ writing = [dev |-> writing.dev, next |-> writing.next]
                          /\ writing.dev \in Devices => table[writing.dev] # NoTable

\* The handles of the invariant are those of the property.
LEMMA UseInvKeeps == UseInv => InUseUntouched
<1> SUFFICES ASSUME UseInv, NEW h \in Handles, open[h] # Closed
             PROVE  LET p == table[open[h].dev].parts[open[h].number]
                    IN  [start |-> p.start, sectors |-> p.sectors] = open[h].at
  BY DEF InUseUntouched
<1>1. open[h].dev \in Devices /\ h \in OpenOn(open[h].dev)
  BY DEF UseInv, OpenOn
<1>2. TableOn(table[open[h].dev], open[h].dev)
  BY <1>1 DEF UseInv, TableIn
<1> QED BY <1>1, <1>2 DEF TableOn, InPlace

\* As many entries are read as there are without a blank one between.
LEMMA EntriesReadIs ==
  ASSUME NEW d, DriveOK(d)
  PROVE  EntriesRead(d) \in Nat
<1> DEFINE N == d.map[1].count
           Stop == {m \in Nat : m <= N /\ (m = N \/ d.map[m + 1] = Blank)}
           Good(n) == /\ \A m \in 1..n : d.map[m] # Blank
                      /\ n = d.map[1].count \/ d.map[n + 1] = Blank
<1>1. N \in Nat
  BY DEF DriveOK
<1>2. PICK n \in Stop : \A m \in Stop : n <= m
  <2>1. N \in Stop /\ Stop \subseteq Nat
    BY <1>1
  <2> HIDE DEF Stop
  <2> QED BY <2>1, LeastIs
<1>3. n \in 0..N /\ (n = N \/ d.map[n + 1] = Blank)
  BY <1>1, <1>2
<1>4. ASSUME NEW m \in 1..n, d.map[m] = Blank PROVE FALSE
  <2>1. PICK k \in Nat : m = k + 1
    <3>1. m - 1 \in Nat /\ m = (m - 1) + 1
      BY <1>3
    <3> QED BY <3>1
  <2>2. d.map[k + 1] = Blank
    BY <1>4, <2>1
  <2>3. k \in Stop /\ k < n
    BY <1>1, <1>3, <2>1, <2>2
  <2> HIDE DEF Stop
  <2> QED BY <1>2, <1>3, <2>1, <2>3
<1>5. Good(n)
  BY <1>3, <1>4
<1>6. (CHOOSE k \in 0..N : Good(k)) \in 0..N
  <2> HIDE DEF Good
  <2> QED BY <1>3, <1>5
<1> QED BY <1>1, <1>6 DEF EntriesRead

\* A table that was read is one.
LEMMA TableOf ==
  ASSUME NEW parts, IsList(parts), NEW size
  PROVE  IsTable(Table(parts, size)) /\ Table(parts, size).parts = parts
BY DEF IsTable, Table

\* A table of a device nothing of which is open.
LEMMA UnopenedOn ==
  ASSUME NEW t, NEW dev, OpenOn(dev) = {}, IsTable(t), \A n \in Numbers(t) : t.parts[n].refs = 1
  PROVE  TableOn(t, dev)
<1>1. ASSUME NEW n \in Numbers(t) PROVE Cardinality(HoldersOf(dev, n)) = 0
  BY HoldersAre
<1> QED BY <1>1 DEF TableOn

\* tivo_read_partition_table.
LEMMA ReadOn ==
  ASSUME UseInv, NEW dev \in Devices, ReadTable(dev) # NoTable
  PROVE  TableOn(ReadTable(dev), dev)
<1>1. CASE table[dev] # NoTable
  BY <1>1 DEF ReadTable, UseInv, TableIn
<1>2. CASE table[dev] = NoTable
  <2> DEFINE parts == PartsOn(disk[dev])
             N == EntriesRead(disk[dev])
  <2>1. OpenOn(dev) = {} /\ DriveOK(disk[dev])
    BY <1>2 DEF UseInv, TableIn, DrivesOK
  <2>2. parts # <<>> /\ ReadTable(dev) = Table(parts, disk[dev].size)
    BY <1>2 DEF ReadTable
  <2>3. N \in Nat
    BY <2>1, EntriesReadIs
  <2>4. /\ parts = [n \in 1..N |-> parts[n]]
        /\ \A n \in 1..N : IsEntry(parts[n]) /\ parts[n].refs = 1
    BY EntryIs DEF PartsOn
  <2> HIDE DEF parts, N
  <2>5. N # 0
    <3> SUFFICES ASSUME N = 0 PROVE FALSE
      OBVIOUS
    <3>1. parts = <<>>
      BY <2>4
    <3> QED BY <2>2, <3>1
  <2>6. IsList(parts) /\ Len(parts) = N
    BY <2>3, <2>4, <2>5, ListOf
  <2>7. IsTable(ReadTable(dev)) /\ ReadTable(dev).parts = parts
    BY <2>2, <2>6, TableOf
  <2> QED BY <2>1, <2>4, <2>6, <2>7, UnopenedOn DEF Numbers
<1> QED BY <1>1, <1>2

\* tivo_partition_validate, of the table that is read or cached.
LEMMA ValidatedOn ==
  ASSUME UseInv, NEW dev \in Devices, Validated(dev) # NoTable
  PROVE  TableOn(Validated(dev), dev)
<1>1. ReadTable(dev) # NoTable /\ Validated(dev) = Validate(ReadTable(dev))
  BY DEF Validated
<1> QED BY <1>1, ReadOn, ValidateOn

-----------------------------------------------------------------------------
(* The calls.                                                              *)

\* One table is replaced.
LEMMA SetTable ==
  ASSUME UseInv, NEW dev, NEW t,
         dev \in Devices => TableOn(t, dev) \/ (t = NoTable /\ OpenOn(dev) = {}),
         table' = [table EXCEPT ![dev] = t],
         open' = open,
         DrivesOK(disk'),
         writing' = NoWrite \/ (writing' = [dev |-> dev, next |-> 1] /\ TableOn(t, dev))
  PROVE  UseInv'
<1>1. \A d \in Devices : table'[d] = IF d = dev THEN t ELSE table[d]
  BY DEF UseInv
<1>2. table' = [d \in Devices |-> table'[d]]
  BY DEF UseInv
<1>3. \A d : OpenOn(d)' = OpenOn(d)
  BY DEF OpenOn
<1>4. ASSUME NEW u, NEW d, TableOn(u, d) PROVE TableOn(u, d)'
  BY <1>3, <1>4 DEF TableOn, InPlace, HoldersOf
<1>5. ASSUME NEW d \in Devices PROVE TableIn(table, d)'
  <2>1. PICK u : u = table'[d]
    OBVIOUS
  <2>2. IF u = NoTable THEN OpenOn(d) = {} ELSE TableOn(u, d)
    <3>1. CASE d = dev
      <4>1. u = t
        BY <1>1, <2>1, <3>1
      <4> QED BY <3>1, <4>1, TableIsNot DEF TableOn
    <3>2. CASE d # dev
      BY <1>1, <2>1, <3>2 DEF UseInv, TableIn
    <3> QED BY <3>1, <3>2
  <2>3. IF u = NoTable THEN OpenOn(d)' = {} ELSE TableOn(u, d)'
    BY <1>3, <1>4, <2>2
  <2>4. IF table'[d] = NoTable THEN OpenOn(d)' = {} ELSE TableOn(table[d], d)'
    BY <2>1, <2>3 DEF TableOn, InPlace, HoldersOf
  <2> QED BY <2>4 DEF TableIn
<1>6. open' = [h \in Handles |-> open'[h]]
  BY DEF UseInv
<1>7. \A h \in Handles : open'[h] # Closed => open'[h].dev \in Devices
  BY DEF UseInv
<1>8. ASSUME writing' # NoWrite
      PROVE  /\ writing' = [dev |-> writing'.dev, next |-> writing'.next]
             /\ writing'.dev \in Devices => table'[writing'.dev] # NoTable
  <2>1. writing' = [dev |-> dev, next |-> 1] /\ t # NoTable
    BY <1>8, TableIsNot DEF TableOn
  <2> QED BY <1>1, <2>1
<1> QED BY <1>2, <1>5, <1>6, <1>7, <1>8 DEF UseInv

\* tivo_partition_total_free and its like.
LEMMA MeasureUse == ASSUME UseInv, NEW dev, Measure(dev) PROVE UseInv'
<1> DEFINE t == Validated(dev)
<1>1. /\ table' = [table EXCEPT ![dev] = t] /\ open' = open /\ disk' = disk /\ writing' = NoWrite
      /\ ReadTable(dev) # NoTable
  BY DEF Measure, Idle
<1>2. dev \in Devices => TableOn(t, dev)
  <2> SUFFICES ASSUME dev \in Devices PROVE TableOn(t, dev)
    OBVIOUS
  <2>1. t = Validate(ReadTable(dev))
    BY <1>1 DEF Validated
  <2> QED BY <1>1, <2>1, ReadOn, ValidateOn
<1>3. DrivesOK(disk')
  BY <1>1 DEF UseInv
<1> HIDE DEF t
<1> QED BY <1>1, <1>2, <1>3, SetTable

\* tivo_partition_add.
LEMMA AddUse ==
  ASSUME UseInv, NEW dev, NEW size, NEW before \in Int, NEW name, NEW type,
         AddTo(dev, Validated(dev), size, before, name, type)
  PROVE  UseInv'
<1> DEFINE t == Added(Validated(dev), size, before, name, type).table
<1>1. /\ table' = [table EXCEPT ![dev] = t] /\ open' = open /\ disk' = disk /\ writing' = NoWrite
      /\ Validated(dev) # NoTable
  BY DEF AddTo, Idle
<1>2. dev \in Devices => TableOn(t, dev)
  BY <1>1, ValidatedOn, AddedOn
<1>3. DrivesOK(disk')
  BY <1>1 DEF UseInv
<1> HIDE DEF t
<1> QED BY <1>1, <1>2, <1>3, SetTable

WithEntry(t, n, p) == [t EXCEPT !.parts[n] = p]

\* One entry is replaced.
LEMMA EntryChanged ==
  ASSUME NEW t, IsTable(t), NEW n \in Numbers(t), NEW p, IsEntry(p),
         NEW u, u = WithEntry(t, n, p)
  PROVE  /\ IsTable(u) /\ Numbers(u) = Numbers(t)
         /\ \A m \in Numbers(t) : u.parts[m] = IF m = n THEN p ELSE t.parts[m]
<1> DEFINE L == Len(t.parts)
           parts == [t.parts EXCEPT ![n] = p]
<1>1. L \in Nat \ {0} /\ t.parts = [i \in 1..L |-> t.parts[i]] /\ n \in 1..L
      /\ \A i \in 1..L : IsEntry(t.parts[i])
  BY ListIs DEF IsTable, IsList, Numbers
<1>2. parts = [i \in 1..L |-> IF i = n THEN p ELSE t.parts[i]]
  BY <1>1
<1>3. \A i \in 1..L : parts[i] = IF i = n THEN p ELSE t.parts[i]
  BY <1>2
<1>4. parts = [i \in 1..L |-> parts[i]]
  BY <1>2
<1>5. u = [parts |-> parts, devsize |-> t.devsize, valid |-> t.valid, dirty |-> t.dirty,
           noninit |-> t.noninit]
  <2> DEFINE r == [parts |-> t.parts, devsize |-> t.devsize, valid |-> t.valid, dirty |-> t.dirty,
                   noninit |-> t.noninit]
  <2>1. t = r
    BY DEF IsTable
  <2>2. u = [r EXCEPT !.parts[n] = p]
    BY <2>1 DEF WithEntry
  <2> QED BY <2>2
<1> HIDE DEF parts
<1>6. IsList(parts) /\ Len(parts) = L
  BY <1>1, <1>3, <1>4, ListOf
<1>7. u.parts = parts
  BY <1>5
<1>8. IsTable(u)
  BY <1>5, <1>6, <1>7 DEF IsTable
<1>9. Numbers(u) = 1..L /\ Numbers(t) = 1..L
  BY <1>6, <1>7 DEF Numbers
<1>10. \A m \in 1..L : u.parts[m] = IF m = n THEN p ELSE t.parts[m]
  BY <1>3, <1>7
<1> HIDE DEF L
<1> QED BY <1>8, <1>9, <1>10, Zenon

\* A name is nothing to a handle.
LEMMA RenamedOn ==
  ASSUME NEW t, NEW dev, TableOn(t, dev), NEW n \in Numbers(t), NEW name
  PROVE  TableOn([t EXCEPT !.parts[n].name = name], dev)
<1> DEFINE p == [start |-> t.parts[n].start, sectors |-> t.parts[n].sectors, name |-> name,
                 type |-> t.parts[n].type, refs |-> t.parts[n].refs]
<1>1. PICK u : u = [t EXCEPT !.parts[n].name = name]
  OBVIOUS
<1>2. IsTable(t) /\ IsEntry(t.parts[n])
  BY DEF TableOn, IsTable, IsList, Numbers
<1>3. PICK q : q = t.parts[n]
  OBVIOUS
<1>4. p = [q EXCEPT !.name = name]
  <2> DEFINE r == [start |-> q.start, sectors |-> q.sectors, name |-> q.name,
                   type |-> q.type, refs |-> q.refs]
  <2>1. q = r
    BY <1>2, <1>3 DEF IsEntry
  <2>2. p = [r EXCEPT !.name = name]
    BY <1>3
  <2> QED BY <2>1, <2>2
<1>5. u = WithEntry(t, n, p)
  BY <1>1, <1>3, <1>4 DEF WithEntry
<1>6. IsEntry(p) /\ Same(p, t.parts[n])
  BY <1>2 DEF IsEntry, Same
<1> HIDE DEF p
<1>7. /\ IsTable(u) /\ Numbers(u) = Numbers(t)
      /\ \A m \in Numbers(t) : u.parts[m] = IF m = n THEN p ELSE t.parts[m]
  BY <1>2, <1>5, <1>6, EntryChanged
<1>8. \A m \in Numbers(t) : Same(u.parts[m], t.parts[m])
  BY <1>6, <1>7 DEF Same
<1>9. Kept(t, u, dev)
  <2>1. ASSUME NEW h \in OpenOn(dev) PROVE open[h].number \in Numbers(t)
    BY DEF TableOn, InPlace
  <2>2. ASSUME NEW m \in Numbers(t), \A h \in OpenOn(dev) : open[h].number # m
        PROVE  u.parts[m].refs = 1
    BY <1>8, <2>2, UnusedIs DEF Same
  <2> QED BY <1>7, <1>8, <2>1, <2>2 DEF Kept
<1>10. TableOn(u, dev)
  BY <1>7, <1>9, KeptOn
<1> QED BY <1>1, <1>10

\* tivo_partition_rename.
LEMMA RenameUse == ASSUME UseInv, NEW dev, NEW n, NEW name, Rename(dev, n, name) PROVE UseInv'
<1> DEFINE t == [ReadTable(dev) EXCEPT !.parts[n].name = name]
<1>1. /\ table' = [table EXCEPT ![dev] = t] /\ open' = open /\ disk' = disk /\ writing' = NoWrite
      /\ ReadTable(dev) # NoTable /\ n \in Numbers(ReadTable(dev))
  BY DEF Rename, Idle
<1>2. dev \in Devices => TableOn(t, dev)
  BY <1>1, ReadOn, RenamedOn
<1>3. DrivesOK(disk')
  BY <1>1 DEF UseInv
<1> HIDE DEF t
<1> QED BY <1>1, <1>2, <1>3, SetTable

\* tivo_partition_rrpart, which nothing open gets past.
LEMMA RereadUse == ASSUME UseInv, NEW dev, Reread(dev) PROVE UseInv'
<1>1. /\ table' = [table EXCEPT ![dev] = NoTable] /\ open' = open /\ disk' = disk
      /\ writing' = NoWrite /\ OpenOn(dev) = {}
  BY DEF Reread, Idle
<1>2. DrivesOK(disk')
  BY <1>1 DEF UseInv
<1> QED BY <1>1, <1>2, SetTable

\* tivo_partition_table_init, which nothing open gets past either.
LEMMA TableInitUse == ASSUME UseInv, NEW dev, TableInit(dev) PROVE UseInv'
<1> DEFINE t == NewTable(disk[dev].size)
<1>1. /\ table' = [table EXCEPT ![dev] = t] /\ open' = open /\ disk' = disk
      /\ writing' = NoWrite /\ OpenOn(dev) = {}
  BY DEF TableInit, Idle
<1>2. PICK e : e = Entry(1, MapSectors, <<"Apple", 0>>, "map")
  OBVIOUS
<1>3. IsEntry(e) /\ e.refs = 1
  BY <1>2, EntryIs
<1>4. PICK parts : parts = <<e>>
  OBVIOUS
<1>5. /\ parts = [i \in 1..1 |-> parts[i]]
      /\ \A i \in 1..1 : parts[i] = e
  BY <1>4
<1>6. IsList(parts) /\ Len(parts) = 1
  <2>1. PICK k \in Nat \ {0} : k = 1
    OBVIOUS
  <2>2. parts = [i \in 1..k |-> parts[i]] /\ \A i \in 1..k : IsEntry(parts[i])
    BY <1>3, <1>5, <2>1
  <2> QED BY <2>1, <2>2, ListOf
<1>7. t = [Table(parts, disk[dev].size) EXCEPT !.noninit = TRUE]
  BY <1>2, <1>4 DEF NewTable
<1>8. t = [parts |-> parts, devsize |-> disk[dev].size, valid |-> FALSE, dirty |-> FALSE,
            noninit |-> TRUE]
  BY <1>7 DEF Table
<1> HIDE DEF t
<1>9. t.parts = parts
  BY <1>8
<1>10. IsTable(t)
  BY <1>6, <1>8, <1>9 DEF IsTable
<1>11. DrivesOK(disk')
  BY <1>1 DEF UseInv
<1>12. \A n \in Numbers(t) : t.parts[n].refs = 1
  <2>1. Numbers(t) = 1..1
    BY <1>6, <1>9 DEF Numbers
  <2> QED BY <1>3, <1>5, <1>9, <2>1
<1>13. TableOn(t, dev)
  BY <1>1, <1>12, <1>10, UnopenedOn
<1> QED BY <1>1, <1>11, <1>13, SetTable

-----------------------------------------------------------------------------
(* Handles.                                                                *)

WithRefs(t, n, k) == [t EXCEPT !.parts[n].refs = k]

\* A count of handles is changed.
LEMMA RefsChanged ==
  ASSUME NEW t, IsTable(t), NEW n \in Numbers(t), NEW k \in Nat \ {0},
         NEW u, u = WithRefs(t, n, k)
  PROVE  /\ IsTable(u) /\ Numbers(u) = Numbers(t)
         /\ \A m \in Numbers(t) : m # n => u.parts[m] = t.parts[m]
         /\ u.parts[n].start = t.parts[n].start /\ u.parts[n].sectors = t.parts[n].sectors
         /\ u.parts[n].type = t.parts[n].type /\ u.parts[n].refs = k
<1>1. PICK q : q = t.parts[n]
  OBVIOUS
<1>2. PICK p : p = [start |-> q.start, sectors |-> q.sectors, name |-> q.name,
                    type |-> q.type, refs |-> k]
  OBVIOUS
<1>3. IsEntry(q)
  BY <1>1 DEF IsTable, IsList, Numbers
<1>4. p = [q EXCEPT !.refs = k]
  <2> DEFINE r == [start |-> q.start, sectors |-> q.sectors, name |-> q.name,
                   type |-> q.type, refs |-> q.refs]
  <2>1. q = r
    BY <1>3 DEF IsEntry
  <2>2. p = [r EXCEPT !.refs = k]
    BY <1>2
  <2> QED BY <2>1, <2>2
<1>5. u = WithEntry(t, n, p)
  BY <1>1, <1>4 DEF WithEntry, WithRefs
<1>6. /\ IsEntry(p) /\ p.start = q.start /\ p.sectors = q.sectors /\ p.type = q.type
      /\ p.refs = k
  BY <1>2 DEF IsEntry
<1>7. /\ IsTable(u) /\ Numbers(u) = Numbers(t)
      /\ \A m \in Numbers(t) : u.parts[m] = IF m = n THEN p ELSE t.parts[m]
  BY <1>5, <1>6, EntryChanged
<1> QED BY <1>1, <1>6, <1>7

\* What a handle to another device is opened on does not matter.
LEMMA OthersOn ==
  ASSUME NEW u, NEW d, TableOn(u, d), OpenOn(d)' = OpenOn(d),
         \A g \in OpenOn(d) : open'[g] = open[g]
  PROVE  TableOn(u, d)'
<1>1. \A m : HoldersOf(d, m)' = HoldersOf(d, m)
  BY DEF HoldersOf
<1>2. \A g \in OpenOn(d) : InPlace(u, g)'
  BY DEF TableOn, InPlace
<1> QED BY <1>1, <1>2 DEF TableOn

\* One table and one handle to it are replaced.
LEMMA SetBoth ==
  ASSUME UseInv, NEW dev \in Devices, NEW h \in Handles, NEW e, NEW u,
         open[h] = Closed \/ open[h].dev = dev,
         e = Closed \/ e.dev = dev,
         open' = [open EXCEPT ![h] = e],
         table' = [table EXCEPT ![dev] = u],
         TableOn(u, dev)',
         disk' = disk, writing' = NoWrite
  PROVE  UseInv'
<1>1. \A d \in Devices : table'[d] = IF d = dev THEN u ELSE table[d]
  BY DEF UseInv
<1>2. \A g \in Handles : open'[g] = IF g = h THEN e ELSE open[g]
  BY DEF UseInv
<1>3. table' = [d \in Devices |-> table'[d]] /\ open' = [g \in Handles |-> open'[g]]
  BY DEF UseInv
<1>4. \A g \in Handles : open'[g] # Closed => open'[g].dev \in Devices
  BY <1>2 DEF UseInv
<1>5. u # NoTable
  <2>1. IsTable(u)
    BY DEF TableOn
  <2> QED BY <2>1, TableIsNot
<1>6. ASSUME NEW d \in Devices PROVE TableIn(table, d)'
  <2>1. CASE d = dev
    <3>1. table'[d] = u
      BY <1>1, <2>1
    <3>2. TableOn(table[d], d)'
      BY <2>1, <3>1 DEF TableOn, InPlace, HoldersOf
    <3>3. table'[d] # NoTable
      BY <1>5, <3>1
    <3> QED BY <3>2, <3>3 DEF TableIn
  <2>2. CASE d # dev
    <3>1. PICK w : w = table[d]
      OBVIOUS
    <3>2. table'[d] = w
      BY <1>1, <2>2, <3>1
    <3>3. OpenOn(d)' = OpenOn(d) /\ \A g \in OpenOn(d) : open'[g] = open[g]
      BY <1>2, <2>2 DEF OpenOn
    <3>4. IF w = NoTable THEN OpenOn(d) = {} ELSE TableOn(w, d)
      BY <3>1 DEF UseInv, TableIn
    <3>5. IF w = NoTable THEN OpenOn(d)' = {} ELSE TableOn(w, d)'
      BY <3>3, <3>4, OthersOn
    <3>6. IF table'[d] = NoTable THEN OpenOn(d)' = {} ELSE TableOn(table[d], d)'
      BY <3>2, <3>5 DEF TableOn, InPlace, HoldersOf
    <3> QED BY <3>6 DEF TableIn
  <2> QED BY <2>1, <2>2
<1>7. DrivesOK(disk')
  BY DEF UseInv
<1> QED BY <1>3, <1>4, <1>6, <1>7 DEF UseInv

\* tivo_partition_open_direct: one more handle, one more counted.
LEMMA OpenUse ==
  ASSUME UseInv, NEW h \in Handles, NEW dev \in Devices, NEW n, Open(h, dev, n),
         ~IsFree(ReadTable(dev), n)
  PROVE  UseInv'
<1>1. PICK t : t = ReadTable(dev)
  OBVIOUS
<1>2. PICK p : p = t.parts[n]
  OBVIOUS
<1>3. PICK u : u = WithRefs(t, n, p.refs + 1)
  OBVIOUS
<1>4. PICK e : e = [dev |-> dev, number |-> n, at |-> [start |-> p.start, sectors |-> p.sectors]]
  OBVIOUS
<1>5. /\ open[h] = Closed /\ t # NoTable /\ n \in Numbers(t) /\ p.type # "free"
      /\ table' = [table EXCEPT ![dev] = u] /\ open' = [open EXCEPT ![h] = e]
      /\ disk' = disk /\ writing' = NoWrite
  BY <1>1, <1>2, <1>3, <1>4 DEF Open, Idle, IsFree, WithRefs
<1>6. TableOn(t, dev)
  BY <1>1, <1>5, ReadOn
<1>7. IsTable(t) /\ p.refs \in Nat \ {0}
  BY <1>2, <1>5, <1>6 DEF TableOn, IsTable, IsList, IsEntry, Numbers
<1>8. /\ IsTable(u) /\ Numbers(u) = Numbers(t)
      /\ \A m \in Numbers(t) : m # n => u.parts[m] = t.parts[m]
      /\ u.parts[n].start = p.start /\ u.parts[n].sectors = p.sectors
      /\ u.parts[n].type = p.type /\ u.parts[n].refs = p.refs + 1
  <2>1. PICK k \in Nat \ {0} : k = p.refs + 1
    BY <1>7
  <2> QED BY <1>2, <1>3, <1>5, <1>7, <2>1, RefsChanged, SMTT(40)
<1>9. e # Closed /\ e.dev = dev /\ e.number = n /\ e.at = [start |-> p.start, sectors |-> p.sectors]
  <2>1. "dev" \in DOMAIN e /\ DOMAIN Closed = {}
    BY <1>4 DEF Closed
  <2> QED BY <1>4, <2>1
<1>10. \A g \in Handles : open'[g] = IF g = h THEN e ELSE open[g]
  BY <1>5 DEF UseInv
<1>11. OpenOn(dev)' = OpenOn(dev) \cup {h} /\ h \notin OpenOn(dev)
  BY <1>5, <1>9, <1>10 DEF OpenOn
<1>12. \A g \in OpenOn(dev) : g \in Handles /\ g # h /\ open'[g] = open[g]
  BY <1>10, <1>11 DEF OpenOn
<1>13. open'[h] = e
  BY <1>10
<1>14. ASSUME NEW g \in OpenOn(dev)' PROVE InPlace(u, g)'
  <2>1. CASE g = h
    BY <1>5, <1>8, <1>9, <1>13, <2>1 DEF InPlace
  <2>2. CASE g # h
    <3>1. g \in OpenOn(dev) /\ open'[g] = open[g]
      BY <1>11, <1>12, <2>2
    <3>2. InPlace(t, g)
      BY <1>6, <3>1 DEF TableOn
    <3>3. /\ u.parts[open[g].number].start = t.parts[open[g].number].start
          /\ u.parts[open[g].number].sectors = t.parts[open[g].number].sectors
          /\ u.parts[open[g].number].type = t.parts[open[g].number].type
      BY <1>2, <1>8, <3>2 DEF InPlace
    <3> QED BY <1>8, <3>1, <3>2, <3>3 DEF InPlace
  <2> QED BY <2>1, <2>2
<1>15. ASSUME NEW m \in Numbers(u) PROVE u.parts[m].refs = 1 + Cardinality(HoldersOf(dev, m)')
  <2>0. t.parts[m].refs = 1 + Cardinality(HoldersOf(dev, m))
    BY <1>6, <1>8 DEF TableOn
  <2>1. CASE m # n
    <3>1. HoldersOf(dev, m)' = HoldersOf(dev, m)
      BY <1>9, <1>11, <1>12, <1>13, <2>1 DEF HoldersOf
    <3> QED BY <1>8, <2>0, <2>1, <3>1
  <2>2. CASE m = n
    <3>1. HoldersOf(dev, m)' = HoldersOf(dev, m) \cup {h} /\ h \notin HoldersOf(dev, m)
      BY <1>9, <1>11, <1>12, <1>13, <2>2 DEF HoldersOf
    <3>2. Cardinality(HoldersOf(dev, m)') = Cardinality(HoldersOf(dev, m)) + 1
      BY <3>1, HoldersAre, FS_AddElement
    <3> QED BY <1>2, <1>8, <2>0, <2>2, <3>2, HoldersAre
  <2> QED BY <2>1, <2>2
<1>16. TableOn(u, dev)'
  BY <1>8, <1>14, <1>15 DEF TableOn
<1> QED BY <1>5, <1>9, <1>16, SetBoth

\* tivo_partition_close: one less.
LEMMA CloseUse == ASSUME UseInv, NEW h \in Handles, Close(h) PROVE UseInv'
<1>1. PICK dev : dev = open[h].dev
  OBVIOUS
<1>2. PICK n : n = open[h].number
  OBVIOUS
<1>3. PICK t : t = table[dev]
  OBVIOUS
<1>4. PICK p : p = t.parts[n]
  OBVIOUS
<1>5. PICK u : u = WithRefs(t, n, p.refs - 1)
  OBVIOUS
<1>6. /\ open[h] # Closed /\ dev \in Devices /\ h \in OpenOn(dev) /\ h \in HoldersOf(dev, n)
      /\ open' = [open EXCEPT ![h] = Closed]
      /\ disk' = disk /\ writing' = NoWrite
  BY <1>1, <1>2 DEF Close, Idle, UseInv, OpenOn, HoldersOf
<1>7. table' = [table EXCEPT ![dev] = u]
  BY <1>1, <1>2, <1>3, <1>4, <1>5 DEF Close, WithRefs
<1>8. TableOn(t, dev)
  BY <1>3, <1>6 DEF UseInv, TableIn
<1>9. IsTable(t) /\ n \in Numbers(t) /\ p.refs = 1 + Cardinality(HoldersOf(dev, n))
  BY <1>2, <1>4, <1>6, <1>8 DEF TableOn, InPlace
<1>10. \A g \in Handles : open'[g] = IF g = h THEN Closed ELSE open[g]
  BY <1>6 DEF UseInv
<1>11. OpenOn(dev)' = OpenOn(dev) \ {h}
  BY <1>10 DEF OpenOn
<1>12. \A g \in OpenOn(dev)' : g \in OpenOn(dev) /\ g # h /\ open'[g] = open[g]
  BY <1>10, <1>11 DEF OpenOn
<1>13. HoldersOf(dev, n)' = HoldersOf(dev, n) \ {h}
  BY <1>11, <1>12 DEF HoldersOf
<1>14. Cardinality(HoldersOf(dev, n)') = Cardinality(HoldersOf(dev, n)) - 1
  BY <1>6, <1>13, HoldersAre, FS_RemoveElement
<1>15. /\ Cardinality(HoldersOf(dev, n)') \in Nat
       /\ p.refs - 1 = 1 + Cardinality(HoldersOf(dev, n)')
  <2>1. IsFiniteSet(HoldersOf(dev, n)') /\ Cardinality(HoldersOf(dev, n)) \in Nat
    BY <1>6, <1>13, HoldersAre, FS_RemoveElement
  <2>2. Cardinality(HoldersOf(dev, n)') \in Nat
    BY <2>1, FS_CardinalityType
  <2> QED BY <1>9, <1>14, <2>1, <2>2
<1>16. /\ IsTable(u) /\ Numbers(u) = Numbers(t)
       /\ \A m \in Numbers(t) : m # n => u.parts[m] = t.parts[m]
       /\ u.parts[n].start = p.start /\ u.parts[n].sectors = p.sectors
       /\ u.parts[n].type = p.type /\ u.parts[n].refs = p.refs - 1
  <2>1. PICK k \in Nat \ {0} : k = p.refs - 1
    BY <1>15
  <2>2. u = WithRefs(t, n, k) /\ IsTable(t) /\ n \in Numbers(t)
    BY <1>5, <1>9, <2>1
  <2>3. /\ IsTable(u) /\ Numbers(u) = Numbers(t)
        /\ \A m \in Numbers(t) : m # n => u.parts[m] = t.parts[m]
        /\ u.parts[n].start = t.parts[n].start /\ u.parts[n].sectors = t.parts[n].sectors
        /\ u.parts[n].type = t.parts[n].type /\ u.parts[n].refs = k
    BY <2>2, RefsChanged
  <2> QED BY <1>4, <2>1, <2>3
<1>17. ASSUME NEW g \in OpenOn(dev)' PROVE InPlace(u, g)'
  <2>1. g \in OpenOn(dev) /\ open'[g] = open[g]
    BY <1>12
  <2>2. InPlace(t, g)
    BY <1>8, <2>1 DEF TableOn
  <2>3. /\ u.parts[open[g].number].start = t.parts[open[g].number].start
        /\ u.parts[open[g].number].sectors = t.parts[open[g].number].sectors
        /\ u.parts[open[g].number].type = t.parts[open[g].number].type
    BY <1>4, <1>16, <2>2 DEF InPlace
  <2> QED BY <1>16, <2>1, <2>2, <2>3 DEF InPlace
<1>18. ASSUME NEW m \in Numbers(u) PROVE u.parts[m].refs = 1 + Cardinality(HoldersOf(dev, m)')
  <2>1. CASE m # n
    <3>1. HoldersOf(dev, m)' = HoldersOf(dev, m)
      BY <1>2, <1>11, <1>12, <2>1 DEF HoldersOf
    <3>2. t.parts[m].refs = 1 + Cardinality(HoldersOf(dev, m))
      BY <1>8, <1>16 DEF TableOn
    <3> QED BY <1>16, <2>1, <3>1, <3>2
  <2>2. CASE m = n
    BY <1>15, <1>16, <2>2
  <2> QED BY <2>1, <2>2
<1>19. TableOn(u, dev)'
  BY <1>16, <1>17, <1>18 DEF TableOn
<1> QED BY <1>1, <1>6, <1>7, <1>19, SetBoth

-----------------------------------------------------------------------------
(* Writing a table; the program's end.                                     *)

WithNoninit(t, v) == [t EXCEPT !.noninit = v]
WithDirty(t, v) == [t EXCEPT !.dirty = v]

\* The flags of a table are nothing to a handle.
LEMMA FlaggedOn ==
  ASSUME NEW t, NEW dev, TableOn(t, dev), NEW v
  PROVE  TableOn(WithNoninit(t, v), dev) /\ TableOn(WithDirty(t, v), dev)
<1> DEFINE r == [parts |-> t.parts, devsize |-> t.devsize, valid |-> t.valid, dirty |-> t.dirty,
                 noninit |-> t.noninit]
<1>1. t = r
  BY DEF TableOn, IsTable
<1>2. ASSUME NEW u, u = WithNoninit(t, v) PROVE TableOn(u, dev)
  <2>1. u = [r EXCEPT !.noninit = v]
    BY <1>1, <1>2 DEF WithNoninit
  <2>2. IsTable(u) /\ u.parts = t.parts
    BY <2>1 DEF TableOn, IsTable
  <2> QED BY <2>2 DEF TableOn, InPlace, Numbers
<1>3. ASSUME NEW u, u = WithDirty(t, v) PROVE TableOn(u, dev)
  <2>1. u = [r EXCEPT !.dirty = v]
    BY <1>1, <1>3 DEF WithDirty
  <2>2. IsTable(u) /\ u.parts = t.parts
    BY <2>1 DEF TableOn, IsTable
  <2> QED BY <2>2 DEF TableOn, InPlace, Numbers
<1> QED BY <1>2, <1>3

\* A boot sector or a sector of the map is written.
LEMMA DriveWritten ==
  ASSUME NEW d, DriveOK(d)
  PROVE  /\ DriveOK([d EXCEPT !.boot = TRUE])
         /\ \A n, s : s.count \in Nat => DriveOK([d EXCEPT !.map[n] = s])
<1> DEFINE r == [boot |-> d.boot, size |-> d.size, map |-> d.map]
<1>1. d = r
  BY DEF DriveOK
<1>2. ASSUME NEW u, u = [r EXCEPT !.boot = TRUE] PROVE DriveOK(u)
  BY <1>2 DEF DriveOK
<1>3. ASSUME NEW n, NEW s, s.count \in Nat, NEW u, u = [r EXCEPT !.map[n] = s] PROVE DriveOK(u)
  <2>1. PICK m : m = [d.map EXCEPT ![n] = s]
    OBVIOUS
  <2>2. u = [boot |-> d.boot, size |-> d.size, map |-> m]
    BY <1>3, <2>1
  <2>3. 1 \in DOMAIN m /\ m[1].count \in Nat
    BY <1>3, <2>1 DEF DriveOK
  <2> QED BY <2>2, <2>3 DEF DriveOK
<1> HIDE DEF r
<1> QED BY <1>1, <1>2, <1>3

\* tivo_partition_table_write, up to the boot sector.
LEMMA WriteBeginUse == ASSUME UseInv, NEW dev, WriteBegin(dev) PROVE UseInv'
<1>1. PICK t : t = WithNoninit(table[dev], FALSE)
  OBVIOUS
<1>2. /\ table[dev] # NoTable /\ open' = open /\ table' = [table EXCEPT ![dev] = t]
      /\ writing' = [dev |-> dev, next |-> 1]
      /\ disk' = disk \/ disk' = [disk EXCEPT ![dev].boot = TRUE]
  BY <1>1 DEF WriteBegin, WithNoninit
<1>3. ASSUME disk' = [disk EXCEPT ![dev].boot = TRUE] PROVE DrivesOK(disk')
  <2>1. ASSUME NEW d \in Devices PROVE DriveOK(disk'[d])
    <3>1. PICK x : x = disk[d]
      OBVIOUS
    <3>2. DriveOK(x)
      BY <3>1 DEF UseInv, DrivesOK
    <3>3. disk'[d] = x \/ disk'[d] = [x EXCEPT !.boot = TRUE]
      BY <1>3, <3>1 DEF UseInv, DrivesOK
    <3> QED BY <3>2, <3>3, DriveWritten
  <2>2. disk' = [d \in Devices |-> disk'[d]]
    BY <1>3 DEF UseInv, DrivesOK
  <2> QED BY <2>1, <2>2 DEF DrivesOK
<1>4. DrivesOK(disk')
  BY <1>2, <1>3 DEF UseInv
<1>5. ASSUME dev \in Devices PROVE TableOn(t, dev)
  BY <1>1, <1>2, <1>5, FlaggedOn DEF UseInv, TableIn
<1>6. CASE dev \in Devices
  BY <1>2, <1>4, <1>5, <1>6, SetTable
<1>7. CASE dev \notin Devices
  <2>1. table' = table
    BY <1>2, <1>7 DEF UseInv
  <2>2. \A d \in Devices : TableIn(table, d)'
    BY <1>2, <2>1 DEF UseInv, TableIn, TableOn, InPlace, HoldersOf, OpenOn
  <2> QED BY <1>2, <1>4, <1>7, <2>1, <2>2 DEF UseInv
<1> QED BY <1>6, <1>7

\* The boot sector can not be written.
LEMMA BootFailsUse == ASSUME UseInv, NEW dev, BootFails(dev) PROVE UseInv'
<1>1. PICK t : t = WithNoninit(table[dev], FALSE)
  OBVIOUS
<1>2. /\ table[dev] # NoTable /\ open' = open /\ table' = [table EXCEPT ![dev] = t]
      /\ writing' = NoWrite /\ disk' = disk
  BY <1>1 DEF BootFails, WithNoninit, Idle
<1>3. dev \in Devices => TableOn(t, dev)
  BY <1>1, <1>2, FlaggedOn DEF UseInv, TableIn
<1>4. DrivesOK(disk')
  BY <1>2 DEF UseInv
<1> QED BY <1>2, <1>3, <1>4, SetTable

\* Nothing in memory changes but how far the write is.
LEMMA OnlyWriting ==
  ASSUME UseInv, table' = table, open' = open, DrivesOK(disk'),
         writing' = NoWrite \/ (/\ writing # NoWrite
                                /\ writing' = [dev |-> writing.dev, next |-> writing'.next])
  PROVE  UseInv'
<1>1. \A d \in Devices : TableIn(table, d)'
  BY DEF UseInv, TableIn, TableOn, InPlace, HoldersOf, OpenOn
<1>2. ASSUME writing' # NoWrite
      PROVE  /\ writing' = [dev |-> writing'.dev, next |-> writing'.next]
             /\ writing'.dev \in Devices => table'[writing'.dev] # NoTable
  <2>1. writing'.dev = writing.dev /\ writing # NoWrite
    BY <1>2
  <2> QED BY <1>2, <2>1 DEF UseInv
<1> QED BY <1>1, <1>2 DEF UseInv

\* One sector of the map.
LEMMA WriteSectorUse == ASSUME UseInv, WriteSector PROVE UseInv'
<1>1. PICK dev : dev = writing.dev
  OBVIOUS
<1>2. PICK s : s = MapSector(table[dev], writing.next)
  OBVIOUS
<1>3. /\ writing # NoWrite /\ table' = table /\ open' = open
      /\ writing' = [writing EXCEPT !.next = @ + 1]
      /\ disk' = [disk EXCEPT ![dev].map[writing.next] = s]
  BY <1>1, <1>2 DEF WriteSector, Idle
<1>4. writing' = [dev |-> writing.dev, next |-> writing'.next]
  <2> DEFINE r == [dev |-> writing.dev, next |-> writing.next]
  <2>1. writing = r
    BY <1>3 DEF UseInv
  <2>2. writing' = [r EXCEPT !.next = @ + 1]
    BY <1>3, <2>1
  <2> QED BY <2>2
<1>5. ASSUME dev \in Devices PROVE s.count \in Nat
  <2>1. TableOn(table[dev], dev)
    BY <1>1, <1>3, <1>5 DEF UseInv, TableIn
  <2>2. Len(table[dev].parts) \in Nat
    BY <2>1, ListIs DEF TableOn, IsTable
  <2> QED BY <1>2, <2>2 DEF MapSector, Blank
<1>6. DrivesOK(disk')
  <2>1. ASSUME NEW d \in Devices PROVE DriveOK(disk'[d])
    <3>1. PICK x : x = disk[d]
      OBVIOUS
    <3>2. DriveOK(x)
      BY <3>1 DEF UseInv, DrivesOK
    <3>3. disk'[d] = IF d = dev THEN [x EXCEPT !.map[writing.next] = s] ELSE x
      BY <1>3, <3>1 DEF UseInv, DrivesOK
    <3>4. CASE d = dev
      <4>1. PICK n : n = writing.next
        OBVIOUS
      <4>2. DriveOK([x EXCEPT !.map[n] = s])
        BY <1>5, <3>2, <3>4, DriveWritten
      <4> QED BY <3>3, <3>4, <4>1, <4>2
    <3> QED BY <3>2, <3>3, <3>4
  <2>2. disk' = [d \in Devices |-> disk'[d]]
    BY <1>3 DEF UseInv, DrivesOK
  <2> QED BY <2>1, <2>2 DEF DrivesOK
<1> QED BY <1>3, <1>4, <1>6, OnlyWriting

\* The table is written.
LEMMA WriteEndUse == ASSUME UseInv, WriteEnd PROVE UseInv'
<1>1. PICK dev : dev = writing.dev
  OBVIOUS
<1>2. PICK t : t = WithDirty(table[dev], FALSE)
  OBVIOUS
<1>3. /\ writing # NoWrite /\ table' = [table EXCEPT ![dev] = t] /\ open' = open
      /\ writing' = NoWrite /\ disk' = disk
  BY <1>1, <1>2 DEF WriteEnd, Idle, WithDirty
<1>4. ASSUME dev \in Devices PROVE TableOn(t, dev)
  <2>1. TableOn(table[dev], dev)
    BY <1>1, <1>3, <1>4 DEF UseInv, TableIn
  <2> QED BY <1>2, <2>1, FlaggedOn
<1>5. DrivesOK(disk')
  BY <1>3 DEF UseInv
<1> QED BY <1>3, <1>4, <1>5, SetTable

\* A sector can not be written.
LEMMA WriteFailsUse == ASSUME UseInv, WriteFails PROVE UseInv'
<1>1. writing' = NoWrite /\ disk' = disk /\ table' = table /\ open' = open
  BY DEF WriteFails
<1>2. DrivesOK(disk')
  BY <1>1 DEF UseInv
<1> QED BY <1>1, <1>2, OnlyWriting

\* Nothing is cached and nothing is open.
LEMMA BlankUse ==
  ASSUME DrivesOK(disk), table = [d \in Devices |-> NoTable],
         open = [h \in Handles |-> Closed], writing = NoWrite
  PROVE  UseInv
<1>1. \A d \in Devices : table[d] = NoTable /\ OpenOn(d) = {}
  BY DEF OpenOn
<1> QED BY <1>1 DEF UseInv, TableIn

\* The program ends.
LEMMA ExitUse == ASSUME UseInv, Exit PROVE UseInv'
<1>1. /\ table' = [d \in Devices |-> NoTable] /\ open' = [h \in Handles |-> Closed]
      /\ writing' = NoWrite /\ disk' = disk
  BY DEF Exit
<1>2. \A d \in Devices : table'[d] = NoTable /\ OpenOn(d)' = {}
  BY <1>1 DEF OpenOn
<1>3. \A d \in Devices : TableIn(table, d)'
  BY <1>2 DEF TableIn
<1> QED BY <1>1, <1>3 DEF UseInv

\* A step that does nothing to the tables.
LEMMA SameUse == ASSUME UseInv, UNCHANGED ptVars PROVE UseInv'
BY SMTT(40) DEF ptVars, UseInv, TableIn, TableOn, InPlace, HoldersOf, OpenOn

-----------------------------------------------------------------------------
(* The programs.                                                           *)

\* mfsadd has a device in hand when it makes partitions.
AddShape(a) ==
  /\ {"pc", "opt", "x", "first"} \subseteq DOMAIN a
  /\ a.first \in Int /\ a.x \in Nat \ {0} /\ a.opt.xdevs \in Seq(Devices)
  /\ a.pc \in {"first", "second"} => a.x <= Len(a.opt.xdevs)

LayoutShape(l) == {"pc", "next"} \subseteq DOMAIN l /\ l.next \in Int

\* What a handle can be opened on.
Openable(dev, n) ==
  /\ dev \in Devices /\ ReadTable(dev) # NoTable
  /\ n \in Numbers(ReadTable(dev)) /\ ~IsFree(ReadTable(dev), n)

\* One program runs; while mfsadd opens the volume set, its partitions are there.
ProgInv ==
  /\ made >= 0 => add.pc = "off" /\ layout.pc = "off"
  /\ add.pc # "off" => AddShape(add) /\ layout.pc = "off"
  /\ layout.pc # "off" => LayoutShape(layout)
  /\ add.pc = "mount" => \A v \in DOMAIN volumes :
       v \in Handles \cap Nat /\ Openable(volumes[v].dev, volumes[v].number)

\* Whatever program starts, on whatever drives.
LEMMA InitUse == Init => UseInv /\ ProgInv
<1> SUFFICES ASSUME Init PROVE UseInv /\ ProgInv
  OBVIOUS
<1>1. \E drives \in ClientDrives \cup {job.disk : job \in AddJobs \cup RestoreJobs} : disk = drives
  BY DEF Init, ClientInit, AddProgramInit, RestoreInit
<1>2. DrivesOK(disk)
  BY <1>1, ProgramsOK DEF DrivesOK, DriveOK
<1>3. UseInv
  BY <1>2, BlankUse DEF Init, Fresh
<1>4. CASE ClientInit
  BY <1>3, <1>4 DEF ClientInit, ProgInv, NotAdding, NotRestoring
<1>5. CASE AddProgramInit
  <2>1. PICK job \in AddJobs : disk = job.disk /\ volumes = job.volumes /\ add = AddInit(job.opt)
    BY <1>5 DEF AddProgramInit
  <2>2. made = -1 /\ layout.pc = "off"
    BY <1>5 DEF AddProgramInit, NotRestoring
  <2>3. AddShape(add)
    BY <2>1, ProgramsOK DEF AddShape, AddInit
  <2>4. ASSUME NEW v \in DOMAIN volumes
        PROVE  v \in Handles \cap Nat /\ Openable(volumes[v].dev, volumes[v].number)
    <3> DEFINE dev == volumes[v].dev
               parts == PartsOn(disk[dev])
    <3>1. /\ v \in Handles \cap Nat /\ dev \in Devices
          /\ parts # <<>> /\ Len(parts) <= parts[1].sectors
          /\ volumes[v].number \in DOMAIN parts /\ parts[volumes[v].number].type = "MFS"
      BY <2>1, ProgramsOK
    <3>2. table[dev] = NoTable
      BY <3>1 DEF Init, Fresh
    <3>3. DriveOK(disk[dev])
      BY <1>2, <3>1 DEF DrivesOK
    <3>4. EntriesRead(disk[dev]) \in Nat
      BY <3>3, EntriesReadIs
    <3>5. parts \in Seq({parts[n] : n \in 1..EntriesRead(disk[dev])})
      BY <3>4, SMTT(30) DEF PartsOn
    <3> HIDE DEF parts
    <3>6. DOMAIN parts = 1..Len(parts) /\ parts # <<>>
      BY <3>1, <3>5
    <3>7. ReadTable(dev) = Table(parts, disk[dev].size)
      BY <3>1, <3>2 DEF ReadTable, parts
    <3>8. ReadTable(dev).parts = parts
      BY <3>7 DEF Table
    <3>9. "parts" \in DOMAIN ReadTable(dev) /\ DOMAIN NoTable = {}
      BY <3>7 DEF Table, NoTable
    <3> QED BY <3>1, <3>6, <3>8, <3>9 DEF Openable, Numbers, IsFree
  <2>5. layout.pc = "off" /\ ~(made >= 0)
    BY <2>2
  <2> QED BY <1>3, <2>3, <2>4, <2>5 DEF ProgInv
<1>6. CASE RestoreInit
  <2>1. made = -1 /\ add.pc = "off" /\ \E job \in RestoreJobs : layout = LayoutInit(job)
    BY <1>6 DEF RestoreInit, NotAdding
  <2>2. LayoutShape(layout)
    BY <2>1 DEF LayoutShape, LayoutInit
  <2>3. ~(made >= 0)
    BY <2>1
  <2> QED BY <1>3, <2>1, <2>2, <2>3 DEF ProgInv
<1> QED BY <1>3, <1>4, <1>5, <1>6 DEF Init

\* A client of the library.
LEMMA ClientUse ==
  ASSUME UseInv, ProgInv, ClientStep
  PROVE  UseInv' /\ ProgInv'
<1>1. made >= 0 /\ add.pc = "off" /\ layout.pc = "off"
  <2>1. made >= 0
    BY DEF ClientStep, ClientAdd, Client, ClientWriteEnd, ClientWriteFails, ClientExit
  <2> QED BY <2>1 DEF ProgInv
<1>2. add' = add /\ layout' = layout
  BY DEF ClientStep, ClientAdd, Client, ClientWriteEnd, ClientWriteFails, ClientExit
<1>3. ProgInv'
  BY <1>1, <1>2 DEF ProgInv
<1>4. ASSUME NEW dev \in Devices, ClientAdd(dev) PROVE UseInv'
  <2>1. PICK size \in ClientSizes, before \in 0..(Len(ReadTable(dev).parts) + 1) :
          AddTo(dev, Validated(dev), size, before, <<"new", made>>, "MFS")
    BY <1>4 DEF ClientAdd
  <2>2. before \in Int
    BY <2>1
  <2> QED BY <2>1, <2>2, AddUse
<1>5. ASSUME NEW dev \in Devices,
             \/ Client(Measure(dev)) \/ Client(Reread(dev) /\ dev \notin cut)
             \/ Client(WriteBegin(dev)) \/ Client(BootFails(dev))
             \/ Client(TableInit(dev) /\ ~disk[dev].boot /\ disk[dev].size > 0)
      PROVE  UseInv'
  BY <1>5, MeasureUse, RereadUse, WriteBeginUse, BootFailsUse, TableInitUse DEF Client
<1>6. ASSUME NEW dev \in Devices, NEW n \in 2..MapSectors,
             Client(Open(1, dev, n) /\ ~IsFree(ReadTable(dev), n))
      PROVE  UseInv'
  BY <1>6, OpenUse, ProgramsOK DEF Client
<1>7. ASSUME Client(Close(1)) PROVE UseInv'
  BY <1>7, CloseUse, ProgramsOK DEF Client
<1>8. ASSUME Client(WriteSector) \/ ClientWriteEnd \/ ClientWriteFails \/ ClientExit PROVE UseInv'
  BY <1>8, WriteSectorUse, WriteEndUse, WriteFailsUse, ExitUse
  DEF Client, ClientWriteEnd, ClientWriteFails, ClientExit
<1> QED BY <1>3, <1>4, <1>5, <1>6, <1>7, <1>8 DEF ClientStep

-----------------------------------------------------------------------------
(* mfsadd.                                                                 *)

\* Opening a partition takes nothing away from what may be opened.
LEMMA OpenReads ==
  ASSUME UseInv, NEW h \in Handles, NEW dev \in Devices, NEW n, Open(h, dev, n),
         NEW d, NEW m, Openable(d, m)
  PROVE  Openable(d, m)'
<1>1. PICK t : t = ReadTable(dev)
  OBVIOUS
<1>2. PICK p : p = t.parts[n]
  OBVIOUS
<1>3. PICK u : u = WithRefs(t, n, p.refs + 1)
  OBVIOUS
<1>4. /\ t # NoTable /\ n \in Numbers(t) /\ disk' = disk
      /\ table' = [table EXCEPT ![dev] = u]
  BY <1>1, <1>2, <1>3 DEF Open, WithRefs
<1>5. IsTable(t) /\ p.refs \in Nat \ {0}
  BY <1>1, <1>2, <1>4, ReadOn DEF TableOn, IsTable, IsList, IsEntry, Numbers
<1>6. /\ IsTable(u) /\ Numbers(u) = Numbers(t)
      /\ \A k \in Numbers(t) : k # n => u.parts[k] = t.parts[k]
      /\ u.parts[n].type = t.parts[n].type
  <2>1. PICK k \in Nat \ {0} : k = p.refs + 1
    BY <1>5
  <2> QED BY <1>2, <1>3, <1>4, <1>5, <2>1, RefsChanged, SMTT(40)
<1>7. d \in Devices /\ table'[d] = IF d = dev THEN u ELSE table[d]
  BY <1>4 DEF UseInv, Openable
<1>8. CASE d = dev
  <2>1. ReadTable(d)' = u /\ u # NoTable
    BY <1>6, <1>7, <1>8, TableIsNot DEF ReadTable
  <2>2. m \in Numbers(t) /\ t.parts[m].type # "free"
    BY <1>1, <1>8 DEF Openable, IsFree
  <2>3. m \in Numbers(u) /\ u.parts[m].type # "free"
    BY <1>6, <2>2
  <2> QED BY <1>7, <2>1, <2>3 DEF Openable, IsFree
<1>9. CASE d # dev
  <2>1. ReadTable(d)' = ReadTable(d)
    BY <1>4, <1>7, <1>9 DEF ReadTable
  <2> QED BY <1>7, <2>1 DEF Openable
<1> QED BY <1>8, <1>9

\* A step of mfsadd that is no longer opening the volume set.
LEMMA AddGoes ==
  ASSUME ProgInv, made = -1, layout.pc = "off", made' = made, layout' = layout,
         AddShape(add'), add'.pc # "mount"
  PROVE  ProgInv'
<1>1. ~(made' >= 0) /\ layout'.pc = "off"
  OBVIOUS
<1>2. AddShape(add)'
  BY DEF AddShape
<1> QED BY <1>1, <1>2 DEF ProgInv

\* The next device.
LEMMA Turned ==
  ASSUME AddShape(add), NEW a, a = [add EXCEPT !.x = @ + 1, !.plan = <<>>]
  PROVE  /\ {"pc", "opt", "x", "first"} \subseteq DOMAIN a /\ a.first \in Int
         /\ a.x \in Nat \ {0} /\ a.opt.xdevs \in Seq(Devices) /\ a.pc = add.pc
<1>1. /\ {"pc", "opt", "x", "first"} \subseteq DOMAIN a /\ a.first = add.first
      /\ a.opt = add.opt /\ a.x = add.x + 1 /\ a.pc = add.pc
  BY DEF AddShape
<1> QED BY <1>1 DEF AddShape

\* mfs_init opens one partition after the other.
LEMMA MountUse ==
  ASSUME UseInv, ProgInv, add.pc # "off", made = -1, made' = made, layout' = layout, Mount
  PROVE  UseInv' /\ ProgInv'
<1> DEFINE unopened == {v \in DOMAIN volumes : open[v] = Closed}
<1>0. /\ add.pc = "mount" /\ volumes' = volumes /\ AddShape(add) /\ layout.pc = "off"
      /\ \A v \in DOMAIN volumes : v \in Handles \cap Nat
                                   /\ Openable(volumes[v].dev, volumes[v].number)
  BY DEF Mount, ProgInv
<1>1. CASE unopened = {}
  <2>1. add' = [add EXCEPT !.pc = "given"] /\ UNCHANGED ptVars
    BY <1>1 DEF Mount, Goto
  <2>2. AddShape(add') /\ add'.pc # "mount"
    BY <1>0, <2>1 DEF AddShape
  <2> QED BY <1>0, <2>1, <2>2, SameUse, AddGoes
<1>2. CASE unopened # {}
  <2>1. PICK v : v = CHOOSE u \in unopened : \A w \in unopened : u <= w
    OBVIOUS
  <2>2. Open(v, volumes[v].dev, volumes[v].number) /\ add' = add
    BY <1>2, <2>1 DEF Mount
  <2>3. unopened \subseteq Nat
    BY <1>0
  <2>4. v \in unopened
    <3> HIDE DEF unopened
    <3> QED BY <1>2, <2>1, <2>3, LeastIs
  <2>5. v \in Handles /\ Openable(volumes[v].dev, volumes[v].number)
    BY <1>0, <2>4
  <2>6. UseInv'
    BY <2>2, <2>5, OpenUse DEF Openable
  <2>7. ASSUME NEW w \in DOMAIN volumes'
        PROVE  w \in Handles \cap Nat /\ Openable(volumes[w].dev, volumes[w].number)'
    <3>1. PICK d : d = volumes[w].dev
      OBVIOUS
    <3>2. PICK m : m = volumes[w].number
      OBVIOUS
    <3>3. w \in Handles \cap Nat /\ Openable(d, m)
      BY <1>0, <3>1, <3>2
    <3>4. PICK dev : dev = volumes[v].dev
      OBVIOUS
    <3>5. PICK n : n = volumes[v].number
      OBVIOUS
    <3>6. Open(v, dev, n) /\ dev \in Devices
      BY <2>2, <2>5, <3>4, <3>5 DEF Openable
    <3>7. Openable(d, m)'
      BY <2>5, <3>3, <3>6, OpenReads
    <3>8. volumes'[w].dev = d /\ volumes'[w].number = m
      BY <1>0, <3>1, <3>2
    <3> QED BY <3>3, <3>7, <3>8 DEF Openable
  <2>8. ~(made' >= 0) /\ layout'.pc = "off" /\ AddShape(add)'
    BY <1>0, <2>2 DEF AddShape
  <2>9. ProgInv'
    BY <2>7, <2>8 DEF ProgInv
  <2> QED BY <2>6, <2>9
<1> QED BY <1>1, <1>2

\* Every step of mfsadd.
LEMMA AddProgramUse ==
  ASSUME UseInv, ProgInv, AddProgram
  PROVE  UseInv' /\ ProgInv'
<1>0. /\ made = -1 /\ made' = made /\ layout' = layout /\ add.pc # "off" /\ AddStep
      /\ AddShape(add) /\ layout.pc = "off"
  BY DEF AddProgram, ProgInv
<1> DEFINE Goal == UseInv' /\ AddShape(add') /\ add'.pc # "mount"
<1>1. CASE Mount
  BY <1>0, <1>1, MountUse
<1>2. ASSUME CheckGiven PROVE Goal
  <2>1. PICK pc \in {"init", "stopped"} : add' = [add EXCEPT !.pc = pc]
    BY <1>2 DEF CheckGiven, Goto
  <2>2. UseInv'
    BY <1>2, SameUse DEF CheckGiven
  <2> QED BY <1>0, <2>1, <2>2 DEF AddShape
<1>3. ASSUME InitSecond PROVE Goal
  <2>1. add' = [add EXCEPT !.pc = "extend"]
    BY <1>3 DEF InitSecond, Goto
  <2>2. (\E dev : TableInit(dev)) \/ UNCHANGED ptVars
    BY <1>3 DEF InitSecond
  <2>3. UseInv'
    BY <2>2, SameUse, TableInitUse
  <2> QED BY <1>0, <2>1, <2>3 DEF AddShape
<1>4. ASSUME PlanPair PROVE Goal
  <2>1. UseInv'
    BY <1>4, MeasureUse DEF PlanPair
  <2>2. add.x <= Len(add.opt.xdevs) /\ add.pc = "extend"
    BY <1>4 DEF PlanPair
  <2>3. CASE add' = [add EXCEPT !.x = @ + 1, !.plan = <<>>]
    <3>1. /\ {"pc", "opt", "x", "first"} \subseteq DOMAIN add' /\ add'.first \in Int
          /\ add'.x \in Nat \ {0} /\ add'.opt.xdevs \in Seq(Devices) /\ add'.pc = "extend"
      BY <1>0, <2>2, <2>3, Turned
    <3> QED BY <2>1, <3>1 DEF AddShape
  <2>4. ASSUME NEW plan, add' = [add EXCEPT !.pc = "first", !.plan = plan] PROVE Goal
    <3>1. /\ {"pc", "opt", "x", "first"} \subseteq DOMAIN add' /\ add'.first = add.first
          /\ add'.opt = add.opt /\ add'.x = add.x /\ add'.pc = "first"
      BY <1>0, <2>4 DEF AddShape
    <3> QED BY <1>0, <2>1, <2>2, <3>1 DEF AddShape
  <2> QED BY <1>4, <2>3, <2>4 DEF PlanPair, NextDevice
<1>5. ASSUME add.pc \in {"first", "second"}, NEW size, NEW before \in Int, NEW name,
             Validated(XDev) # NoTable
      PROVE  Added(Validated(XDev), size, before, name, "MFS").number \in Int
  <2>1. XDev \in Devices
    BY <1>0, <1>5 DEF AddShape, XDev
  <2> QED BY <1>5, <2>1, ValidatedOn, AddedOn
<1>6. ASSUME AddFirst PROVE Goal
  <2>1. PICK size, name, shifted :
          /\ AddTo(XDev, Validated(XDev), size, 0, name, "MFS")
          /\ add' = [add EXCEPT !.pc = "second",
                       !.first = Added(Validated(XDev), size, 0, name, "MFS").number,
                       !.shifted = shifted]
    BY <1>6 DEF AddFirst
  <2>2. UseInv'
    BY <2>1, AddUse
  <2>3. add.pc = "first" /\ Validated(XDev) # NoTable
    BY <1>6, <2>1 DEF AddFirst, AddTo
  <2>4. PICK number \in Int : number = Added(Validated(XDev), size, 0, name, "MFS").number
    BY <1>5, <2>3
  <2>5. add' = [add EXCEPT !.pc = "second", !.first = number, !.shifted = shifted]
    BY <2>1, <2>4
  <2> QED BY <1>0, <2>2, <2>3, <2>5 DEF AddShape
<1>7. ASSUME AddSecond PROVE Goal
  <2>1. add.first \in Int
    BY <1>0 DEF AddShape
  <2>2. PICK before \in Int : \E size, name, sh :
          /\ AddTo(XDev, Validated(XDev), size, before, name, "MFS")
          /\ add' = [AfterSecond(Added(Validated(XDev), size, before, name, "MFS").number)
                       EXCEPT !.shifted = sh]
    <3>1. PICK before : before = IF add.plan.mediaFirst THEN add.first ELSE 0
      OBVIOUS
    <3>2. PICK size, name, sh :
            /\ AddTo(XDev, Validated(XDev), size, before, name, "MFS")
            /\ add' = [AfterSecond(Added(Validated(XDev), size, before, name, "MFS").number)
                         EXCEPT !.shifted = sh]
      BY <1>7, <3>1 DEF AddSecond
    <3>3. before \in Int
      BY <2>1, <3>1
    <3> QED BY <3>2, <3>3
  <2>3. UseInv'
    BY <2>2, AddUse
  <2>4. PICK sh, after : /\ add' = [after EXCEPT !.shifted = sh]
                         /\ \E second : after = AfterSecond(second)
    BY <2>2
  <2>5. PICK nd : nd = NextDevice
    OBVIOUS
  <2>6. add.pc = "second"
    BY <1>7 DEF AddSecond
  <2>7. /\ {"pc", "opt", "x", "first"} \subseteq DOMAIN nd /\ nd.first \in Int
        /\ nd.x \in Nat \ {0} /\ nd.opt.xdevs \in Seq(Devices)
    BY <1>0, <2>5, Turned DEF NextDevice
  <2>8. \/ after = [add EXCEPT !.pc = "stopped"]
        \/ \E left : after = [nd EXCEPT !.pc = "extend", !.left = left]
        \/ \E more : after = [nd EXCEPT !.pc = "extend", !.pairs = more]
        \/ \E more : after = [add EXCEPT !.pc = "extend", !.pairs = more]
    BY <2>4, <2>5 DEF AfterSecond
  <2>9. AddShape(after) /\ after.pc \in {"stopped", "extend"}
    BY <1>0, <2>7, <2>8 DEF AddShape
  <2>10. AddShape(add') /\ add'.pc \in {"stopped", "extend"}
    BY <2>4, <2>9 DEF AddShape
  <2> QED BY <2>3, <2>10
<1>8. ASSUME CheckCount PROVE Goal
  <2>1. \/ \E devs : add' = [add EXCEPT !.pc = "write", !.toWrite = devs]
        \/ add' = [add EXCEPT !.pc = "stopped"]
    BY <1>8 DEF CheckCount
  <2>2. UseInv'
    BY <1>8, SameUse DEF CheckCount
  <2> QED BY <1>0, <2>1, <2>2 DEF AddShape
<1>9. ASSUME BeginTable PROVE Goal
  <2>1. /\ \/ add' = [add EXCEPT !.toWrite = Tail(@)]
           \/ \E failed : add' = [add EXCEPT !.toWrite = Tail(@), !.failed = failed]
        /\ add.pc = "write"
    BY <1>9 DEF BeginTable
  <2>2. (\E dev : WriteBegin(dev) \/ BootFails(dev)) \/ UNCHANGED ptVars
    BY <1>9 DEF BeginTable
  <2>3. UseInv'
    BY <2>2, SameUse, WriteBeginUse, BootFailsUse
  <2> QED BY <1>0, <2>1, <2>3 DEF AddShape
<1>10. ASSUME TablesWritten \/ Finish PROVE Goal
  <2>1. PICK pc \in {"pairs", "done"} : add' = [add EXCEPT !.pc = pc]
    BY <1>10 DEF TablesWritten, Finish, Goto
  <2>2. UseInv'
    BY <1>10, SameUse DEF TablesWritten, Finish
  <2> QED BY <1>0, <2>1, <2>2 DEF AddShape
<1>11. ASSUME AddPair PROVE Goal
  <2>1. add' = [add EXCEPT !.done = @ + 2] \/ add' = [add EXCEPT !.pc = "refused"]
    BY <1>11 DEF AddPair, Goto
  <2>2. UseInv' /\ add.pc = "pairs"
    BY <1>11, SameUse DEF AddPair
  <2> QED BY <1>0, <2>1, <2>2 DEF AddShape
<1>12. ASSUME Dies PROVE Goal
  <2>1. add' = [add EXCEPT !.pc = "dead"] /\ UseInv'
    BY <1>12, ExitUse DEF Dies, Goto
  <2> QED BY <1>0, <2>1 DEF AddShape
<1>13. ASSUME add.pc = "write" /\ (WriteSector \/ WriteEnd) /\ UNCHANGED addVars PROVE Goal
  <2>1. UseInv' /\ add' = add /\ add.pc = "write"
    BY <1>13, WriteSectorUse, WriteEndUse DEF addVars
  <2> QED BY <1>0, <2>1
<1>14. ASSUME TableFails PROVE Goal
  <2>1. (\E failed : add' = [add EXCEPT !.failed = failed]) /\ add.pc = "write"
    BY <1>14 DEF TableFails
  <2>2. UseInv'
    BY <1>14, WriteFailsUse DEF TableFails
  <2> QED BY <1>0, <2>1, <2>2 DEF AddShape
<1> HIDE DEF Goal
<1>15. Goal => UseInv' /\ ProgInv'
  BY <1>0, AddGoes DEF Goal
<1> QED BY <1>0, <1>1, <1>2, <1>3, <1>4, <1>6, <1>7, <1>8, <1>9, <1>10, <1>11, <1>12, <1>13,
           <1>14, <1>15 DEF AddStep

-----------------------------------------------------------------------------
(* restore.                                                                *)

\* The place restore asks for is a number.
LEMMA PlaceForIs == ASSUME NEW parts, NEW n \in Int PROVE PlaceFor(parts, n) \in Int
<1> DEFINE S == {m \in 1..(n - 1) : parts[m].dev = parts[n].dev
                                      /\ parts[m].number < parts[n].number}
<1>1. IsFiniteSet(1..(n - 1))
  <2>1. n - 1 \in Int /\ 1 \in Int
    OBVIOUS
  <2> QED BY <2>1, FS_Interval
<1>2. S \subseteq 1..(n - 1)
  OBVIOUS
<1>3. Cardinality(S) \in Nat
  <2> HIDE DEF S
  <2> QED BY <1>1, <1>2, FS_Subset, FS_CardinalityType
<1> QED BY <1>3 DEF PlaceFor

\* Every step of restore.
LEMMA RestoreProgramUse ==
  ASSUME UseInv, ProgInv, RestoreProgram
  PROVE  UseInv' /\ ProgInv'
<1>0. /\ made = -1 /\ made' = made /\ layout.pc # "off" /\ LayoutStep
      /\ add.pc = "off" /\ LayoutShape(layout)
  BY DEF RestoreProgram, ProgInv
<1> DEFINE Goal == UseInv' /\ add' = add /\ LayoutShape(layout')
           Only(pc) == layout' = [layout EXCEPT !.pc = pc]
<1>1. ASSUME NEW pc, Only(pc) PROVE LayoutShape(layout')
  BY <1>0, <1>1 DEF LayoutShape
<1> HIDE DEF Only
<1>2. ASSUME InitTarget PROVE Goal
  <2>1. TableInit(TargetDev) /\ Only("measure") /\ add' = add
    BY <1>2 DEF InitTarget, GoOn, LayoutUnchanged, addVars, Only
  <2> QED BY <1>1, <2>1, TableInitUse
<1>3. ASSUME MeasureTarget PROVE Goal
  <2>1. UseInv' /\ add' = add
    BY <1>3, MeasureUse DEF MeasureTarget, LayoutUnchanged, addVars
  <2>2. PICK secs, pc, x : layout' = [layout EXCEPT !.secs[layout.x] = secs, !.pc = pc, !.x = x]
    BY <1>3 DEF MeasureTarget
  <2> QED BY <1>0, <2>1, <2>2 DEF LayoutShape
<1>4. ASSUME TryDev PROVE Goal
  <2>1. UseInv' /\ add' = add
    BY <1>4, SameUse DEF TryDev, LayoutUnchanged, addVars
  <2>2. PICK plan, secs1 :
          layout' = [layout EXCEPT !.parts = plan.parts, !.mfs = plan.mfs, !.secs[1] = secs1,
                       !.pc = IF plan.parts = <<>> THEN "refused" ELSE "start"]
    BY <1>4 DEF TryDev
  <2> QED BY <1>0, <2>1, <2>2 DEF LayoutShape
<1>5. ASSUME StartDevice PROVE Goal
  <2>1. UseInv' /\ add' = add
    BY <1>5, SameUse DEF StartDevice, LayoutUnchanged, addVars
  <2>2. PICK parts : layout' = [layout EXCEPT !.pc = "make", !.next = 1, !.parts = parts]
    BY <1>5 DEF StartDevice
  <2> QED BY <1>0, <2>1, <2>2 DEF LayoutShape
<1>6. ASSUME MakePart PROVE Goal
  <2>1. /\ layout' = [layout EXCEPT !.next = @ + 1] /\ add' = add /\ layout.next \in Int
    BY <1>0, <1>6 DEF MakePart, LayoutUnchanged, addVars, LayoutShape
  <2>2. PICK before \in Int : before = PlaceFor(layout.parts, layout.next)
    BY <2>1, PlaceForIs
  <2>3. (\E dev, size, name, type : AddTo(dev, Validated(dev), size, before, name, type))
        \/ UNCHANGED ptVars
    BY <1>6, <2>2 DEF MakePart
  <2>4. UseInv'
    BY <2>3, AddUse, SameUse
  <2> QED BY <1>0, <2>1, <2>4 DEF LayoutShape
<1>7. ASSUME PartsMade PROVE Goal
  <2>1. UseInv' /\ add' = add
    BY <1>7, SameUse DEF PartsMade, LayoutUnchanged, addVars
  <2>2. layout' = [layout EXCEPT !.pc = "rename", !.next = 1]
    BY <1>7 DEF PartsMade
  <2> QED BY <1>0, <2>1, <2>2 DEF LayoutShape
<1>8. ASSUME NameMfs PROVE Goal
  <2>1. /\ layout' = [layout EXCEPT !.next = @ + 1] /\ add' = add
    BY <1>8 DEF NameMfs, LayoutUnchanged, addVars
  <2>2. (\E dev, n, name : Rename(dev, n, name)) \/ UNCHANGED ptVars
    BY <1>8 DEF NameMfs
  <2>3. UseInv'
    BY <2>2, RenameUse, SameUse
  <2> QED BY <1>0, <2>1, <2>3 DEF LayoutShape
<1>9. ASSUME BeginWrite PROVE Goal
  <2>1. /\ Only("table") \/ \E lost : layout' = [layout EXCEPT !.pc = "table", !.lost = lost]
        /\ add' = add
        /\ WriteBegin(TargetDev) \/ BootFails(TargetDev) \/ UNCHANGED ptVars
    BY <1>9 DEF BeginWrite, GoOn, LayoutUnchanged, addVars, Only
  <2>2. UseInv'
    BY <2>1, WriteBeginUse, BootFailsUse, SameUse
  <2>3. LayoutShape(layout')
    BY <1>0, <1>1, <2>1 DEF LayoutShape
  <2> QED BY <2>1, <2>2, <2>3
<1>10. ASSUME DeviceDone PROVE Goal
  <2>1. UseInv' /\ add' = add
    BY <1>10, SameUse DEF DeviceDone, LayoutUnchanged, addVars
  <2>2. \/ layout' = [layout EXCEPT !.pc = "start", !.x = 2]
        \/ layout' = [layout EXCEPT !.pc = "header"]
    BY <1>10 DEF DeviceDone
  <2> QED BY <1>0, <2>1, <2>2 DEF LayoutShape
<1>11. ASSUME WriteHeaderList PROVE Goal
  <2>1. UseInv' /\ add' = add /\ Only("clean")
    BY <1>11, SameUse DEF WriteHeaderList, GoOn, Only
  <2> QED BY <1>1, <2>1
<1>12. ASSUME CleanUp PROVE Goal
  <2>1. UseInv' /\ add' = add /\ \E pc : Only(pc)
    BY <1>12, SameUse DEF CleanUp, GoOn, LayoutUnchanged, addVars, Only
  <2> QED BY <1>1, <2>1
<1>13. ASSUME RestoreDies PROVE Goal
  <2>1. UseInv' /\ add' = add /\ Only("dead")
    BY <1>13, ExitUse DEF RestoreDies, GoOn, LayoutUnchanged, addVars, Only
  <2> QED BY <1>1, <2>1
<1>14. ASSUME (WriteSector \/ WriteEnd) /\ UNCHANGED layout /\ LayoutUnchanged PROVE Goal
  <2>1. UseInv' /\ add' = add /\ layout' = layout
    BY <1>14, WriteSectorUse, WriteEndUse DEF LayoutUnchanged, addVars
  <2> QED BY <1>0, <2>1
<1>15. ASSUME TargetFails PROVE Goal
  <2>1. UseInv' /\ add' = add
    BY <1>15, WriteFailsUse DEF TargetFails, LayoutUnchanged, addVars
  <2>2. \E lost : layout' = [layout EXCEPT !.lost = lost]
    BY <1>15 DEF TargetFails
  <2> QED BY <1>0, <2>1, <2>2 DEF LayoutShape
<1> HIDE DEF Goal
<1>16. Goal
  BY <1>0, <1>2, <1>3, <1>4, <1>5, <1>6, <1>7, <1>8, <1>9, <1>10, <1>11, <1>12, <1>13, <1>14,
     <1>15 DEF LayoutStep
<1>17. UseInv' /\ add' = add /\ LayoutShape(layout')
  BY <1>16 DEF Goal
<1>18. ProgInv'
  <2>1. ~(made' >= 0) /\ add'.pc = "off" /\ LayoutShape(layout)'
    BY <1>0, <1>17 DEF LayoutShape
  <2> QED BY <2>1 DEF ProgInv
<1> QED BY <1>17, <1>18

-----------------------------------------------------------------------------
(* The theorem.                                                            *)

\* The invariant is inductive.
LEMMA NextUse ==
  ASSUME UseInv, ProgInv, [Next]_vars
  PROVE  UseInv' /\ ProgInv'
<1>1. CASE UNCHANGED vars
  <2>1. UseInv'
    BY <1>1, SameUse DEF vars, ptVars
  <2>2. /\ add' = add /\ layout' = layout /\ volumes' = volumes /\ made' = made
        /\ \A dev : ReadTable(dev)' = ReadTable(dev)
    BY <1>1 DEF vars, ReadTable
  <2>3. ProgInv'
    BY <2>2 DEF ProgInv, AddShape, LayoutShape, Openable, IsFree
  <2> QED BY <2>1, <2>3
<1> QED BY <1>1, ClientUse, AddProgramUse, RestoreProgramUse DEF Next, Stopped

\* tivo_partition_add moves and drops no entry a handle points to, nor does any other call
\* of the programs, in whatever order they come (macpart.c:799).
THEOREM HandlesStayPut == Spec => []InUseUntouched
<1>1. Init => UseInv /\ ProgInv
  BY InitUse
<1>2. UseInv /\ ProgInv /\ [Next]_vars => UseInv' /\ ProgInv'
  BY NextUse
<1>3. UseInv => InUseUntouched
  BY UseInvKeeps
<1> QED BY <1>1, <1>2, <1>3, PTL DEF Spec

-----------------------------------------------------------------------------
(* How far the walk of validation comes.                                   *)

\* The sectors of a table are numbers.
SectorsOf(t) ==
  /\ t.devsize \in Nat
  /\ \A n \in Numbers(t) : t.parts[n].start \in Nat /\ t.parts[n].sectors \in Nat

Ends(t, s) == s >= t.devsize \/ Ahead(t, s) = {}
Onward(t, s) == s + t.parts[Nearest(t, s)].sectors

\* The sectors a walk from s on comes to.
GoesOn(t, S) == \A y \in S : ~Ends(t, y) => Onward(t, y) \in S
Reach(t, s) == {y \in Nat : \A S \in SUBSET Nat : s \in S /\ GoesOn(t, S) => y \in S}

\* The nearest partition is one of those ahead.
LEMMA NearestIs ==
  ASSUME NEW t, IsTable(t), SectorsOf(t), NEW s, Ahead(t, s) # {}
  PROVE  LET n == Nearest(t, s) IN
         /\ n \in Ahead(t, s)
         /\ \A m \in Ahead(t, s) : \/ t.parts[n].start < t.parts[m].start
                                   \/ t.parts[n].start = t.parts[m].start /\ n <= m
<1> DEFINE A == Ahead(t, s)
           Starts == {t.parts[n].start : n \in A}
           First(n) == \A m \in A : \/ t.parts[n].start < t.parts[m].start
                                    \/ t.parts[n].start = t.parts[m].start /\ n <= m
<1>1. A \subseteq Nat /\ A # {} /\ \A n \in A : t.parts[n].start \in Nat
  BY ListIs DEF Ahead, Numbers, SectorsOf, IsTable
<1> HIDE DEF A
<1>2. Starts \subseteq Nat /\ Starts # {}
  BY <1>1
<1>3. PICK k \in Starts : \A l \in Starts : k <= l
  <2> HIDE DEF Starts
  <2> QED BY <1>2, LeastIs
<1> DEFINE B == {n \in A : t.parts[n].start = k}
<1>4. B \subseteq Nat /\ B # {}
  BY <1>1, <1>3
<1>5. PICK n \in B : \A m \in B : n <= m
  <2> HIDE DEF B
  <2> QED BY <1>4, LeastIs
<1>6. n \in A /\ First(n)
  <2> SUFFICES ASSUME NEW m \in A
               PROVE  \/ t.parts[n].start < t.parts[m].start
                      \/ t.parts[n].start = t.parts[m].start /\ n <= m
    BY <1>5
  <2>1. t.parts[m].start \in Starts /\ t.parts[n].start = k
    BY <1>5
  <2>2. k <= t.parts[m].start
    BY <1>3, <2>1
  <2>3. CASE t.parts[m].start = k
    BY <1>5, <2>1, <2>3
  <2>4. CASE t.parts[m].start # k
    BY <1>1, <1>2, <2>1, <2>2, <2>4
  <2> QED BY <2>3, <2>4
<1> DEFINE c == CHOOSE i \in A : First(i)
<1>7. c \in A /\ First(c)
  <2> HIDE DEF First
  <2> QED BY <1>6
<1>8. Nearest(t, s) = c
  BY DEF Nearest, A
<1> QED BY <1>7, <1>8 DEF A

\* The walk goes forward until it ends.
LEMMA OnwardIs ==
  ASSUME NEW t, IsTable(t), SectorsOf(t), NEW s \in Nat, ~Ends(t, s)
  PROVE  Onward(t, s) \in Nat /\ Onward(t, s) > s /\ s < t.devsize
<1>1. Ahead(t, s) # {} /\ s < t.devsize
  BY DEF Ends, SectorsOf
<1>2. PICK n \in Ahead(t, s) : n = Nearest(t, s)
  BY <1>1, NearestIs
<1>3. t.parts[n].sectors \in Nat \ {0}
  BY DEF Ahead, SectorsOf
<1> QED BY <1>1, <1>2, <1>3 DEF Onward

\* What is reached from s: s, and what is reached from the next stop.
LEMMA ReachIs ==
  ASSUME NEW t, IsTable(t), SectorsOf(t), NEW s \in Nat
  PROVE  /\ s \in Reach(t, s) /\ Reach(t, s) \subseteq Nat /\ GoesOn(t, Reach(t, s))
         /\ Ends(t, s) => Reach(t, s) = {s}
         /\ ~Ends(t, s) => Reach(t, s) = {s} \cup Reach(t, Onward(t, s))
<1>1. s \in Reach(t, s) /\ Reach(t, s) \subseteq Nat
  BY DEF Reach
<1>2. ASSUME NEW u \in Nat PROVE GoesOn(t, Reach(t, u))
  <2> SUFFICES ASSUME NEW y \in Reach(t, u), ~Ends(t, y) PROVE Onward(t, y) \in Reach(t, u)
    BY DEF GoesOn
  <2>1. y \in Nat /\ Onward(t, y) \in Nat
    BY OnwardIs DEF Reach
  <2>2. ASSUME NEW S \in SUBSET Nat, u \in S, GoesOn(t, S) PROVE Onward(t, y) \in S
    BY <2>2 DEF Reach, GoesOn
  <2> QED BY <2>1, <2>2 DEF Reach
<1>3. ASSUME NEW S \in SUBSET Nat, s \in S, GoesOn(t, S) PROVE Reach(t, s) \subseteq S
  BY <1>3 DEF Reach
<1>4. ASSUME Ends(t, s) PROVE Reach(t, s) = {s}
  <2>1. GoesOn(t, {s})
    BY <1>4 DEF GoesOn
  <2> QED BY <1>1, <1>3, <2>1
<1>5. ASSUME ~Ends(t, s) PROVE Reach(t, s) = {s} \cup Reach(t, Onward(t, s))
  <2> DEFINE u == Onward(t, s)
  <2>1. u \in Nat
    BY <1>5, OnwardIs
  <2>2. Reach(t, u) \subseteq Nat /\ u \in Reach(t, u) /\ GoesOn(t, Reach(t, u))
    BY <1>2, <2>1 DEF Reach
  <2>3. GoesOn(t, {s} \cup Reach(t, u))
    BY <2>2 DEF GoesOn
  <2>4. Reach(t, s) \subseteq {s} \cup Reach(t, u)
    BY <1>3, <2>2, <2>3
  <2>5. u \in Reach(t, s)
    BY <1>1, <1>2, <1>5 DEF GoesOn
  <2>6. Reach(t, u) \subseteq Reach(t, s)
    <3> SUFFICES ASSUME NEW y \in Reach(t, u) PROVE y \in Reach(t, s)
      OBVIOUS
    <3>1. Reach(t, s) \in SUBSET Nat /\ GoesOn(t, Reach(t, s))
      BY <1>1, <1>2
    <3> QED BY <2>5, <3>1 DEF Reach
  <2> QED BY <1>1, <2>4, <2>6
<1> QED BY <1>1, <1>2, <1>4, <1>5

\* The walk ends at one sector.
LEMMA EndIs ==
  ASSUME NEW t, IsTable(t), SectorsOf(t), NEW s \in Nat
  PROVE  /\ \E y \in Reach(t, s) : Ends(t, y)
         /\ \A y, z \in Reach(t, s) : Ends(t, y) /\ Ends(t, z) => y = z
<1>1. Reach(t, s) \subseteq Nat /\ s \in Reach(t, s) /\ GoesOn(t, Reach(t, s))
  BY ReachIs
<1>2. \E y \in Reach(t, s) : Ends(t, y)
  <2> SUFFICES ASSUME \A y \in Reach(t, s) : ~Ends(t, y) PROVE FALSE
    OBVIOUS
  <2>1. \A y \in Reach(t, s) : y \in Nat /\ y < t.devsize /\ Onward(t, y) > y
                               /\ Onward(t, y) \in Reach(t, s)
    BY <1>1, OnwardIs DEF GoesOn
  <2>2. t.devsize \in Nat
    BY DEF SectorsOf
  <2>3. Reach(t, s) \subseteq 0..t.devsize /\ Reach(t, s) # {}
    BY <1>1, <2>1, <2>2
  <2>4. PICK y \in Reach(t, s) : \A z \in Reach(t, s) : z <= y
    BY <2>2, <2>3, GreatestIs
  <2>5. Onward(t, y) <= y /\ Onward(t, y) > y /\ y \in Nat /\ Onward(t, y) \in Nat
    BY <1>1, <2>1, <2>4
  <2> QED BY <2>5
<1>3. ASSUME NEW y \in Reach(t, s), NEW z \in Reach(t, s), Ends(t, y), Ends(t, z) PROVE y = z
  <2> DEFINE S == {x \in Reach(t, s) : z \in Reach(t, x)}
  <2>1. S \in SUBSET Nat /\ s \in S
    BY <1>1
  <2>2. GoesOn(t, S)
    <3> SUFFICES ASSUME NEW x \in S, ~Ends(t, x) PROVE Onward(t, x) \in S
      BY DEF GoesOn
    <3>1. x \in Nat /\ Onward(t, x) \in Reach(t, s)
      BY <1>1 DEF GoesOn
    <3>2. Reach(t, x) = {x} \cup Reach(t, Onward(t, x)) /\ z # x
      BY <1>3, <3>1, ReachIs
    <3> QED BY <3>1, <3>2
  <2>3. y \in S
    <3> HIDE DEF S
    <3> QED BY <2>1, <2>2 DEF Reach
  <2>4. Reach(t, y) = {y}
    BY <1>1, <1>3, ReachIs
  <2> QED BY <2>3, <2>4
<1> QED BY <1>2, <1>3

End(t, s) == CHOOSE y \in Reach(t, s) : Ends(t, y)
Met(t, s) == {Nearest(t, y) : y \in {y \in Reach(t, s) : ~Ends(t, y)}}

\* "w", the function of the walk, is one.
WalkBody(t, w) ==
  [s \in Nat |->
     IF s >= t.devsize \/ Ahead(t, s) = {}
     THEN [upTo |-> s, met |-> {}]
     ELSE LET n == Nearest(t, s)
              r == w[s + t.parts[n].sectors]
          IN  [r EXCEPT !.met = @ \cup {n}]]

LEMMA WalkExists ==
  ASSUME NEW t, IsTable(t), SectorsOf(t)
  PROVE  \E w : w = WalkBody(t, w)
<1> DEFINE f == [s \in Nat |-> [upTo |-> End(t, s), met |-> Met(t, s)]]
<1>1. ASSUME NEW s \in Nat PROVE f[s] = WalkBody(t, f)[s]
  <2>1. CASE Ends(t, s)
    <3>1. Reach(t, s) = {s}
      BY <2>1, ReachIs
    <3>2. End(t, s) = s /\ Met(t, s) = {}
      BY <2>1, <3>1 DEF End, Met
    <3> QED BY <2>1, <3>2 DEF WalkBody, Ends
  <2>2. CASE ~Ends(t, s)
    <3> DEFINE u == Onward(t, s)
    <3>1. u \in Nat /\ Reach(t, s) = {s} \cup Reach(t, u)
      BY <2>2, ReachIs, OnwardIs
    <3>2. \A y : y \in Reach(t, s) /\ Ends(t, y) <=> y \in Reach(t, u) /\ Ends(t, y)
      BY <2>2, <3>1
    <3>3. End(t, s) = End(t, u)
      BY <3>2 DEF End
    <3>4. Met(t, s) = Met(t, u) \cup {Nearest(t, s)}
      <4> HIDE DEF u
      <4> QED BY <2>2, <3>1 DEF Met
    <3>5. WalkBody(t, f)[s] = [f[u] EXCEPT !.met = @ \cup {Nearest(t, s)}]
      BY <2>2 DEF WalkBody, Ends, Onward
    <3>6. f[u] = [upTo |-> End(t, u), met |-> Met(t, u)]
      BY <3>1
    <3> HIDE DEF f, u
    <3>7. WalkBody(t, f)[s] = [upTo |-> End(t, u), met |-> Met(t, u) \cup {Nearest(t, s)}]
      BY <3>5, <3>6
    <3> QED BY <3>3, <3>4, <3>7 DEF f
  <2> QED BY <2>1, <2>2
<1>2. f = [s \in Nat |-> f[s]] /\ WalkBody(t, f) = [s \in Nat |-> WalkBody(t, f)[s]]
  BY DEF WalkBody
<1> HIDE DEF f
<1>3. f = WalkBody(t, f)
  BY <1>1, <1>2
<1> QED BY <1>3

\* The walk comes to where it ends.
LEMMA WalkIs ==
  ASSUME NEW t, IsTable(t), SectorsOf(t)
  PROVE  Walk(t).upTo = End(t, 1) /\ End(t, 1) \in Reach(t, 1) /\ Ends(t, End(t, 1))
<1> DEFINE w == CHOOSE v : v = WalkBody(t, v)
           R == Reach(t, 1)
           Good(y) == w[y] = [upTo |-> End(t, 1), met |-> w[y].met]
<1>1. w = WalkBody(t, w)
  BY WalkExists
<1>2. Walk(t) = w[1]
  BY DEF Walk, WalkBody
<1> HIDE DEF w
<1>3. R \subseteq Nat /\ 1 \in R /\ GoesOn(t, R)
  BY ReachIs
<1>4. End(t, 1) \in R /\ Ends(t, End(t, 1))
  BY EndIs DEF End
<1>5. ASSUME NEW y \in R, Ends(t, y) PROVE Good(y)
  <2>1. y = End(t, 1) /\ y \in Nat
    BY <1>3, <1>4, <1>5, EndIs
  <2>2. w[y] = [upTo |-> y, met |-> {}]
    BY <1>1, <1>5, <2>1 DEF WalkBody, Ends
  <2> QED BY <2>1, <2>2
<1>6. ASSUME NEW y \in R, ~Ends(t, y)
      PROVE  y < t.devsize /\ Onward(t, y) \in R /\ Onward(t, y) > y
             /\ (Good(Onward(t, y)) => Good(y))
  <2>1. y < t.devsize /\ Onward(t, y) \in R /\ Onward(t, y) > y /\ y \in Nat
    BY <1>3, <1>6, OnwardIs DEF GoesOn
  <2>2. w[y] = [w[Onward(t, y)] EXCEPT !.met = @ \cup {Nearest(t, y)}]
    BY <1>1, <1>6, <2>1 DEF WalkBody, Ends, Onward
  <2>3. ASSUME NEW r, r = [upTo |-> End(t, 1), met |-> r.met], w[y] = [r EXCEPT !.met = @ \cup {Nearest(t, y)}]
        PROVE  Good(y)
    BY <2>3
  <2> QED BY <2>1, <2>2, <2>3
<1>7. ASSUME NEW y \in R, ~Good(y) PROVE FALSE
  <2> DEFINE B == {x \in R : ~Good(x)}
  <2>1. t.devsize \in Nat
    BY DEF SectorsOf
  <2>2. B \subseteq 0..t.devsize /\ B # {}
    <3>1. y \in B
      BY <1>7
    <3>2. ASSUME NEW z \in B PROVE z \in 0..t.devsize
      <4>1. z \in R /\ ~Good(z)
        OBVIOUS
      <4>2. ~Ends(t, z)
        BY <1>5, <4>1
      <4>3. z < t.devsize /\ z \in Nat
        BY <1>3, <1>6, <4>1, <4>2
      <4> QED BY <2>1, <4>3
    <3> QED BY <3>1, <3>2
  <2>3. PICK x \in B : \A z \in B : z <= x
    <3> HIDE DEF B
    <3> QED BY <2>1, <2>2, GreatestIs
  <2>4. x \in R /\ ~Good(x)
    BY <2>3
  <2>5. ~Ends(t, x)
    BY <1>5, <2>4
  <2>6. PICK u \in B : u > x
    BY <1>6, <2>4, <2>5
  <2> HIDE DEF B
  <2>7. u <= x /\ x \in Nat /\ u \in Nat
    BY <2>1, <2>2, <2>3
  <2> QED BY <2>6, <2>7
<1>8. Good(1)
  BY <1>3, <1>7
<1> QED BY <1>2, <1>4, <1>8

\* The nearest partition is told by its sectors alone.
LEMMA NearestSame ==
  ASSUME NEW t, IsTable(t), SectorsOf(t), NEW s, NEW n \in Ahead(t, s),
         \A m \in Ahead(t, s) : \/ t.parts[n].start < t.parts[m].start
                                \/ t.parts[n].start = t.parts[m].start /\ n <= m
  PROVE  Nearest(t, s) = n
<1>1. PICK k \in Ahead(t, s) : k = Nearest(t, s)
  BY NearestIs
<1>2. \/ t.parts[k].start < t.parts[n].start
      \/ t.parts[k].start = t.parts[n].start /\ k <= n
  BY <1>1, NearestIs
<1>3. \/ t.parts[n].start < t.parts[k].start
      \/ t.parts[n].start = t.parts[k].start /\ n <= k
  BY <1>1
<1>4. n \in Nat /\ k \in Nat /\ t.parts[n].start \in Nat /\ t.parts[k].start \in Nat
  BY ListIs DEF Ahead, Numbers, SectorsOf, IsTable
<1> QED BY <1>1, <1>2, <1>3, <1>4

\* What of two tables is the same for the walk.
SameSectors(t, u) ==
  /\ u.devsize = t.devsize /\ Len(u.parts) = Len(t.parts)
  /\ \A n \in Numbers(t) : /\ u.parts[n].start = t.parts[n].start
                           /\ u.parts[n].sectors = t.parts[n].sectors

\* Names, types, reference counts and flags are nothing to the walk.
LEMMA WalkSame ==
  ASSUME NEW t, IsTable(t), SectorsOf(t), NEW u, IsTable(u), SameSectors(t, u)
  PROVE  SectorsOf(u) /\ Walk(u).upTo = Walk(t).upTo
<1>1. SectorsOf(u) /\ Numbers(u) = Numbers(t)
  BY DEF SectorsOf, SameSectors, Numbers
<1>2. \A s : Ahead(u, s) = Ahead(t, s)
  BY <1>1 DEF Ahead, SameSectors
<1>3. \A s : Ends(u, s) <=> Ends(t, s)
  BY <1>2 DEF Ends, SameSectors
<1>4. ASSUME NEW s, ~Ends(t, s) PROVE Onward(u, s) = Onward(t, s)
  <2>1. Ahead(t, s) # {}
    BY <1>4 DEF Ends
  <2>2. PICK n \in Ahead(t, s) : n = Nearest(t, s)
    BY <2>1, NearestIs
  <2>3. \A m \in Ahead(t, s) : \/ t.parts[n].start < t.parts[m].start
                               \/ t.parts[n].start = t.parts[m].start /\ n <= m
    BY <2>1, <2>2, NearestIs
  <2>4. n \in Numbers(t) /\ \A m \in Ahead(t, s) : m \in Numbers(t)
    BY DEF Ahead
  <2>5. n \in Ahead(u, s) /\ \A m \in Ahead(u, s) : \/ u.parts[n].start < u.parts[m].start
                                                    \/ u.parts[n].start = u.parts[m].start /\ n <= m
    BY <1>2, <2>3, <2>4 DEF SameSectors
  <2>6. Nearest(u, s) = n
    BY <1>1, <2>5, NearestSame
  <2> QED BY <2>2, <2>4, <2>6 DEF Onward, SameSectors
<1>5. \A S : GoesOn(u, S) <=> GoesOn(t, S)
  BY <1>3, <1>4 DEF GoesOn
<1>6. Reach(u, 1) = Reach(t, 1)
  BY <1>5 DEF Reach
<1>7. /\ Walk(u).upTo \in Reach(t, 1) /\ Ends(t, Walk(u).upTo)
      /\ Walk(t).upTo \in Reach(t, 1) /\ Ends(t, Walk(t).upTo)
  BY <1>1, <1>3, <1>6, WalkIs
<1> QED BY <1>1, <1>7, EndIs

\* With an entry for the rest of the device the walk comes to its end.
LEMMA WalkFilled ==
  ASSUME NEW t, IsTable(t), SectorsOf(t), NEW u, IsTable(u), SectorsOf(u),
         Walk(t).upTo < t.devsize, u.devsize = t.devsize,
         Len(u.parts) = Len(t.parts) + 1,
         \A n \in Numbers(t) : u.parts[n] = t.parts[n],
         u.parts[Len(t.parts) + 1].start = Walk(t).upTo,
         u.parts[Len(t.parts) + 1].sectors = t.devsize - Walk(t).upTo
  PROVE  Walk(u).upTo = u.devsize
<1> DEFINE e == End(t, 1)
           L == Len(t.parts)
           D == t.devsize
           R == Reach(t, 1)
<1>1. e \in R /\ Ends(t, e) /\ e = Walk(t).upTo /\ e < D /\ D \in Nat /\ L \in Nat
  BY WalkIs, ListIs DEF SectorsOf, IsTable
<1>2. R \subseteq Nat /\ 1 \in R /\ GoesOn(t, R)
  BY ReachIs
<1>3. e \in Nat /\ Ahead(t, e) = {}
  BY <1>1, <1>2 DEF Ends
<1> HIDE DEF e, R
<1>4. Numbers(t) = 1..L /\ Numbers(u) = 1..(L + 1) /\ L + 1 \notin Numbers(t)
  BY <1>1 DEF Numbers
<1>5. \A n \in Numbers(t) : t.parts[n].sectors # 0 => t.parts[n].start < e
  BY <1>3 DEF Ahead, SectorsOf
<1>6. ASSUME NEW s \in Nat
      PROVE  /\ \A n \in Ahead(t, s) : n \in Ahead(u, s)
             /\ \A n \in Ahead(u, s) : n \in Ahead(t, s) \/ n = L + 1
             /\ s <= e => L + 1 \in Ahead(u, s)
  <2>1. \A n \in Numbers(t) : n \in Numbers(u) /\ u.parts[n] = t.parts[n]
    BY <1>1, <1>4
  <2>2. \A n \in Numbers(u) : n \in Numbers(t) \/ n = L + 1
    BY <1>1, <1>4
  <2>3. u.parts[L + 1].start = e /\ u.parts[L + 1].sectors # 0 /\ L + 1 \in Numbers(u)
    BY <1>1, <1>3, <1>4
  <2> QED BY <1>3, <2>1, <2>2, <2>3 DEF Ahead
<1>7. ASSUME NEW s \in Nat, ~Ends(t, s)
      PROVE  ~Ends(u, s) /\ Onward(u, s) = Onward(t, s)
  <2>1. Ahead(t, s) # {} /\ s < D
    BY <1>1, <1>7 DEF Ends
  <2>2. PICK n \in Ahead(t, s) : n = Nearest(t, s)
    BY <2>1, NearestIs
  <2>3. \A m \in Ahead(t, s) : \/ t.parts[n].start < t.parts[m].start
                               \/ t.parts[n].start = t.parts[m].start /\ n <= m
    BY <2>1, <2>2, NearestIs
  <2>4. n \in Numbers(t) /\ t.parts[n].start < e /\ \A m \in Ahead(t, s) : m \in Numbers(t)
    BY <1>5 DEF Ahead
  <2>5. u.parts[L + 1].start = e /\ u.parts[n] = t.parts[n] /\ n \in Ahead(u, s)
    BY <1>1, <1>6, <2>4
  <2>6. \A m \in Ahead(u, s) : \/ u.parts[n].start < u.parts[m].start
                               \/ u.parts[n].start = u.parts[m].start /\ n <= m
    BY <1>6, <2>3, <2>4, <2>5
  <2>7. Nearest(u, s) = n
    BY <2>5, <2>6, NearestSame
  <2>8. Onward(u, s) = Onward(t, s)
    BY <2>2, <2>5, <2>7 DEF Onward
  <2> QED BY <1>1, <1>7, <2>1, <2>5, <2>8 DEF Ends
<1>8. ~Ends(u, e) /\ Onward(u, e) = D
  <2>1. L + 1 \in Ahead(u, e) /\ \A n \in Ahead(u, e) : n = L + 1
    BY <1>3, <1>6
  <2>2. Nearest(u, e) = L + 1
    <3>1. Ahead(u, e) # {}
      BY <2>1
    <3>2. Nearest(u, e) \in Ahead(u, e)
      BY <3>1, NearestIs
    <3> QED BY <2>1, <3>2
  <2>3. Onward(u, e) = e + (D - e)
    BY <1>1, <2>2 DEF Onward
  <2>4. ~(e >= u.devsize)
    BY <1>1, <1>3
  <2> QED BY <1>1, <1>3, <2>1, <2>3, <2>4 DEF Ends
<1>9. GoesOn(u, R \cup {D})
  <2> SUFFICES ASSUME NEW y \in R \cup {D}, ~Ends(u, y) PROVE Onward(u, y) \in R \cup {D}
    BY DEF GoesOn
  <2>1. y # D
    BY <1>1 DEF Ends
  <2>2. y \in R /\ y \in Nat
    BY <1>2, <2>1
  <2>3. CASE Ends(t, y)
    <3>1. y = e
      BY <1>1, <2>2, <2>3, EndIs DEF R
    <3> QED BY <1>8, <3>1
  <2>4. CASE ~Ends(t, y)
    BY <1>2, <1>7, <2>2, <2>4 DEF GoesOn
  <2> QED BY <2>3, <2>4
<1>10. Reach(u, 1) \subseteq R \cup {D}
  <2>1. R \cup {D} \in SUBSET Nat /\ 1 \in R \cup {D}
    BY <1>1, <1>2
  <2> QED BY <1>9, <2>1 DEF Reach
<1>11. PICK y \in R \cup {D} : y = Walk(u).upTo /\ Ends(u, y)
  BY <1>10, WalkIs
<1>12. ASSUME y \in R PROVE FALSE
  <2>1. Ends(t, y)
    BY <1>2, <1>7, <1>11, <1>12
  <2>2. y = e
    BY <1>1, <1>12, <2>1, EndIs DEF R
  <2> QED BY <1>8, <1>11, <2>2
<1> QED BY <1>11, <1>12

-----------------------------------------------------------------------------
(* What is read of a drive.                                                *)

\* The entries that are read are there, and the next one is not or there are enough.
LEMMA PartsOnIs ==
  ASSUME NEW d, DriveOK(d), d.boot
  PROVE  LET N == EntriesRead(d)
             found == PartsOn(d)
         IN  /\ N \in Nat /\ N <= d.map[1].count /\ Len(found) = N /\ DOMAIN found = 1..N
             /\ \A m \in 1..N : d.map[m] # Blank
             /\ N = d.map[1].count \/ d.map[N + 1] = Blank
             /\ \A m \in 1..N : found[m] = Entry(d.map[m].start, d.map[m].sectors,
                                                 d.map[m].name, d.map[m].type)
<1> DEFINE N == EntriesRead(d)
           C == d.map[1].count
           Stop == {m \in Nat : m <= C /\ (m = C \/ d.map[m + 1] = Blank)}
           Good(n) == /\ \A m \in 1..n : d.map[m] # Blank
                      /\ n = d.map[1].count \/ d.map[n + 1] = Blank
<1>1. C \in Nat
  BY DEF DriveOK
<1>2. PICK n \in Stop : \A m \in Stop : n <= m
  <2>1. C \in Stop /\ Stop \subseteq Nat
    BY <1>1
  <2> HIDE DEF Stop
  <2> QED BY <2>1, LeastIs
<1>3. n \in 0..C /\ (n = C \/ d.map[n + 1] = Blank)
  BY <1>1, <1>2
<1>4. ASSUME NEW m \in 1..n, d.map[m] = Blank PROVE FALSE
  <2>1. PICK k \in Nat : m = k + 1
    <3>1. m - 1 \in Nat /\ m = (m - 1) + 1
      BY <1>3
    <3> QED BY <3>1
  <2>2. d.map[k + 1] = Blank
    BY <1>4, <2>1
  <2>3. k \in Stop /\ k < n
    BY <1>1, <1>3, <2>1, <2>2
  <2> HIDE DEF Stop
  <2> QED BY <1>2, <1>3, <2>1, <2>3
<1>5. Good(n)
  BY <1>3, <1>4
<1>6. N = CHOOSE k \in 0..C : Good(k)
  BY DEF EntriesRead
<1>7. N \in 0..C /\ Good(N)
  <2> HIDE DEF Good, N
  <2> QED BY <1>3, <1>5, <1>6
<1> HIDE DEF N
<1>8. N \in Nat
  BY <1>1, <1>7
<1>9. PartsOn(d) = [m \in 1..N |-> Entry(d.map[m].start, d.map[m].sectors, d.map[m].name, d.map[m].type)]
  BY DEF PartsOn, N
<1>10. Len(PartsOn(d)) = N /\ DOMAIN PartsOn(d) = 1..N
  BY <1>8, <1>9
<1> QED BY <1>1, <1>7, <1>8, <1>9, <1>10 DEF N

\* Nothing is read of a drive without a boot sector.
LEMMA BootlessIs ==
  ASSUME NEW d, ~d.boot
  PROVE  PartsOn(d) = <<>>
<1>1. EntriesRead(d) = 0
  BY DEF EntriesRead
<1> QED BY <1>1 DEF PartsOn

-----------------------------------------------------------------------------
(* A cached table and its drive.                                           *)

\* What an entry is made of.
LEMMA EntryHas ==
  ASSUME NEW s, NEW k, NEW name, NEW type
  PROVE  LET p == Entry(s, k, name, type)
         IN  p.start = s /\ p.sectors = k /\ p.type = type /\ p.name = name
BY DEF Entry

FreeSized(t) == \A n \in Numbers(t) : IsFree(t, n) => t.parts[n].sectors # 0

\* A table that is as it was found, but for one entry at the end, behind which there is
\* nothing left that would be given another.
AsFound(t, found) ==
  /\ Len(t.parts) \in {Len(found), Len(found) + 1}
  /\ Len(t.parts) # Len(found) => IsFree(t, Len(t.parts)) /\ ~(t.devsize - Walk(t).upTo > Slack)
  /\ \A n \in DOMAIN found : [t.parts[n] EXCEPT !.refs = 1] = found[n]

TableGood(t, d) ==
  /\ IsTable(t) /\ SectorsOf(t) /\ FreeSized(t)
  /\ 1..Room(t) \subseteq DOMAIN d.map
  /\ t.dirty => Len(t.parts) <= Room(t)
  /\ ~t.dirty /\ ~t.noninit /\ d.boot => AsFound(t, PartsOn(d))

\* A table that was just read.
LEMMA ReadGood ==
  ASSUME NEW d, DriveOK(d), DriveSound(d), NEW parts, parts = PartsOn(d),
         parts # <<>>, Len(parts) <= parts[1].sectors
  PROVE  TableGood(Table(parts, d.size), d)
<1> DEFINE N == EntriesRead(d)
           t == Table(parts, d.size)
<1>1. d.boot
  BY BootlessIs
<1>2. /\ N \in Nat /\ Len(parts) = N /\ DOMAIN parts = 1..N
      /\ \A m \in 1..N : d.map[m] # Blank
      /\ \A m \in 1..N : parts[m] = Entry(d.map[m].start, d.map[m].sectors, d.map[m].name, d.map[m].type)
      /\ parts = [m \in 1..N |-> parts[m]]
  <2>1. parts = [m \in 1..N |-> parts[m]]
    BY DEF PartsOn
  <2> QED BY <1>1, <2>1, PartsOnIs
<1>3. t = [parts |-> parts, devsize |-> d.size, valid |-> FALSE, dirty |-> FALSE, noninit |-> FALSE]
  BY DEF Table
<1> HIDE DEF N, t
<1>4. N # 0
  <2> SUFFICES ASSUME N = 0 PROVE FALSE
    OBVIOUS
  <2>1. parts = <<>>
    BY <1>2
  <2> QED BY <2>1
<1>5. \A m \in 1..N : IsEntry(parts[m]) /\ parts[m].refs = 1
  BY <1>2, EntryIs
<1>6. IsList(parts)
  BY <1>2, <1>4, <1>5, ListOf
<1>7. IsTable(t) /\ t.parts = parts /\ Numbers(t) = 1..N
  BY <1>2, <1>3, <1>6 DEF IsTable, Numbers
<1>8. \A m \in 1..N : /\ parts[m].start = d.map[m].start /\ parts[m].sectors = d.map[m].sectors
                      /\ parts[m].type = d.map[m].type
  BY <1>2, EntryHas
<1>9. Room(t) = d.map[1].sectors /\ 1 \in 1..N /\ N <= Room(t)
  BY <1>2, <1>4, <1>7, <1>8 DEF Room
<1>10. 1..Room(t) \subseteq DOMAIN d.map
  BY <1>2, <1>9 DEF DriveSound
<1>11. d.map[1].sectors \in Nat
  BY <1>2, <1>9 DEF DriveSound, DriveOK
<1>12. \A m \in 1..N : m \in DOMAIN d.map
  BY <1>2, <1>9, <1>10, <1>11
<1>13. SectorsOf(t) /\ FreeSized(t)
  <2>1. t.devsize \in Nat
    BY <1>3 DEF DriveSound
  <2>2. ASSUME NEW m \in 1..N
        PROVE  /\ parts[m].start \in Nat /\ parts[m].sectors \in Nat
               /\ parts[m].type = "free" => parts[m].sectors # 0
    <3>1. m \in DOMAIN d.map /\ d.map[m] # Blank
      BY <1>2, <1>12
    <3> QED BY <1>8, <3>1 DEF DriveSound
  <2> QED BY <1>7, <2>1, <2>2 DEF SectorsOf, FreeSized, IsFree
<1>14. ASSUME NEW n \in 1..N PROVE [parts[n] EXCEPT !.refs = 1] = parts[n]
  <2>1. PICK p : p = parts[n]
    OBVIOUS
  <2>2. p = [start |-> p.start, sectors |-> p.sectors, name |-> p.name, type |-> p.type, refs |-> p.refs]
    BY <1>5, <2>1 DEF IsEntry
  <2>3. p.refs = 1
    BY <1>5, <2>1
  <2>4. [p EXCEPT !.refs = 1] = p
    BY <2>2, <2>3
  <2> QED BY <2>1, <2>4
<1>15. AsFound(t, PartsOn(d))
  <2>1. Len(t.parts) = Len(PartsOn(d))
    BY <1>7
  <2>2. \A n \in DOMAIN PartsOn(d) : [t.parts[n] EXCEPT !.refs = 1] = PartsOn(d)[n]
    BY <1>2, <1>7, <1>14
  <2> QED BY <2>1, <2>2 DEF AsFound
<1>16. t.dirty = FALSE
  BY <1>3
<1> QED BY <1>7, <1>10, <1>13, <1>15, <1>16 DEF TableGood, t

-----------------------------------------------------------------------------
(* Validation finds what was read, but for the rest of the device.         *)

\* The fields of a table whose mark of validation changes.
LEMMA JudgedHas ==
  ASSUME NEW t, IsTable(t), NEW v
  PROVE  LET u == Judged(t, v)
         IN  /\ IsTable(u) /\ u.parts = t.parts /\ u.devsize = t.devsize
             /\ u.dirty = t.dirty /\ u.noninit = t.noninit
<1> DEFINE u == Judged(t, v)
<1>1. u = [parts |-> t.parts, devsize |-> t.devsize, valid |-> v, dirty |-> t.dirty,
           noninit |-> t.noninit]
  <2> DEFINE r == [parts |-> t.parts, devsize |-> t.devsize, valid |-> t.valid, dirty |-> t.dirty,
                   noninit |-> t.noninit]
  <2>1. u = [r EXCEPT !.valid = v]
    BY DEF IsTable, Judged
  <2> QED BY <2>1
<1> HIDE DEF u
<1>2. IsTable(u) /\ u.parts = t.parts
  BY <1>1 DEF IsTable
<1> QED BY <1>1, <1>2 DEF u

\* The fields of a table with one more entry.
LEMMA LongerHas ==
  ASSUME NEW t, IsTable(t), NEW e, IsEntry(e)
  PROVE  LET u == Longer(t, e)
             L == Len(t.parts)
         IN  /\ IsTable(u) /\ u.devsize = t.devsize
             /\ u.dirty = t.dirty /\ u.noninit = t.noninit
             /\ Len(u.parts) = L + 1 /\ u.parts[L + 1] = e
             /\ \A n \in Numbers(t) : u.parts[n] = t.parts[n]
<1> DEFINE u == Longer(t, e)
           L == Len(t.parts)
<1>0. L \in Nat /\ L >= 1 /\ \A n \in 1..L : IsEntry(t.parts[n])
  BY ListIs DEF IsTable, IsList
<1>1. u = [parts |-> Append(t.parts, e), devsize |-> t.devsize, valid |-> t.valid,
           dirty |-> t.dirty, noninit |-> t.noninit]
  <2> DEFINE r == [parts |-> t.parts, devsize |-> t.devsize, valid |-> t.valid, dirty |-> t.dirty,
                   noninit |-> t.noninit]
  <2>1. u = [r EXCEPT !.parts = Append(@, e)]
    BY DEF IsTable, Longer
  <2> QED BY <2>1
<1> HIDE DEF u
<1>2. u.parts = Append(t.parts, e)
  BY <1>1
<1>3. PICK S : t.parts \in Seq(S)
  BY DEF IsTable, IsList
<1>4. t.parts \in Seq(S \cup {e}) /\ e \in S \cup {e}
  BY <1>3
<1>5. /\ Len(u.parts) = L + 1 /\ u.parts \in Seq(S \cup {e})
      /\ u.parts[L + 1] = e /\ \A n \in 1..L : u.parts[n] = t.parts[n]
  BY <1>2, <1>4
<1>6. \A n \in 1..Len(u.parts) : IsEntry(u.parts[n])
  <2> SUFFICES ASSUME NEW n \in 1..Len(u.parts) PROVE IsEntry(u.parts[n])
    OBVIOUS
  <2>1. n = L + 1 \/ n \in 1..L
    BY <1>0, <1>5
  <2> QED BY <1>0, <1>5, <2>1
<1>7. IsList(u.parts)
  BY <1>0, <1>5, <1>6 DEF IsList
<1>8. IsTable(u)
  BY <1>1, <1>7 DEF IsTable
<1> QED BY <1>1, <1>5, <1>8 DEF u, Numbers

\* The mark of validation is nothing to what a table holds.
LEMMA JudgedGood ==
  ASSUME NEW t, NEW d, TableGood(t, d), NEW v
  PROVE  TableGood(Judged(t, v), d)
<1>1. PICK u : u = Judged(t, v)
  OBVIOUS
<1>2. /\ IsTable(u) /\ u.parts = t.parts /\ u.devsize = t.devsize
      /\ u.dirty = t.dirty /\ u.noninit = t.noninit /\ Numbers(u) = Numbers(t)
  BY <1>1, JudgedHas DEF TableGood, Numbers
<1>3. IsTable(t) /\ SectorsOf(t)
  BY DEF TableGood
<1>4. SectorsOf(u) /\ Walk(u).upTo = Walk(t).upTo
  <2>1. SameSectors(t, u)
    BY <1>2 DEF SameSectors
  <2> QED BY <1>2, <1>3, <2>1, WalkSame
<1>5. FreeSized(u) /\ Room(u) = Room(t)
  BY <1>2 DEF TableGood, FreeSized, IsFree, Room
<1>6. \A found : AsFound(t, found) => AsFound(u, found)
  BY <1>2, <1>4 DEF AsFound, IsFree
<1>7. TableGood(u, d)
  BY <1>2, <1>4, <1>5, <1>6 DEF TableGood
<1> QED BY <1>1, <1>7

\* An entry for the rest of the device.
LEMMA FilledGood ==
  ASSUME NEW t, NEW d, TableGood(t, d), d.boot => DriveOK(d),
         t.devsize - Walk(t).upTo > Slack, Len(t.parts) < Room(t)
  PROVE  TableGood(Longer(t, Entry(Walk(t).upTo, t.devsize - Walk(t).upTo, <<"Extra", 0>>, "free")), d)
<1>1. PICK upTo : upTo = Walk(t).upTo
  OBVIOUS
<1>2. PICK tail : tail = t.devsize - upTo
  OBVIOUS
<1>3. PICK e : e = Entry(upTo, tail, <<"Extra", 0>>, "free")
  OBVIOUS
<1>4. PICK u : u = Longer(t, e)
  OBVIOUS
<1>5. /\ IsTable(t) /\ SectorsOf(t) /\ FreeSized(t) /\ t.devsize \in Nat /\ Slack \in Nat
  BY MacPartAssumption DEF TableGood, SectorsOf
<1>6. upTo \in Nat /\ tail \in Nat /\ tail > Slack /\ upTo < t.devsize /\ tail # 0
  <2>1. upTo \in Nat
    BY <1>1, <1>5, WalkIs DEF Reach
  <2> QED BY <1>1, <1>2, <1>5, <2>1
<1>7. e.start = upTo /\ e.sectors = tail /\ e.type = "free" /\ IsEntry(e)
  BY <1>3, EntryHas, EntryIs
<1> DEFINE L == Len(t.parts)
<1>8. L \in Nat /\ L >= 1 /\ Numbers(t) = 1..L
  BY <1>5, ListIs DEF IsTable, Numbers
<1>9. /\ IsTable(u) /\ u.devsize = t.devsize /\ u.dirty = t.dirty /\ u.noninit = t.noninit
      /\ Len(u.parts) = L + 1 /\ u.parts[L + 1] = e
      /\ \A n \in Numbers(t) : u.parts[n] = t.parts[n]
  BY <1>4, <1>5, <1>7, LongerHas
<1> HIDE DEF L
<1>10. Numbers(u) = 1..(L + 1) /\ \A n \in Numbers(u) : n \in Numbers(t) \/ n = L + 1
  BY <1>8, <1>9 DEF Numbers
<1>11. SectorsOf(u) /\ FreeSized(u)
  BY <1>5, <1>6, <1>7, <1>9, <1>10 DEF SectorsOf, FreeSized, IsFree
<1>12. Room(u) = Room(t)
  BY <1>8, <1>9 DEF Room
<1>13. Walk(u).upTo = u.devsize
  BY <1>1, <1>2, <1>5, <1>6, <1>7, <1>9, <1>11, WalkFilled DEF L
<1>14. ASSUME d.boot, AsFound(t, PartsOn(d)) PROVE AsFound(u, PartsOn(d))
  <2>1. Len(PartsOn(d)) \in Nat /\ DOMAIN PartsOn(d) = 1..Len(PartsOn(d))
    BY <1>14, PartsOnIs
  <2>2. L = Len(PartsOn(d))
    BY <1>1, <1>2, <1>6, <1>14 DEF AsFound, L
  <2>3. u.devsize - Walk(u).upTo = 0
    BY <1>5, <1>9, <1>13
  <2>4. IsFree(u, L + 1) /\ ~(u.devsize - Walk(u).upTo > Slack)
    BY <1>5, <1>7, <1>9, <2>3 DEF IsFree
  <2>5. \A n \in DOMAIN PartsOn(d) : [u.parts[n] EXCEPT !.refs = 1] = PartsOn(d)[n]
    BY <1>8, <1>9, <1>14, <2>1, <2>2 DEF AsFound
  <2> QED BY <1>9, <2>2, <2>4, <2>5 DEF AsFound
<1>15. t.dirty => Len(u.parts) <= Room(u)
  <2>1. Room(t) \in Nat
    BY <1>5, <1>8 DEF Room, SectorsOf
  <2> QED BY <1>8, <1>9, <1>12, <2>1 DEF L
<1>16. TableGood(u, d)
  BY <1>9, <1>11, <1>12, <1>14, <1>15 DEF TableGood
<1> QED BY <1>1, <1>2, <1>3, <1>4, <1>16

\* tivo_partition_validate.
LEMMA ValidateGood ==
  ASSUME NEW t, NEW d, TableGood(t, d), d.boot => DriveOK(d)
  PROVE  TableGood(Validate(t), d)
<1> DEFINE walk == Walk(t)
           tail == t.devsize - walk.upTo
           e == Entry(walk.upTo, tail, <<"Extra", 0>>, "free")
           v == \A n \in Numbers(t) : n \in walk.met \/ t.parts[n].sectors = 0
<1>1. \/ Validate(t) = t
      \/ ~(tail > Slack) /\ Validate(t) = Judged(t, v)
      \/ /\ tail > Slack /\ ~(Len(t.parts) >= Room(t))
         /\ Validate(t) = Judged(Longer(t, e), v)
  BY DEF Validate, Judged, Longer
<1> HIDE DEF v
<1>2. ASSUME tail > Slack, ~(Len(t.parts) >= Room(t)) PROVE TableGood(Longer(t, e), d)
  <2>1. Len(t.parts) \in Nat /\ Room(t) \in Nat
    BY ListIs DEF TableGood, IsTable, SectorsOf, Room, Numbers
  <2>2. Len(t.parts) < Room(t)
    BY <1>2, <2>1
  <2> QED BY <1>2, <2>2, FilledGood
<1> HIDE DEF e, tail
<1> QED BY <1>1, <1>2, JudgedGood

\* Validation leaves the flags of a new table alone.
LEMMA ValidateFlags ==
  ASSUME NEW t, IsTable(t)
  PROVE  Validate(t).noninit <=> t.noninit
<1> DEFINE walk == Walk(t)
           tail == t.devsize - walk.upTo
           e == Entry(walk.upTo, tail, <<"Extra", 0>>, "free")
           v == \A n \in Numbers(t) : n \in walk.met \/ t.parts[n].sectors = 0
<1>1. \/ Validate(t) = t
      \/ Validate(t) = Judged(t, v)
      \/ Validate(t) = Judged(Longer(t, e), v)
  BY DEF Validate, Judged, Longer
<1>2. IsEntry(e)
  BY EntryIs
<1> HIDE DEF v, e
<1>3. IsTable(Longer(t, e)) /\ Longer(t, e).noninit = t.noninit
  BY <1>2, LongerHas
<1> QED BY <1>1, <1>3, JudgedHas

-----------------------------------------------------------------------------
(* The search for space comes to an end.                                   *)

\* A start is rounded up, not down.
LEMMA RoundUpIs == ASSUME NEW s \in Nat PROVE RoundUp(s) \in Nat /\ RoundUp(s) >= s
<1>1. PICK c \in Nat \ {0} : c = Align
  BY MacPartAssumption
<1>2. PICK u \in Nat : u = s + c - 1
  <2>1. s + c - 1 \in Nat
    BY <1>1
  <2> QED BY <2>1
<1>3. (u \div c) \in Nat /\ (u \div c) * c <= u /\ u < (u \div c) * c + c /\ (u \div c) * c \in Nat
  BY SMT
<1>4. RoundUp(s) = (u \div c) * c
  BY <1>1, <1>2 DEF RoundUp
<1> QED BY <1>2, <1>3, <1>4

\* The next free partition is one of those that are left.
LEMMA NextFreeIs ==
  ASSUME NEW t, IsTable(t), SectorsOf(t), NEW from \in Nat \ {0}, NEW last
  PROVE  LET n == NextFree(t, from, last)
             F == FreeFrom(t, from, last)
         IN  /\ n = 0 <=> F = {}
             /\ n # 0 => n \in F
<1> DEFINE F == FreeFrom(t, from, last)
           Starts == {t.parts[n].start : n \in F}
           First(n) == \A m \in F : \/ t.parts[n].start < t.parts[m].start
                                    \/ t.parts[n].start = t.parts[m].start /\ n <= m
<1>1. F \subseteq Nat \ {0} /\ \A n \in F : t.parts[n].start \in Nat
  BY ListIs DEF FreeFrom, Numbers, SectorsOf, IsTable
<1> HIDE DEF F
<1>2. CASE F = {}
  BY <1>2 DEF NextFree, F
<1>3. CASE F # {}
  <2>2. Starts \subseteq Nat /\ Starts # {}
    BY <1>1, <1>3
  <2>3. PICK k \in Starts : \A l \in Starts : k <= l
    <3> HIDE DEF Starts
    <3> QED BY <2>2, LeastIs
  <2> DEFINE B == {n \in F : t.parts[n].start = k}
  <2>4. B \subseteq Nat /\ B # {}
    BY <1>1, <2>3
  <2>5. PICK n \in B : \A m \in B : n <= m
    <3> HIDE DEF B
    <3> QED BY <2>4, LeastIs
  <2>6. n \in F /\ First(n)
    <3> SUFFICES ASSUME NEW m \in F
                 PROVE  \/ t.parts[n].start < t.parts[m].start
                        \/ t.parts[n].start = t.parts[m].start /\ n <= m
      BY <2>5
    <3>1. t.parts[m].start \in Starts /\ t.parts[n].start = k
      BY <2>5
    <3>2. k <= t.parts[m].start
      BY <2>3, <3>1
    <3>3. CASE t.parts[m].start = k
      BY <2>5, <3>1, <3>3
    <3>4. CASE t.parts[m].start # k
      BY <1>1, <2>2, <3>1, <3>2, <3>4
    <3> QED BY <3>3, <3>4
  <2> DEFINE c == CHOOSE i \in F : First(i)
  <2>7. c \in F
    <3> HIDE DEF First
    <3> QED BY <2>6
  <2>8. NextFree(t, from, last) = c
    BY <1>3 DEF NextFree, F
  <2> HIDE DEF c
  <2> QED BY <1>1, <1>3, <2>7, <2>8 DEF F
<1> QED BY <1>2, <1>3

Ranges == [first : Nat, last : Nat]
Found(t, size, r) == r.last - r.first >= size /\ r.last > 0
NextFor(t, r) == NextFree(t, StartPart(t), r.last)
Over(t, size, r) == Found(t, size, r) \/ NextFor(t, r) = 0
FreeLeft(t, r) == FreeFrom(t, StartPart(t), r.last)

\* Every turn of the search leaves less free partitions ahead.
LEMMA GrownIs ==
  ASSUME NEW t, IsTable(t), SectorsOf(t), FreeSized(t), NEW r \in Ranges, NextFor(t, r) # 0
  PROVE  LET q == Grown(t, r, NextFor(t, r))
         IN  /\ q \in Ranges
             /\ Cardinality(FreeLeft(t, q)) \in Nat /\ Cardinality(FreeLeft(t, r)) \in Nat
             /\ Cardinality(FreeLeft(t, q)) < Cardinality(FreeLeft(t, r))
<1> DEFINE sp == StartPart(t)
           L == Len(t.parts)
<1>1. sp \in Nat \ {0} /\ L \in Nat
  BY StartPartIs, ListIs DEF IsTable
<1>2. PICK n \in FreeLeft(t, r) : n = NextFor(t, r)
  BY <1>1, NextFreeIs DEF NextFor, FreeLeft
<1> HIDE DEF sp
<1>3. /\ n \in Numbers(t) /\ t.parts[n].start \in Nat /\ t.parts[n].sectors \in Nat \ {0}
      /\ t.parts[n].start >= r.last
  BY <1>2 DEF FreeLeft, FreeFrom, SectorsOf, FreeSized
<1>4. PICK q : q = Grown(t, r, n)
  OBVIOUS
<1>5. PICK up \in Nat : up = RoundUp(t.parts[n].start) /\ up >= t.parts[n].start
  BY <1>3, RoundUpIs
<1>6. r.first \in Nat /\ r.last \in Nat
  BY DEF Ranges
<1>7. q \in Ranges /\ q.last > t.parts[n].start /\ q.last >= r.last
  <2>1. CASE t.parts[n].start = r.last
    <3>1. q = [first |-> r.first, last |-> r.last + t.parts[n].sectors]
      BY <1>4, <2>1 DEF Grown
    <3> QED BY <1>3, <1>6, <2>1, <3>1 DEF Ranges
  <2>2. CASE t.parts[n].start # r.last
    <3>1. q = [first |-> up, last |-> up + t.parts[n].sectors]
      BY <1>4, <1>5, <2>2 DEF Grown
    <3> QED BY <1>3, <1>5, <1>6, <3>1 DEF Ranges
  <2> QED BY <2>1, <2>2
<1>8. q.last \in Nat
  BY <1>7 DEF Ranges
<1>9. FreeLeft(t, q) \subseteq FreeLeft(t, r) /\ n \notin FreeLeft(t, q)
  BY <1>3, <1>6, <1>7, <1>8 DEF FreeLeft, FreeFrom, SectorsOf
<1>10. FreeLeft(t, r) \subseteq 1..L /\ FreeLeft(t, q) \subseteq 1..L
  BY DEF FreeLeft, FreeFrom, Numbers
<1>11. /\ IsFiniteSet(FreeLeft(t, r)) /\ Cardinality(FreeLeft(t, r)) \in Nat
       /\ Cardinality(FreeLeft(t, q)) \in Nat
  BY <1>1, <1>10, SubsetsFinite
<1>12. /\ Cardinality(FreeLeft(t, q)) <= Cardinality(FreeLeft(t, r))
       /\ Cardinality(FreeLeft(t, r)) = Cardinality(FreeLeft(t, q)) => FreeLeft(t, r) = FreeLeft(t, q)
  BY <1>9, <1>11, FS_Subset
<1> QED BY <1>2, <1>4, <1>7, <1>9, <1>11, <1>12

\* "find", the function of the search, is one.
SearchBody(t, size, find) ==
  [r \in Ranges |->
     LET n == NextFree(t, StartPart(t), r.last)
     IN  IF r.last - r.first >= size /\ r.last > 0 THEN r
         ELSE IF n = 0 THEN NoRange
         ELSE find[Grown(t, r, n)]]

\* The ranges the search comes to from r.
GrowsOn(t, size, S) ==
  \A q \in S : ~Over(t, size, q) => Grown(t, q, NextFor(t, q)) \in S
GrownFrom(t, size, r) ==
  {q \in Ranges : \A S \in SUBSET Ranges : r \in S /\ GrowsOn(t, size, S) => q \in S}

LEMMA GrownFromIs ==
  ASSUME NEW t, IsTable(t), SectorsOf(t), FreeSized(t), NEW size, NEW r \in Ranges
  PROVE  /\ r \in GrownFrom(t, size, r) /\ GrownFrom(t, size, r) \subseteq Ranges
         /\ GrowsOn(t, size, GrownFrom(t, size, r))
         /\ Over(t, size, r) => GrownFrom(t, size, r) = {r}
         /\ ~Over(t, size, r) =>
              GrownFrom(t, size, r) = {r} \cup GrownFrom(t, size, Grown(t, r, NextFor(t, r)))
<1> DEFINE Next1(q) == Grown(t, q, NextFor(t, q))
           G(q) == GrownFrom(t, size, q)
<1>0. \A q \in Ranges : ~Over(t, size, q) => Next1(q) \in Ranges
  BY GrownIs DEF Over
<1> HIDE DEF Next1
<1>1. r \in G(r) /\ \A q \in Ranges : G(q) \subseteq Ranges /\ q \in G(q)
  BY DEF GrownFrom
<1>2. ASSUME NEW u \in Ranges PROVE GrowsOn(t, size, G(u))
  <2> SUFFICES ASSUME NEW y \in G(u), ~Over(t, size, y) PROVE Next1(y) \in G(u)
    BY DEF GrowsOn, Next1
  <2>1. y \in Ranges /\ Next1(y) \in Ranges
    BY <1>0, <1>1
  <2>2. ASSUME NEW S \in SUBSET Ranges, u \in S, GrowsOn(t, size, S) PROVE Next1(y) \in S
    BY <2>2 DEF GrownFrom, GrowsOn, Next1
  <2> QED BY <2>1, <2>2 DEF GrownFrom
<1>3. ASSUME NEW S \in SUBSET Ranges, r \in S, GrowsOn(t, size, S) PROVE G(r) \subseteq S
  BY <1>3 DEF GrownFrom
<1>4. ASSUME Over(t, size, r) PROVE G(r) = {r}
  <2>1. GrowsOn(t, size, {r})
    BY <1>4 DEF GrowsOn
  <2> QED BY <1>1, <1>3, <2>1
<1>5. ASSUME ~Over(t, size, r) PROVE G(r) = {r} \cup G(Next1(r))
  <2>1. PICK u \in Ranges : u = Next1(r)
    BY <1>0, <1>5
  <2>2. G(u) \subseteq Ranges /\ u \in G(u) /\ GrowsOn(t, size, G(u))
    BY <1>1, <1>2
  <2> HIDE DEF G
  <2>3. GrowsOn(t, size, {r} \cup G(u))
    BY <2>1, <2>2 DEF GrowsOn, Next1
  <2>4. G(r) \subseteq {r} \cup G(u)
    BY <1>3, <2>2, <2>3
  <2>5. u \in G(r) /\ G(r) \in SUBSET Ranges /\ GrowsOn(t, size, G(r))
    BY <1>1, <1>2, <1>5, <2>1 DEF GrowsOn, Next1
  <2>6. G(u) \subseteq G(r)
    BY <2>5 DEF GrownFrom, G
  <2> QED BY <1>1, <2>1, <2>4, <2>6
<1> QED BY <1>1, <1>2, <1>4, <1>5 DEF Next1

LEMMA SearchExists ==
  ASSUME NEW t, IsTable(t), SectorsOf(t), FreeSized(t), NEW size
  PROVE  \E f : f = SearchBody(t, size, f)
<1> DEFINE last(r) == CHOOSE q \in GrownFrom(t, size, r) : Over(t, size, q)
           Result(q) == IF Found(t, size, q) THEN q ELSE NoRange
           f == [r \in Ranges |-> Result(last(r))]
<1>1. ASSUME NEW r \in Ranges PROVE f[r] = SearchBody(t, size, f)[r]
  <2>1. CASE Over(t, size, r)
    <3>1. GrownFrom(t, size, r) = {r}
      BY <2>1, GrownFromIs
    <3>2. last(r) = r
      BY <2>1, <3>1
    <3> HIDE DEF last
    <3>3. f[r] = Result(r)
      BY <3>2
    <3>4. SearchBody(t, size, f)[r] = Result(r)
      BY <2>1 DEF SearchBody, Over, Found, NextFor
    <3> QED BY <3>3, <3>4
  <2>2. CASE ~Over(t, size, r)
    <3>1. PICK u \in Ranges : u = Grown(t, r, NextFor(t, r))
      BY <2>2, GrownIs DEF Over
    <3>2. GrownFrom(t, size, r) = {r} \cup GrownFrom(t, size, u)
      BY <2>2, <3>1, GrownFromIs
    <3>3. \A q : q \in GrownFrom(t, size, r) /\ Over(t, size, q)
                 <=> q \in GrownFrom(t, size, u) /\ Over(t, size, q)
      BY <2>2, <3>2
    <3>4. last(r) = last(u)
      BY <3>3
    <3> HIDE DEF last, Result
    <3>5. SearchBody(t, size, f)[r] = f[u]
      BY <2>2, <3>1 DEF SearchBody, Over, Found, NextFor
    <3>6. f[r] = Result(last(r)) /\ f[u] = Result(last(u))
      OBVIOUS
    <3> QED BY <3>4, <3>5, <3>6
  <2> QED BY <2>1, <2>2
<1>2. f = [r \in Ranges |-> f[r]] /\ SearchBody(t, size, f) = [r \in Ranges |-> SearchBody(t, size, f)[r]]
  BY DEF SearchBody
<1> HIDE DEF f
<1>3. f = SearchBody(t, size, f)
  BY <1>1, <1>2
<1> QED BY <1>3

\* The search ends with a range of sectors, or finds none.
LEMMA SearchIs ==
  ASSUME NEW t, IsTable(t), SectorsOf(t), FreeSized(t), NEW size
  PROVE  Search(t, size) = NoRange \/ Search(t, size) \in Ranges
<1> DEFINE w == CHOOSE f : f = SearchBody(t, size, f)
           Good(r) == w[r] = NoRange \/ w[r] \in Ranges
           Bad == {r \in Ranges : ~Good(r)}
           Counts == {Cardinality(FreeLeft(t, r)) : r \in Bad}
<1>1. w = SearchBody(t, size, w)
  BY SearchExists
<1>2. PICK zero : zero = [first |-> 0, last |-> 0]
  OBVIOUS
<1>3. Search(t, size) = w[zero] /\ zero \in Ranges
  BY <1>2 DEF Search, SearchBody, Ranges
<1> HIDE DEF w
<1>4. ASSUME NEW r \in Bad
      PROVE  \E q \in Bad : /\ Cardinality(FreeLeft(t, q)) \in Nat
                            /\ Cardinality(FreeLeft(t, r)) \in Nat
                            /\ Cardinality(FreeLeft(t, q)) < Cardinality(FreeLeft(t, r))
  <2>1. ~Over(t, size, r)
    <3> SUFFICES ASSUME Over(t, size, r) PROVE FALSE
      OBVIOUS
    <3>1. w[r] = IF Found(t, size, r) THEN r ELSE NoRange
      <4>1. r \in Ranges /\ (Found(t, size, r) \/ NextFor(t, r) = 0)
        BY DEF Over
      <4> QED BY <1>1, <4>1 DEF SearchBody, Found, NextFor
    <3> QED BY <3>1
  <2>2. PICK q \in Ranges : q = Grown(t, r, NextFor(t, r))
    BY <2>1, GrownIs DEF Over
  <2>3. w[r] = w[q]
    BY <1>1, <2>1, <2>2 DEF SearchBody, Over, Found, NextFor
  <2>4. q \in Bad
    BY <2>3
  <2> HIDE DEF Bad
  <2>5. r \in Ranges
    BY DEF Bad
  <2> QED BY <2>1, <2>2, <2>4, <2>5, GrownIs DEF Over
<1> HIDE DEF Bad
<1>5. Bad = {}
  <2> SUFFICES ASSUME Bad # {} PROVE FALSE
    OBVIOUS
  <2>1. Counts \subseteq Nat /\ Counts # {}
    BY <1>4
  <2>2. PICK k \in Counts : \A l \in Counts : k <= l
    <3> HIDE DEF Counts
    <3> QED BY <2>1, LeastIs
  <2>3. PICK r \in Bad : k = Cardinality(FreeLeft(t, r))
    BY <2>2
  <2>4. PICK q \in Bad : /\ Cardinality(FreeLeft(t, q)) \in Nat
                         /\ Cardinality(FreeLeft(t, r)) \in Nat
                         /\ Cardinality(FreeLeft(t, q)) < Cardinality(FreeLeft(t, r))
    BY <1>4
  <2>5. k <= Cardinality(FreeLeft(t, q))
    BY <2>2
  <2> QED BY <2>3, <2>4, <2>5
<1>6. Good(zero)
  BY <1>3, <1>5 DEF Bad
<1> QED BY <1>3, <1>6

-----------------------------------------------------------------------------
(* A partition is added.                                                   *)

SizedEntry(p) ==
  p.start \in Nat /\ p.sectors \in Nat /\ (p.type = "free" => p.sectors # 0)

\* The sectors of an entry that is moved or shrunk.
LEMMA PlacedHas ==
  ASSUME NEW p, IsEntry(p), NEW s, NEW k
  PROVE  Placed(p, s, k).start = s /\ Placed(p, s, k).sectors = k /\ Placed(p, s, k).type = p.type
<1> DEFINE r == [start |-> p.start, sectors |-> p.sectors, name |-> p.name, type |-> p.type,
                 refs |-> p.refs]
<1>1. Placed(p, s, k) = [r EXCEPT !.start = s, !.sectors = k]
  BY DEF IsEntry, Placed
<1> QED BY <1>1

\* An entry that is cut off keeps at least one sector.
LEMMA TruncatedSized ==
  ASSUME NEW t, NEW n, IsEntry(t.parts[n]), SizedEntry(t.parts[n]), NEW r, r.last \in Nat
  PROVE  SizedEntry(Truncated(t, n, r))
<1>1. PICK p : p = t.parts[n]
  OBVIOUS
<1>2. PICK q : q = Truncated(t, n, r)
  OBVIOUS
<1>3. CASE q = p
  BY <1>1, <1>2, <1>3
<1>4. CASE q # p
  <2>1. EndOf(p) > r.last /\ q = Placed(p, r.last, EndOf(p) - r.last)
    BY <1>1, <1>2, <1>4 DEF Truncated, Placed
  <2>2. p.start \in Nat /\ p.sectors \in Nat
    BY <1>1 DEF SizedEntry
  <2>3. EndOf(p) \in Nat
    BY <2>2 DEF EndOf
  <2>4. PICK k : k = EndOf(p) - r.last
    OBVIOUS
  <2>5. k \in Nat /\ k # 0
    BY <2>1, <2>3, <2>4
  <2>6. q.start = r.last /\ q.sectors = k
    BY <1>1, <2>1, <2>4, PlacedHas
  <2>7. SizedEntry(q)
    BY <2>5, <2>6 DEF SizedEntry
  <2> QED BY <1>2, <2>7
<1> QED BY <1>3, <1>4

\* The range of a new partition.
LEMMA RangeForIs ==
  ASSUME NEW t, IsTable(t), SectorsOf(t), FreeSized(t), NEW size \in Nat, Search(t, size) # NoRange
  PROVE  RangeFor(t, size).first \in Nat /\ RangeFor(t, size).last \in Nat
<1>1. PICK r \in Ranges : r = Search(t, size) /\ r # NoRange
  BY SearchIs
<1>2. RangeFor(t, size) = [r EXCEPT !.last = r.first + size]
  BY <1>1 DEF RangeFor
<1>3. r = [first |-> r.first, last |-> r.last] /\ r.first \in Nat
  BY DEF Ranges
<1>4. RangeFor(t, size) = [first |-> r.first, last |-> r.first + size]
  BY <1>2, <1>3
<1> QED BY <1>3, <1>4

\* The fields of a table with another list.
LEMMA WithPartsHas ==
  ASSUME NEW t, IsTable(t), NEW parts, IsList(parts)
  PROVE  LET u == WithParts(t, parts)
         IN  /\ IsTable(u) /\ u.parts = parts /\ u.devsize = t.devsize /\ u.dirty = TRUE
             /\ u.noninit = t.noninit
<1> DEFINE u == WithParts(t, parts)
<1>1. u = [parts |-> parts, devsize |-> t.devsize, valid |-> t.valid, dirty |-> TRUE,
           noninit |-> t.noninit]
  <2> DEFINE r == [parts |-> t.parts, devsize |-> t.devsize, valid |-> t.valid, dirty |-> t.dirty,
                   noninit |-> t.noninit]
  <2>1. u = [r EXCEPT !.parts = parts, !.dirty = TRUE]
    BY DEF IsTable, WithParts
  <2> QED BY <2>1
<1> QED BY <1>1 DEF IsTable

\* tivo_partition_add: the table has a place in the map for every entry.
LEMMA AddedGood ==
  ASSUME NEW t, NEW d, TableGood(t, d), NEW size, NEW before \in Int, NEW name, NEW type,
         type # "free"
  PROVE  LET u == Added(t, size, before, name, type).table
         IN  TableGood(u, d) /\ (u.noninit <=> t.noninit)
<1> DEFINE r == RangeFor(t, size)
           left == Cleared(t, r)
           at == PlaceIn(left, before)
           p == Entry(r.first, size, name, type)
           new == Inserted(left, at, p)
           u == WithParts(t, new)
           sp == StartPart(t)
           K == Len(t.parts)
           L == Len(left)
<1>1. CASE AddRefused(t, size, before)
  BY <1>1 DEF Added
<1>2. CASE ~AddRefused(t, size, before)
  <2>1. Added(t, size, before, name, type).table = u
    BY <1>2 DEF Added, WithParts
  <2>2. size \in Nat /\ ~(K + 1 >= Room(t)) /\ Search(t, size) # NoRange
    BY <1>2 DEF AddRefused, NoRoom
  <2>3. /\ IsTable(t) /\ SectorsOf(t) /\ FreeSized(t)
        /\ sp \in 2..(K + 1) /\ K \in Nat /\ K >= 1 /\ Numbers(t) = 1..K
        /\ \A n \in 1..K : IsEntry(t.parts[n])
    BY StartPartIs, ListIs DEF TableGood, IsTable, IsList, Numbers
  <2>4. r.first \in Nat /\ r.last \in Nat
    BY <2>2, <2>3, RangeForIs
  <2> HIDE DEF r
  <2>5. /\ IsList(left) /\ L >= sp - 1 /\ L <= K
        /\ \A i \in 1..(sp - 1) : left[i] = t.parts[i]
        /\ \A i \in 1..L : \E n \in Numbers(t) : left[i] = t.parts[n] \/ left[i] = Truncated(t, n, r)
    BY <2>3, ClearedIs
  <2> HIDE DEF left, sp
  <2>6. L \in Nat /\ at \in 2..(L + 1)
    BY <2>5, PlaceIs, ListIs
  <2>7. IsEntry(p) /\ SizedEntry(p)
    <3>1. p.start = r.first /\ p.sectors = size /\ p.type = type
      BY EntryHas
    <3> HIDE DEF p
    <3>2. SizedEntry(p)
      BY <2>2, <2>4, <3>1 DEF SizedEntry
    <3> QED BY <3>2, EntryIs DEF p
  <2> HIDE DEF p, at
  <2>8. MovedUp(left, at, p, new)
    BY <2>5, <2>6, <2>7, InsertedIs
  <2> HIDE DEF new
  <2>9. /\ IsList(new) /\ Len(new) = L + 1
        /\ \A i \in 1..(L + 1) : /\ i < at => new[i] = left[i]
                                 /\ i = at => new[i] = p
                                 /\ i > at => \E k \in 1..L : i = k + 1 /\ new[i] = left[k]
    BY <2>8 DEF MovedUp
  <2>10. /\ IsTable(u) /\ u.parts = new /\ u.devsize = t.devsize /\ u.dirty = TRUE
         /\ u.noninit = t.noninit /\ Numbers(u) = 1..(L + 1)
    <3>1. /\ IsTable(u) /\ u.parts = new /\ u.devsize = t.devsize /\ u.dirty = TRUE
          /\ u.noninit = t.noninit
      BY <2>3, <2>9, WithPartsHas
    <3> QED BY <2>9, <3>1 DEF Numbers
  <2> HIDE DEF u
  <2>11. ASSUME NEW n \in 1..K PROVE SizedEntry(t.parts[n])
    BY <2>3 DEF SizedEntry, SectorsOf, FreeSized, IsFree
  <2>12. ASSUME NEW k \in 1..L PROVE SizedEntry(left[k])
    <3>1. PICK n \in 1..K : left[k] = t.parts[n] \/ left[k] = Truncated(t, n, r)
      BY <2>3, <2>5
    <3> QED BY <2>3, <2>4, <2>11, <3>1, TruncatedSized
  <2>13. ASSUME NEW i \in 1..(L + 1) PROVE SizedEntry(new[i])
    <3>1. CASE i < at
      <4>1. i \in 1..L /\ new[i] = left[i]
        BY <2>6, <2>9, <3>1
      <4> QED BY <2>12, <4>1
    <3>2. CASE i = at
      BY <2>7, <2>9, <3>2
    <3>3. CASE i > at
      BY <2>9, <2>12, <3>3
    <3> QED BY <2>6, <3>1, <3>2, <3>3
  <2>14. SectorsOf(u) /\ FreeSized(u)
    <3>1. t.devsize \in Nat
      BY <2>3 DEF SectorsOf
    <3> QED BY <2>10, <2>13, <3>1 DEF SectorsOf, FreeSized, IsFree, SizedEntry
  <2>15. Room(u) = Room(t)
    <3>1. 1 \in 1..(L + 1) /\ 1 < at /\ 1 \in 1..(sp - 1)
      BY <2>3, <2>6
    <3>2. new[1] = t.parts[1]
      BY <2>5, <2>9, <3>1
    <3> QED BY <2>10, <3>2 DEF Room
  <2>16. Len(u.parts) <= Room(u)
    <3>1. Room(t) \in Nat
      BY <2>3 DEF Room, SectorsOf
    <3> QED BY <2>2, <2>3, <2>5, <2>6, <2>9, <2>10, <2>15, <3>1
  <2>17. TableGood(u, d)
    BY <2>10, <2>14, <2>15, <2>16 DEF TableGood
  <2> QED BY <2>1, <2>10, <2>17
<1> QED BY <1>1, <1>2

-----------------------------------------------------------------------------
(* The small changes of a table.                                           *)

\* What of two tables is the same for all but their flags, names and handles.
Alike(t, u) ==
  /\ IsTable(u) /\ SameSectors(t, u)
  /\ \A n \in Numbers(t) : u.parts[n].type = t.parts[n].type

LEMMA AlikeGood ==
  ASSUME NEW t, NEW d, TableGood(t, d), NEW u, Alike(t, u), u.dirty => t.dirty,
         ~u.dirty /\ ~u.noninit /\ d.boot => AsFound(u, PartsOn(d))
  PROVE  TableGood(u, d)
<1>1. /\ IsTable(t) /\ SectorsOf(t) /\ FreeSized(t) /\ IsTable(u) /\ SameSectors(t, u)
      /\ 1..Room(t) \subseteq DOMAIN d.map
  BY DEF TableGood, Alike
<1>2. Numbers(u) = Numbers(t) /\ Len(u.parts) = Len(t.parts) /\ 1 \in Numbers(t)
  BY <1>1, ListIs DEF SameSectors, Numbers, IsTable
<1>3. SectorsOf(u)
  BY <1>1, WalkSame
<1>4. FreeSized(u)
  BY <1>1, <1>2 DEF FreeSized, IsFree, SameSectors, Alike
<1>5. Room(u) = Room(t)
  BY <1>1, <1>2 DEF Room, SameSectors
<1> QED BY <1>1, <1>2, <1>3, <1>4, <1>5 DEF TableGood

\* What was found stays so when only the handles change.
LEMMA AlikeFound ==
  ASSUME NEW t, IsTable(t), SectorsOf(t), NEW u, Alike(t, u), NEW found,
         Len(found) \in Nat, DOMAIN found = 1..Len(found), AsFound(t, found),
         \A n \in Numbers(t) : [u.parts[n] EXCEPT !.refs = 1] = [t.parts[n] EXCEPT !.refs = 1]
  PROVE  AsFound(u, found)
<1>1. u.devsize = t.devsize /\ Len(u.parts) = Len(t.parts) /\ Walk(u).upTo = Walk(t).upTo
  BY WalkSame DEF Alike, SameSectors
<1>2. Len(t.parts) \in Nat /\ Len(t.parts) >= 1 /\ Len(t.parts) >= Len(found)
  BY ListIs DEF AsFound, IsTable
<1>3. \A n \in DOMAIN found : n \in Numbers(t)
  BY <1>2 DEF Numbers
<1>4. Len(t.parts) \in Numbers(t)
  BY <1>2 DEF Numbers
<1>5. Len(t.parts) # Len(found) => IsFree(u, Len(t.parts))
  BY <1>4 DEF AsFound, Alike, IsFree
<1>6. \A n \in DOMAIN found : [u.parts[n] EXCEPT !.refs = 1] = found[n]
  BY <1>3 DEF AsFound
<1> QED BY <1>1, <1>5, <1>6 DEF AsFound

\* The fields of a table with one entry replaced.
LEMMA WithEntryHas ==
  ASSUME NEW t, IsTable(t), NEW n \in Numbers(t), NEW p, IsEntry(p),
         p.start = t.parts[n].start, p.sectors = t.parts[n].sectors, p.type = t.parts[n].type,
         NEW u, u = WithEntry(t, n, p)
  PROVE  /\ Alike(t, u) /\ u.dirty = t.dirty /\ u.noninit = t.noninit
         /\ \A m \in Numbers(t) : u.parts[m] = IF m = n THEN p ELSE t.parts[m]
<1>1. u.devsize = t.devsize /\ u.dirty = t.dirty /\ u.noninit = t.noninit
  <2> DEFINE r == [parts |-> t.parts, devsize |-> t.devsize, valid |-> t.valid, dirty |-> t.dirty,
                   noninit |-> t.noninit]
  <2>1. t = r
    BY DEF IsTable
  <2>2. u = [r EXCEPT !.parts[n] = p]
    BY <2>1 DEF WithEntry
  <2> QED BY <2>2
<1>2. /\ IsTable(u) /\ Numbers(u) = Numbers(t)
      /\ \A m \in Numbers(t) : u.parts[m] = IF m = n THEN p ELSE t.parts[m]
  BY EntryChanged
<1>3. Len(u.parts) = Len(t.parts)
  <2>1. Len(u.parts) \in Nat /\ Len(t.parts) \in Nat /\ Len(u.parts) >= 1 /\ Len(t.parts) >= 1
    BY <1>2, ListIs DEF IsTable
  <2>2. Len(u.parts) \in Numbers(t) /\ Len(t.parts) \in Numbers(u)
    BY <1>2, <2>1 DEF Numbers
  <2> QED BY <2>1, <2>2 DEF Numbers
<1> QED BY <1>1, <1>2, <1>3 DEF Alike, SameSectors

\* A handle more or less.
LEMMA RefsGood ==
  ASSUME NEW t, NEW d, TableGood(t, d), DriveOK(d), NEW n \in Numbers(t), NEW k \in Nat \ {0}
  PROVE  LET u == WithRefs(t, n, k)
         IN  TableGood(u, d) /\ (u.dirty <=> t.dirty) /\ (u.noninit <=> t.noninit)
<1>1. PICK q : q = t.parts[n]
  OBVIOUS
<1>2. PICK p : p = [start |-> q.start, sectors |-> q.sectors, name |-> q.name,
                    type |-> q.type, refs |-> k]
  OBVIOUS
<1>3. IsTable(t) /\ SectorsOf(t) /\ IsEntry(q)
  BY <1>1 DEF TableGood, IsTable, IsList, Numbers
<1>4. p = [q EXCEPT !.refs = k] /\ [p EXCEPT !.refs = 1] = [q EXCEPT !.refs = 1]
  <2> DEFINE r == [start |-> q.start, sectors |-> q.sectors, name |-> q.name,
                   type |-> q.type, refs |-> q.refs]
  <2>1. q = r
    BY <1>3 DEF IsEntry
  <2>2. p = [r EXCEPT !.refs = k] /\ [p EXCEPT !.refs = 1] = [r EXCEPT !.refs = 1]
    BY <1>2
  <2> QED BY <2>1, <2>2
<1>5. PICK u : u = WithRefs(t, n, k)
  OBVIOUS
<1>6. u = WithEntry(t, n, p)
  BY <1>1, <1>4, <1>5 DEF WithEntry, WithRefs
<1>7. IsEntry(p) /\ p.start = q.start /\ p.sectors = q.sectors /\ p.type = q.type
  BY <1>2 DEF IsEntry
<1>8. /\ Alike(t, u) /\ u.dirty = t.dirty /\ u.noninit = t.noninit
      /\ \A m \in Numbers(t) : u.parts[m] = IF m = n THEN p ELSE t.parts[m]
  BY <1>1, <1>3, <1>6, <1>7, WithEntryHas
<1>9. \A m \in Numbers(t) : [u.parts[m] EXCEPT !.refs = 1] = [t.parts[m] EXCEPT !.refs = 1]
  BY <1>1, <1>4, <1>8
<1>10. ASSUME ~t.dirty, ~t.noninit, d.boot PROVE AsFound(u, PartsOn(d))
  <2>1. AsFound(t, PartsOn(d))
    BY <1>10 DEF TableGood
  <2>2. Len(PartsOn(d)) \in Nat /\ DOMAIN PartsOn(d) = 1..Len(PartsOn(d))
    BY <1>10, PartsOnIs
  <2> QED BY <1>3, <1>8, <1>9, <2>1, <2>2, AlikeFound, SMTT(30)
<1>11. TableGood(u, d)
  BY <1>8, <1>10, AlikeGood
<1> QED BY <1>5, <1>8, <1>11

\* Another name is no change to anything else.
LEMMA RenamedAlike ==
  ASSUME NEW t, NEW d, TableGood(t, d), NEW n \in Numbers(t), NEW name
  PROVE  LET u == [t EXCEPT !.parts[n].name = name]
         IN  Alike(t, u) /\ (u.dirty <=> t.dirty) /\ (u.noninit <=> t.noninit)
<1>1. PICK q : q = t.parts[n]
  OBVIOUS
<1>2. PICK p : p = [start |-> q.start, sectors |-> q.sectors, name |-> name,
                    type |-> q.type, refs |-> q.refs]
  OBVIOUS
<1>3. IsTable(t) /\ IsEntry(q)
  BY <1>1 DEF TableGood, IsTable, IsList, Numbers
<1>4. p = [q EXCEPT !.name = name]
  <2> DEFINE r == [start |-> q.start, sectors |-> q.sectors, name |-> q.name,
                   type |-> q.type, refs |-> q.refs]
  <2>1. q = r
    BY <1>3 DEF IsEntry
  <2>2. p = [r EXCEPT !.name = name]
    BY <1>2
  <2> QED BY <2>1, <2>2
<1>5. PICK u : u = [t EXCEPT !.parts[n].name = name]
  OBVIOUS
<1>6. u = WithEntry(t, n, p)
  BY <1>1, <1>4, <1>5 DEF WithEntry
<1>7. IsEntry(p) /\ p.start = q.start /\ p.sectors = q.sectors /\ p.type = q.type
  BY <1>2, <1>3 DEF IsEntry
<1>8. /\ Alike(t, u) /\ u.dirty = t.dirty /\ u.noninit = t.noninit
      /\ \A m \in Numbers(t) : u.parts[m] = IF m = n THEN p ELSE t.parts[m]
  BY <1>1, <1>3, <1>6, <1>7, WithEntryHas
<1> QED BY <1>5, <1>8

\* A name of a table that was never written.
LEMMA RenamedGood ==
  ASSUME NEW t, NEW d, TableGood(t, d), NEW n \in Numbers(t), NEW name, t.noninit
  PROVE  LET u == [t EXCEPT !.parts[n].name = name] IN TableGood(u, d) /\ u.noninit
<1>1. PICK u : u = [t EXCEPT !.parts[n].name = name]
  OBVIOUS
<1>2. Alike(t, u) /\ (u.dirty <=> t.dirty) /\ (u.noninit <=> t.noninit)
  BY <1>1, RenamedAlike
<1>3. TableGood(u, d)
  BY <1>2, AlikeGood
<1> QED BY <1>1, <1>2, <1>3

\* The fields of a table one flag of which is set.
LEMMA FlaggedHas ==
  ASSUME NEW t, IsTable(t), NEW v
  PROVE  /\ Alike(t, WithNoninit(t, v)) /\ WithNoninit(t, v).dirty = t.dirty
         /\ WithNoninit(t, v).parts = t.parts /\ WithNoninit(t, v).noninit = v
         /\ Alike(t, WithDirty(t, v)) /\ WithDirty(t, v).dirty = v
         /\ WithDirty(t, v).parts = t.parts /\ WithDirty(t, v).noninit = t.noninit
<1> DEFINE r == [parts |-> t.parts, devsize |-> t.devsize, valid |-> t.valid, dirty |-> t.dirty,
                 noninit |-> t.noninit]
<1>1. t = r
  BY DEF IsTable
<1>2. ASSUME NEW u, u = WithNoninit(t, v)
      PROVE  Alike(t, u) /\ u.dirty = t.dirty /\ u.noninit = v /\ u.parts = t.parts
  <2>1. u = [r EXCEPT !.noninit = v]
    BY <1>1, <1>2 DEF WithNoninit
  <2>2. IsTable(u) /\ u.parts = t.parts /\ u.devsize = t.devsize /\ u.dirty = t.dirty /\ u.noninit = v
    BY <2>1 DEF IsTable
  <2> QED BY <2>2 DEF Alike, SameSectors
<1>3. ASSUME NEW u, u = WithDirty(t, v)
      PROVE  Alike(t, u) /\ u.dirty = v /\ u.noninit = t.noninit /\ u.parts = t.parts
  <2>1. u = [r EXCEPT !.dirty = v]
    BY <1>1, <1>3 DEF WithDirty
  <2>2. IsTable(u) /\ u.parts = t.parts /\ u.devsize = t.devsize /\ u.dirty = v /\ u.noninit = t.noninit
    BY <2>1 DEF IsTable
  <2> QED BY <2>2 DEF Alike, SameSectors
<1> QED BY <1>2, <1>3

\* A table that is still to be written needs no boot sector any more.
LEMMA BootedGood ==
  ASSUME NEW t, NEW d, TableGood(t, d), t.dirty, NEW e, e.map = d.map
  PROVE  TableGood(WithNoninit(t, FALSE), e) /\ WithNoninit(t, FALSE).dirty
<1>1. PICK u : u = WithNoninit(t, FALSE)
  OBVIOUS
<1>2. Alike(t, u) /\ u.dirty = t.dirty
  BY <1>1, FlaggedHas DEF TableGood
<1>3. TableGood(t, e)
  BY DEF TableGood
<1>4. TableGood(u, e)
  BY <1>2, <1>3, AlikeGood
<1> QED BY <1>1, <1>2, <1>4

\* A new table.
LEMMA NewGood ==
  ASSUME NEW d, NewFits(d), d.size \in Nat
  PROVE  TableGood(NewTable(d.size), d) /\ NewTable(d.size).noninit
<1>1. PICK e : e = Entry(1, MapSectors, <<"Apple", 0>>, "map")
  OBVIOUS
<1>2. IsEntry(e) /\ e.start = 1 /\ e.sectors = MapSectors /\ e.type = "map"
  BY <1>1, EntryIs, EntryHas
<1>3. PICK parts : parts = <<e>>
  OBVIOUS
<1>4. /\ parts = [i \in 1..1 |-> parts[i]]
      /\ \A i \in 1..1 : parts[i] = e
  BY <1>3
<1>5. IsList(parts) /\ Len(parts) = 1
  <2>1. PICK k \in Nat \ {0} : k = 1
    OBVIOUS
  <2>2. parts = [i \in 1..k |-> parts[i]] /\ \A i \in 1..k : IsEntry(parts[i])
    BY <1>2, <1>4, <2>1
  <2> QED BY <2>1, <2>2, ListOf
<1>6. PICK t : t = NewTable(d.size)
  OBVIOUS
<1>7. t = [Table(parts, d.size) EXCEPT !.noninit = TRUE]
  BY <1>1, <1>3, <1>6 DEF NewTable
<1>8. t = [parts |-> parts, devsize |-> d.size, valid |-> FALSE, dirty |-> FALSE,
           noninit |-> TRUE]
  BY <1>7 DEF Table
<1>9. /\ t.parts = parts /\ t.devsize = d.size /\ t.dirty = FALSE /\ t.noninit = TRUE
      /\ IsTable(t) /\ Numbers(t) = 1..1
  BY <1>5, <1>8 DEF IsTable, Numbers
<1>10. SectorsOf(t) /\ FreeSized(t) /\ Room(t) = MapSectors
  BY <1>2, <1>4, <1>9, MacPartAssumption DEF SectorsOf, FreeSized, IsFree, Room
<1>11. TableGood(t, d)
  BY <1>9, <1>10 DEF TableGood, NewFits
<1> QED BY <1>6, <1>9, <1>11

-----------------------------------------------------------------------------
(* What is cached and what is on the drives, step by step.                 *)

\* A write that has come to sector "next" of the map.
InWriting(t, d, next) ==
  /\ t.dirty /\ next \in 1..(LastWritten(t) + 1)
  /\ \A n \in 1..(next - 1) : d.map[n] = MapSector(t, n)

WrittenInv ==
  /\ \A d \in Devices : /\ DriveSound(disk[d])
                        /\ table[d] # NoTable => TableGood(table[d], disk[d])
  /\ writing # NoWrite /\ writing.dev \in Devices =>
       InWriting(table[writing.dev], disk[writing.dev], writing.next)

\* The drives are as large and as full as they were.
DrivesKeep ==
  \A d \in Devices : DOMAIN disk'[d].map = DOMAIN disk[d].map /\ (disk[d].boot => disk'[d].boot)

\* A device that was never partitioned: no boot sector, or a table that is still without.
Unwritten(d) == IF table[d] = NoTable THEN ~disk[d].boot ELSE table[d].noninit

\* With nothing left to write, a table is what is found.
LEMMA WrittenGood == UseInv /\ WrittenInv => WrittenIsRead
<1> SUFFICES ASSUME UseInv, WrittenInv, NEW d \in Devices,
                    table[d] # NoTable, ~table[d].dirty, ~table[d].noninit, disk[d].boot
             PROVE  LET t == table[d]
                        found == PartsOn(disk[d])
                    IN  /\ Len(t.parts) \in {Len(found), Len(found) + 1}
                        /\ Len(t.parts) > Len(found) => IsFree(t, Len(t.parts))
                        /\ \A n \in DOMAIN found : [t.parts[n] EXCEPT !.refs = 1] = found[n]
  BY DEF WrittenIsRead
<1>1. PICK t : t = table[d]
  OBVIOUS
<1>2. PICK found : found = PartsOn(disk[d])
  OBVIOUS
<1>3. DriveOK(disk[d]) /\ TableGood(t, disk[d])
  BY <1>1 DEF UseInv, DrivesOK, WrittenInv
<1>4. AsFound(t, found)
  BY <1>1, <1>2, <1>3 DEF TableGood
<1>5. Len(found) \in Nat
  BY <1>2, <1>3, PartsOnIs
<1>6. /\ Len(t.parts) \in {Len(found), Len(found) + 1}
      /\ Len(t.parts) > Len(found) => IsFree(t, Len(t.parts))
      /\ \A n \in DOMAIN found : [t.parts[n] EXCEPT !.refs = 1] = found[n]
  BY <1>4, <1>5 DEF AsFound
<1> QED BY <1>1, <1>2, <1>6

\* The table a call works on, as it is cached or read.
LEMMA ReadTableGood ==
  ASSUME UseInv, WrittenInv, NEW dev \in Devices, ReadTable(dev) # NoTable
  PROVE  DriveOK(disk[dev]) /\ TableGood(ReadTable(dev), disk[dev])
<1>1. DriveOK(disk[dev]) /\ DriveSound(disk[dev])
  BY DEF UseInv, DrivesOK, WrittenInv
<1>2. CASE table[dev] # NoTable
  BY <1>1, <1>2 DEF ReadTable, WrittenInv
<1>3. CASE table[dev] = NoTable
  <2>1. PICK parts : parts = PartsOn(disk[dev])
    OBVIOUS
  <2>2. /\ parts # <<>> /\ Len(parts) <= parts[1].sectors
        /\ ReadTable(dev) = Table(parts, disk[dev].size)
    BY <1>3, <2>1 DEF ReadTable
  <2> QED BY <1>1, <2>1, <2>2, ReadGood
<1> QED BY <1>2, <1>3

\* Nothing is read of a drive that was never partitioned.
LEMMA UnwrittenReads ==
  ASSUME NEW dev, Unwritten(dev), ReadTable(dev) # NoTable
  PROVE  table[dev] # NoTable /\ ReadTable(dev) = table[dev] /\ ReadTable(dev).noninit
<1>1. ASSUME table[dev] = NoTable PROVE FALSE
  <2>1. PartsOn(disk[dev]) = <<>>
    BY <1>1, BootlessIs DEF Unwritten
  <2> QED BY <1>1, <2>1 DEF ReadTable
<1> QED BY <1>1 DEF ReadTable, Unwritten

\* One table is replaced.
LEMMA SetGood ==
  ASSUME UseInv, WrittenInv, NEW dev, NEW t,
         dev \in Devices => t = NoTable \/ TableGood(t, disk[dev]),
         table' = [table EXCEPT ![dev] = t], disk' = disk, writing' = NoWrite
  PROVE  WrittenInv' /\ DrivesKeep
<1>1. \A d \in Devices : table'[d] = IF d = dev THEN t ELSE table[d]
  BY DEF UseInv
<1>2. ASSUME NEW d \in Devices
      PROVE  DriveSound(disk'[d]) /\ (table'[d] # NoTable => TableGood(table'[d], disk'[d]))
  BY <1>1 DEF WrittenInv
<1>3. DrivesKeep
  BY DEF DrivesKeep
<1>4. \A d \in Devices : /\ DriveSound(disk[d])'
                         /\ table'[d] # NoTable => TableGood(table[d], disk[d])'
  <2> SUFFICES ASSUME NEW d \in Devices
               PROVE  /\ DriveSound(disk[d])'
                      /\ table'[d] # NoTable => TableGood(table[d], disk[d])'
    OBVIOUS
  <2>1. DriveSound(disk[d])'
    BY <1>2 DEF DriveSound
  <2>2. table'[d] # NoTable => TableGood(table[d], disk[d])'
    BY <1>2 DEF TableGood
  <2> QED BY <2>1, <2>2
<1> QED BY <1>3, <1>4 DEF WrittenInv

\* tivo_partition_total_free and its like.
LEMMA MeasureGood ==
  ASSUME UseInv, WrittenInv, NEW dev, Measure(dev)
  PROVE  /\ WrittenInv' /\ DrivesKeep
         /\ \A d \in Devices : Unwritten(d) => Unwritten(d)'
<1>1. PICK r : r = ReadTable(dev)
  OBVIOUS
<1>2. PICK t : t = Validate(r)
  OBVIOUS
<1>3. /\ table' = [table EXCEPT ![dev] = t] /\ disk' = disk /\ writing' = NoWrite
      /\ r # NoTable
  BY <1>1, <1>2 DEF Measure, Idle, Validated
<1>4. ASSUME dev \in Devices PROVE TableGood(r, disk[dev]) /\ TableGood(t, disk[dev])
  <2>1. DriveOK(disk[dev]) /\ TableGood(r, disk[dev])
    BY <1>1, <1>3, <1>4, ReadTableGood
  <2> QED BY <1>2, <2>1, ValidateGood
<1>5. WrittenInv' /\ DrivesKeep
  BY <1>3, <1>4, SetGood
<1>6. ASSUME NEW d \in Devices, Unwritten(d) PROVE Unwritten(d)'
  <2>1. table'[d] = IF d = dev THEN t ELSE table[d]
    BY <1>3 DEF UseInv
  <2>2. CASE d = dev
    <3>1. r.noninit /\ IsTable(r)
      BY <1>1, <1>3, <1>4, <1>6, <2>2, UnwrittenReads DEF TableGood
    <3>2. t.noninit /\ IsTable(t)
      BY <1>2, <1>4, <2>2, <3>1, ValidateFlags DEF TableGood
    <3> QED BY <2>1, <2>2, <3>2, TableIsNot DEF Unwritten
  <2>3. CASE d # dev
    BY <1>3, <1>6, <2>1, <2>3 DEF Unwritten
  <2> QED BY <2>2, <2>3
<1> QED BY <1>5, <1>6

\* tivo_partition_add.
LEMMA AddGood ==
  ASSUME UseInv, WrittenInv, NEW dev, NEW size, NEW before \in Int, NEW name, NEW type,
         type # "free", AddTo(dev, Validated(dev), size, before, name, type)
  PROVE  /\ WrittenInv' /\ DrivesKeep
         /\ \A d \in Devices : Unwritten(d) => Unwritten(d)'
<1>1. PICK r : r = ReadTable(dev)
  OBVIOUS
<1>2. PICK v : v = Validate(r)
  OBVIOUS
<1>3. PICK t : t = Added(v, size, before, name, type).table
  OBVIOUS
<1>4. r # NoTable /\ Validated(dev) = v
  BY <1>1, <1>2 DEF AddTo, Validated
<1>5. table' = [table EXCEPT ![dev] = t] /\ disk' = disk /\ writing' = NoWrite
  BY <1>3, <1>4 DEF AddTo, Idle
<1>6. ASSUME dev \in Devices
      PROVE  TableGood(r, disk[dev]) /\ TableGood(t, disk[dev]) /\ (t.noninit <=> v.noninit)
  <2>1. DriveOK(disk[dev]) /\ TableGood(r, disk[dev])
    BY <1>1, <1>4, <1>6, ReadTableGood
  <2>2. TableGood(v, disk[dev])
    BY <1>2, <2>1, ValidateGood
  <2> QED BY <1>3, <2>1, <2>2, AddedGood
<1>7. WrittenInv' /\ DrivesKeep
  BY <1>5, <1>6, SetGood
<1>8. ASSUME NEW d \in Devices, Unwritten(d) PROVE Unwritten(d)'
  <2>1. table'[d] = IF d = dev THEN t ELSE table[d]
    BY <1>5 DEF UseInv
  <2>2. CASE d = dev
    <3>1. r.noninit /\ IsTable(r)
      BY <1>1, <1>4, <1>6, <1>8, <2>2, UnwrittenReads DEF TableGood
    <3>2. v.noninit
      BY <1>2, <3>1, ValidateFlags
    <3>3. t.noninit /\ IsTable(t)
      BY <1>6, <2>2, <3>2 DEF TableGood
    <3> QED BY <2>1, <2>2, <3>3, TableIsNot DEF Unwritten
  <2>3. CASE d # dev
    BY <1>5, <1>8, <2>1, <2>3 DEF Unwritten
  <2> QED BY <2>2, <2>3
<1> QED BY <1>7, <1>8

\* tivo_partition_rename, of a partition on a device that was never written.
LEMMA RenameGood ==
  ASSUME UseInv, WrittenInv, NEW dev \in Devices, NEW n, NEW name, Unwritten(dev),
         Rename(dev, n, name)
  PROVE  /\ WrittenInv' /\ DrivesKeep
         /\ \A d \in Devices : Unwritten(d) => Unwritten(d)'
<1>1. PICK r : r = ReadTable(dev)
  OBVIOUS
<1>2. PICK t : t = [r EXCEPT !.parts[n].name = name]
  OBVIOUS
<1>3. /\ table' = [table EXCEPT ![dev] = t] /\ disk' = disk /\ writing' = NoWrite
      /\ r # NoTable /\ n \in Numbers(r)
  BY <1>1, <1>2 DEF Rename, Idle
<1>4. TableGood(r, disk[dev]) /\ r.noninit
  BY <1>1, <1>3, ReadTableGood, UnwrittenReads
<1>5. TableGood(t, disk[dev]) /\ t.noninit
  BY <1>2, <1>3, <1>4, RenamedGood
<1>6. WrittenInv' /\ DrivesKeep
  BY <1>3, <1>5, SetGood
<1>7. t # NoTable
  BY <1>5, TableIsNot DEF TableGood
<1>8. ASSUME NEW d \in Devices, Unwritten(d) PROVE Unwritten(d)'
  <2>1. table'[d] = IF d = dev THEN t ELSE table[d]
    BY <1>3 DEF UseInv
  <2> QED BY <1>3, <1>5, <1>7, <1>8, <2>1 DEF Unwritten
<1> QED BY <1>6, <1>8

\* tivo_partition_rrpart.
LEMMA RereadGood ==
  ASSUME UseInv, WrittenInv, NEW dev, Reread(dev)
  PROVE  WrittenInv' /\ DrivesKeep
<1>1. table' = [table EXCEPT ![dev] = NoTable] /\ disk' = disk /\ writing' = NoWrite
  BY DEF Reread, Idle
<1> QED BY <1>1, SetGood

\* tivo_partition_table_init.
LEMMA TableInitGood ==
  ASSUME UseInv, WrittenInv, NEW dev, TableInit(dev), dev \in Devices => NewFits(disk[dev])
  PROVE  /\ WrittenInv' /\ DrivesKeep
         /\ \A d \in Devices : Unwritten(d) \/ d = dev => Unwritten(d)'
<1>1. PICK t : t = NewTable(disk[dev].size)
  OBVIOUS
<1>2. table' = [table EXCEPT ![dev] = t] /\ disk' = disk /\ writing' = NoWrite
  BY <1>1 DEF TableInit, Idle
<1>3. ASSUME dev \in Devices PROVE TableGood(t, disk[dev]) /\ t.noninit
  BY <1>1, <1>3, NewGood DEF WrittenInv, DriveSound
<1>4. WrittenInv' /\ DrivesKeep
  BY <1>2, <1>3, SetGood
<1>5. ASSUME NEW d \in Devices, Unwritten(d) \/ d = dev PROVE Unwritten(d)'
  <2>1. table'[d] = IF d = dev THEN t ELSE table[d]
    BY <1>2 DEF UseInv
  <2>2. CASE d = dev
    BY <1>3, <2>1, <2>2, TableIsNot DEF Unwritten, TableGood
  <2>3. CASE d # dev
    BY <1>2, <1>5, <2>1, <2>3 DEF Unwritten
  <2> QED BY <2>2, <2>3
<1> QED BY <1>4, <1>5

\* tivo_partition_open_direct.
LEMMA OpenGood ==
  ASSUME UseInv, WrittenInv, NEW h \in Handles, NEW dev \in Devices, NEW n, Open(h, dev, n)
  PROVE  WrittenInv' /\ DrivesKeep
<1>1. PICK t : t = ReadTable(dev)
  OBVIOUS
<1>2. PICK k : k = t.parts[n].refs + 1
  OBVIOUS
<1>3. PICK u : u = WithRefs(t, n, k)
  OBVIOUS
<1>4. /\ t # NoTable /\ n \in Numbers(t)
      /\ table' = [table EXCEPT ![dev] = u] /\ disk' = disk /\ writing' = NoWrite
  BY <1>1, <1>2, <1>3 DEF Open, Idle, WithRefs
<1>5. DriveOK(disk[dev]) /\ TableGood(t, disk[dev])
  BY <1>1, <1>4, ReadTableGood
<1>6. IsEntry(t.parts[n])
  BY <1>4, <1>5 DEF TableGood, IsTable, IsList, Numbers
<1>7. k \in Nat \ {0}
  BY <1>2, <1>6 DEF IsEntry
<1>8. TableGood(u, disk[dev])
  BY <1>3, <1>4, <1>5, <1>7, RefsGood
<1> QED BY <1>4, <1>8, SetGood

\* tivo_partition_close.
LEMMA CloseGood ==
  ASSUME UseInv, WrittenInv, NEW h \in Handles, Close(h)
  PROVE  WrittenInv' /\ DrivesKeep
<1>1. PICK dev : dev = open[h].dev
  OBVIOUS
<1>2. PICK n : n = open[h].number
  OBVIOUS
<1>3. PICK t : t = table[dev]
  OBVIOUS
<1>4. PICK k : k = t.parts[n].refs - 1
  OBVIOUS
<1>5. PICK u : u = WithRefs(t, n, k)
  OBVIOUS
<1>6. /\ dev \in Devices /\ h \in OpenOn(dev) /\ disk' = disk /\ writing' = NoWrite
      /\ table' = [table EXCEPT ![dev] = u]
  BY <1>1, <1>2, <1>3, <1>4, <1>5 DEF Close, Idle, UseInv, OpenOn, WithRefs
<1>7. TableOn(t, dev) /\ t # NoTable
  BY <1>3, <1>6 DEF UseInv, TableIn
<1>8. n \in Numbers(t)
  BY <1>2, <1>6, <1>7 DEF TableOn, InPlace
<1>9. IsEntry(t.parts[n]) /\ t.parts[n].refs # 1
  BY <1>2, <1>6, <1>7, <1>8, UnusedIs DEF TableOn, IsTable, IsList, Numbers
<1>10. k \in Nat \ {0}
  BY <1>4, <1>9 DEF IsEntry
<1>11. DriveOK(disk[dev]) /\ TableGood(t, disk[dev])
  BY <1>3, <1>6, <1>7 DEF UseInv, DrivesOK, WrittenInv
<1>12. TableGood(u, disk[dev])
  BY <1>5, <1>8, <1>10, <1>11, RefsGood
<1> QED BY <1>6, <1>12, SetGood

-----------------------------------------------------------------------------
(* A table on its way to the sectors.                                      *)

\* The entry behind the last one is written too, where there is one.
LEMMA LastWrittenIs ==
  ASSUME NEW t, IsTable(t), SectorsOf(t)
  PROVE  /\ LastWritten(t) \in Nat /\ 1 \in Numbers(t) /\ Room(t) \in Nat /\ Len(t.parts) \in Nat
         /\ LastWritten(t) <= Room(t)
         /\ Len(t.parts) <= Room(t) => Len(t.parts) <= LastWritten(t)
<1>1. Len(t.parts) \in Nat /\ Len(t.parts) >= 1
  BY ListIs DEF IsTable
<1>2. 1 \in Numbers(t)
  BY <1>1 DEF Numbers
<1>3. Room(t) \in Nat
  BY <1>2 DEF SectorsOf, Room
<1> QED BY <1>1, <1>2, <1>3 DEF LastWritten

\* What a sector of the map is.
LEMMA MapSectorIs ==
  ASSUME NEW t, IsTable(t), NEW n \in Nat
  PROVE  /\ n > Len(t.parts) => MapSector(t, n) = Blank
         /\ n <= Len(t.parts) =>
              /\ MapSector(t, n) # Blank /\ MapSector(t, n).count = Len(t.parts)
              /\ MapSector(t, n).start = t.parts[n].start
              /\ MapSector(t, n).sectors = t.parts[n].sectors
              /\ MapSector(t, n).name = t.parts[n].name
              /\ MapSector(t, n).type = t.parts[n].type
<1>1. Len(t.parts) \in Nat
  BY ListIs DEF IsTable
<1>2. ASSUME n <= Len(t.parts)
      PROVE  MapSector(t, n) = [count |-> Len(t.parts), start |-> t.parts[n].start,
                                sectors |-> t.parts[n].sectors, name |-> t.parts[n].name,
                                type |-> t.parts[n].type]
  BY <1>1, <1>2 DEF MapSector
<1>3. ASSUME n <= Len(t.parts) PROVE MapSector(t, n) # Blank
  <2>1. "start" \in DOMAIN MapSector(t, n) /\ "start" \notin DOMAIN Blank
    BY <1>2, <1>3 DEF Blank
  <2> QED BY <2>1
<1>4. n > Len(t.parts) => MapSector(t, n) = Blank
  BY DEF MapSector
<1> QED BY <1>2, <1>3, <1>4

\* A drive one sector of the map of which is written.
LEMMA SectorGood ==
  ASSUME NEW d, DriveOK(d), DriveSound(d), NEW t, TableGood(t, d), NEW n, InWriting(t, d, n),
         n <= LastWritten(t), NEW e, e = [d EXCEPT !.map[n] = MapSector(t, n)]
  PROVE  /\ DriveSound(e) /\ TableGood(t, e) /\ InWriting(t, e, n + 1)
         /\ DOMAIN e.map = DOMAIN d.map /\ (e.boot <=> d.boot)
<1>1. PICK s : s = MapSector(t, n)
  OBVIOUS
<1>2. PICK m : m = [d.map EXCEPT ![n] = s]
  OBVIOUS
<1>3. e = [boot |-> d.boot, size |-> d.size, map |-> m]
  <2> DEFINE r == [boot |-> d.boot, size |-> d.size, map |-> d.map]
  <2>1. d = r
    BY DEF DriveOK
  <2>2. e = [r EXCEPT !.map[n] = s]
    BY <1>1, <2>1
  <2> QED BY <1>2, <2>2
<1>4. e.boot = d.boot /\ e.size = d.size /\ e.map = m
  BY <1>3
<1>5. /\ IsTable(t) /\ SectorsOf(t) /\ FreeSized(t) /\ t.dirty
      /\ 1..Room(t) \subseteq DOMAIN d.map
  BY DEF TableGood, InWriting
<1>6. /\ LastWritten(t) \in Nat /\ 1 \in Numbers(t) /\ Room(t) \in Nat /\ Len(t.parts) \in Nat
      /\ LastWritten(t) <= Room(t)
  BY <1>5, LastWrittenIs
<1>7. n \in Nat /\ n >= 1 /\ n \in 1..Room(t) /\ n \in DOMAIN d.map
  BY <1>5, <1>6 DEF InWriting
<1>8. /\ DOMAIN m = DOMAIN d.map /\ m = [k \in DOMAIN m |-> m[k]]
      /\ \A k \in DOMAIN d.map : m[k] = IF k = n THEN s ELSE d.map[k]
  BY <1>2
<1>9. ASSUME s # Blank
      PROVE  /\ n \in Numbers(t) /\ s.start \in Nat /\ s.sectors \in Nat
             /\ s.type = "free" => s.sectors # 0
             /\ s.sectors = t.parts[n].sectors
  <2>1. n <= Len(t.parts)
    BY <1>1, <1>5, <1>6, <1>7, <1>9, MapSectorIs
  <2>2. s.start = t.parts[n].start /\ s.sectors = t.parts[n].sectors /\ s.type = t.parts[n].type
    BY <1>1, <1>5, <1>7, <2>1, MapSectorIs
  <2>3. n \in Numbers(t)
    BY <1>6, <1>7, <2>1 DEF Numbers
  <2> QED BY <1>5, <2>2, <2>3 DEF SectorsOf, FreeSized, IsFree
<1>10. DriveSound(e)
  <2>1. ASSUME NEW k \in DOMAIN m, m[k] # Blank
        PROVE  /\ m[k].start \in Nat /\ m[k].sectors \in Nat
               /\ m[k].type = "free" => m[k].sectors # 0
    <3>1. CASE k = n
      BY <1>8, <1>9, <2>1, <3>1
    <3>2. CASE k # n
      BY <1>8, <2>1, <3>2 DEF DriveSound
    <3> QED BY <3>1, <3>2
  <2>2. ASSUME m[1] # Blank PROVE 1..m[1].sectors \subseteq DOMAIN m
    <3>1. 1 \in DOMAIN d.map
      BY DEF DriveOK
    <3>2. CASE n = 1
      BY <1>5, <1>8, <1>9, <2>2, <3>1, <3>2 DEF Room
    <3>3. CASE n # 1
      BY <1>8, <2>2, <3>1, <3>3 DEF DriveSound
    <3> QED BY <3>2, <3>3
  <2>3. d.size \in Nat
    BY DEF DriveSound
  <2> QED BY <1>4, <1>8, <2>1, <2>2, <2>3 DEF DriveSound
<1>11. TableGood(t, e)
  BY <1>4, <1>5, <1>8 DEF TableGood
<1>12. InWriting(t, e, n + 1)
  <2>1. ASSUME NEW k \in 1..n PROVE m[k] = MapSector(t, k)
    <3>1. k \in 1..Room(t) /\ k \in DOMAIN d.map
      BY <1>5, <1>6, <1>7
    <3>2. CASE k = n
      BY <1>1, <1>8, <3>1, <3>2
    <3>3. CASE k # n
      <4>1. k \in 1..(n - 1)
        BY <1>7, <3>3
      <4> QED BY <1>8, <3>1, <3>3, <4>1 DEF InWriting
    <3> QED BY <3>2, <3>3
  <2>2. n + 1 \in 1..(LastWritten(t) + 1) /\ (n + 1) - 1 = n
    BY <1>6, <1>7
  <2> QED BY <1>4, <1>5, <2>1, <2>2 DEF InWriting
<1> QED BY <1>4, <1>8, <1>10, <1>11, <1>12

\* When all sectors are written the table is the one that is found.
LEMMA AllWritten ==
  ASSUME NEW d, DriveOK(d), NEW t, TableGood(t, d), NEW n, InWriting(t, d, n),
         n > LastWritten(t)
  PROVE  TableGood(WithDirty(t, FALSE), d)
<1> DEFINE L == Len(t.parts)
           N == EntriesRead(d)
<1>1. PICK u : u = WithDirty(t, FALSE)
  OBVIOUS
<1>2. IsTable(t) /\ SectorsOf(t) /\ L <= Room(t)
  BY DEF TableGood, InWriting
<1>3. /\ LastWritten(t) \in Nat /\ 1 \in Numbers(t) /\ L \in Nat /\ L <= LastWritten(t)
  BY <1>2, LastWrittenIs
<1>4. L >= 1
  BY <1>3 DEF Numbers
<1>5. \A k \in 1..L : d.map[k] = MapSector(t, k)
  <2>1. \A k \in 1..L : k \in 1..(n - 1)
    BY <1>3 DEF InWriting
  <2> QED BY <2>1 DEF InWriting
<1>6. ASSUME NEW k \in 1..L
      PROVE  /\ d.map[k] # Blank /\ d.map[k].count = L
             /\ d.map[k].start = t.parts[k].start /\ d.map[k].sectors = t.parts[k].sectors
             /\ d.map[k].name = t.parts[k].name /\ d.map[k].type = t.parts[k].type
  <2>1. k \in Nat /\ k <= L
    BY <1>3
  <2> QED BY <1>2, <1>5, <2>1, MapSectorIs
<1>7. Alike(t, u) /\ ~u.dirty /\ u.parts = t.parts
  <2>1. PICK v : v = FALSE
    OBVIOUS
  <2>2. Alike(t, WithDirty(t, v)) /\ WithDirty(t, v).dirty = v /\ WithDirty(t, v).parts = t.parts
    BY <1>2, FlaggedHas
  <2> QED BY <1>1, <2>1, <2>2
<1>8. ASSUME d.boot PROVE AsFound(u, PartsOn(d))
  <2>1. /\ N \in Nat /\ N <= d.map[1].count /\ Len(PartsOn(d)) = N /\ DOMAIN PartsOn(d) = 1..N
        /\ N = d.map[1].count \/ d.map[N + 1] = Blank
        /\ \A m \in 1..N : PartsOn(d)[m] = Entry(d.map[m].start, d.map[m].sectors,
                                                 d.map[m].name, d.map[m].type)
    BY <1>8, PartsOnIs
  <2> HIDE DEF N
  <2>2. d.map[1].count = L
    BY <1>3, <1>4, <1>6
  <2>3. N = L
    <3> SUFFICES ASSUME N # L PROVE FALSE
      OBVIOUS
    <3>1. N + 1 \in 1..L
      BY <1>3, <2>1, <2>2
    <3> QED BY <1>6, <2>1, <2>2, <3>1
  <2>4. ASSUME NEW m \in 1..N PROVE [u.parts[m] EXCEPT !.refs = 1] = PartsOn(d)[m]
    <3>1. PICK p : p = t.parts[m]
      OBVIOUS
    <3>2. IsEntry(p)
      BY <1>2, <2>3, <3>1 DEF IsTable, IsList
    <3> DEFINE r == [start |-> p.start, sectors |-> p.sectors, name |-> p.name,
                     type |-> p.type, refs |-> p.refs]
    <3>3. p = r
      BY <3>2 DEF IsEntry
    <3>4. [r EXCEPT !.refs = 1] = Entry(p.start, p.sectors, p.name, p.type)
      BY DEF Entry
    <3>5. PartsOn(d)[m] = Entry(p.start, p.sectors, p.name, p.type)
      BY <1>6, <2>1, <2>3, <3>1
    <3> HIDE DEF r
    <3>6. [p EXCEPT !.refs = 1] = PartsOn(d)[m]
      BY <3>3, <3>4, <3>5
    <3> QED BY <1>7, <3>1, <3>6
  <2> QED BY <1>7, <2>1, <2>3, <2>4 DEF AsFound
<1>9. TableGood(u, d)
  BY <1>7, <1>8, AlikeGood
<1> QED BY <1>1, <1>9

\* tivo_partition_table_write, up to the boot sector.
LEMMA WriteBeginGood ==
  ASSUME UseInv, WrittenInv, NEW dev, WriteBegin(dev)
  PROVE  /\ WrittenInv' /\ DrivesKeep
         /\ \A d \in Devices : Unwritten(d) /\ d # dev => Unwritten(d)'
<1>1. PICK t : t = table[dev]
  OBVIOUS
<1>2. PICK u : u = WithNoninit(t, FALSE)
  OBVIOUS
<1>3. /\ t # NoTable /\ t.dirty /\ table' = [table EXCEPT ![dev] = u]
      /\ writing' = [dev |-> dev, next |-> 1]
      /\ disk' = disk \/ disk' = [disk EXCEPT ![dev].boot = TRUE]
  BY <1>1, <1>2 DEF WriteBegin, WithNoninit
<1>4. \A d \in Devices : table'[d] = IF d = dev THEN u ELSE table[d]
  BY <1>3 DEF UseInv
<1>5. ASSUME NEW d \in Devices
      PROVE  /\ disk'[d].map = disk[d].map /\ disk'[d].size = disk[d].size
             /\ disk[d].boot => disk'[d].boot
             /\ d # dev => disk'[d] = disk[d]
  <2>1. PICK x : x = disk[d]
    OBVIOUS
  <2>2. x = [boot |-> x.boot, size |-> x.size, map |-> x.map]
    BY <2>1 DEF UseInv, DrivesOK, DriveOK
  <2>3. disk'[d] = x \/ (d = dev /\ disk'[d] = [x EXCEPT !.boot = TRUE])
    BY <1>3, <2>1 DEF UseInv, DrivesOK
  <2>4. ASSUME NEW y, y = [x EXCEPT !.boot = TRUE] PROVE y.map = x.map /\ y.size = x.size /\ y.boot
    <3> DEFINE r == [boot |-> x.boot, size |-> x.size, map |-> x.map]
    <3>1. x = r
      BY <2>2
    <3>2. y = [r EXCEPT !.boot = TRUE]
      BY <2>4, <3>1
    <3> QED BY <3>2
  <2> QED BY <2>1, <2>3, <2>4
<1>6. ASSUME NEW d \in Devices
      PROVE  DriveSound(disk'[d]) /\ (table'[d] # NoTable => TableGood(table'[d], disk'[d]))
  <2>1. DriveSound(disk'[d])
    <3>1. DriveSound(disk[d])
      BY DEF WrittenInv
    <3> QED BY <1>5, <3>1 DEF DriveSound
  <2>2. CASE d = dev
    <3>1. TableGood(t, disk[d])
      BY <1>1, <1>3, <2>2 DEF WrittenInv
    <3>2. TableGood(u, disk'[d])
      BY <1>2, <1>3, <1>5, <3>1, BootedGood
    <3> QED BY <1>4, <2>1, <2>2, <3>2
  <2>3. CASE d # dev
    BY <1>4, <1>5, <2>1, <2>3 DEF WrittenInv
  <2> QED BY <2>2, <2>3
<1>7. DrivesKeep
  BY <1>5 DEF DrivesKeep
<1>8. ASSUME dev \in Devices PROVE InWriting(u, disk'[dev], 1)
  <2>1. TableGood(t, disk[dev])
    BY <1>1, <1>3, <1>8 DEF WrittenInv
  <2>2. TableGood(u, disk[dev]) /\ u.dirty
    BY <1>2, <1>3, <2>1, BootedGood
  <2>3. LastWritten(u) \in Nat
    BY <2>2, LastWrittenIs DEF TableGood
  <2> QED BY <2>2, <2>3 DEF InWriting
<1>9. WrittenInv'
  <2>1. \A d \in Devices : /\ DriveSound(disk[d])'
                           /\ table'[d] # NoTable => TableGood(table[d], disk[d])'
    <3> SUFFICES ASSUME NEW d \in Devices
                 PROVE  /\ DriveSound(disk[d])'
                        /\ table'[d] # NoTable => TableGood(table[d], disk[d])'
      OBVIOUS
    <3>1. DriveSound(disk[d])'
      BY <1>6 DEF DriveSound
    <3>2. table'[d] # NoTable => TableGood(table[d], disk[d])'
      BY <1>6 DEF TableGood
    <3> QED BY <3>1, <3>2
  <2>2. ASSUME dev \in Devices PROVE InWriting(table'[dev], disk'[dev], 1)
    BY <1>4, <1>8, <2>2
  <2>3. writing'.dev = dev /\ writing'.next = 1
    BY <1>3
  <2>4. writing'.dev \in Devices => InWriting(table'[writing'.dev], disk'[writing'.dev], writing'.next)
    BY <2>2, <2>3
  <2> QED BY <2>1, <2>4 DEF WrittenInv, InWriting
<1>10. ASSUME NEW d \in Devices, Unwritten(d), d # dev PROVE Unwritten(d)'
  BY <1>4, <1>5, <1>10 DEF Unwritten
<1> QED BY <1>7, <1>9, <1>10

\* The boot sector can not be written.
LEMMA BootFailsGood ==
  ASSUME UseInv, WrittenInv, NEW dev, BootFails(dev)
  PROVE  WrittenInv' /\ DrivesKeep
<1>1. PICK t : t = table[dev]
  OBVIOUS
<1>2. PICK u : u = WithNoninit(t, FALSE)
  OBVIOUS
<1>3. /\ t # NoTable /\ t.dirty /\ table' = [table EXCEPT ![dev] = u]
      /\ disk' = disk /\ writing' = NoWrite
  BY <1>1, <1>2 DEF BootFails, Idle, WithNoninit
<1>4. ASSUME dev \in Devices PROVE TableGood(u, disk[dev])
  <2>1. TableGood(t, disk[dev])
    BY <1>1, <1>3, <1>4 DEF WrittenInv
  <2> QED BY <1>2, <1>3, <2>1, BootedGood
<1> QED BY <1>3, <1>4, SetGood

\* One sector of the map.
LEMMA WriteSectorGood ==
  ASSUME UseInv, WrittenInv, WriteSector
  PROVE  /\ WrittenInv' /\ DrivesKeep
         /\ \A d \in Devices : Unwritten(d) => Unwritten(d)'
<1>1. PICK dev : dev = writing.dev
  OBVIOUS
<1>2. PICK n : n = writing.next
  OBVIOUS
<1>3. PICK t : t = table[dev]
  OBVIOUS
<1>4. /\ writing # NoWrite /\ table' = table /\ n <= LastWritten(t)
      /\ writing' = [writing EXCEPT !.next = @ + 1]
      /\ disk' = [disk EXCEPT ![dev].map[n] = MapSector(t, n)]
  BY <1>1, <1>2, <1>3 DEF WriteSector, Idle
<1>5. writing'.dev = dev /\ writing'.next = n + 1
  <2> DEFINE r == [dev |-> writing.dev, next |-> writing.next]
  <2>1. writing = r
    BY <1>4 DEF UseInv
  <2>2. writing' = [r EXCEPT !.next = @ + 1]
    BY <1>4, <2>1
  <2> QED BY <1>1, <1>2, <2>2
<1>6. \A d \in Devices : d # dev => disk'[d] = disk[d]
  BY <1>4 DEF UseInv, DrivesOK
<1>7. ASSUME dev \in Devices
      PROVE  /\ t # NoTable /\ DriveSound(disk'[dev]) /\ TableGood(t, disk'[dev])
             /\ InWriting(t, disk'[dev], n + 1)
             /\ DOMAIN disk'[dev].map = DOMAIN disk[dev].map
             /\ (disk'[dev].boot <=> disk[dev].boot)
  <2>1. PICK x : x = disk[dev]
    OBVIOUS
  <2>2. PICK y : y = disk'[dev]
    OBVIOUS
  <2>3. y = [x EXCEPT !.map[n] = MapSector(t, n)]
    BY <1>4, <1>7, <2>1, <2>2 DEF UseInv, DrivesOK
  <2>4. t # NoTable
    BY <1>1, <1>3, <1>4, <1>7 DEF UseInv
  <2>5. DriveOK(x) /\ DriveSound(x) /\ TableGood(t, x) /\ InWriting(t, x, n)
    BY <1>1, <1>2, <1>3, <1>4, <1>7, <2>1, <2>4 DEF UseInv, DrivesOK, WrittenInv
  <2>6. /\ DriveSound(y) /\ TableGood(t, y) /\ InWriting(t, y, n + 1)
        /\ DOMAIN y.map = DOMAIN x.map /\ (y.boot <=> x.boot)
    BY <1>4, <2>3, <2>5, SectorGood
  <2> QED BY <2>1, <2>2, <2>4, <2>6
<1>8. ASSUME NEW d \in Devices
      PROVE  DriveSound(disk'[d]) /\ (table[d] # NoTable => TableGood(table[d], disk'[d]))
  BY <1>3, <1>6, <1>7 DEF WrittenInv
<1>9. DrivesKeep
  BY <1>6, <1>7 DEF DrivesKeep
<1>10. WrittenInv'
  <2>1. \A d \in Devices : /\ DriveSound(disk[d])'
                           /\ table'[d] # NoTable => TableGood(table[d], disk[d])'
    <3> SUFFICES ASSUME NEW d \in Devices
                 PROVE  /\ DriveSound(disk[d])'
                        /\ table'[d] # NoTable => TableGood(table[d], disk[d])'
      OBVIOUS
    <3>1. DriveSound(disk[d])'
      BY <1>8 DEF DriveSound
    <3>2. table'[d] # NoTable => TableGood(table[d], disk[d])'
      BY <1>4, <1>8 DEF TableGood
    <3> QED BY <3>1, <3>2
  <2>2. dev \in Devices => InWriting(table'[dev], disk'[dev], n + 1)
    BY <1>3, <1>4, <1>7
  <2>3. writing'.dev \in Devices => InWriting(table'[writing'.dev], disk'[writing'.dev], writing'.next)
    BY <1>5, <2>2
  <2> QED BY <2>1, <2>3 DEF WrittenInv, InWriting
<1>11. ASSUME NEW d \in Devices, Unwritten(d) PROVE Unwritten(d)'
  BY <1>4, <1>6, <1>7, <1>11 DEF Unwritten
<1> QED BY <1>9, <1>10, <1>11

\* The table is written.
LEMMA WriteEndGood ==
  ASSUME UseInv, WrittenInv, WriteEnd
  PROVE  /\ WrittenInv' /\ DrivesKeep
         /\ \A d \in Devices : Unwritten(d) => Unwritten(d)'
<1>1. PICK dev : dev = writing.dev
  OBVIOUS
<1>2. PICK t : t = table[dev]
  OBVIOUS
<1>3. PICK u : u = WithDirty(t, FALSE)
  OBVIOUS
<1>4. PICK n : n = writing.next
  OBVIOUS
<1>5. /\ writing # NoWrite /\ table' = [table EXCEPT ![dev] = u] /\ disk' = disk
      /\ writing' = NoWrite /\ n > LastWritten(t)
  BY <1>1, <1>2, <1>3, <1>4 DEF WriteEnd, Idle, WithDirty
<1>6. ASSUME dev \in Devices PROVE TableGood(u, disk[dev]) /\ t # NoTable /\ IsTable(t) /\ IsTable(u)
  <2>1. t # NoTable
    BY <1>1, <1>2, <1>5, <1>6 DEF UseInv
  <2>2. DriveOK(disk[dev]) /\ TableGood(t, disk[dev]) /\ InWriting(t, disk[dev], n)
    BY <1>1, <1>2, <1>4, <1>5, <1>6, <2>1 DEF UseInv, DrivesOK, WrittenInv
  <2>3. TableGood(u, disk[dev])
    BY <1>3, <1>5, <2>2, AllWritten
  <2> QED BY <2>1, <2>2, <2>3 DEF TableGood
<1>7. WrittenInv' /\ DrivesKeep
  BY <1>5, <1>6, SetGood
<1>8. ASSUME NEW d \in Devices, Unwritten(d) PROVE Unwritten(d)'
  <2>1. table'[d] = IF d = dev THEN u ELSE table[d]
    BY <1>5 DEF UseInv
  <2>2. CASE d = dev
    <3>1. t.noninit
      BY <1>2, <1>6, <1>8, <2>2 DEF Unwritten
    <3>2. u.noninit = t.noninit
      BY <1>3, <1>6, <2>2, FlaggedHas
    <3>3. u # NoTable
      BY <1>6, <2>2, TableIsNot
    <3> QED BY <2>1, <2>2, <3>1, <3>2, <3>3 DEF Unwritten
  <2>3. CASE d # dev
    BY <1>5, <1>8, <2>1, <2>3 DEF Unwritten
  <2> QED BY <2>2, <2>3
<1> QED BY <1>7, <1>8

\* No call of the library is made.
LEMMA SameGood ==
  ASSUME WrittenInv, disk' = disk, table' = table, writing' = writing \/ writing' = NoWrite
  PROVE  /\ WrittenInv' /\ DrivesKeep
         /\ \A d \in Devices : Unwritten(d) => Unwritten(d)'
<1>1. DrivesKeep
  BY DEF DrivesKeep
<1>2. \A d \in Devices : /\ DriveSound(disk[d])'
                         /\ table'[d] # NoTable => TableGood(table[d], disk[d])'
  BY DEF WrittenInv, DriveSound, TableGood
<1>3. ASSUME writing' # NoWrite, writing'.dev \in Devices
      PROVE  InWriting(table'[writing'.dev], disk'[writing'.dev], writing'.next)
  BY <1>3 DEF WrittenInv
<1>4. WrittenInv'
  BY <1>2, <1>3 DEF WrittenInv, InWriting
<1> QED BY <1>1, <1>4 DEF Unwritten

\* The program ends.
LEMMA ExitGood ==
  ASSUME UseInv, WrittenInv, Exit
  PROVE  WrittenInv' /\ DrivesKeep
<1>1. table' = [d \in Devices |-> NoTable] /\ writing' = NoWrite /\ disk' = disk
  BY DEF Exit
<1>2. \A d \in Devices : table'[d] = NoTable /\ DriveSound(disk[d])'
  BY <1>1 DEF WrittenInv, DriveSound
<1> QED BY <1>1, <1>2 DEF WrittenInv, DrivesKeep

-----------------------------------------------------------------------------
(* The programs, and what they rely on.                                    *)

\* Where a table may be started there is room for it.
FitInv ==
  \A d \in Devices : NewFits(disk[d]) \/ (disk[d].boot /\ add.pc = "off" /\ layout.pc = "off")

\* Nothing that is kept is lost.
LEMMA FitKeeps ==
  ASSUME FitInv, DrivesKeep,
         \/ add'.pc = add.pc /\ layout'.pc = layout.pc
         \/ \A d \in Devices : NewFits(disk[d])
  PROVE  FitInv'
<1> SUFFICES ASSUME NEW d \in Devices
             PROVE  NewFits(disk'[d]) \/ (disk'[d].boot /\ add'.pc = "off" /\ layout'.pc = "off")
  BY DEF FitInv, NewFits
<1>1. DOMAIN disk'[d].map = DOMAIN disk[d].map /\ (disk[d].boot => disk'[d].boot)
  BY DEF DrivesKeep
<1> QED BY <1>1 DEF FitInv, NewFits

\* Every call of a client of the library.
LEMMA ClientGood ==
  ASSUME UseInv, ProgInv, WrittenInv, FitInv, ClientStep
  PROVE  WrittenInv' /\ FitInv' /\ layout' = layout /\ layout.pc = "off"
<1>1. made >= 0
  BY DEF ClientStep, ClientAdd, Client, ClientWriteEnd, ClientWriteFails, ClientExit
<1>2. add' = add /\ layout' = layout /\ layout.pc = "off"
  BY <1>1 DEF ProgInv, ClientStep, ClientAdd, Client, ClientWriteEnd, ClientWriteFails, ClientExit
<1> DEFINE Goal == WrittenInv' /\ DrivesKeep
<1>3. ASSUME NEW dev \in Devices, ClientAdd(dev) PROVE Goal
  <2>1. PICK size \in ClientSizes, before \in 0..(Len(ReadTable(dev).parts) + 1) :
          AddTo(dev, Validated(dev), size, before, <<"new", made>>, "MFS")
    BY <1>3 DEF ClientAdd
  <2>2. before \in Int
    BY <2>1
  <2> QED BY <2>1, <2>2, AddGood
<1>4. ASSUME NEW dev \in Devices, Client(TableInit(dev) /\ ~disk[dev].boot /\ disk[dev].size > 0)
      PROVE  Goal
  BY <1>4, TableInitGood DEF Client, FitInv
<1>5. ASSUME NEW dev \in Devices,
             \/ Client(Measure(dev)) \/ Client(Reread(dev) /\ dev \notin cut)
             \/ Client(WriteBegin(dev)) \/ Client(BootFails(dev))
      PROVE  Goal
  BY <1>5, MeasureGood, RereadGood, WriteBeginGood, BootFailsGood DEF Client
<1>6. ASSUME NEW dev \in Devices, NEW n \in 2..MapSectors,
             Client(Open(1, dev, n) /\ ~IsFree(ReadTable(dev), n))
      PROVE  Goal
  BY <1>6, OpenGood, ProgramsOK DEF Client
<1>7. ASSUME Client(Close(1)) PROVE Goal
  BY <1>7, CloseGood, ProgramsOK DEF Client
<1>8. ASSUME ClientWriteFails PROVE Goal
  BY <1>8, SameGood DEF ClientWriteFails, WriteFails
<1>9. ASSUME Client(WriteSector) \/ ClientWriteEnd \/ ClientExit PROVE Goal
  BY <1>9, WriteSectorGood, WriteEndGood, ExitGood DEF Client, ClientWriteEnd, ClientExit
<1> HIDE DEF Goal
<1>10. Goal
  BY <1>3, <1>4, <1>5, <1>6, <1>7, <1>8, <1>9 DEF ClientStep
<1> QED BY <1>2, <1>10, FitKeeps DEF Goal

\* mfs_init opens a partition that is there, or is done.
LEMMA MountOpens ==
  ASSUME ProgInv, Mount
  PROVE  UNCHANGED ptVars \/ \E v \in Handles, dev \in Devices : \E n : Open(v, dev, n)
<1> DEFINE unopened == {v \in DOMAIN volumes : open[v] = Closed}
<1>1. \A v \in DOMAIN volumes : v \in Handles \cap Nat /\ volumes[v].dev \in Devices
  BY DEF Mount, ProgInv, Openable
<1>2. ASSUME unopened # {} PROVE \E v \in Handles, dev \in Devices : \E n : Open(v, dev, n)
  <2>1. PICK v : v = CHOOSE u \in unopened : \A w \in unopened : u <= w
    OBVIOUS
  <2>2. Open(v, volumes[v].dev, volumes[v].number)
    BY <1>2, <2>1 DEF Mount
  <2>3. unopened \subseteq Nat
    BY <1>1
  <2>4. v \in unopened
    <3> HIDE DEF unopened
    <3> QED BY <1>2, <2>1, <2>3, LeastIs
  <2> QED BY <1>1, <2>2, <2>4
<1> QED BY <1>2 DEF Mount

\* Every step of mfsadd.
LEMMA AddProgramGood ==
  ASSUME UseInv, ProgInv, WrittenInv, FitInv, AddProgram
  PROVE  WrittenInv' /\ FitInv' /\ layout' = layout /\ layout.pc = "off"
<1>0. layout' = layout /\ add.pc # "off" /\ AddStep /\ AddShape(add) /\ layout.pc = "off"
  BY DEF AddProgram, ProgInv
<1>1. \A d \in Devices : NewFits(disk[d])
  BY <1>0 DEF FitInv
<1> DEFINE Goal == WrittenInv' /\ DrivesKeep
<1>2. ASSUME UNCHANGED ptVars PROVE Goal
  BY <1>2, SameGood DEF ptVars
<1>3. ASSUME Mount PROVE Goal
  BY <1>2, <1>3, MountOpens, OpenGood
<1>4. ASSUME InitSecond PROVE Goal
  <2>1. (\E dev : TableInit(dev)) \/ UNCHANGED ptVars
    BY <1>4 DEF InitSecond
  <2> QED BY <1>1, <1>2, <2>1, TableInitGood
<1>5. ASSUME PlanPair PROVE Goal
  BY <1>5, MeasureGood DEF PlanPair
<1>6. ASSUME AddFirst \/ AddSecond PROVE Goal
  <2>1. add.first \in Int /\ 0 \in Int /\ "MFS" # "free"
    BY <1>0 DEF AddShape
  <2>2. ASSUME AddFirst PROVE Goal
    <3>1. PICK size, name : AddTo(XDev, Validated(XDev), size, 0, name, "MFS")
      BY <2>2 DEF AddFirst
    <3> QED BY <2>1, <3>1, AddGood
  <2>3. ASSUME AddSecond PROVE Goal
    <3>1. PICK before \in Int : \E size, name : AddTo(XDev, Validated(XDev), size, before, name, "MFS")
      BY <2>1, <2>3 DEF AddSecond
    <3> QED BY <2>1, <3>1, AddGood
  <2> QED BY <1>6, <2>2, <2>3
<1>7. ASSUME BeginTable PROVE Goal
  <2>1. (\E dev : WriteBegin(dev) \/ BootFails(dev)) \/ UNCHANGED ptVars
    BY <1>7 DEF BeginTable
  <2> QED BY <1>2, <2>1, WriteBeginGood, BootFailsGood
<1>8. ASSUME CheckGiven \/ CheckCount \/ TablesWritten \/ Finish \/ AddPair PROVE Goal
  BY <1>2, <1>8 DEF CheckGiven, CheckCount, TablesWritten, Finish, AddPair
<1>9. ASSUME Dies PROVE Goal
  BY <1>9, ExitGood DEF Dies
<1>10. ASSUME WriteSector \/ WriteEnd \/ TableFails PROVE Goal
  <2>1. TableFails => Goal
    BY SameGood DEF TableFails, WriteFails
  <2> QED BY <1>10, <2>1, WriteSectorGood, WriteEndGood
<1> HIDE DEF Goal
<1>11. Goal
  BY <1>0, <1>3, <1>4, <1>5, <1>6, <1>7, <1>8, <1>9, <1>10 DEF AddStep
<1> QED BY <1>0, <1>1, <1>11, FitKeeps DEF Goal

-----------------------------------------------------------------------------
(* restore writes to drives it started a table on.                         *)

RestoreShape(l) ==
  /\ {"pc", "job", "x", "parts", "mfs", "secs", "next"} \subseteq DOMAIN l
  /\ l.job \in RestoreJobs /\ l.x \in {1, 2}

\* While the first drive's table, and while the second one's, is still to be written; and
\* before it is known whether there is a second one.
FirstNew(l) ==
  \/ l.pc \in {"measure", "plan"}
  \/ l.pc = "init" /\ l.x = 2
  \/ l.pc \in {"start", "make", "rename"} /\ l.x = 1
SecondNew(l) ==
  \/ l.pc \in {"plan", "start", "make", "rename"}
  \/ l.pc = "measure" /\ l.x = 2
  \/ l.pc = "table" /\ l.x = 1
OneDrive(l) == l.pc \in {"init", "measure"} /\ l.x = 1

FreshInv ==
  layout.pc # "off" =>
    /\ RestoreShape(layout)
    /\ FirstNew(layout) => Unwritten(Job.drives[1])
    /\ SecondNew(layout) => Unwritten(Job.drives[2])
    /\ OneDrive(layout) => LET b == Job.drives[2]
                           IN  table[b] = NoTable /\ (disk[b].size = 0 => ~disk[b].boot)

\* The invariant after a step of restore.
LEMMA FreshGoes ==
  ASSUME RestoreShape(layout'), NEW a, NEW b,
         layout'.job.drives[1] = a, layout'.job.drives[2] = b,
         FirstNew(layout') => Unwritten(a)', SecondNew(layout') => Unwritten(b)',
         OneDrive(layout') => table'[b] = NoTable /\ (disk'[b].size = 0 => ~disk'[b].boot)
  PROVE  FreshInv'
<1>1. /\ FirstNew(layout') => Unwritten(Job.drives[1])'
      /\ SecondNew(layout') => Unwritten(Job.drives[2])'
  BY DEF Job, Unwritten
<1> QED BY <1>1 DEF FreshInv, RestoreShape, FirstNew, SecondNew, OneDrive, Job

\* A step of restore that goes on to another place.
LEMMA LayoutMoved ==
  ASSUME RestoreShape(layout), NEW pc, layout' = [layout EXCEPT !.pc = pc]
  PROVE  /\ RestoreShape(layout') /\ layout'.pc = pc /\ layout'.x = layout.x
         /\ layout'.job = layout.job
BY DEF RestoreShape

\* A job's drives.
LEMMA JobDrives ==
  ASSUME NEW job \in RestoreJobs
  PROVE  /\ job.drives[1] \in Devices /\ job.drives[2] \in Devices
         /\ job.drives[1] # job.drives[2]
BY DrivesSound

\* Every step of restore.
LEMMA RestoreProgramGood ==
  ASSUME UseInv, ProgInv, WrittenInv, FitInv, FreshInv, RestoreProgram
  PROVE  WrittenInv' /\ FitInv' /\ FreshInv'
<1>0. /\ layout.pc # "off" /\ LayoutStep /\ add.pc = "off" /\ LayoutShape(layout)
      /\ RestoreShape(layout)
  BY DEF RestoreProgram, ProgInv, FreshInv
<1>1. PICK a : a = Job.drives[1]
  OBVIOUS
<1>2. PICK b : b = Job.drives[2]
  OBVIOUS
<1>3. a \in Devices /\ b \in Devices /\ a # b
  BY <1>0, <1>1, <1>2, JobDrives DEF RestoreShape, Job
<1>4. TargetDev = (IF layout.x = 1 THEN a ELSE b)
  BY <1>0, <1>1, <1>2 DEF RestoreShape, TargetDev, Drives
<1>5. /\ FirstNew(layout) => Unwritten(a)
      /\ SecondNew(layout) => Unwritten(b)
      /\ OneDrive(layout) => table[b] = NoTable /\ (disk[b].size = 0 => ~disk[b].boot)
  BY <1>0, <1>1, <1>2 DEF FreshInv
<1>6. \A d \in Devices : NewFits(disk[d])
  BY <1>0 DEF FitInv
<1>7. \A d \in Devices : disk[d].size \in Nat
  BY DEF WrittenInv, DriveSound
<1> DEFINE Goal == WrittenInv' /\ DrivesKeep /\ FreshInv'
           Steady == /\ WrittenInv' /\ DrivesKeep
                     /\ \A d \in Devices : Unwritten(d) => Unwritten(d)'
           Shaped(l) == /\ RestoreShape(l) /\ l.job.drives[1] = a /\ l.job.drives[2] = b
<1>8. ASSUME NEW pc, layout' = [layout EXCEPT !.pc = pc]
      PROVE  Shaped(layout') /\ layout'.pc = pc /\ layout'.x = layout.x
  BY <1>0, <1>1, <1>2, <1>8, LayoutMoved DEF Job
<1>9. ASSUME Steady, Shaped(layout'),
             FirstNew(layout') => FirstNew(layout), SecondNew(layout') => SecondNew(layout),
             ~OneDrive(layout')
      PROVE  Goal
  BY <1>3, <1>5, <1>9, FreshGoes
<1>10. ASSUME UNCHANGED ptVars PROVE Steady
  BY <1>10, SameGood DEF ptVars
<1>11. ASSUME InitTarget PROVE Goal
  <2>1. /\ layout.pc = "init" /\ layout' = [layout EXCEPT !.pc = "measure"]
        /\ TableInit(TargetDev)
    BY <1>11 DEF InitTarget, At, GoOn
  <2>2. Shaped(layout') /\ layout'.pc = "measure" /\ layout'.x = layout.x
    BY <1>8, <2>1
  <2>3. /\ WrittenInv' /\ DrivesKeep
        /\ \A d \in Devices : Unwritten(d) \/ d = TargetDev => Unwritten(d)'
    BY <1>6, <2>1, TableInitGood
  <2>4. Unwritten(a)'
    BY <1>0, <1>3, <1>4, <1>5, <2>1, <2>3 DEF FirstNew, RestoreShape
  <2>5. layout.x = 2 => Unwritten(b)'
    BY <1>3, <1>4, <2>3
  <2>6. layout.x = 1 => table'[b] = NoTable /\ (disk'[b].size = 0 => ~disk'[b].boot)
    BY <1>3, <1>4, <1>5, <2>1 DEF TableInit, OneDrive, UseInv
  <2> QED BY <2>2, <2>3, <2>4, <2>5, <2>6, FreshGoes DEF FirstNew, SecondNew, OneDrive
<1>12. ASSUME MeasureTarget PROVE Goal
  <2> DEFINE more == layout.x < 2 /\ disk[Drives(Job)[2]].size > 0
  <2>1. PICK secs :
          layout' = [layout EXCEPT !.secs[layout.x] = secs,
                       !.pc = IF more THEN "init" ELSE "plan",
                       !.x = IF more THEN 2 ELSE 1]
    BY <1>12 DEF MeasureTarget
  <2>2. layout.pc = "measure" /\ Measure(TargetDev)
    BY <1>12 DEF MeasureTarget, At
  <2>3. /\ Shaped(layout')
        /\ layout'.pc = (IF more THEN "init" ELSE "plan")
        /\ layout'.x = (IF more THEN 2 ELSE 1)
    BY <1>0, <1>1, <1>2, <2>1 DEF RestoreShape, Job
  <2>4. Steady
    BY <2>2, MeasureGood
  <2>5. Unwritten(a)'
    BY <1>3, <1>5, <2>2, <2>4 DEF FirstNew
  <2>6. more <=> layout.x = 1 /\ disk[b].size # 0
    BY <1>0, <1>2, <1>3, <1>7 DEF RestoreShape, Drives
  <2>7. ASSUME ~more PROVE Unwritten(b)'
    <3>1. Unwritten(b)
      BY <1>0, <1>5, <2>2, <2>6, <2>7 DEF SecondNew, OneDrive, Unwritten, RestoreShape
    <3> QED BY <1>3, <2>4, <3>1
  <2> HIDE DEF more
  <2> QED BY <2>3, <2>4, <2>5, <2>7, FreshGoes DEF FirstNew, SecondNew, OneDrive
<1>13. ASSUME TryDev PROVE Goal
  <2>1. PICK plan, secs1 :
          layout' = [layout EXCEPT !.parts = plan.parts, !.mfs = plan.mfs, !.secs[1] = secs1,
                       !.pc = IF plan.parts = <<>> THEN "refused" ELSE "start"]
    BY <1>13 DEF TryDev
  <2>2. layout.pc = "plan" /\ Steady
    BY <1>10, <1>13 DEF TryDev, At
  <2>3. PICK pc \in {"refused", "start"} : pc = IF plan.parts = <<>> THEN "refused" ELSE "start"
    OBVIOUS
  <2>4. Shaped(layout') /\ layout'.pc = pc
    BY <1>0, <1>1, <1>2, <2>1, <2>3 DEF RestoreShape, Job
  <2> QED BY <1>9, <2>2, <2>3, <2>4 DEF FirstNew, SecondNew, OneDrive
<1>14. ASSUME StartDevice PROVE Goal
  <2>1. PICK parts : layout' = [layout EXCEPT !.pc = "make", !.next = 1, !.parts = parts]
    BY <1>14 DEF StartDevice
  <2>2. layout.pc = "start" /\ Steady
    BY <1>10, <1>14 DEF StartDevice, At
  <2>3. Shaped(layout') /\ layout'.pc = "make" /\ layout'.x = layout.x
    BY <1>0, <1>1, <1>2, <2>1 DEF RestoreShape, Job
  <2> QED BY <1>9, <2>2, <2>3 DEF FirstNew, SecondNew, OneDrive
<1>15. ASSUME layout' = [layout EXCEPT !.next = @ + 1]
       PROVE  Shaped(layout') /\ layout'.pc = layout.pc /\ layout'.x = layout.x
  BY <1>0, <1>1, <1>2, <1>15 DEF RestoreShape, Job
<1>16. ASSUME MakePart PROVE Goal
  <2>1. layout.pc = "make" /\ layout' = [layout EXCEPT !.next = @ + 1] /\ layout.next \in Int
    BY <1>0, <1>16 DEF MakePart, At, LayoutShape
  <2>2. PICK before \in Int : before = PlaceFor(layout.parts, layout.next)
    BY <2>1, PlaceForIs
  <2>3. \A p : PartType(p) # "free"
    BY DEF PartType
  <2>4. (\E dev, size, name, p : AddTo(dev, Validated(dev), size, before, name, PartType(p)))
        \/ UNCHANGED ptVars
    BY <1>16, <2>2 DEF MakePart
  <2>5. Steady
    BY <1>10, <2>3, <2>4, AddGood
  <2> QED BY <1>9, <1>15, <2>1, <2>5 DEF FirstNew, SecondNew, OneDrive
<1>17. ASSUME PartsMade PROVE Goal
  <2>1. layout.pc = "make" /\ layout' = [layout EXCEPT !.pc = "rename", !.next = 1] /\ Steady
    BY <1>10, <1>17 DEF PartsMade, At
  <2>2. Shaped(layout') /\ layout'.pc = "rename" /\ layout'.x = layout.x
    BY <1>0, <1>1, <1>2, <2>1 DEF RestoreShape, Job
  <2> QED BY <1>9, <2>1, <2>2 DEF FirstNew, SecondNew, OneDrive
<1>18. ASSUME NameMfs PROVE Goal
  <2>1. layout.pc = "rename" /\ layout' = [layout EXCEPT !.next = @ + 1]
    BY <1>18 DEF NameMfs, At
  <2>2. (\E n, name : Rename(TargetDev, n, name)) \/ UNCHANGED ptVars
    BY <1>18 DEF NameMfs
  <2>3. TargetDev \in Devices /\ Unwritten(TargetDev)
    BY <1>0, <1>3, <1>4, <1>5, <2>1 DEF FirstNew, SecondNew, RestoreShape
  <2>4. Steady
    BY <1>10, <2>2, <2>3, RenameGood
  <2> QED BY <1>9, <1>15, <2>1, <2>4 DEF FirstNew, SecondNew, OneDrive
<1>19. ASSUME BeginWrite PROVE Goal
  <2>1. /\ layout.pc = "rename"
        /\ \/ layout' = [layout EXCEPT !.pc = "table"]
           \/ \E lost : layout' = [layout EXCEPT !.pc = "table", !.lost = lost]
        /\ WriteBegin(TargetDev) \/ BootFails(TargetDev) \/ UNCHANGED ptVars
    BY <1>19 DEF BeginWrite, At, GoOn
  <2>2. Shaped(layout') /\ layout'.pc = "table" /\ layout'.x = layout.x
    BY <1>0, <1>1, <1>2, <2>1 DEF RestoreShape, Job
  <2>3. CASE UNCHANGED ptVars
    BY <1>9, <1>10, <2>1, <2>2, <2>3 DEF FirstNew, SecondNew, OneDrive
  <2>4. ASSUME WriteBegin(TargetDev) \/ BootFails(TargetDev) PROVE Goal
    <3>1. /\ WrittenInv' /\ DrivesKeep
          /\ \A d \in Devices : Unwritten(d) /\ d # TargetDev => Unwritten(d)'
      <4>1. BootFails(TargetDev) =>
              \A d \in Devices : Unwritten(d) /\ d # TargetDev => Unwritten(d)'
        BY DEF BootFails, Unwritten, Idle
      <4> QED BY <2>4, <4>1, WriteBeginGood, BootFailsGood
    <3>2. layout.x = 1 => Unwritten(b)'
      BY <1>3, <1>4, <1>5, <2>1, <3>1 DEF SecondNew
    <3> QED BY <2>2, <3>1, <3>2, FreshGoes DEF FirstNew, SecondNew, OneDrive
  <2> QED BY <2>1, <2>3, <2>4
<1>20. ASSUME DeviceDone PROVE Goal
  <2>1. /\ layout.pc = "table" /\ Steady
        /\ \/ layout.x < 2 /\ layout' = [layout EXCEPT !.pc = "start", !.x = 2]
           \/ layout' = [layout EXCEPT !.pc = "header"]
    BY <1>10, <1>20 DEF DeviceDone, At
  <2>2. CASE layout' = [layout EXCEPT !.pc = "header"]
    BY <1>8, <1>9, <2>1, <2>2 DEF FirstNew, SecondNew, OneDrive
  <2>3. CASE layout.x < 2 /\ layout' = [layout EXCEPT !.pc = "start", !.x = 2]
    <3>1. Shaped(layout') /\ layout'.pc = "start" /\ layout'.x = 2 /\ layout.x = 1
      BY <1>0, <1>1, <1>2, <2>3 DEF RestoreShape, Job
    <3> QED BY <1>9, <2>1, <3>1 DEF FirstNew, SecondNew, OneDrive
  <2> QED BY <2>1, <2>2, <2>3
<1>21. ASSUME WriteHeaderList \/ CleanUp PROVE Goal
  <2>1. /\ \E pc \in {"clean", "done", "failed"} : layout' = [layout EXCEPT !.pc = pc]
        /\ Steady
    BY <1>10, <1>21 DEF WriteHeaderList, CleanUp, GoOn
  <2> QED BY <1>8, <1>9, <2>1 DEF FirstNew, SecondNew, OneDrive
<1>22. ASSUME RestoreDies PROVE Goal
  <2>1. layout' = [layout EXCEPT !.pc = "dead"] /\ WrittenInv' /\ DrivesKeep
    BY <1>22, ExitGood DEF RestoreDies, GoOn
  <2>2. Shaped(layout') /\ layout'.pc = "dead"
    BY <1>8, <2>1
  <2> QED BY <2>1, <2>2, FreshGoes DEF FirstNew, SecondNew, OneDrive
<1>23. ASSUME At("table"), WriteSector \/ WriteEnd, layout' = layout PROVE Goal
  <2>1. Steady
    BY <1>23, WriteSectorGood, WriteEndGood
  <2>2. Shaped(layout')
    BY <1>0, <1>1, <1>2, <1>23 DEF Job
  <2> QED BY <1>9, <1>23, <2>1, <2>2 DEF OneDrive, At
<1>24. ASSUME TargetFails PROVE Goal
  <2>1. Steady /\ layout.pc = "table"
    BY <1>24, SameGood DEF TargetFails, WriteFails, At
  <2>2. \E lost : layout' = [layout EXCEPT !.lost = lost]
    BY <1>24 DEF TargetFails
  <2>3. Shaped(layout') /\ layout'.pc = layout.pc /\ layout'.x = layout.x
    BY <1>0, <1>1, <1>2, <2>2 DEF RestoreShape, Job
  <2> QED BY <1>9, <2>1, <2>3 DEF FirstNew, SecondNew, OneDrive
<1> HIDE DEF Goal
<1>25. Goal
  BY <1>0, <1>11, <1>12, <1>13, <1>14, <1>16, <1>17, <1>18, <1>19, <1>20, <1>21, <1>22, <1>23,
     <1>24 DEF LayoutStep
<1> QED BY <1>6, <1>25, FitKeeps DEF Goal

\* Whatever program starts, on whatever drives.
LEMMA InitGood == Init => WrittenInv /\ FitInv /\ FreshInv
<1> SUFFICES ASSUME Init PROVE WrittenInv /\ FitInv /\ FreshInv
  OBVIOUS
<1>1. \A d \in Devices : table[d] = NoTable
  BY DEF Init, Fresh
<1>2. writing = NoWrite
  BY DEF Init, Fresh
<1>3. ASSUME \A d \in Devices : DriveSound(disk[d]) PROVE WrittenInv
  BY <1>1, <1>2, <1>3 DEF WrittenInv
<1>4. CASE ClientInit
  <2>1. disk \in ClientDrives /\ add.pc = "off" /\ layout.pc = "off"
    BY <1>4 DEF ClientInit, NotAdding, NotRestoring
  <2> QED BY <1>3, <2>1, DrivesSound DEF FitInv, FreshInv
<1>5. CASE AddProgramInit
  <2>1. (\E job \in AddJobs : disk = job.disk) /\ layout.pc = "off"
    BY <1>5 DEF AddProgramInit, NotRestoring
  <2> QED BY <1>3, <2>1, DrivesSound DEF FitInv, FreshInv
<1>6. CASE RestoreInit
  <2>1. PICK job \in RestoreJobs : disk = job.disk /\ layout = LayoutInit(job)
    BY <1>6 DEF RestoreInit
  <2>2. \A d \in Devices : DriveSound(disk[d]) /\ NewFits(disk[d])
    BY <2>1, DrivesSound
  <2>3. RestoreShape(layout) /\ layout.pc = "init" /\ layout.x = 1 /\ layout.job = job
    BY <2>1 DEF LayoutInit, RestoreShape
  <2>4. job.drives[2] \in Devices /\ (disk[job.drives[2]].size = 0 => ~disk[job.drives[2]].boot)
    BY <2>1, DrivesSound
  <2>5. FreshInv
    BY <1>1, <2>3, <2>4 DEF FreshInv, FirstNew, SecondNew, OneDrive, Job
  <2> QED BY <1>3, <2>2, <2>5 DEF FitInv
<1> QED BY <1>4, <1>5, <1>6 DEF Init

\* The invariant is inductive.
LEMMA NextGood ==
  ASSUME UseInv, ProgInv, WrittenInv, FitInv, FreshInv, [Next]_vars
  PROVE  WrittenInv' /\ FitInv' /\ FreshInv'
<1>1. CASE ClientStep \/ AddProgram
  <2>1. WrittenInv' /\ FitInv' /\ layout' = layout /\ layout.pc = "off"
    BY <1>1, ClientGood, AddProgramGood
  <2> QED BY <2>1 DEF FreshInv
<1>2. CASE RestoreProgram
  BY <1>2, RestoreProgramGood
<1>3. CASE UNCHANGED vars
  <2>1. /\ disk' = disk /\ table' = table /\ writing' = writing
        /\ add' = add /\ layout' = layout
    BY <1>3 DEF vars
  <2>2. WrittenInv' /\ DrivesKeep
    BY <2>1, SameGood
  <2>3. FitInv'
    BY <2>1 DEF FitInv, NewFits
  <2>4. FreshInv'
    BY <2>1 DEF FreshInv, RestoreShape, FirstNew, SecondNew, OneDrive, Job, Unwritten
  <2> QED BY <2>2, <2>3, <2>4
<1> QED BY <1>1, <1>2, <1>3 DEF Next, Stopped

\* A table with nothing left to write is the one the next reader finds, whatever program
\* ran, after any number of writes that failed half way (tivo_partition_table_write).
THEOREM WrittenIsReadBack == Spec => []WrittenIsRead
<1>1. Init => UseInv /\ ProgInv /\ WrittenInv /\ FitInv /\ FreshInv
  BY InitUse, InitGood
<1>2. UseInv /\ ProgInv /\ WrittenInv /\ FitInv /\ FreshInv /\ [Next]_vars
      => UseInv' /\ ProgInv' /\ WrittenInv' /\ FitInv' /\ FreshInv'
  BY NextUse, NextGood
<1>3. UseInv /\ WrittenInv => WrittenIsRead
  BY WrittenGood
<1> QED BY <1>1, <1>2, <1>3, PTL DEF Spec
=============================================================================
