------------------------------- MODULE MacPart -------------------------------
(***************************************************************************)
(* The partition table in memory, src/lib/macpart.c: what the functions    *)
(* that validate, measure and change a table do to it.  Everything here is *)
(* a function of a table; PartitionTable adds the devices, the handles and *)
(* the sectors on disk.                                                    *)
(*                                                                         *)
(* Partitions are numbered from 1 as in a device name (the index of the C  *)
(* array plus one).  Number 1 is the partition map itself.                 *)
(***************************************************************************)
EXTENDS Integers, Sequences, FiniteSets

CONSTANTS
    MapSectors,     \* sectors of the map of a new table (63)
    Align,          \* a new partition starts at a multiple of this (8)
    Slack           \* so few sectors outside of any partition are ignored (3)

ASSUME MacPartAssumption ==
    /\ MapSectors \in Nat /\ MapSectors >= 2
    /\ Align \in Nat \ {0}
    /\ Slack \in Nat

Entry(start, sectors, name, type) ==
    [start |-> start, sectors |-> sectors, name |-> name, type |-> type, refs |-> 1]

EndOf(p) == p.start + p.sectors

\* A table: the entries, the size of the device and the three flags of vol_flags.
Table(parts, devsize) ==
    [parts |-> parts, devsize |-> devsize,
     valid |-> FALSE, dirty |-> FALSE, noninit |-> FALSE]

Numbers(t) == 1..Len(t.parts)
IsFree(t, n) == t.parts[n].type = "free"

\* "allocated": a table has room for as many entries as its map has sectors.
Room(t) == t.parts[1].sectors

\* "calloc (63, ...)", one entry for the map behind the boot sector: the table of
\* tivo_partition_table_init.
NewTable(devsize) ==
    [Table(<<Entry(1, MapSectors, <<"Apple", 0>>, "map")>>, devsize) EXCEPT !.noninit = TRUE]

-----------------------------------------------------------------------------
(* tivo_partition_validate.                                                *)

\* The partitions of a size that start at sector s or behind it, and the first of
\* those with the lowest start.
Ahead(t, s) == {n \in Numbers(t) : t.parts[n].start >= s /\ t.parts[n].sectors # 0}
Nearest(t, s) ==
    CHOOSE n \in Ahead(t, s) : \A m \in Ahead(t, s) :
        \/ t.parts[n].start < t.parts[m].start
        \/ t.parts[n].start = t.parts[m].start /\ n <= m

\* The walk over the device: how far it comes and which partitions it meets.  It
\* goes on by the size of the partition and not to its end, so a gap is not left
\* behind; the test that would fill one looks at the entry behind the last one,
\* which is empty, and never succeeds.
Walk(t) ==
    LET w[s \in Nat] ==
          IF s >= t.devsize \/ Ahead(t, s) = {}
          THEN [upTo |-> s, met |-> {}]
          ELSE LET n == Nearest(t, s)
                   r == w[s + t.parts[n].sectors]
               IN  [r EXCEPT !.met = @ \cup {n}]
    IN  w[1]

\* Validation gives the space behind the last partition an entry of its own, even
\* when the table is then refused.
Validate(t) ==
    LET walk == Walk(t)
        tail == t.devsize - walk.upTo
        full == Len(t.parts) >= Room(t) \/ Len(t.parts) >= 256
        filled == IF tail > Slack
                  THEN [t EXCEPT !.parts =
                            Append(@, Entry(walk.upTo, tail, <<"Extra", 0>>, "free"))]
                  ELSE t
    IN  IF t.valid THEN t
        ELSE IF tail < 0 \/ (tail > Slack /\ full) THEN t
        ELSE [filled EXCEPT !.valid =
                 \A n \in Numbers(t) : n \in walk.met \/ t.parts[n].sectors = 0]

\* "Check there is room for a partition."
NoRoom(t) == Len(t.parts) + 1 >= Room(t)

-----------------------------------------------------------------------------
(* The sums.  Each takes a table that was validated.                       *)

SumOf(t, S) ==
    LET sum[n \in 0..Len(t.parts)] ==
          IF n = 0 THEN 0
          ELSE sum[n - 1] + (IF n \in S THEN t.parts[n].sectors ELSE 0)
    IN  sum[Len(t.parts)]

Usable(t) == t.valid /\ ~NoRoom(t)
TotalFree(t) == IF Usable(t) THEN SumOf(t, {n \in Numbers(t) : IsFree(t, n)}) ELSE 0
TotalUsed(t) == IF Usable(t) THEN SumOf(t, {n \in Numbers(t) : ~IsFree(t, n)}) ELSE 0

\* The first of the free partitions numbered from "from" up that start at "last" or
\* behind it, by the sector they start at; 0 when there is none.
FreeFromAny(t, from, last) == {n \in Numbers(t) : n >= from /\ t.parts[n].start >= last}
FreeFrom(t, from, last) ==
    {n \in Numbers(t) : n >= from /\ IsFree(t, n) /\ t.parts[n].start >= last}
NextFree(t, from, last) ==
    LET F == FreeFrom(t, from, last)
    IN  IF F = {} THEN 0
        ELSE CHOOSE n \in F : \A m \in F :
                 \/ t.parts[n].start < t.parts[m].start
                 \/ t.parts[n].start = t.parts[m].start /\ n <= m

\* tivo_partition_largest_free.  A free partition that adjoins the space before it
\* makes that space longer, but "largest" is looked at only when a space begins.
LargestFree(t) ==
    LET big[last \in Nat] ==
          LET n == NextFree(t, 2, last)
              rest == big[EndOf(t.parts[n])]
          IN  IF n = 0 THEN 0
              ELSE IF t.parts[n].start = last \/ rest > t.parts[n].sectors THEN rest
              ELSE t.parts[n].sectors
    IN  IF Usable(t) THEN big[0] ELSE 0

-----------------------------------------------------------------------------
(* tivo_partition_add.                                                     *)

InUse(t) == {n \in 2..Len(t.parts) : t.parts[n].refs > 1}

StartPartAny(t) == 2

\* startpart: the partitions from here up are behind every one that is in use.
StartPart(t) ==
    IF InUse(t) = {} THEN 2
    ELSE 1 + CHOOSE n \in InUse(t) : \A m \in InUse(t) : m <= n

RoundUp(s) == ((s + Align - 1) \div Align) * Align

\* The range [first, last) the search ends with, the whole of the free space it is in;
\* NoRange when there is none of the size.  The size of the first free partition is
\* counted from the rounded start, so the range may end behind the free space.
NoRange == [first |-> 1, last |-> 0]
Grown(t, r, n) ==
    IF t.parts[n].start = r.last
    THEN [first |-> r.first, last |-> r.last + t.parts[n].sectors]
    ELSE [first |-> RoundUp(t.parts[n].start),
          last |-> RoundUp(t.parts[n].start) + t.parts[n].sectors]
Search(t, size) ==
    LET find[r \in [first : Nat, last : Nat]] ==
          LET n == NextFree(t, StartPart(t), r.last)
          IN  IF r.last - r.first >= size /\ r.last > 0 THEN r
              ELSE IF n = 0 THEN NoRange
              ELSE find[Grown(t, r, n)]
    IN  find[[first |-> 0, last |-> 0]]

\* "if (last - first > size) last = first + size"
RangeFor(t, size) ==
    LET r == Search(t, size)
    IN  IF r = NoRange THEN r ELSE [r EXCEPT !.last = r.first + size]

Overlaps(p, r) == p.start < r.last /\ r.first < EndOf(p)

\* The loop that clears the range deletes an entry and then looks at the next index,
\* so the entry that moved into the place of a deleted one is passed over: of a row of
\* entries inside the range every second one stays.
Inside(t, n, r) ==
    n >= StartPart(t) /\ Overlaps(t.parts[n], r) /\ EndOf(t.parts[n]) <= r.last
RowBefore(t, n, r) ==
    {m \in StartPart(t)..(n - 1) : \A k \in m..(n - 1) : Inside(t, k, r)}
Reached(t, n, r) == Cardinality(RowBefore(t, n, r)) % 2 = 0
Deleted(t, r) == {n \in Numbers(t) : Inside(t, n, r) /\ Reached(t, n, r)}

TruncatedAtStart(t, n, r) ==
    LET p == t.parts[n]
    IN  IF n >= StartPart(t) /\ Reached(t, n, r) /\ Overlaps(p, r) /\ EndOf(p) > r.last
        THEN [p EXCEPT !.start = r.last]
        ELSE p

\* "It is really only using part of this partition; truncate it."
Truncated(t, n, r) ==
    LET p == t.parts[n]
    IN  IF n >= StartPart(t) /\ Reached(t, n, r) /\ Overlaps(p, r) /\ EndOf(p) > r.last
        THEN [p EXCEPT !.start = r.last, !.sectors = EndOf(p) - r.last]
        ELSE p

\* The entries that stay, in their order.
Cleared(t, r) ==
    LET kept == Numbers(t) \ Deleted(t, r)
        Nth(i) == CHOOSE n \in kept : Cardinality({m \in kept : m <= n}) = i
    IN  [i \in 1..Cardinality(kept) |->
            IF i < StartPart(t) THEN t.parts[i] ELSE Truncated(t, Nth(i), r)]

\* Where the new entry goes: before the partition asked for, else behind the last one
\* but before the free ones at the end.
PlaceIn(parts, before) ==
    IF before > Len(parts) + 1 \/ before <= 1
    THEN CHOOSE n \in 2..(Len(parts) + 1) :
             /\ \A m \in n..Len(parts) : parts[m].type = "free"
             /\ n = 2 \/ parts[n - 1].type # "free"
    ELSE before

Inserted(parts, at, p) ==
    [i \in 1..(Len(parts) + 1) |->
        IF i < at THEN parts[i] ELSE IF i = at THEN p ELSE parts[i - 1]]

\* A size that wrapped around, a difference below zero, is larger than any space there is.
AddRefused(t, size, before) ==
    \/ ~t.valid
    \/ size \notin Nat
    \/ NoRoom(t)
    \/ before > 1 /\ before < StartPart(t)
    \/ Search(t, size) = NoRange

\* The table and the number the call returns; t was validated.
Added(t, size, before, name, type) ==
    LET r == RangeFor(t, size)
        left == Cleared(t, r)
        at == PlaceIn(left, before)
    IN  IF AddRefused(t, size, before) THEN [table |-> t, number |-> -1]
        ELSE [table |-> [t EXCEPT !.parts =
                             Inserted(left, at, Entry(r.first, size, name, type)),
                           !.dirty = TRUE],
              number |-> at]
=============================================================================
