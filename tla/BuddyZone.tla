----------------------------- MODULE BuddyZone ------------------------------
(***************************************************************************)
(* One zone map (lib/zonemap.c): a buddy allocator kept as one bitmap per  *)
(* order, where a set bit is a free block of 2^order units that is not     *)
(* part of a larger free block, with the changes made since the last       *)
(* commit kept beside it.                                                  *)
(*                                                                         *)
(* A unit is the zone's smallest allocation (min sectors); bit b of order  *)
(* k stands for the units b * 2^k and on.                                  *)
(***************************************************************************)
EXTENDS Integers, FiniteSets, SequencesExt

CONSTANT WordBits   \* bits in an int of a bitmap (32), found in one step

ASSUME WordBitsOK == WordBits \in Nat \ {0}

\* How many bitmaps a map of n units has: one bit for all of them in the last.
NumOrders(n) == Min({o \in 0..n : 2^o >= n}) + 1

Orders(z)   == 0..(z.num - 1)
NBits(z, k) == 2^(z.num - 1 - k)
NInts(z, k) == (NBits(z, k) + WordBits - 1) \div WordBits

UnitsIn(k, b) == (b * 2^k)..((b + 1) * 2^k - 1)
Buddy(b)      == IF b % 2 = 0 THEN b + 1 ELSE b - 1
Up(b, n)      == b \div 2^n

\* The note of a change: bit has been handed out, or is left over by a split.
Note(bit, free) == [bit |-> bit, free |-> free]

\* mfs_new_zone_map: at each order the last of an odd number of blocks is not
\* part of a larger one, and is free there.
OddBit(n, k) == IF (n \div 2^k) % 2 = 1 THEN {n \div 2^k - 1} ELSE {}
NewZone(n) ==
  LET num == NumOrders(n)
      For(x) == [k \in 0..(num - 1) |-> x]
  IN  [num |-> num, free |-> n, stamp |-> 0, dirty |-> FALSE,
       bits  |-> [k \in 0..(num - 1) |-> OddBit(n, k)],
       count |-> [k \in 0..(num - 1) |-> Cardinality(OddBit(n, k))],
       last  |-> For(0), runs |-> For(<<>>), allocated |-> For(0), freed |-> For(0)]

\* mfs_zone_map_clear_changes.
ClearChanges(z) == LET For(x) == [k \in Orders(z) |-> x]
                   IN  [z EXCEPT !.runs = For(<<>>), !.allocated = For(0), !.freed = For(0)]

\* mfs_zone_map_commit for one zone.
CommitZone(z, stamp) == IF z.dirty THEN ClearChanges([z EXCEPT !.stamp = stamp]) ELSE z

-----------------------------------------------------------------------------
(* mfs_zone_map_update.                                                    *)

\* The orders at which the block, or one it is part of, is marked free.
FreeOrders(z, k, b) == {j \in k..(z.num - 1) : Up(b, j - k) \in z.bits[j]}

\* Free a block: free buddies are merged as far up as they go.
ReleaseUnmerged(z, k, b) ==
  [z EXCEPT !.bits[k] = @ \cup {b}, !.count[k] = @ + 1, !.free = @ + 2^k, !.dirty = TRUE]
Release(z, k, b) ==
  LET top == Min({j \in k..(z.num - 1) : \/ j = z.num - 1
                                         \/ Buddy(Up(b, j - k)) \notin z.bits[j]})
  IN  [z EXCEPT
        !.bits  = [j \in Orders(z) |->
                     CASE j \in k..(top - 1) -> @[j] \ {Buddy(Up(b, j - k))}
                       [] j = top            -> @[j] \cup {Up(b, j - k)}
                       [] OTHER              -> @[j]],
        !.count = [j \in Orders(z) |->
                     CASE j \in k..(top - 1) -> @[j] - 1
                       [] j = top            -> @[j] + 1
                       [] OTHER              -> @[j]],
        !.free = @ + 2^k, !.dirty = TRUE]

\* Allocate a block out of the free one at order from: what is left over at
\* each order between becomes free.
BorrowWhole(z, k, b, from) ==
  [z EXCEPT !.bits[from] = @ \ {Up(b, from - k)}, !.count[from] = @ - 1,
            !.last[from] = Up(b, from - k) + 1, !.free = @ - 2^k, !.dirty = TRUE]
Borrow(z, k, b, from) ==
  [z EXCEPT
    !.bits  = [j \in Orders(z) |->
                 CASE j \in k..(from - 1) -> @[j] \cup {Buddy(Up(b, j - k))}
                   [] j = from            -> @[j] \ {Up(b, j - k)}
                   [] OTHER               -> @[j]],
    !.count = [j \in Orders(z) |->
                 CASE j \in k..(from - 1) -> @[j] + 1
                   [] j = from            -> @[j] - 1
                   [] OTHER               -> @[j]],
    !.last[from] = Up(b, from - k) + 1,
    !.free = @ - 2^k, !.dirty = TRUE]

\* An update the map has seen, or that changes nothing, is no error.
Update(z, k, b, state, stamp) ==
  LET at == FreeOrders(z, k, b)
  IN  IF stamp <= z.stamp \/ (state <=> at # {}) THEN z
      ELSE IF state THEN Release(z, k, b) ELSE Borrow(z, k, b, Min(at))

-----------------------------------------------------------------------------
(* mfs_zone_find_run.                                                      *)

\* What the counters say is free at an order, changes included.
NumFree(z, k) == z.count[k] + z.freed[k] - z.allocated[k]

Noted(z, k)    == {z.runs[k][i].bit : i \in DOMAIN z.runs[k]}
LeftOver(z, k) == {i \in DOMAIN z.runs[k] : z.runs[k][i].free}
UsableNoted(z, k) == z.bits[k]
Usable(z, k)   == z.bits[k] \ Noted(z, k)

\* The scan starts at the int after the last allocation and goes once round;
\* it keeps looking, and so ends with the first usable bit of the last int
\* that has one.
ScanPosition(z, k, b) == (b \div WordBits - z.last[k] \div WordBits) % NInts(z, k)
ScanFrom(z, k) ==
  LET far == Max({ScanPosition(z, k, b) : b \in Usable(z, k)})
  IN  Min({b \in Usable(z, k) : ScanPosition(z, k, b) = far})

\* Where a block of order k is taken from, -1 when nothing is that large.
SourceOrder(z, k) == LET S == {j \in k..(z.num - 1) : NumFree(z, j) > 0}
                     IN  IF S = {} THEN -1 ELSE Min(S)

\* Half of a block split earlier is taken off the list, a block of the bitmap
\* is noted at its tail.
TakeAt(z, j) ==
  IF LeftOver(z, j) # {}
    THEN [z EXCEPT !.runs[j] = RemoveAt(@, Min(LeftOver(z, j))), !.allocated[j] = @ + 1]
    ELSE [z EXCEPT !.runs[j] = Append(@, Note(ScanFrom(z, j), FALSE)),
                   !.allocated[j] = @ + 1]

BitAt(z, j) == IF LeftOver(z, j) # {} THEN z.runs[j][Min(LeftOver(z, j))].bit
                                      ELSE ScanFrom(z, j)

\* The other half of each split, at every order between, is free for others.
\* k and j are the orders wanted and split, b the bit at order j.
SplitDown(z, k, j, b) ==
  [z EXCEPT
    !.runs  = [i \in Orders(z) |->
                 IF i \in k..(j - 1) THEN Cons(Note(b * 2^(j - i) + 1, TRUE), @[i]) ELSE @[i]],
    !.freed = [i \in Orders(z) |-> IF i \in k..(j - 1) THEN @[i] + 1 ELSE @[i]]]

\* Counters and lists disagree: "Something is wrong" in the source.
Wrong(z, k) == LET j == SourceOrder(z, k)
               IN  j # -1 /\ LeftOver(z, j) = {} /\ Usable(z, j) = {}

CanFind(z, k) == SourceOrder(z, k) # -1 /\ ~Wrong(z, k)
FoundBit(z, k) == LET j == SourceOrder(z, k) IN BitAt(z, j) * 2^(j - k)
FindRunUncounted(z, k) == LET j == SourceOrder(z, k)
                          IN  [TakeAt(z, j) EXCEPT !.allocated[j] = @ - 1]
FindRun(z, k) == LET j == SourceOrder(z, k)
                 IN  SplitDown(TakeAt(z, j), k, j, BitAt(z, j))
=============================================================================
