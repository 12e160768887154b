----------------------------- MODULE MemOverlay -----------------------------
(***************************************************************************)
(* The volume set (lib/volume.c) with its writes kept in memory: backup,   *)
(* mfsck and mfsd turn this on before they replay the log, so that a       *)
(* volume they may only read looks as if it had been written.  Each volume *)
(* has a list of blocks of written sectors, in the order of their sectors, *)
(* grown and joined as writes touch them; a read takes what it can from    *)
(* the list and the rest from the drive.                                   *)
(***************************************************************************)
EXTENDS Integers, FiniteSets, Sequences, FiniteSetsExt

CONSTANTS
  VolSizes,   \* sectors of each volume, in list order
  Vals,       \* contents of a sector that clients write
  MaxCount    \* bound: sectors of one write

ASSUME VolumesOK == VolSizes \in Seq(Nat \ {0}) /\ VolSizes # <<>> /\ MaxCount \in Nat

VARIABLES
  disk,    \* the sectors on the drives, by volume
  blocks,  \* mem_blocks of each volume
  local,   \* write_mode has vwLocal
  view     \* what was written last, by volume

vars == <<disk, blocks, local, view>>

Junk == <<"junk">>   \* memory not filled in

Vols == DOMAIN VolSizes
\* mfsvol_add_volume: a volume starts where the one before it ends.
Starts[v \in Vols] == IF v = 1 THEN 0 ELSE Starts[v - 1] + VolSizes[v - 1]
Start(v) == Starts[v]
Total == LET last == Len(VolSizes) IN Start(last) + VolSizes[last]
SectorsOf(v) == 0..(VolSizes[v] - 1)

\* Every sector of the drives has contents of its own.
Old(v, s) == <<v, s>>
Fresh == [v \in Vols |-> [s \in SectorsOf(v) |-> Old(v, s)]]

\* mfsvol_get_volume.
VolumeAt(s) == CHOOSE v \in Vols : Start(v) <= s /\ s < Start(v) + VolSizes[v]

EndOf(b) == b.start + Len(b.data)
At(b, s) == b.data[s - b.start + 1]

Init == disk = Fresh /\ blocks = [v \in Vols |-> <<>>] /\ local = FALSE /\ view = Fresh

-----------------------------------------------------------------------------
(* mfsvol_locate_mem_data_for_write: the block that takes the data of      *)
(* count sectors from sector s on, and the list with it.                   *)

\* The first block that overlaps the sectors, or touches them; one past the
\* list when there is none.
FirstAtOverlap(bs, s) == Min({i \in DOMAIN bs : EndOf(bs[i]) > s} \cup {Len(bs) + 1})
FirstAt(bs, s) == Min({i \in DOMAIN bs : EndOf(bs[i]) >= s} \cup {Len(bs) + 1})

\* Where the block has to end: with the sectors, or with the block that their
\* end falls into.
LastSectorUnjoined(bs, s, count) == s + count
LastSector(bs, s, count) ==
  LET over == {i \in DOMAIN bs : i >= FirstAt(bs, s) /\ EndOf(bs[i]) >= s + count}
  IN  IF over # {} /\ bs[Min(over)].start <= s + count THEN EndOf(bs[Min(over)])
                                                       ELSE s + count

\* The block written to starts where the first one does, if that is not past
\* the sectors.
Reused(bs, s) == FirstAt(bs, s) \in DOMAIN bs /\ bs[FirstAt(bs, s)].start <= s

\* The blocks that are joined to it.
Joined(bs, s, count) ==
  LET i == FirstAt(bs, s)
  IN  {j \in DOMAIN bs : /\ (IF Reused(bs, s) THEN j > i ELSE j >= i)
                         /\ bs[j].start < LastSector(bs, s, count)}

\* What a sector of the grown block holds once the data is written: it
\* replaces what was there, the tail of a joined block is kept.
Content(bs, s, data, x) ==
  LET i    == FirstAt(bs, s)
      tail == {j \in Joined(bs, s, Len(data)) : x \in bs[j].start..(EndOf(bs[j]) - 1)}
  IN  IF x \in s..(s + Len(data) - 1) THEN data[x - s + 1]
      ELSE IF Reused(bs, s) /\ x < EndOf(bs[i]) THEN At(bs[i], x)
      ELSE IF tail # {} THEN At(bs[Min(tail)], x)
      ELSE Junk

Grown(bs, s, data) ==
  LET count == Len(data)
      first == IF Reused(bs, s) THEN bs[FirstAt(bs, s)].start ELSE s
      end   == IF Reused(bs, s) /\ EndOf(bs[FirstAt(bs, s)]) >= s + count
                 THEN EndOf(bs[FirstAt(bs, s)]) ELSE LastSector(bs, s, count)
  IN  [start |-> first,
       data  |-> [n \in 1..(end - first) |-> Content(bs, s, data, first + n - 1)]]

Written(bs, s, data) ==
  LET i    == FirstAt(bs, s)
      rest == {j \in DOMAIN bs : j >= i} \ Joined(bs, s, Len(data))
      after == IF Reused(bs, s) THEN rest \ {i} ELSE rest
  IN  SubSeq(bs, 1, i - 1) \o <<Grown(bs, s, data)>>
        \o (IF after = {} THEN <<>> ELSE SubSeq(bs, Min(after), Len(bs)))

-----------------------------------------------------------------------------
(* mfsvol_read_data, for sectors of one volume.                            *)

\* mfsvol_locate_mem_data_for_read: 0 when no block holds any of the sectors.
FirstFor(bs, s, count) ==
  LET i == Min({j \in DOMAIN bs : EndOf(bs[j]) > s} \cup {Len(bs) + 1})
  IN  IF i \in DOMAIN bs /\ bs[i].start < s + count THEN i ELSE 0

\* The block after block i, while it holds some of the sectors.
NextFor(bs, i, end) == IF i < Len(bs) /\ bs[i + 1].start < end THEN i + 1 ELSE 0

\* One turn of the loop of mfsvol_read_data: as much as possible from the block, or from
\* the drive as far as the block that comes next.
FromBlock(v, acc) == acc.block # 0 /\ blocks[v][acc.block].start <= acc.at
ReadTurn(v, acc, end) ==
  LET b == blocks[v][acc.block]
      upto == IF FromBlock(v, acc) THEN Min({EndOf(b), end})
              ELSE IF acc.block = 0 THEN end ELSE b.start
      Piece(s) == IF FromBlock(v, acc) THEN At(b, s) ELSE disk[v][s]
  IN  IF acc.at = end THEN acc
      ELSE [at    |-> upto,
            block |-> IF FromBlock(v, acc) THEN NextFor(blocks[v], acc.block, end) ELSE acc.block,
            data  |-> acc.data \o [n \in 1..(upto - acc.at) |-> Piece(acc.at + n - 1)]]

\* Every turn reads a sector at least.
ReadData(v, s, count) ==
  LET end == s + count
      Turns[n \in 0..count] ==
        IF n = 0 THEN [at |-> s, block |-> FirstFor(blocks[v], s, count), data |-> <<>>]
                 ELSE ReadTurn(v, Turns[n - 1], end)
  IN  Turns[count].data

-----------------------------------------------------------------------------
(* mfsvol_write_data and mfsvol_enable_memwrite.                           *)

With(f, v, s, data) ==
  [f EXCEPT ![v] = [x \in DOMAIN @ |-> IF x - s + 1 \in DOMAIN data THEN data[x - s + 1] ELSE @[x]]]

\* The drives and the lists when data has been written from sector s of the
\* volume set on; none when the drive refuses sectors that cross the end of a
\* volume, where memory keeps them.
WriteData(d, bs, s, data) ==
  LET v == VolumeAt(s)
      t == s - Start(v)
  IN  IF local THEN {[disk |-> d, blocks |-> [bs EXCEPT ![v] = Written(@, t, data)]]}
      ELSE IF t + Len(data) <= VolSizes[v] THEN {[disk |-> With(d, v, t, data), blocks |-> bs]}
      ELSE {}

Write(s, data) ==
  /\ \E new \in WriteData(disk, blocks, s, data) : disk' = new.disk /\ blocks' = new.blocks
  /\ view' = With(view, VolumeAt(s), s - Start(VolumeAt(s)), data)
  /\ UNCHANGED local

\* The clients that call it, backup, mfsck and mfsd, do so when they have opened
\* the volumes, before they write anything.
EnableMemwrite ==
  /\ ~local /\ disk = Fresh
  /\ local' = TRUE
  /\ UNCHANGED <<disk, blocks, view>>

Next == \/ \E s \in 0..(Total - 1), n \in 1..MaxCount, w \in Vals : Write(s, [i \in 1..n |-> w])
        \/ EnableMemwrite

Spec == Init /\ [][Next]_vars

-----------------------------------------------------------------------------
\* Every variable has its type; a block starts in its volume
\* and holds nothing but what was written.
TypeOK ==
  /\ local \in BOOLEAN
  /\ \A v \in Vols :
       /\ \A s \in SectorsOf(v) : {disk[v][s], view[v][s]} \subseteq Vals \cup {Old(v, s)}
       /\ DOMAIN disk[v] = SectorsOf(v) /\ DOMAIN view[v] = SectorsOf(v)
       /\ \A i \in DOMAIN blocks[v] :
            LET b == blocks[v][i]
            IN  /\ b.start \in SectorsOf(v)
                /\ b.data \in Seq(Vals) /\ b.data # <<>>

\* Any read, however it straddles blocks in memory and sectors on the drive,
\* returns what was written last, by whichever writes overlapped it.
ReadsLatest ==
  \A v \in Vols : \A s \in SectorsOf(v) : \A n \in 1..(VolSizes[v] - s) :
    ReadData(v, s, n) = [i \in 1..n |-> view[v][s + i - 1]]

\* Every variable has its type.
\* The blocks of a volume are in order and never overlap or even touch: the
\* searches that stop at the first block past a sector miss nothing.
BlocksApart ==
  /\ TypeOK
  /\ \A v \in Vols : \A i \in 1..(Len(blocks[v]) - 1) :
    EndOf(blocks[v][i]) < blocks[v][i + 1].start
=============================================================================
