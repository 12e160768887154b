------------------------------ MODULE InodeData ------------------------------
(***************************************************************************)
(* The data of files (lib/inode.c) on the volume set of MemOverlay.  A     *)
(* file has its data in runs of sectors anywhere on the volumes, or, when  *)
(* it is short, in its inode.  Clients read and write parts: backup and    *)
(* mfsd read them, restore writes a file a buffer at a time.               *)
(***************************************************************************)
EXTENDS MemOverlay, SequencesExt

CONSTANT Files  \* inodes: a sector, whether it holds the data, and the runs

\* The sectors of a file are on the volumes.  A run lies in one of them, as its zone does,
\* and so do the two copies of an inode.
ASSUME FilesOK ==
  \A file \in Files :
    /\ file.sector \in Nat /\ file.sector + 1 < Total
    /\ VolumeAt(file.sector) = VolumeAt(file.sector + 1)
    /\ file.runs \in Seq([sector : Nat, count : Nat \ {0}])
    /\ \A n \in DOMAIN file.runs :
         LET run == file.runs[n]
         IN  /\ run.sector + run.count <= Total
             /\ VolumeAt(run.sector) = VolumeAt(run.sector + run.count - 1)

-----------------------------------------------------------------------------
(* The loop over the runs, the same for reading and for writing.           *)

\* "If the start offset is not within this block, decrement the start and keep going."
Skipped(run, start) == start > 0 /\ run.count <= start

\* Where in a run the part begins, "within this block".
FirstOfRun(run, start) == run.sector
FirstSector(run, start) == run.sector + start

\* One turn: what is left of the part, and the sectors that are read or written at once.
Turn(acc, run) ==
  LET count == Min({run.count - acc.start, acc.left})
  IN  IF acc.left = 0 THEN acc
      ELSE IF Skipped(run, acc.start) THEN [acc EXCEPT !.start = @ - run.count]
      ELSE [start |-> 0, left |-> acc.left - count,
            turns |-> Append(acc.turns, [sector |-> FirstSector(run, acc.start), count |-> count])]

Turns(file, start, count) ==
  FoldLeft(Turn, [start |-> start, left |-> count, turns |-> <<>>], file.runs).turns

\* mfs_read_inode_data_part.
ReadVolume(s, count) == ReadData(VolumeAt(s), s - Start(VolumeAt(s)), count)
ReadPart(file, start, count) ==
  IF file.inline THEN IF start > 0 THEN <<>> ELSE ReadVolume(file.sector, 1)
  ELSE FoldLeft(LAMBDA data, turn : data \o ReadVolume(turn.sector, turn.count),
                <<>>, Turns(file, start, count))

\* One turn of mfs_write_inode_data_part; "rest" is the data behind the pointer.
WriteTurn(acc, turn) ==
  LET new == CHOOSE r \in WriteData(acc.disk, acc.blocks, turn.sector,
                                    SubSeq(acc.rest, 1, turn.count)) : TRUE
  IN  [disk |-> new.disk, blocks |-> new.blocks,
       rest |-> SubSeq(acc.rest, turn.count + 1, Len(acc.rest))]

\* The sectors of a file in the order of its data, and all that hold the p-th of it.
Sectors(file) ==
  IF file.inline THEN <<file.sector>>
  ELSE FlattenSeq([n \in DOMAIN file.runs |->
         [k \in 1..file.runs[n].count |-> file.runs[n].sector + k - 1]])
Holders(file) ==
  IF file.inline THEN <<{file.sector, file.sector + 1}>>
  ELSE LET sectors == Sectors(file) IN [p \in DOMAIN sectors |-> {sectors[p]}]

\* mfs_write_inode_data_part of a part that begins within the file, and may go on behind
\* its end.  Data in the inode is written with both copies of it.
WritePart(file, start, data) ==
  LET holders == Holders(file)
      acc == [disk |-> disk, blocks |-> blocks, rest |-> data]
      both == IF start > 0 THEN <<>> ELSE <<[sector |-> file.sector, count |-> 2]>>
      end == IF file.inline
             THEN FoldLeft(WriteTurn, [acc EXCEPT !.rest = <<data[1], data[1]>>], both)
             ELSE FoldLeft(WriteTurn, acc, Turns(file, start, Len(data)))
  IN  /\ disk' = end.disk /\ blocks' = end.blocks
      /\ view' = [v \in Vols |-> [s \in SectorsOf(v) |->
           LET at == {k \in DOMAIN data : /\ start + k <= Len(holders)
                                          /\ Start(v) + s \in holders[start + k]}
           IN  IF at = {} THEN view[v][s] ELSE data[Max(at)]]]
      /\ UNCHANGED local

\* Contents that differ from one sector to the next.
Parts(n) == {data \in [1..n -> Vals] : \A i \in 1..(n - 1) : data[i] # data[i + 1]}

DataNext ==
  \/ Next
  \/ \E file \in Files : \E start \in 0..(Len(Sectors(file)) - 1), n \in 1..MaxCount :
       \E data \in Parts(n) : WritePart(file, start, data)

DataSpec == Init /\ [][DataNext]_vars

-----------------------------------------------------------------------------
\* Any part of a file that is read, across its runs and whatever of them is in memory, is
\* what was last written to that part of it, no more and in its order.
PartsRead ==
  \A file \in Files :
    LET sectors == Sectors(file)
        latest(s) == view[VolumeAt(s)][s - Start(VolumeAt(s))]
    IN  \A start \in 0..Len(sectors), count \in 1..(Len(sectors) + 1) :
          ReadPart(file, start, count)
            = [k \in 1..Min({count, Len(sectors) - start}) |-> latest(sectors[start + k])]
=============================================================================
