------------------------------ MODULE BlockBackup ------------------------------
(***************************************************************************)
(* Version 1 of backup and restore, src/backup/backupv1.c and              *)
(* src/restore/restorev1.c: instead of files it copies blocks, every       *)
(* application volume whole and of the media volumes what the chosen       *)
(* streams use.  A shrunk backup leaves off pairs of volumes at the end,   *)
(* and restore then mends what still refers to them.                       *)
(*                                                                         *)
(* "vol" is the source while it is copied and the target afterwards, which *)
(* mfsck looks at.  A source is a volume of MfsCheck with the sizes of its *)
(* partitions, the sectors of the zone maps, and for each stream its size  *)
(* and how much of it is used.                                             *)
(***************************************************************************)
EXTENDS MfsCheck

CONSTANTS
    Jobs,       \* sources to back up, with the options
    Bufs        \* sectors in the buffer of a copy

VARIABLE copy   \* the job, the list of blocks, where both machines are, the target

copyVars == <<vars, copy>>

-----------------------------------------------------------------------------
(* The volumes, one behind the other.                                      *)

StartsIn(sizes, v) ==
    LET start[k \in Nat] == IF k = 1 THEN 0 ELSE start[k - 1] + sizes[k - 1] IN start[v]
SetSize(sizes) == StartsIn(sizes, Len(sizes) + 1)
Start(v) == StartsIn(copy.job.sizes, v)
VolumeOf(sector) ==
    CHOOSE v \in DOMAIN copy.job.sizes : sector - Start(v) \in 0..(copy.job.sizes[v] - 1)

\* The sectors of the volumes that go along.
KeptSectors == SetSize(SubSeq(copy.job.sizes, 1, copy.nmfs))

-----------------------------------------------------------------------------
(* backup_add_block: the list of a volume has a node where a stretch to be *)
(* backed up begins and one where it ends.                                 *)

Node(backup, sector) == [backup |-> backup, sector |-> sector]
First(list, sector) ==
    CHOOSE i \in 1..(Len(list) + 1) :
        /\ \A j \in 1..(i - 1) : list[j].sector < sector
        /\ i <= Len(list) => list[i].sector >= sector

\* "If there is overlap, or if the next block has the same backup/don't backup status,
\* just drop the next block."
Dropped(list, i) ==
    LET Stays(j) == list[j].sector >= list[i].sector /\ list[j].backup # list[i].backup
        kept == {j \in (i + 1)..Len(list) : \E m \in (i + 1)..j : Stays(m)}
    IN  SubSeq(list, 1, i) \o SubSeq(list, Len(list) + 1 - Cardinality(kept), Len(list))

\* The new list, or none when the function answers -1.
AddBlock(list, sector, count) ==
    LET i == First(list, sector)
        new == <<Node(TRUE, sector), Node(FALSE, sector + count)>>
        before == SubSeq(list, 1, i - 1)
    IN  IF i > Len(list) THEN {list \o new}
        ELSE IF list[i].backup
        THEN IF sector + count >= list[i].sector
             THEN {Dropped([list EXCEPT ![i].sector = sector], i)}
             ELSE {Dropped(before \o new \o SubSeq(list, i, Len(list)), i)}
        ELSE IF i > 1 /\ list[i].sector < sector + count
        THEN {Dropped([list EXCEPT ![i].sector = sector + count], i)}
        ELSE IF i = 1
        THEN {Dropped(new \o Tail(list), 2)}
        ELSE {}

AddTo(lists, sector, count) ==
    {[lists EXCEPT ![VolumeOf(sector)] = list] :
        list \in AddBlock(lists[VolumeOf(sector)], sector, count)}

-----------------------------------------------------------------------------
(* backup_scan_inode_blocks.                                               *)

Opt == copy.job.opt
IsStream(inode) == inode.fsid # 0 /\ inode.kind = "media"

\* The size a stream is judged by, and the size that is copied of it.
JudgedSize(inode) == IF Opt.threshtot \/ Opt.streamtot THEN inode.size ELSE inode.used
CopiedSize(inode) ==
    IF Opt.threshtot /\ ~Opt.streamtot THEN inode.used ELSE JudgedSize(inode)
IsChosen(inode) ==
    /\ IsStream(inode) /\ JudgedSize(inode) > 0
    /\ \/ Opt.threshsize /\ JudgedSize(inode) <= Opt.thresh
       \/ ~Opt.threshsize /\ inode.fsid <= Opt.thresh
       \/ inode.fsid \in Opt.resources

EndOf(run) == run.sector + run.count
Highest(acc, run) == [acc EXCEPT !.highest = IF @ < EndOf(run) THEN EndOf(run) ELSE @]

\* One run of a chosen stream.  The last one, with which its size is used up, leaves the
\* loop before it counts for the highest sector.
AddRun(acc, run) ==
    LET count == IF run.count > acc.left THEN acc.left ELSE run.count
        added == AddTo(acc.lists, run.sector, count)
        new == [acc EXCEPT !.lists = CHOOSE l \in added : TRUE, !.left = @ - count]
    IN  IF acc.over THEN acc
        ELSE IF added = {} THEN [acc EXCEPT !.over = TRUE, !.ok = FALSE]
        ELSE IF new.left = 0 THEN [new EXCEPT !.over = TRUE]
        ELSE Highest(new, [run EXCEPT !.count = count])

ScanInodeBlocks ==
    LET inode == vol.inodes[next]
        acc == [lists |-> copy.lists, highest |-> copy.highest, left |-> CopiedSize(inode),
                over |-> FALSE, ok |-> TRUE]
    IN  /\ pc = <<"scan">> /\ next < NInodes
        /\ \E end \in {IF IsChosen(inode) THEN FoldLeft(AddRun, acc, inode.runs)
                       ELSE IF IsStream(inode) THEN acc
                       ELSE FoldLeft(Highest, acc, inode.runs)} :
               /\ copy' = [copy EXCEPT !.lists = end.lists, !.highest = end.highest]
               /\ pc' = IF end.ok THEN pc ELSE <<"failed">>
        /\ next' = next + 1
        /\ UNCHANGED <<vol, marks, chains, reports>>

ZonesHighestOfFiles(highest) == highest
\* With BF_SHRINK the maps and zones that are not for streams have to stay too.
ZonesHighest(highest) ==
    LET of(z) == {z.sector + z.length, z.last}
        ends == UNION {of(vol.zones[k]) : k \in {k \in DOMAIN vol.zones : vol.zones[k].kind # "media"}}
    IN  CHOOSE s \in {highest} \cup ends : \A t \in {highest} \cup ends : t <= s

ScanZones ==
    /\ pc = <<"scan">> /\ next = NInodes
    /\ copy' = IF Opt.shrink THEN [copy EXCEPT !.highest = ZonesHighest(@)] ELSE copy
    /\ pc' = <<"volumes">> /\ next' = 1
    /\ UNCHANGED <<vol, marks, chains, reports>>

\* "Put in the whole volumes", the first of every pair, and count those that stay.
AddVolume ==
    LET size == copy.job.sizes[next]
        off == Opt.shrink /\ next % 2 = 1 /\ Start(next) >= copy.highest
    IN  /\ pc = <<"volumes">> /\ next <= Len(copy.job.sizes) /\ ~off
        /\ \/ /\ next % 2 = 1
              /\ \E lists \in AddTo(copy.lists, Start(next), size) :
                     copy' = [copy EXCEPT !.lists = lists, !.nmfs = @ + 1]
           \/ /\ next % 2 = 0
              /\ copy' = [copy EXCEPT !.nmfs = @ + 1]
        /\ next' = next + 1
        /\ UNCHANGED <<pc, vol, marks, chains, reports>>

\* backup_add_blocks_to_backup_info, of the lists put together.
BlocksOf(lists) ==
    LET all == FlattenSeq(lists)
        starts == SelectSeq([i \in DOMAIN all |-> i], LAMBDA i : all[i].backup)
    IN  [n \in DOMAIN starts |->
            [first |-> all[starts[n]].sector,
             sectors |-> all[starts[n] + 1].sector - all[starts[n]].sector]]

ListBlocks ==
    /\ pc = <<"volumes">>
    /\ \/ next > Len(copy.job.sizes)
       \/ Opt.shrink /\ next % 2 = 1 /\ Start(next) >= copy.highest
    /\ copy' = [copy EXCEPT !.blocks = BlocksOf(copy.lists)]
    /\ pc' = <<"copying">> /\ UNCHANGED <<next, vol, marks, chains, reports>>

-----------------------------------------------------------------------------
(* The blocks through a buffer: backup_state_blocks_v1 fills it,           *)
(* restore_state_blocks_v1 takes of one block at each call.                *)

SectorsOf(block) == [n \in 1..block.sectors |-> block.first + n - 1]
Behind(block, offset) == SubSeq(SectorsOf(block), offset + 1, block.sectors)

\* What is still to come from block b on, where "offset" sectors of it are done.
ToCome(b, offset) ==
    FlattenSeq([n \in 1..(Len(copy.blocks) - b + 1) |->
        IF n = 1 THEN Behind(copy.blocks[b], offset) ELSE SectorsOf(copy.blocks[b + n - 1])])
AllSectors == ToCome(1, 0)

BackupBlocks ==
    LET left == Len(AllSectors) - copy.sent
        n == IF left < copy.size THEN left ELSE copy.size
    IN  /\ pc = <<"copying">> /\ copy.buf = <<>> /\ left > 0
        /\ copy' = [copy EXCEPT !.buf = SubSeq(AllSectors, copy.sent + 1, copy.sent + n),
                                !.sent = @ + n]
        /\ UNCHANGED vars

\* mfsvol_write_data refuses what is in none of the volumes.
RestoreBlocks ==
    LET block == copy.blocks[copy.at[1]]
        left == block.sectors - copy.at[2]
        n == IF left > Len(copy.buf) THEN Len(copy.buf) ELSE left
        where == block.first + copy.at[2]
        written == [s \in where..(where + n - 1) |-> copy.buf[s - where + 1]]
        ended == copy.at[2] + n >= block.sectors
    IN  /\ pc = <<"copying">> /\ copy.buf # <<>> /\ copy.at[1] <= Len(copy.blocks)
        /\ IF where >= KeptSectors
           THEN pc' = <<"failed">> /\ UNCHANGED copy
           ELSE /\ copy' = [copy EXCEPT !.target = written @@ @,
                                        !.buf = SubSeq(@, n + 1, Len(@)),
                                        !.at = IF ended THEN <<@[1] + 1, 0>> ELSE <<@[1], @[2] + n>>]
                /\ UNCHANGED pc
        /\ UNCHANGED <<next, vol, marks, chains, reports>>

\* restore_finish: "expecting complete", when a block is left for which nothing comes.
CopyEnds ==
    /\ pc = <<"copying">> /\ copy.buf = <<>> /\ copy.sent = Len(AllSectors)
    /\ pc' = IF copy.at[1] <= Len(copy.blocks) THEN <<"failed">> ELSE <<"fixup">>
    /\ UNCHANGED <<next, vol, marks, chains, reports, copy>>

-----------------------------------------------------------------------------
(* restore_state_complete_v1.                                              *)

Restored(sectors) == \A s \in sectors : s \in DOMAIN copy.target /\ copy.target[s] = s
MapSectors(z) == z.sector..(z.sector + z.length - 1)

\* restore_fixup_zone_maps: the chain ends before the first map that is not there.
FixupZoneMaps(zones) ==
    LET out == {k \in 2..Len(zones) : zones[k].sector >= KeptSectors}
    IN  IF ~Opt.shrink \/ out = {} THEN zones
        ELSE SubSeq(zones, 1, (CHOOSE k \in out : \A j \in out : k <= j) - 1)

\* restore_fudge_inodes: a stream loses the runs that are not there, and is not used then.
\* Its size stays, for mfsck to find.
SumOfRuns(runs) == FoldLeft(LAMBDA sum, run : sum + run.count, 0, runs)
FudgeInode(inode) ==
    LET runs == SelectSeq(inode.runs, LAMBDA run : run.sector < KeptSectors)
    IN  IF ~Opt.shrink \/ ~IsStream(inode) \/ runs = inode.runs THEN inode
        ELSE [inode EXCEPT !.runs = runs, !.used = 0,
                           !.odd = @ \/ SumOfRuns(runs) < inode.size]

\* The list of partitions, the zone maps, the inodes; mfs_init in between wants every map
\* of the chain.
Complete ==
    /\ pc = <<"fixup">>
    /\ \E zones \in {FixupZoneMaps(vol.zones)} :
        IF \A k \in DOMAIN zones : Restored(MapSectors(zones[k]))
        THEN /\ vol' = [vol EXCEPT !.sectors = KeptSectors, !.synced = zones, !.zones = zones,
                                   !.inodes = [i \in DOMAIN @ |-> FudgeInode(@[i])]]
             /\ pc' = <<"zones", 1>> /\ next' = 1
        ELSE pc' = <<"failed">> /\ UNCHANGED <<next, vol>>
    /\ UNCHANGED <<marks, chains, reports, copy>>

-----------------------------------------------------------------------------
NotCopying == [job |-> <<>>]

CheckInit == Init /\ copy = NotCopying
CopyInit ==
    /\ \E family \in Jobs : \E job \in family, size \in Bufs :
           /\ vol = job.vol
           /\ copy = [job |-> [vol |-> job.vol, sizes |-> job.sizes, opt |-> job.opt],
                      lists |-> [v \in DOMAIN job.sizes |-> <<Node(FALSE, 0)>>],
                      highest |-> 0, nmfs |-> 0, blocks |-> <<>>, size |-> size, sent |-> 0,
                      buf |-> <<>>, at |-> <<1, 0>>, target |-> <<>>]
    /\ pc = <<"scan">> /\ next = 0
    /\ marks = <<>> /\ chains = {} /\ reports = {}

Copies == copy # NotCopying
CopyStep ==
    /\ Copies
    /\ \/ ScanInodeBlocks \/ ScanZones \/ AddVolume \/ ListBlocks
       \/ BackupBlocks \/ RestoreBlocks \/ CopyEnds \/ Complete
CopyFailed == pc = <<"failed">> /\ UNCHANGED copyVars

CopyNext == CopyStep \/ CopyFailed \/ (Next /\ UNCHANGED copy)
CopySpec == (CheckInit \/ CopyInit) /\ [][CopyNext]_copyVars

-----------------------------------------------------------------------------
(* Properties.                                                             *)

\* The first sectors of a stream.
Prefix(runs, size) ==
    ToSet(SubSeq(FlattenSeq([n \in DOMAIN runs |->
        [k \in 1..runs[n].count |-> runs[n].sector + k - 1]]), 1, size))

\* -s removes drives "if no data on them is being backed up" (README-2.0:137): every block
\* of the list lies in the volumes that stay.
BackedUpIsKept ==
    Copies /\ pc = <<"copying">> =>
        \A n \in DOMAIN copy.blocks : copy.blocks[n].first + copy.blocks[n].sectors <= KeptSectors

\* Chosen by its total size, with nothing used yet: a block of no sectors.
DataOf(inode) == IF Opt.streamtot THEN inode.size ELSE inode.used
Empty(inode) == IsChosen(inode) /\ DataOf(inode) = 0
ForFiles(zones) == SelectSeq(zones, LAMBDA z : z.kind # "media")

\* A backup of blocks and its restore make a sound file system: files and the chosen streams
\* have their data, where their inodes say; the volumes and zones for files are whole; and
\* mfsck says nothing but that streams whose runs have been removed are shorter than their
\* size.  They fail only when blocks are listed that no volume is kept for, or for a chosen
\* stream with nothing in it.
ShrunkIsWhole ==
    Copies =>
        LET source == copy.job.vol
            lost == {i \in DOMAIN source.inodes : vol.inodes[i].runs # source.inodes[i].runs}
            unkept == ~(\A n \in DOMAIN copy.blocks :
                           copy.blocks[n].first + copy.blocks[n].sectors <= KeptSectors)
        IN  /\ pc = <<"failed">> =>
                 unkept \/ \E i \in DOMAIN source.inodes : Empty(source.inodes[i])
            /\ pc = <<"done">> =>
                 /\ \A i \in DOMAIN source.inodes :
                       LET inode == source.inodes[i]
                           size == IF ~IsStream(inode) THEN SumOfRuns(inode.runs)
                                   ELSE IF IsChosen(inode) THEN DataOf(inode) ELSE 0
                       IN  /\ Restored(Prefix(inode.runs, size))
                           /\ Prefix(vol.inodes[i].runs, size) = Prefix(inode.runs, size)
                 /\ \A v \in 1..copy.nmfs : v % 2 = 1 => Restored(Start(v)..(Start(v + 1) - 1))
                 /\ Len(ForFiles(vol.zones)) = Len(ForFiles(source.zones))
                 /\ {r \in reports : r[1] = 2}
                      = {<<2, -1 - i, <<"odd">>>> :
                           i \in {i \in lost : SumOfRuns(vol.inodes[i].runs) < source.inodes[i].size}}
=============================================================================
