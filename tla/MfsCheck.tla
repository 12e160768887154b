------------------------------- MODULE MfsCheck -------------------------------
(***************************************************************************)
(* The file system check, src/mfsck/mfsck.c: it marks in a bitmap per zone *)
(* what the zone maps have free, then what every file owns, reports what   *)
(* is marked twice and at last what is not marked at all.  It writes       *)
(* nothing: the log is replayed into memory between two scans of the maps. *)
(*                                                                         *)
(* A volume is what is on the drive, damaged in any way that keeps the     *)
(* numbers in their ranges.                                                *)
(***************************************************************************)
EXTENDS Integers, FiniteSets, SequencesExt

CONSTANTS
    Volumes,    \* families of volumes to check: zone maps on the drive and in the log, inodes
    NInodes,    \* mfs_inode_count
    Home,       \* of an fsid: fsid * MFS_FSID_HASH % NInodes
    IntBits     \* bits of an int of the bitmap (32)

ASSUME MfsCheckAssumption ==
    /\ NInodes \in Nat \ {0} /\ IntBits \in Nat \ {0}
    /\ \A family \in Volumes : \A vol0 \in family : DOMAIN vol0.inodes = 0..(NInodes - 1)

VARIABLES
    pc,         \* what the program is at
    next,       \* the zone or the inode that is looked at next
    vol,        \* the zone maps, those before the replay, and the inodes
    marks,      \* per zone scanned: the blocks marked, and the fsid of a file that owns one
    chains,     \* the inodes that have to be flagged as chained
    reports     \* what was printed, in the scan before the replay (1) and after it (2)

vars == <<pc, next, vol, marks, chains, reports>>

-----------------------------------------------------------------------------
(* scan_zone_maps.                                                         *)

Units(z) == z.size \div z.block
Blocks(z) == (z.last + 1 - z.first) \div z.block
Orders(z) == DOMAIN z.free
Block(b, o) == (b * 2 ^ o)..((b + 1) * 2 ^ o - 1)

\* The free bits of an order, and those of them that are within the zone.
Bits(z) == UNION {{<<b, o>> : b \in z.free[o]} : o \in Orders(z)}
Within(z) == {x \in Bits(z) : x[1] < Units(z) \div 2 ^ x[2]}
Marked(z) == UNION {Block(x[1], x[2]) : x \in Within(z)}
Found(z, o) == Cardinality({x \in Within(z) : x[2] = o})

BitReports(z) ==
    {<<"combine", b - 1, o>> : <<b, o>> \in {x \in Bits(z) : x[1] % 2 = 1 /\ <<x[1] - 1, x[2]>> \in Bits(z)}}
    \cup {<<"beyond", x>> : x \in Bits(z) \ Within(z)}
    \cup {<<"twice", x>> : x \in {x \in Within(z) : \E y \in Within(z) :
             y[2] < x[2] /\ Block(x[1], x[2]) \cap Block(y[1], y[2]) # {}}}
    \cup {<<"count", o>> : o \in {o \in Orders(z) : Found(z, o) # z.count[o]}}

FreeFound(z) == FoldSet(LAMBDA o, sum : sum + Found(z, o) * 2 ^ o * z.block, 0, Orders(z))

ZoneReports(zones, k) ==
    LET z == zones[k]
    IN  BitReports(z)
        \cup (IF z.pointer = z.place THEN {} ELSE {<<"pointer">>})
        \cup (IF z.size = z.last - z.first + 1 THEN {} ELSE {<<"size">>})
        \cup (IF z.last < vol.sectors THEN {} ELSE {<<"end">>})
        \cup (IF z.size % z.block = 0 THEN {} ELSE {<<"remainder">>})
        \cup (IF FreeFound(z) = z.total THEN {} ELSE {<<"total">>})
        \cup {<<"zones", j>> : j \in {j \in 1..(k - 1) :
                 z.first <= zones[j].last /\ z.last >= zones[j].first}}

Tagged(pass, what, S) == {<<pass, what, r>> : r \in S}
Tell(pass, what, S) == reports' = reports \cup Tagged(pass, what, S)

\* One zone of the list; the scan before the replay throws its bitmaps away at the end.
ScanZoneMap(pass) ==
    LET zones == IF pass = 1 THEN vol.synced ELSE vol.zones
    IN  /\ pc = <<"zones", pass>>
        /\ \/ /\ next <= Len(zones)
              /\ Tell(pass, next, ZoneReports(zones, next))
              /\ marks' = Append(marks, [bits |-> Marked(zones[next]),
                                         fsids |-> [b \in 0..(Blocks(zones[next]) - 1) |-> 0]])
              /\ next' = next + 1
              /\ UNCHANGED pc
           \/ /\ next > Len(zones)
              /\ pc' = IF pass = 1 THEN <<"replay">> ELSE <<"inodes">>
              /\ marks' = IF pass = 1 THEN <<>> ELSE marks
              /\ next' = 0
              /\ UNCHANGED reports
        /\ UNCHANGED <<vol, chains>>

\* mfs_log_fssync in memory mode: from here on the maps and inodes are those of the log.
Replay ==
    /\ pc = <<"replay">>
    /\ pc' = <<"zones", 2>> /\ next' = 1
    /\ UNCHANGED <<vol, marks, chains, reports>>

-----------------------------------------------------------------------------
(* scan_inodes.                                                            *)

\* The first zone of the list that holds a sector; every sector is in one.
ZoneOf(sector) ==
    CHOOSE k \in DOMAIN vol.zones :
        /\ sector \in vol.zones[k].first..vol.zones[k].last
        /\ \A j \in 1..(k - 1) : sector \notin vol.zones[j].first..vol.zones[j].last

\* scan_inode_overlap: the walk over the blocks of a run some of which are marked.  What
\* is printed when a stretch of equal owners ends is "marked free" for no owner.
Said(st) == IF st.fsid > 0 THEN <<"overlaps", st.fsid>> ELSE <<"marked free">>
OverlapTurn(mark, st, b) ==
    LET clear == b \notin mark.bits
        fsid == mark.fsids[b]
        begun == IF clear THEN [st EXCEPT !.start = -1, !.fsid = 0]
                 ELSE [st EXCEPT !.start = b, !.fsid = fsid]
    IN  IF \/ fsid # st.fsid /\ (st.fsid # 0 \/ st.start >= 0)
           \/ st.start >= 0 /\ clear
        THEN [begun EXCEPT !.said = @ \cup {Said(st)}]
        ELSE IF fsid # st.fsid THEN begun ELSE st

ScanInodeOverlap(mark, first, count) ==
    LET end == FoldLeft(LAMBDA st, b : OverlapTurn(mark, st, b),
                        [start |-> -1, fsid |-> 0, said |-> {}],
                        [n \in 1..count |-> first + n - 1])
    IN  end.said \cup {Said(end)}

\* One extent: the marks and what is printed of it.
ScanExtent(inode, acc, run) ==
    LET k == ZoneOf(run.sector)
        z == vol.zones[k]
        first == (run.sector - z.first) \div z.block
        count == run.count \div z.block
        blocks == first..(first + count - 1)
        mark == acc.marks[k]
        kind == IF inode.kind = z.kind THEN {} ELSE {<<"kind", run>>}
        overlap == IF blocks \cap mark.bits = {} THEN {}
                   ELSE ScanInodeOverlap(mark, first, count)
    IN  IF (run.sector - z.first) % z.block # 0
        THEN [acc EXCEPT !.said = @ \cup kind \cup {<<"not aligned", run>>}]
        ELSE IF run.count % z.block # 0
        THEN [acc EXCEPT !.said = @ \cup kind \cup {<<"not a multiple", run>>}]
        ELSE [marks |-> [acc.marks EXCEPT ![k] =
                           [bits |-> mark.bits \cup blocks,
                            fsids |-> [b \in DOMAIN mark.fsids |->
                                         IF b \in blocks THEN inode.fsid ELSE mark.fsids[b]]]],
              said |-> acc.said \cup kind \cup overlap]

ScanExtents(inode) ==
    FoldLeft(LAMBDA acc, run : ScanExtent(inode, acc, run),
             [marks |-> marks, said |-> {}], inode.runs)

\* The inodes from the home of the fsid to the one it is in.
Before(i, fsid) == {j \in 0..(NInodes - 1) :
    (j + NInodes - Home[fsid]) % NInodes < (i + NInodes - Home[fsid]) % NInodes}

\* "odd": the fields of the inode contradict one another.
FieldReports(i, inode) ==
    (IF inode.odd THEN {<<"odd">>} ELSE {})
    \cup (IF inode.fsid # 0 /\ inode.number # i THEN {<<"number">>} ELSE {})
    \cup (IF inode.fsid = 0 /\ inode.runs # <<>> THEN {<<"free with data">>} ELSE {})

ScanInode ==
    LET inode == vol.inodes[next]
    IN  /\ pc = <<"inodes">> /\ next < NInodes
        /\ \E scan \in {IF inode.fsid # 0 THEN ScanExtents(inode)
                        ELSE [marks |-> marks, said |-> {}]} :
               /\ marks' = scan.marks
               /\ Tell(2, -1 - next, FieldReports(next, inode) \cup scan.said)
        /\ chains' = IF inode.fsid = 0 THEN chains ELSE chains \cup Before(next, inode.fsid)
        /\ next' = next + 1
        /\ UNCHANGED <<pc, vol>>

\* "requires chained flag, but not set"
ReportChains ==
    /\ pc = <<"inodes">> /\ next = NInodes
    /\ Tell(2, 0, {<<"chain", i>> : i \in {i \in chains : ~vol.inodes[i].chained}})
    /\ pc' = <<"unclaimed">> /\ next' = 1
    /\ UNCHANGED <<vol, marks, chains>>

-----------------------------------------------------------------------------
(* scan_unclaimed_blocks.                                                  *)

\* A stretch of unmarked blocks ends before block b.
EndAt(st, b) == IF st.start < 0 THEN st
                ELSE [start |-> -1, found |-> st.found \cup {<<st.start, b>>}]
BitTurn(mark, st, b) ==
    IF b \in mark.bits THEN EndAt(st, b) ELSE IF st.start < 0 THEN [st EXCEPT !.start = b] ELSE st

\* An int without a clear bit is passed over as a whole.
IntTurnUnended(mark, nbits, st, i) ==
    LET first == i * IntBits
    IN  IF first..(first + IntBits - 1) \subseteq mark.bits THEN st
        ELSE FoldLeft(LAMBDA acc, b : IF b < nbits THEN BitTurn(mark, acc, b) ELSE acc, st,
                      [n \in 1..IntBits |-> first + n - 1])
IntTurn(mark, nbits, st, i) ==
    LET first == i * IntBits
    IN  IF first..(first + IntBits - 1) \subseteq mark.bits THEN EndAt(st, first)
        ELSE FoldLeft(LAMBDA acc, b : IF b < nbits THEN BitTurn(mark, acc, b) ELSE acc, st,
                      [n \in 1..IntBits |-> first + n - 1])

Unclaimed(mark, nbits) ==
    LET nints == (nbits + IntBits - 1) \div IntBits
        end == FoldLeft(LAMBDA st, i : IntTurn(mark, nbits, st, i),
                        [start |-> -1, found |-> {}], [n \in 1..nints |-> n - 1])
    IN  EndAt(end, nbits).found

ScanUnclaimedBlocks ==
    /\ pc = <<"unclaimed">>
    /\ \/ /\ next <= Len(vol.zones)
          /\ LET z == vol.zones[next]
             IN  Tell(2, next, {<<"unclaimed", st[1], st[2]>> : st \in Unclaimed(marks[next], Blocks(z))})
          /\ next' = next + 1 /\ UNCHANGED pc
       \/ /\ next > Len(vol.zones)
          /\ pc' = <<"done">> /\ UNCHANGED <<next, reports>>
    /\ UNCHANGED <<vol, marks, chains>>

-----------------------------------------------------------------------------
Init ==
    /\ \E family \in Volumes : vol \in family
    /\ pc = <<"zones", 1>> /\ next = 1
    /\ marks = <<>> /\ chains = {} /\ reports = {}

Done == pc = <<"done">> /\ UNCHANGED vars

Next ==
    \/ \E pass \in {1, 2} : ScanZoneMap(pass)
    \/ Replay \/ ScanInode \/ ReportChains \/ ScanUnclaimedBlocks \/ Done

Spec == Init /\ [][Next]_vars

-----------------------------------------------------------------------------
(* What a sound volume is, said without bitmaps: by sectors.               *)

Used == {i \in DOMAIN vol.inodes : vol.inodes[i].fsid # 0}
Sectors(run) == run.sector..(run.sector + run.count - 1)

\* The free blocks and the runs of files, as sets of sectors, each with its origin.
FreeBlocks ==
    UNION {{<<"free", k, x>> : x \in Bits(vol.zones[k])} : k \in DOMAIN vol.zones}
Extents == UNION {{<<"file", i, n>> : n \in DOMAIN vol.inodes[i].runs} : i \in Used}
Extent(x) ==
    IF x[1] = "file" THEN Sectors(vol.inodes[x[2]].runs[x[3]])
    ELSE LET z == vol.zones[x[2]]
         IN  (z.first + x[3][1] * 2 ^ x[3][2] * z.block)
                 ..(z.first + (x[3][1] + 1) * 2 ^ x[3][2] * z.block - 1)
ZoneSectors(k) == vol.zones[k].first..vol.zones[k].last

\* The free blocks and the files tile the zones.
TilesZones ==
    /\ \A x, y \in FreeBlocks \cup Extents : x # y => Extent(x) \cap Extent(y) = {}
    /\ UNION {Extent(x) : x \in FreeBlocks \cup Extents}
         = UNION {ZoneSectors(k) : k \in DOMAIN vol.zones}

\* Maximal free blocks, true counters, zones apart and linked.
MapsSound ==
    \A k \in DOMAIN vol.zones :
        LET z == vol.zones[k]
        IN  /\ \A b \in 0..Units(z), o \in Orders(z) :
                   ~({<<2 * b, o>>, <<2 * b + 1, o>>} \subseteq Bits(z))
            /\ \A o \in Orders(z) : z.count[o] = Cardinality(z.free[o])
            /\ z.total = Cardinality(UNION {Extent(x) : x \in {x \in FreeBlocks : x[2] = k}})
            /\ z.pointer = z.place /\ ZoneSectors(k) \subseteq 0..(vol.sectors - 1)
            /\ Cardinality(ZoneSectors(k)) = z.size /\ z.size % z.block = 0
            /\ \A j \in DOMAIN vol.zones : j # k => ZoneSectors(j) \cap ZoneSectors(k) = {}

\* Every file can be found from its fsid and owns whole blocks of the zones of its kind.
FilesSound ==
    /\ \A i \in DOMAIN vol.inodes : ~vol.inodes[i].odd
    /\ \A i \in DOMAIN vol.inodes \ Used : vol.inodes[i].runs = <<>>
    /\ \A i \in Used :
        LET inode == vol.inodes[i]
        IN  /\ inode.number = i
            /\ \A j \in Before(i, inode.fsid) : vol.inodes[j].chained
            /\ \A n \in DOMAIN inode.runs :
                 LET k == ZoneOf(inode.runs[n].sector)
                 IN  /\ inode.kind = vol.zones[k].kind
                     /\ inode.runs[n].count % vol.zones[k].block = 0
                     /\ (inode.runs[n].sector - vol.zones[k].first) % vol.zones[k].block = 0

Silent == \A r \in reports : r[1] # 2
Told(what) == {r[3] : r \in {r \in reports : r[1] = 2 /\ r[2] = what}}

\* The extents of files lie in whole blocks, of one zone each: no report is cut short.
Whole ==
    /\ \A r \in reports : r[3][1] \notin {"not aligned", "not a multiple", "zones", "size"}
    /\ \A k \in DOMAIN vol.zones : vol.zones[k].size = Cardinality(ZoneSectors(k))

\* The fsids of the files that own, last of those looked at before it, a sector of x.
Earlier(x, y) == x[2] < y[2] \/ (x[2] = y[2] /\ x[3] < y[3])
SharedWith(y) ==
    {vol.inodes[x[2]].fsid : x \in {x \in Extents : /\ Earlier(x, y)
        /\ \E s \in Extent(x) \cap Extent(y) :
              \A z \in Extents : (Earlier(x, z) /\ Earlier(z, y)) => s \notin Extent(z)}}

ReportedUnclaimed(k) ==
    UNION {(vol.zones[k].first + r[2] * vol.zones[k].block)
             ..(vol.zones[k].first + r[3] * vol.zones[k].block - 1) :
             r \in {r \in Told(k) : r[1] = "unclaimed"}}
Claimed(k) ==
    UNION {Extent(x) : x \in Extents \cup {<<"free", k, b>> : b \in Within(vol.zones[k])}}

\* When the check is done it has told the truth of the volume as the log leaves it: it is
\* silent exactly when the volume is sound; each file is reported with those it shares
\* blocks with and no others; and what is called unclaimed is all that nothing claims
\* (mfsck.c:457 "overlaps with fsid", :814 "unclaimed by zone maps or inodes").
ChecksTrue ==
    pc = <<"done">> =>
        /\ Silent <=> (TilesZones /\ MapsSound /\ FilesSound)
        /\ Whole =>
             /\ \A i \in Used :
                   {r[2] : r \in {r \in Told(-1 - i) : r[1] = "overlaps"}}
                     = UNION {SharedWith(y) : y \in {y \in Extents : y[2] = i}}
             /\ \A k \in DOMAIN vol.zones : ReportedUnclaimed(k) = ZoneSectors(k) \ Claimed(k)
=============================================================================
