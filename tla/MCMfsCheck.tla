------------------------------ MODULE MCMfsCheck ------------------------------
(* Volumes for the model checker, sound and damaged, and volumes to back up. *)
EXTENDS BlockBackup

\* fsids 1 to 4 in three inodes.
MCHome == <<1, 2, 0, 1>>

Counts(free) == [o \in DOMAIN free |-> Cardinality(free[o])]
Total(free, units, block) ==
    block * Cardinality({b \in 0..(units - 1) : \E o \in DOMAIN free : b \div 2 ^ o \in free[o]})

\* A zone of five blocks for files, and one of two larger blocks for recordings.
App(free) == [kind |-> "application", first |-> 10, last |-> 19, size |-> 10, block |-> 2,
              free |-> free, count |-> Counts(free), total |-> Total(free, 5, 2),
              pointer |-> 1, place |-> 1]
Media(free) == [kind |-> "media", first |-> 20, last |-> 27, size |-> 8, block |-> 4,
                free |-> free, count |-> Counts(free), total |-> Total(free, 2, 4),
                pointer |-> 2, place |-> 2]
Free(x, y, z) == 0 :> x @@ 1 :> y @@ 2 :> z
AllFree == Free({4}, {}, {0})
NoneFree == Free({}, {}, {})
MediaFree == [o \in 0..1 |-> IF o = 1 THEN {0} ELSE {}]
MediaTaken == [o \in 0..1 |-> {}]

Run(sector, count) == [sector |-> sector, count |-> count]
Inode(i, fsid, chained, kind, runs) ==
    [fsid |-> fsid, number |-> i, chained |-> chained, kind |-> kind, runs |-> runs, odd |-> FALSE]
NoFile(i) == Inode(i, 0, FALSE, "application", <<>>)
NoFiles == 0 :> NoFile(0) @@ 1 :> NoFile(1) @@ 2 :> NoFile(2)
Files(a, b) == 0 :> NoFile(0) @@ 1 :> Inode(1, 1, FALSE, "application", a)
                 @@ 2 :> Inode(2, 2, FALSE, "application", b)

Volume(synced, zones, inodes) ==
    [synced |-> synced, zones |-> zones, inodes |-> inodes, sectors |-> 28]
Zones(free) == <<App(free), Media(MediaFree)>>
Same(free, inodes) == Volume(Zones(free), Zones(free), inodes)

\* Any bits of a map of five blocks, also behind its end, with one file or none.
MapVolumes ==
    {Same(Free(x, y, z), inodes) :
        x \in SUBSET (0..5), y \in SUBSET (0..2), z \in SUBSET (0..1),
        inodes \in {NoFiles, Files(<<Run(10, 4)>>, <<>>)}}

\* Two files with any runs, over maps with nothing free, something and everything.
Runs == {Run(s, c) : s \in {10, 12, 14, 16, 18}, c \in {2, 4, 6, 8, 10}}
Fits(run) == run.sector + run.count <= 20
OneRun == {<<r>> : r \in {r \in Runs : Fits(r)}}
TwoRuns == OneRun \cup {<<>>} \cup {a \o b : a, b \in OneRun}
FileVolumes ==
    {Volume(Zones(AllFree), Zones(free), Files(a, b)) :
        free \in {NoneFree, Free({0}, {1}, {})}, a \in TwoRuns, b \in OneRun}

\* Three inodes with any fsids and flags.
ChainVolumes ==
    {Same(AllFree, [i \in 0..2 |-> Inode(i, fsids[i + 1], i \in flags, "application", <<>>)]) :
        fsids \in (0..4) \X (0..4) \X (0..4), flags \in SUBSET (0..2)}

\* What else may be wrong: counters, places, sizes, kinds, runs that are not whole blocks.
OddVolumes ==
    LET zone == App(AllFree)
        media == Media(MediaTaken)
        with(z, inodes) == Volume(Zones(AllFree), <<z, Media(MediaFree)>>, inodes)
    IN  {with([zone EXCEPT !.total = 8], NoFiles), with([zone EXCEPT !.count[2] = 0], NoFiles),
         with([zone EXCEPT !.place = 3], NoFiles), with([zone EXCEPT !.last = 20], NoFiles),
         with([zone EXCEPT !.size = 9], NoFiles),
         [Same(AllFree, NoFiles) EXCEPT !.sectors = 27],
         Same(AllFree, [NoFiles EXCEPT ![0].odd = TRUE]),
         Same(AllFree, [NoFiles EXCEPT ![0].runs = <<Run(10, 2)>>]),
         Same(AllFree, [NoFiles EXCEPT ![2] = Inode(0, 2, FALSE, "application", <<>>)])}
        \cup {Volume(<<zone, media>>, <<zone, media>>,
                     [NoFiles EXCEPT ![2] = Inode(2, 2, FALSE, kind, <<Run(sector, count)>>)]) :
              kind \in {"media", "application"}, sector \in {20, 22}, count \in {4, 6, 8}}

MCVolumes ==
    {MapVolumes, FileVolumes, ChainVolumes,
     {v \in OddVolumes : \A i \in 0..2 : \A n \in DOMAIN v.inodes[i].runs :
         v.inodes[i].runs[n].sector + v.inodes[i].runs[n].count <= 28}}

(* Volumes to back up: a file, two streams, and up to three pairs of partitions. *)

MapAt(z, sector) == [sector |-> sector, length |-> 1, pointer |-> sector, place |-> sector] @@ z

\* The map of a zone in which these sectors have owners.
MapOf(z, taken) ==
    LET units == z.size \div z.block
        orders == 0..z.orders
        all(b, o) == \A u \in Block(b, o) : u < units /\
                        (z.first + u * z.block)..(z.first + (u + 1) * z.block - 1) \cap taken = {}
        free == [o \in orders |-> {b \in 0..(units - 1) :
                    all(b, o) /\ ~(o + 1 \in orders /\ all(b \div 2, o + 1))}]
    IN  [free |-> free, count |-> Counts(free), total |-> Total(free, units, z.block)] @@ z
Zone(kind, first, units, block, orders) ==
    [kind |-> kind, first |-> first, size |-> units * block, last |-> first + units * block - 1,
     block |-> block, orders |-> orders]

\* Each pair is a volume for files and maps, and one of two blocks for streams; there are
\* zones for files in the first pair, where the file is, and perhaps in one more.
Pair(n) == <<12, 8>>
BaseOf(n) == 20 * (n - 1)
StreamZone(n) == MapAt(Zone("media", BaseOf(n) + 12, 2, 4, 1), BaseOf(n) + 1)
FileZone(n) == MapAt(Zone("application", BaseOf(n) + 5, 3, 2, 2), BaseOf(n) + 3)
ZonesOf(pairs, filesIn) ==
    <<StreamZone(1), FileZone(1)>> \o FlattenSeq([n \in 1..(pairs - 1) |-> <<StreamZone(n + 1)>>
                      \o (IF filesIn = n + 1 THEN <<FileZone(n + 1)>> ELSE <<>>)])

Stream(i, fsid, runs, size, used) ==
    [size |-> size, used |-> used] @@ Inode(i, fsid, FALSE, "media", runs)
File == [size |-> 2, used |-> 0] @@ Inode(0, 3, FALSE, "application", <<Run(7, 2)>>)
SourceOf(pairs, filesIn, a, b) ==
    LET inodes == 0 :> File @@ 1 :> a @@ 2 :> b
        taken == UNION {Sectors(r) : r \in UNION {ToSet(inodes[i].runs) : i \in 0..2}}
        zones == [k \in DOMAIN ZonesOf(pairs, filesIn) |-> MapOf(ZonesOf(pairs, filesIn)[k], taken)]
    IN  [vol |-> [synced |-> zones, zones |-> zones, inodes |-> inodes, sectors |-> 20 * pairs],
         sizes |-> FlattenSeq([n \in 1..pairs |-> Pair(n)])]

\* Blocks of the stream zones, in two runs of a block or in one of two.
StreamRuns(pairs) ==
    LET at(n) == {BaseOf(n) + 12, BaseOf(n) + 16}
        all == UNION {at(n) : n \in 1..pairs}
    IN  {<<Run(s, 4)>> : s \in all} \cup {<<Run(BaseOf(n) + 12, 8)>> : n \in 1..pairs}
        \cup {<<Run(s, 4), Run(t, 4)>> : s \in all, t \in all}
Apart(runs) == \A m, n \in DOMAIN runs : m # n => Sectors(runs[m]) \cap Sectors(runs[n]) = {}

Option(thresh, threshsize, threshtot, streamtot, shrink, resources) ==
    [thresh |-> thresh, threshsize |-> threshsize, threshtot |-> threshtot,
     streamtot |-> streamtot, shrink |-> shrink, resources |-> resources]

\* Streams in any two places; the first is partly used, the second as it says.
JobsOf(pairs, filesIn, opt, used) ==
    {SourceOf(pairs, filesIn, Stream(1, 1, runs[1], SumOfRuns(runs[1]) - 1, 3),
              Stream(2, 2, runs[2], SumOfRuns(runs[2]), IF used > 4 THEN SumOfRuns(runs[2]) ELSE used))
        @@ [opt |-> opt] :
        runs \in {runs \in StreamRuns(pairs) \X StreamRuns(pairs) : Apart(runs[1] \o runs[2])}}

\* Every stream, those of low number, those of up to 4 sectors, none but a resource.
Options(shrink) ==
    {Option(4, FALSE, FALSE, FALSE, shrink, {}), Option(4, FALSE, TRUE, FALSE, shrink, {}),
     Option(4, TRUE, FALSE, TRUE, shrink, {}), Option(0, FALSE, FALSE, FALSE, shrink, {2}),
     Option(1, FALSE, TRUE, TRUE, shrink, {})}
NoVolumes == {}
MCCopyJobs ==
    {JobsOf(2, 1, opt, used) : opt \in Options(TRUE) \cup Options(FALSE), used \in {0, 2, 5}}
    \cup {JobsOf(3, filesIn, opt, 2) : opt \in Options(TRUE), filesIn \in 1..2}
=============================================================================
