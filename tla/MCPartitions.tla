---------------------------- MODULE MCPartitions ----------------------------
(* Drives and program runs for the model checker. *)
EXTENDS PartitionPrograms, BackupParts, TLC

Of(size, parts) == Image(Table(parts, size))
Part(name, start, sectors, type) == Entry(start, sectors, name, type)

(* What a client of the library finds: a small drive with a map of 7 sectors, two
   partitions and free space at the end or between them; one whose entries are not in
   the order of their places; one with free entries in a row; or a new drive. *)
MCClientDrives ==
    LET none == BlankDevice(0)
        map == Part(<<"Apple", 0>>, 1, 7, "map")
        root == Part(<<"root", 1>>, 8, 8, "system")
        free(start, sectors) == Part(<<"Extra", 0>>, start, sectors, "free")
        old(size, parts) == [a |-> Of(size, <<map>> \o parts), b |-> none]
    IN  {old(44, <<root, Part(<<"vol", 1>>, 16, 8, "MFS"), free(24, 20)>>),
         old(40, <<root, free(16, 16), Part(<<"vol", 1>>, 32, 8, "MFS")>>),
         old(48, <<Part(<<"vol", 1>>, 28, 12, "MFS"), free(8, 20)>>),
         old(48, <<Part(<<"vol", 1>>, 28, 4, "MFS"), free(8, 20)>>),
         old(48, <<root, free(16, 8)>>),
         [a |-> none, b |-> BlankDevice(MapSectors + 1 + 24)]}

Vol(dev, number, name) == [dev |-> dev, number |-> number, name |-> name]
G == 2 * 1024 * 1024

Opt(xdevs, given, maxdisk, maxmedia, fill, coalesce) ==
    [drives |-> <<"a", "b">>, xdevs |-> xdevs, given |-> given, low |-> FALSE,
     minalloc |-> 20480, maxdisk |-> maxdisk, maxmedia |-> maxmedia,
     fill |-> fill, coalesce |-> coalesce]

(* A drive of a recorder: system partitions 2 to 9, one pair of MFS partitions, what
   follows them in entries of a size, and "left" sectors that no partition covers. *)
System == [n \in 1..8 |-> Part(<<"root", n>>, 32 + 1024 * (n - 1), 1024, "system")]
DriveOf(media, size, more, left) ==
    LET end == 32 + 9 * 1024 + media
    IN  Of(end + size * Len(more) + left,
           <<Part(<<"Apple", 0>>, 1, MapSectors, "map")>> \o System
           \o <<Part(<<"vol", 1>>, 32 + 8 * 1024, 1024, "MFS"),
                Part(<<"vol", 2>>, 32 + 9 * 1024, media, "MFS")>>
           \o [n \in DOMAIN more |-> Part(<<more[n], n>>, end + size * (n - 1), size, more[n])])
DriveA(more, left) == DriveOf(G, 4096, more, left)
VolsA == <<Vol("a", 10, <<"vol", 1>>), Vol("a", 11, <<"vol", 2>>)>>

AddJob(a, sizeB, opt) ==
    [disk |-> [a |-> a, b |-> BlankDevice(sizeB)], volumes |-> VolsA, opt |-> opt]

(* Volume sets on two drives: of six pairs, the most the partition list has room for, with
   a pair on the second drive that is not in it; of five, with space for one on the second
   drive that brings the list to the one length that is counted in two ways. *)
TwoDrives(lastOnB, more, left, opt) ==
    LET map == Part(<<"Apple", 0>>, 1, MapSectors, "map")
        parts(name, type, first, last, at) ==
          [n \in 1..(last - first + 1) |->
              Part(<<name, first + n - 1>>, at + 4096 * (n - 1), 4096, type)]
        listed(dev, first, last) ==
          [n \in 1..(last - first + 1) |-> Vol(dev, first + n - 1, <<dev, first + n - 1>>)]
        end == 32 + 4096 * (lastOnB - 1)
    IN  [disk |-> [a |-> Of(32 + 8 * 1024 + 6 * 4096,
                            <<map>> \o System \o parts("a", "MFS", 10, 15, 32 + 8 * 1024)),
                   b |-> Of(end + 4096 * Len(more) + left,
                            <<map>> \o parts("b", "MFS", 2, lastOnB, 32)
                            \o [n \in DOMAIN more |->
                                  parts("b", more[n], lastOnB + n, lastOnB + n, end + 4096 * (n - 1))[1]])],
         volumes |-> listed("a", 10, 15) \o listed("b", 2, lastOnB),
         opt |-> opt]
FullJob == TwoDrives(7, <<"MFS", "MFS">>, 0,
    Opt(<<>>, <<Vol("b", 8, <<"b", 8>>), Vol("b", 9, <<"b", 9>>)>>, 0, 0, FALSE, FALSE))
NearlyFullJob == TwoDrives(5, <<"system", "system", "system", "system">>, G + 4096,
    Opt(<<"b">>, <<>>, 0, 0, FALSE, FALSE))

(* Free partitions that are used up: one of just the size of an application partition, in
   front of the space for the media partition.  Free space that starts at no multiple
   of eight.  A given pair whose drive has numbers for one more partition, one whose
   application partition is too small, and free space in pieces too small for one. *)
GivenPair(more) == <<Vol("a", 12, <<more[1], 1>>), Vol("a", 13, <<more[2], 2>>)>>
UsedUpJobs ==
    {AddJob(DriveOf(G, AppSize(G, 20480), <<"free", "system">>, left), 64,
            Opt(<<"a">>, <<>>, 0, maxmedia, fill, FALSE)) :
        left \in {G + 8, 2 * G + 8}, maxmedia \in {0, G}, fill \in BOOLEAN}
UnalignedJobs ==
    {AddJob(DriveOf(G + odd, size, <<"free", "system">>, left), 64,
            Opt(<<"a">>, <<>>, 0, maxmedia, TRUE, coalesce)) :
        odd \in {3, 7}, size \in {4096, 4091}, left \in {G + 8, G + 5},
        maxmedia \in {0, G}, coalesce \in BOOLEAN}
GivenJobs ==
    LET more == <<"MFS", "MFS", "system", "system">>
    IN  {AddJob(DriveA(more, G), 64, Opt(<<"a">>, GivenPair(more), 0, 0, FALSE, FALSE)),
         AddJob(DriveOf(G, 512, more, G), 64, Opt(<<>>, GivenPair(more), 0, 0, FALSE, FALSE))}

(* Free space at the end of the first drive: none, one pair's worth, many; a new second
   drive; free space in two places; and a pair of partitions that is there already. *)
MCAddJobs ==
    {AddJob(DriveA(<<>>, left), sizeB, Opt(xdevs, <<>>, maxdisk, maxmedia, fill, FALSE)) :
        left \in {2, G + 5, 7 * G + 4100}, sizeB \in {32 + 3 * G, 32 + 9 * G + 3},
        xdevs \in {<<"a">>, <<"b">>, <<"a", "b">>}, maxdisk \in {0, 4 * G},
        maxmedia \in {0, G}, fill \in BOOLEAN}
    \cup {AddJob(DriveA(<<"free", "system">>, 2 * G + 8), 64, Opt(<<"a">>, <<>>, 0, maxmedia, fill, coalesce)) :
        maxmedia \in {0, G}, fill \in BOOLEAN, coalesce \in BOOLEAN}
    \cup {AddJob(DriveA(more, left), 64,
               Opt(xdevs, GivenPair(more), 0, 0, FALSE, FALSE)) :
        more \in {<<"MFS", "MFS">>, <<"MFS", "system">>}, left \in {2, G + 8},
        xdevs \in {<<>>, <<"a">>}}
    \cup {FullJob, NearlyFullJob} \cup UsedUpJobs \cup UnalignedJobs \cup GivenJobs

(* The drives backups are taken from: system partitions, one of them of an odd size, the
   volume set, and behind it SQLite, another partition or none; or with another partition
   between two pairs. *)
Sizes == <<4096, 4091, 65536, 4096, 8192, 65536, 65536, 131072>>
Source(mfs, more) ==
    Table(<<Part(<<"Apple", 0>>, 1, MapSectors, "map")>>
          \o [n \in 1..8 |-> Part(<<"root", n + 1>>, 0, Sizes[n], "system")]
          \o [n \in DOMAIN mfs |-> Part(<<"vol", n>>, 0, mfs[n], "MFS")]
          \o [n \in DOMAIN more |-> Part(<<more[n], 0>>, 0, 131075, more[n])], 0)
Wish(root, var, all) == [root |-> root, var |-> var, db |-> TRUE, all |-> all]

(* The header of a backup and the options and drives of its restore. *)
Restore(sizes, source, wish, v3, mfs, sqlite) ==
    [disk |-> [a |-> BlankDevice(MapSectors + 1 + sizes[1]),
               b |-> BlankDevice(IF sizes[2] = 0 THEN 0 ELSE MapSectors + 1 + sizes[2])],
     drives |-> <<"a", "b">>, refused |-> BackupRefused(source, wish),
     parts |-> PartsToBackup(source, wish), v3 |-> v3, mfs |-> MfsToBackup(mfs),
     mediasectors |-> 2 * G, sqlite |-> sqlite, series1 |-> FALSE,
     swapsize |-> 0, varsize |-> 0, dbsize |-> 0, maxdisk |-> 0, maxmedia |-> 0,
     nofill |-> FALSE, balance |-> FALSE, kopt |-> FALSE, carveA |-> 0, carveB |-> 0]
Optimized(jobs) ==
    {[job EXCEPT !.balance = o # "no", !.kopt = o = "kernels too"] :
        job \in jobs, o \in {"no", "balance", "kernels too"}}

Wishes == {Wish(4, TRUE, FALSE), Wish(7, FALSE, FALSE), Wish(4, FALSE, TRUE)}
TwoPairs == <<2048, G, 2048, G>>
V3Sizes == {<<3 * G, 0>>, <<6 * G + 3, 0>>, <<2 * G, 2 * G + 8>>}
V3Jobs == Optimized(
    {Restore(sizes, Source(mfs, <<>>), wish, TRUE, mfs, FALSE) :
        sizes \in V3Sizes, wish \in Wishes, mfs \in {<<2048, G>>, TwoPairs}}
    \cup {Restore(sizes, Source(TwoPairs, <<more>>), wish, TRUE, TwoPairs, more = "SQLite") :
        sizes \in V3Sizes, wish \in Wishes, more \in {"SQLite", "other", "free"}})

(* Version 1: pairs of different sizes; on one drive that is just large enough or not, or
   on two of which the second holds all that may come to it. *)
Three == <<2048, 65536, 2048, 131072, 1024, 262144>>
Five == Three \o <<3072, 131072 + 5, 2048, 65536>>
V1Jobs == Optimized(
    {Restore(sizes, Source(mfs, <<>>), wish, FALSE, mfs, FALSE) :
        sizes \in {<<G, 0>>, <<G, G>>, <<600000, G>>, <<600000, 0>>},
        wish \in Wishes, mfs \in {<<2048, 65536>>, Three, Five}}
    \cup {[Restore(sizes, Source(mfs, <<>>), Wish(4, TRUE, FALSE), FALSE, mfs, FALSE) EXCEPT !.nofill = TRUE] :
        sizes \in {<<G, 0>>, <<G, G>>, <<600000, G>>, <<600000, 0>>}, mfs \in {Three, Five}})

(* Two drives, with SQLite or another partition in front of the first MFS pair. *)
OverwrittenJobs ==
    {Restore(<<2 * G, 2 * G>>, Source(TwoPairs, <<more>>), wish, FALSE, TwoPairs, more = "SQLite") :
        wish \in Wishes, more \in {"SQLite", "other"}}

(* Sizes that are asked for, and drives to be used in part. *)
Asked ==
    {[Restore(<<6 * G, sizeB>>, Source(TwoPairs, <<>>), wish, v3, TwoPairs, FALSE) EXCEPT
         !.varsize = varsize, !.swapsize = 65536, !.maxdisk = 5 * G, !.maxmedia = maxmedia,
         !.carveA = carve, !.carveB = 4096, !.series1 = ~v3] :
        sizeB \in {0, 3 * G}, wish \in Wishes, varsize \in {0, 131072, 262144},
        v3 \in BOOLEAN, maxmedia \in {0, G}, carve \in {-1, 8192}}

(* A second drive with room for one of the pairs only. *)
MCSmallSecond ==
    {[Restore(<<G, 65536>>, Source(Three, <<>>), wish, FALSE, Three, FALSE) EXCEPT !.nofill = TRUE] :
        wish \in Wishes}

MCRestoreJobs == {job \in V3Jobs \cup V1Jobs \cup OverwrittenJobs \cup Asked : ~job.refused}
=============================================================================
