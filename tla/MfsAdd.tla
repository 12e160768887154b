------------------------------- MODULE MfsAdd -------------------------------
(***************************************************************************)
(* mfsadd, src/mfsadd/mfsadd.c: grows an MFS volume set.  It makes pairs   *)
(* of partitions in the free space of one or two drives, writes the        *)
(* partition tables, and then adds every pair to the volume set by the     *)
(* number the partition had when it was made.                              *)
(*                                                                         *)
(* A run of the program is a sequence of steps over the tables of          *)
(* PartitionTable; "volumes" is the list of partitions in the header of    *)
(* the volume set and, with the disks, all that is left after a crash.     *)
(***************************************************************************)
EXTENDS PartitionTable, ZoneMapSize

CONSTANTS
    MinFree,        \* the least free space worth a pair (2 * 1024 * 1024 sectors)
    MaxVolumes      \* partitions a volume set may have (12)

VARIABLES
    add,        \* where the program is, its options and the pairs it made
    volumes     \* the partition list in the volume header: device, number and name

addVars == <<add, volumes>>

\* The options: the drives, those to extend in order, the pairs of existing partitions
\* given by name, and the switches.
Drives(opt) == opt.drives
NotAdding == [pc |-> "off"]

\* Three fields are history: no guard reads them, the properties do.  "failed" are the
\* devices a table write failed on, "shifted" the partitions that lay behind a free one
\* when a call used that one up, "left" those of the turn of the loop that broke off.
AddInit(opt) ==
    [pc |-> "mount", opt |-> opt, x |-> 1, first |-> 0, plan |-> <<>>,
     pairs |-> opt.given, toWrite |-> <<>>, done |-> 0,
     failed |-> {}, shifted |-> {}, left |-> {}]

Goto(pc) == add' = [add EXCEPT !.pc = pc]

\* The device an extension works on.
XDev == add.opt.xdevs[add.x]
Used(dev) == \E v \in DOMAIN volumes : volumes[v].dev = dev
Npairs == Len(add.pairs)

-----------------------------------------------------------------------------
(* main, up to the extension.                                              *)

\* mfs_init opens the partitions of the volume set, so they are in use from here on.
Mount ==
    /\ add.pc = "mount"
    /\ LET unopened == {v \in DOMAIN volumes : open[v] = Closed}
       IN  IF unopened = {}
           THEN /\ Goto("given") /\ UNCHANGED ptVars
           ELSE LET v == CHOOSE u \in unopened : \A w \in unopened : u <= w
                IN  /\ Open(v, volumes[v].dev, volumes[v].number)
                    /\ UNCHANGED add
    /\ UNCHANGED volumes

\* The partitions to be added by name have to be there, of the right type and not in use;
\* on the first drive numbers below ten are the system's unless -l says otherwise.
GivenAllowed(p) ==
    LET t == ReadTable(p.dev)
    IN  /\ \A v \in DOMAIN volumes : ~(volumes[v].dev = p.dev /\ volumes[v].number = p.number)
        /\ t # NoTable /\ p.number \in Numbers(t)
        /\ p.dev = Drives(add.opt)[1] => p.number >= IF add.opt.low THEN 2 ELSE 10
        /\ t.parts[p.number].type = "MFS"

CheckGiven ==
    /\ add.pc = "given"
    /\ Goto(IF \A n \in DOMAIN add.pairs : GivenAllowed(add.pairs[n]) THEN "init" ELSE "stopped")
    /\ UNCHANGED <<volumes>> /\ UNCHANGED ptVars

\* A second drive that holds nothing of the volume set gets a new table when it is to be
\* extended.
InitSecond ==
    /\ add.pc = "init"
    /\ Goto("extend")
    /\ IF /\ Len(Drives(add.opt)) = 2
          /\ ~Used(Drives(add.opt)[2])
          /\ \E x \in DOMAIN add.opt.xdevs : add.opt.xdevs[x] = Drives(add.opt)[2]
       THEN TableInit(Drives(add.opt)[2])
       ELSE UNCHANGED ptVars
    /\ UNCHANGED volumes

-----------------------------------------------------------------------------
(* mfsadd_add_extends: one turn of the loop is Plan, AddFirst, AddSecond.  *)

RoundDown(n) == (n \div Align) * Align
Min2(m, n) == IF m <= n THEN m ELSE n

\* The sizes of the next pair from the three sums over the table.  With free space to
\* spare elsewhere the media partition takes all of the largest, and is made first.
PlanFor(largest, free, used) ==
    LET opt == add.opt
        total == IF opt.maxdisk # 0 /\ opt.maxdisk < free + used
                 THEN IF opt.maxdisk > used THEN opt.maxdisk - used ELSE 0
                 ELSE free
        maxfree == LET m == Min2(largest, total)
                   IN  IF opt.maxmedia # 0 THEN Min2(opt.maxmedia, m) ELSE m
        whole == RoundDown(maxfree)
        app0 == AppSize(whole, opt.minalloc)
        media == IF total - maxfree < app0 /\ maxfree - whole < app0
                 THEN RoundDown(maxfree - app0) ELSE whole
        app == AppSize(media, opt.minalloc)
    IN  [app |-> app, media |-> media, total |-> total,
         mediaFirst |-> /\ total - maxfree >= app /\ maxfree - media < app
                        /\ ~opt.coalesce]

NextDevice == [add EXCEPT !.x = @ + 1, !.plan = <<>>]

PlanPair ==
    /\ add.pc = "extend" /\ add.x <= Len(add.opt.xdevs)
    /\ Measure(XDev)
    /\ LET t == Validated(XDev)
       IN  add' = IF LargestFree(t) < MinFree THEN NextDevice
                  ELSE [add EXCEPT !.pc = "first",
                          !.plan = PlanFor(LargestFree(t), TotalFree(t), TotalUsed(t))]
    /\ UNCHANGED volumes

Region(kind) == <<kind, (Npairs \div 2) + (Len(volumes) \div 2) + 1>>

Named(dev, name) == [dev |-> dev, name |-> name]

\* The partitions whose numbers change because the call takes an entry before them away.
Shifts(t, size, before) ==
    IF AddRefused(t, size, before) THEN {}
    ELSE {Named(XDev, t.parts[n].name) : n \in
             {k \in Numbers(t) : \E m \in Deleted(t, RangeFor(t, size)) : m < k}}

AddFirst ==
    LET size == IF add.plan.mediaFirst THEN add.plan.media ELSE add.plan.app
        name == IF add.plan.mediaFirst THEN Region("media") ELSE Region("app")
    IN  /\ add.pc = "first"
        /\ AddTo(XDev, Validated(XDev), size, 0, name, "MFS")
        /\ add' = [add EXCEPT !.pc = "second",
                     !.first = Added(Validated(XDev), size, 0, name, "MFS").number,
                     !.shifted = @ \cup Shifts(Validated(XDev), size, 0)]
        /\ UNCHANGED volumes

\* The numbers of the app and the media partition as the program takes them to be: one
\* made before the other moves that one up by one.
AppNumber(second) == IF add.plan.mediaFirst THEN second ELSE add.first
MediaNumberUnmoved(second) == IF add.plan.mediaFirst THEN add.first ELSE second
MediaNumber(second) == IF add.plan.mediaFirst THEN add.first + 1 ELSE second

\* "part1 < 2 || part2 < 2 || part1 > 16 || part2 > 16"; a failed call is a large number.
BadNumber(n) == n < 2 \/ n > 16

\* The tests at the end of a turn that leave this drive.
LastOnDriveUnbounded(media, npairs) ==
    \/ ~add.opt.fill
    \/ add.plan.total - add.plan.media - add.plan.app < add.opt.minalloc + 4
    \/ Len(volumes) + npairs + 2 > MaxVolumes

LastOnDrive(media, npairs) ==
    \/ ~add.opt.fill
    \/ add.plan.total - add.plan.media - add.plan.app < add.opt.minalloc + 4
    \/ media + 2 > 16
    \/ Len(volumes) + npairs + 2 > MaxVolumes

AfterSecond(second) ==
    LET app == AppNumber(second)
        media == MediaNumber(second)
        more == add.pairs \o <<[dev |-> XDev, number |-> app, name |-> Region("app")],
                               [dev |-> XDev, number |-> media, name |-> Region("media")]>>
    IN  IF BadNumber(app) \/ BadNumber(media)
        THEN IF Npairs = 0 THEN [add EXCEPT !.pc = "stopped"]
             ELSE [NextDevice EXCEPT !.pc = "extend",
                     !.left = {Named(XDev, Region("app")), Named(XDev, Region("media"))} \cup @]
        ELSE IF LastOnDrive(media, Len(more))
             THEN [NextDevice EXCEPT !.pc = "extend", !.pairs = more]
             ELSE [add EXCEPT !.pc = "extend", !.pairs = more]

AddSecond ==
    LET size == IF add.plan.mediaFirst THEN add.plan.app ELSE add.plan.media
        name == IF add.plan.mediaFirst THEN Region("app") ELSE Region("media")
        before == IF add.plan.mediaFirst THEN add.first ELSE 0
        t == Validated(XDev)
    IN  /\ add.pc = "second"
        /\ AddTo(XDev, t, size, before, name, "MFS")
        /\ add' = [AfterSecond(Added(t, size, before, name, "MFS").number) EXCEPT
                     !.shifted = @ \cup Shifts(t, size, before)]
        /\ UNCHANGED volumes

-----------------------------------------------------------------------------
(* check_partition_count, the writing of the tables and the adding.        *)

\* The characters of the partition list: "/dev/hdXn" and a space for each.
NameLength(n) == IF n >= 10 THEN 10 ELSE 9
ListLength(vols) ==
    IF vols = <<>> THEN 0
    ELSE SumTo([n \in 0..Len(vols) |->
                   IF n = 0 THEN Len(vols) - 1 ELSE NameLength(vols[n].number)], Len(vols))

CountChecked == ListLength(volumes) + SumTo([n \in 0..Npairs |->
                   IF n = 0 THEN 0 ELSE NameLength(add.pairs[n].number) + 1], Npairs) < 128

\* The drives that hold a pair, in the order they are written.
Changed == SelectSeq(Drives(add.opt), LAMBDA d :
               \E n \in DOMAIN add.pairs : add.pairs[n].dev = d)

CheckCountUnwritten ==
    /\ add.pc = "extend" /\ add.x > Len(add.opt.xdevs)
    /\ Goto(IF CountChecked THEN "pairs" ELSE "stopped")
    /\ UNCHANGED <<volumes>> /\ UNCHANGED ptVars

CheckCount ==
    /\ add.pc = "extend" /\ add.x > Len(add.opt.xdevs)
    /\ add' = IF CountChecked THEN [add EXCEPT !.pc = "write", !.toWrite = Changed]
              ELSE [add EXCEPT !.pc = "stopped"]
    /\ UNCHANGED <<volumes>> /\ UNCHANGED ptVars

\* tivo_partition_table_write for one drive after the other; what it returns is not
\* looked at, so one that fails is followed by the next drive and by the pairs.
BeginTable ==
    /\ add.pc = "write" /\ Idle /\ add.toWrite # <<>>
    /\ LET dev == Head(add.toWrite)
       IN  \/ /\ add' = [add EXCEPT !.toWrite = Tail(@)]
              /\ IF table[dev].dirty THEN WriteBegin(dev) ELSE UNCHANGED ptVars
           \/ /\ add' = [add EXCEPT !.toWrite = Tail(@), !.failed = @ \cup {dev}]
              /\ BootFails(dev)
    /\ UNCHANGED volumes

TableFails ==
    /\ add.pc = "write"
    /\ WriteFails
    /\ add' = [add EXCEPT !.failed = @ \cup {writing.dev}]
    /\ UNCHANGED volumes

TablesWritten ==
    /\ add.pc = "write" /\ Idle /\ add.toWrite = <<>>
    /\ Goto("pairs")
    /\ UNCHANGED <<volumes>> /\ UNCHANGED ptVars

\* What mfs_add_volume_pair asks of the pair: that both partitions are there, room in the
\* list of 128 characters and room for two copies of the map in the app partition.
PairAccepted(app, media) ==
    /\ \A p \in {app, media} : p.number \in Numbers(table[p.dev])
    /\ ListLength(volumes) + NameLength(app.number) + NameLength(media.number) + 3 < 128
    /\ LET parts == table[app.dev].parts
           blocks == VolumeSize(parts[media.number].sectors) \div add.opt.minalloc
       IN  MapSectorsFor(blocks) * 2 + 2 <= VolumeSize(parts[app.number].sectors)

\* One pair goes into the header of the volume set (VolumeSet has the steps of it).
AddPair ==
    LET app == add.pairs[add.done + 1]
        media == add.pairs[add.done + 2]
    IN  /\ add.pc = "pairs" /\ add.done < Npairs
        /\ IF PairAccepted(app, media)
           THEN /\ volumes' = volumes \o <<app, media>>
                /\ add' = [add EXCEPT !.done = @ + 2]
           ELSE /\ Goto("refused") /\ UNCHANGED volumes
        /\ UNCHANGED ptVars

Finish ==
    /\ add.pc = "pairs" /\ add.done = Npairs
    /\ Goto("done")
    /\ UNCHANGED <<volumes>> /\ UNCHANGED ptVars

AddOver == add.pc \in {"off", "dead", "done", "stopped", "refused"}

\* The machine stops; the program is not started again.
Dies ==
    /\ ~AddOver
    /\ Exit
    /\ Goto("dead")
    /\ UNCHANGED volumes

AddStep ==
    \/ Mount \/ CheckGiven \/ InitSecond
    \/ PlanPair \/ AddFirst \/ AddSecond
    \/ CheckCount \/ BeginTable \/ TableFails \/ TablesWritten \/ AddPair \/ Finish \/ Dies
    \/ /\ add.pc = "write" /\ (WriteSector \/ WriteEnd) /\ UNCHANGED addVars

-----------------------------------------------------------------------------
(* Properties.                                                             *)

\* The numbers kept of earlier pairs are still those of the partitions made for them,
\* though every later tivo_partition_add may move entries up or down.  Not so for what
\* lies behind a free partition that a later call uses up to its last sector: the entry is
\* taken out, those behind it move down, and the program only ever reckons with one
\* that moves up (mfsadd.c:216-219, "part2++").
PairsNamed ==
    add.pc \in {"extend", "first", "write", "pairs"} =>
        \A n \in DOMAIN add.pairs :
            LET p == add.pairs[n]
            IN  \/ /\ p.number \in Numbers(table[p.dev])
                   /\ table[p.dev].parts[p.number].name = p.name
                \/ Named(p.dev, p.name) \in add.shifted

\* The new pairs that have to be there for a drive's table to be written.
MadeOn(dev) ==
    \E n \in DOMAIN add.pairs : n > Len(add.opt.given) /\ add.pairs[n].dev = dev

\* The partitions of the turn that broke off on this drive (mfsadd.c:227-230 looks at the
\* numbers when both calls were made).  A turn that follows another on the drive was
\* tested to have two numbers left (260), so it leaves only one without its partner.
BrokenOff(dev) ==
    LET there == {l \in add.left : l.dev = dev /\ \E m \in Numbers(table[dev]) :
                      table[dev].parts[m].name = l.name}
    IN  IF MadeOn(dev) /\ Cardinality(there) = 2 THEN {} ELSE there

\* A table that goes to disk has no MFS partition that is neither in the volume set nor
\* about to be added, but for those of a turn that broke off.
OrphansKnown ==
    add.pc \in {"write", "pairs", "done"} =>
        \A dev \in {add.pairs[n].dev : n \in DOMAIN add.pairs} :
            \A m \in {k \in Numbers(table[dev]) : table[dev].parts[k].type = "MFS"} :
                LET p == Named(dev, table[dev].parts[m].name)
                IN  \/ \E v \in DOMAIN volumes : Named(volumes[v].dev, volumes[v].name) = p
                    \/ \E n \in DOMAIN add.pairs : Named(add.pairs[n].dev, add.pairs[n].name) = p
                    \/ p \in BrokenOff(dev)

\* A pair the program made is not refused when it is added, after the tables are written:
\* check_partition_count left room for it in the list of 128 characters, except for the
\* one length that mfs_add_volume_pair (zonemap.c:942) counts differently, and the numbers
\* are right but for those of PairsNamed.  A pair given by name may be too small.
RefusalsKnown ==
    add.pc = "refused" =>
        LET app == add.pairs[add.done + 1]
            media == add.pairs[add.done + 2]
        IN  \/ add.done < Len(add.opt.given)
            \/ ListLength(volumes) + NameLength(app.number) + NameLength(media.number) + 2 = 127
            \/ \E p \in {app, media} : Named(p.dev, p.name) \in add.shifted

\* What mfsadd leaves in the tables it writes is in the volume set when it is done, with
\* the exceptions of OrphansKnown and RefusalsKnown.
NoOrphan == OrphansKnown /\ RefusalsKnown
=============================================================================
