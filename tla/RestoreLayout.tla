----------------------------- MODULE RestoreLayout -----------------------------
(***************************************************************************)
(* How restore lays out the target drives, src/restore/restore.c: it       *)
(* decides which partitions go on which drive and whether the backup fits  *)
(* (restore_trydev), makes them one after the other (restore_start), and   *)
(* from then on finds every one by the number it was planned to have.      *)
(*                                                                         *)
(* A job is what the header of the backup and the options say; "layout" is *)
(* the program's state.  The partition list of the new volume header is    *)
(* written long after the tables.                                          *)
(***************************************************************************)
EXTENDS MfsAdd, SequencesExt

VARIABLE layout     \* where the program is, the job and the plan

NotRestoring == [pc |-> "off"]
\* "lost" is history for the properties: the devices whose table could not be written.
LayoutInit(job) ==
    [pc |-> "init", job |-> job, x |-> 1, parts |-> <<>>, mfs |-> <<>>,
     secs |-> <<0, 0>>, next |-> 1, lost |-> {}]

Job == layout.job
TargetDev == Drives(Job)[layout.x]
At(pc) == layout.pc = pc
GoOn(pc) == layout' = [layout EXCEPT !.pc = pc]

-----------------------------------------------------------------------------
(* restore_trydev: what has to go on the first drive.                      *)

NewPart(dev, number, sectors) == [dev |-> dev, number |-> number, sectors |-> sectors]

Skips(sectors) == RoundUp(sectors) - sectors
SumSeq(s) == SumTo([n \in 0..Len(s) |-> IF n = 0 THEN 0 ELSE s[n]], Len(s))
SumParts(parts, Size(_)) == SumSeq([n \in DOMAIN parts |-> Size(parts[n])])

\* A backup of less than six partitions holds one of each pair of system partitions
\* (2 and 5, 3 and 6, 4 and 7); the other one gets the same size.
OneOfEach(job) == Len(job.parts) < 6
Alternate(number) == IF number < 5 THEN number + 3 ELSE number - 3
Times(job, p) == IF OneOfEach(job) /\ p.number < 8 THEN 2 ELSE 1

IsDb(job, p) == p.number = 14 /\ job.sqlite
Backed(job, number) == {n \in DOMAIN job.parts : job.parts[n].number = number}
SizeOr(S, job, default) ==
    IF S = {} THEN default ELSE job.parts[CHOOSE n \in S : \A k \in S : k <= n].sectors

SystemSectors(job) ==
    SumParts(job.parts, LAMBDA p : IF p.number < 9 THEN Times(job, p) * p.sectors ELSE 0)

\* More swap for a larger drive, in units of 250 sectors: 15625000 of them are 2000 GB.
SwapSectors(job, secs) ==
    LET MoreThan(units) == (secs - 1) \div 250 >= units
    IN  IF job.swapsize # 0 THEN job.swapsize
        ELSE IF job.series1 /\ MoreThan(3906250) THEN 262144
        ELSE IF MoreThan(15625000) THEN 2097152
        ELSE IF MoreThan(7812500) THEN 1048576
        ELSE IF MoreThan(3906250) THEN 524288
        ELSE IF MoreThan(1953125) THEN 262144
        ELSE 131072

Given(job, number, asked, default) ==
    LET size == SizeOr(Backed(job, number), job, asked)
    IN  IF size = 0 /\ SystemSectors(job) > 0 THEN default ELSE size
VarSectors(job) == Given(job, 9, job.varsize, 1572864)
DbSectors(job) == Given(job, IF job.sqlite THEN 14 ELSE 0, job.dbsize, 6291456)

\* "Varsize in backup mis-matches requested varsize"
Mismatch(job, number, asked) ==
    \E n \in Backed(job, number) : asked # 0 /\ asked # job.parts[n].sectors
SizesAgree(job) ==
    /\ ~Mismatch(job, 9, job.varsize)
    /\ job.sqlite => ~Mismatch(job, 14, job.dbsize)

OtherSectors(job) ==
    SumParts(job.parts, LAMBDA p : IF p.number > 9 /\ ~IsDb(job, p) THEN p.sectors ELSE 0)
      + IF job.sqlite THEN DbSectors(job) ELSE 0

SkippedSectors(job, secs) ==
    SumParts(job.parts, LAMBDA p : Times(job, p) * Skips(p.sectors))
      + Skips(SwapSectors(job, secs)) + Skips(VarSectors(job)) + 2 * Skips(job.mfs[1])

MinMedia == 4096
MinSectors(job, secs) ==
    SystemSectors(job) + OtherSectors(job) + SkippedSectors(job, secs)
      + SwapSectors(job, secs) + VarSectors(job) + job.mfs[1]
      + IF job.v3 THEN job.mfs[1] ELSE job.mfs[2]

\* What a drive has to offer, from its free sectors.
Honoured(job, free, carve) ==
    LET most == IF job.maxdisk # 0 /\ free + MapSectors + 1 > job.maxdisk
                THEN job.maxdisk - MapSectors - 1 ELSE free
    IN  IF carve > 0 /\ carve < most THEN most - carve ELSE most

Needed(job, secs1) ==
    MinSectors(job, secs1)
      + IF job.v3 THEN job.mediasectors + MinMedia
        ELSE SumSeq([n \in 1..(Len(job.mfs) - 2) |-> job.mfs[n + 2]])

-----------------------------------------------------------------------------
(* The partitions that are no part of the volume set.                      *)

SystemSize(job, number) ==
    SizeOr({n \in DOMAIN job.parts :
               \/ job.parts[n].number = number
               \/ OneOfEach(job) /\ job.parts[n].number < 8
                     /\ Alternate(job.parts[n].number) = number},
           job, IF number \in {4, 7} THEN 262144 ELSE 4096)

SystemParts(job, dev, secs) ==
    [n \in 1..6 |-> NewPart(dev, n + 1, SystemSize(job, n + 1))]
      \o <<NewPart(dev, 8, SizeOr(Backed(job, 8), job, SwapSectors(job, secs))),
           NewPart(dev, 9, VarSectors(job))>>
      \o (IF job.sqlite THEN <<NewPart(dev, 14, DbSectors(job))>> ELSE <<>>)
      \o LET others == SelectSeq(job.parts, LAMBDA p : p.number > 9 /\ ~IsDb(job, p))
         IN  [n \in DOMAIN others |-> NewPart(dev, others[n].number, others[n].sectors)]

\* A plan: all partitions in the order they are made, and those of the volume set.
Plan(parts, mfs) == [parts |-> parts \o mfs, mfs |-> mfs]

Even8(n) == RoundDown(n)
AtMost(limit, n) == IF limit # 0 THEN Min2(limit, n) ELSE n

\* Version 3: one pair, or two that share what is left, on the first drive, and one pair
\* that fills the second.
LayoutV3(job, secs1, secs2) ==
    LET a == Drives(job)[1]
        b == Drives(job)[2]
        left == secs1 - MinSectors(job, secs1)
        media1 == AtMost(job.maxmedia, Even8(left \div 2))
        media2 == AtMost(job.maxmedia, Even8(left - media1))
        onA == IF Len(job.mfs) = 2
               THEN <<NewPart(a, 10, job.mfs[1]), NewPart(a, 11, AtMost(job.maxmedia, left))>>
               ELSE <<NewPart(a, 10, job.mfs[1]), NewPart(a, 11, media1),
                      NewPart(a, 12, job.mfs[1]), NewPart(a, 13, media2)>>
        onB == IF secs2 = 0 THEN <<>>
               ELSE <<NewPart(b, 2, 2048), NewPart(b, 3, secs2 - 2048)>>
    IN  Plan(SystemParts(job, a, secs1), onA \o onB)

FitsV3(job, secs1, secs2) ==
    Needed(job, secs1) <= IF secs2 = 0 THEN secs1 ELSE secs1 + secs2 - 2048

\* Version 1 on one drive: the numbers the system partitions leave, and the third size
\* replaced by the first.
UsedNumbers(job) == {job.parts[n].number : n \in DOMAIN job.parts}
NextNumber(job, n) ==
    CHOOSE k \in n..(n + 16) : k \notin UsedNumbers(job) /\ \A i \in n..(k - 1) : i \in UsedNumbers(job)

FitsOneDrive(job, secs1) ==
    /\ Needed(job, secs1) <= secs1
    /\ Len(job.mfs) <= IF job.nofill THEN 4 ELSE 6

LayoutOneDrive(job, secs1) ==
    LET a == Drives(job)[1]
        number[n \in 1..Len(job.mfs)] ==
            IF n = 1 THEN NextNumber(job, 10) ELSE NextNumber(job, number[n - 1] + 1)
    IN  Plan(SystemParts(job, a, secs1),
             [n \in DOMAIN job.mfs |-> NewPart(a, number[n], job.mfs[IF n = 3 THEN 1 ELSE n])])

-----------------------------------------------------------------------------
(* find_optimal_partitions: version 1 on two drives.                       *)

\* An order is a number with a bit for every pair but the first: 1 for the first drive.
Pairs(job) == Len(job.mfs) \div 2
Orders(job) == 0..(2 ^ (Pairs(job) - 1) - 1)
OnA(job, order) == {k \in 2..Pairs(job) : (order \div 2 ^ (Pairs(job) - k)) % 2 = 1}
OnB(job, order) == (2..Pairs(job)) \ OnA(job, order)

\* Every application partition on the first drive is made as large as the first one.
FreeOnA(job, order, secs1) ==
    secs1 - MinSectors(job, secs1)
      - SumSeq([k \in 1..Pairs(job) |->
                  IF k \in OnA(job, order) THEN job.mfs[1] + job.mfs[2 * k] ELSE 0])

\* The free space is an unsigned number: where the first drive is too small for the order
\* it is out of range of the comparison with the best so far, but the one on the second
\* drive is compared with 0 alone, which it never is below.
Max1(job, order) == 11 + 2 * Cardinality(OnA(job, order))
Max2(job, order) == 1 + 2 * Cardinality(OnB(job, order))
Distance(m, n) == IF m > n THEN m - n ELSE n - m
LeftBy(job, order, secs1) ==
    IF job.balance THEN Distance(secs1 \div 2, FreeOnA(job, order, secs1))
    ELSE FreeOnA(job, order, secs1)

OrderAllowed(job, order, secs1, secs2) ==
    /\ Max1(job, order) < (IF job.nofill THEN 14 ELSE 16)
    /\ Max2(job, order) < (IF job.nofill THEN 14 ELSE 16)
    /\ (Max1(job, order) - 9) * 11 + (Max2(job, order) - 1) * 10 < 128
    /\ FreeOnA(job, order, secs1) >= 0
    /\ LeftBy(job, order, secs1) <=
           IF job.balance THEN secs1 ELSE secs1 - MinSectors(job, secs1)

\* The allowed order that leaves the least, the last one of those.
FitsTwoDrives(job, secs1, secs2) ==
    \E order \in Orders(job) : OrderAllowed(job, order, secs1, secs2)
BestOrder(job, secs1, secs2) ==
    LET ok == {o \in Orders(job) : OrderAllowed(job, o, secs1, secs2)}
    IN  CHOOSE o \in ok : \A p \in ok :
            \/ LeftBy(job, o, secs1) < LeftBy(job, p, secs1)
            \/ LeftBy(job, o, secs1) = LeftBy(job, p, secs1) /\ o >= p

\* The array of new partitions as restore_trydev set it up, of as many slots as there are
\* system and MFS partitions, the ones behind the first pair empty; the other pairs are
\* put in from the slot with index 10 on.  That is behind the first pair only with
\* eight partitions before it: with SQLite or another partition the first pair's
\* place is taken, and the last slots stay empty.
EmptySlot(dev) == NewPart(dev, 0, 0)
Slots(first, others, dev) ==
    [n \in 1..(Len(first) + Len(others)) |->
        IF n \in 11..(10 + Len(others)) THEN others[n - 10]
        ELSE IF n <= Len(first) THEN first[n] ELSE EmptySlot(dev)]

LayoutTwoDrives(job, secs1, order) ==
    LET a == Drives(job)[1]
        b == Drives(job)[2]
        numberA[k \in 2..Pairs(job)] ==
            LET before == {i \in OnA(job, order) : i < k}
            IN  IF before = {} THEN 12
                ELSE NextNumber(job, 2 + numberA[CHOOSE i \in before : \A j \in before : j <= i])
        numberB(k) == 2 + 2 * Cardinality({i \in OnB(job, order) : i < k})
        first(k) == IF k \in OnA(job, order) THEN NewPart(a, numberA[k], job.mfs[1])
                    ELSE NewPart(b, numberB(k), job.mfs[2 * k - 1])
        PairAt(k) == IF k = 1 THEN <<NewPart(a, 10, job.mfs[1]), NewPart(a, 11, job.mfs[2])>>
                     ELSE <<first(k), [first(k) EXCEPT !.number = @ + 1, !.sectors = job.mfs[2 * k]]>>
        mfs == [n \in DOMAIN job.mfs |-> PairAt((n + 1) \div 2)[IF n % 2 = 1 THEN 1 ELSE 2]]
        On(dev) == SelectSeq(Tail(Tail(mfs)), LAMBDA p : p.dev = dev)
    IN  [parts |-> Slots(SystemParts(job, a, secs1) \o PairAt(1), On(a) \o On(b), a),
         mfs |-> mfs]

-----------------------------------------------------------------------------
(* build_partition_table: the order the partitions are made in.            *)

MoveTo(list, from, to) == InsertAt(RemoveAt(list, from), to, list[from])

\* One turn of the walk that brings kernels and media partitions to the front until it
\* comes to the middle of the drive.
BalanceTurn(st, n, dev, job, half) ==
    LET p == st.list[n]
        list == IF job.kopt /\ p.number = 3 THEN MoveTo(st.list, n, 1)
                ELSE IF job.kopt /\ p.number = 6 THEN MoveTo(st.list, n, 2)
                ELSE st.list
        media == list[n]
        end == st.at + media.sectors
        enough == IF job.v3 THEN media.number # 11
                  ELSE end > half /\ end - half > half - st.at
    IN  IF st.stop \/ st.at >= half THEN [st EXCEPT !.stop = TRUE]
        ELSE IF ~(media.dev = dev /\ media.number > 10 /\ media.number % 2 = 1)
        THEN [st EXCEPT !.list = list]
        ELSE IF enough THEN [st EXCEPT !.list = list, !.stop = TRUE]
        ELSE [list |-> MoveTo(list, n, IF job.kopt THEN 3 ELSE 1), at |-> end, stop |-> FALSE]

Balanced(parts, dev, job, secs) ==
    IF ~job.balance THEN parts
    ELSE FoldLeft(LAMBDA st, n : BalanceTurn(st, n, dev, job, secs \div 2),
                  [list |-> parts, at |-> MapSectors + 1, stop |-> FALSE],
                  [n \in DOMAIN parts |-> n]).list

PlaceAsMade(parts, n) == 2 + Cardinality({m \in 1..(n - 1) : parts[m].dev = parts[n].dev})

\* The place in the table so that the partitions made so far are in the order of their
\* numbers.  An empty slot is asked for at the end: what the walk finds below the first
\* element of its array either sends it there or ends the program.
PlaceFor(parts, n) ==
    IF parts[n].number = 0 THEN 0
    ELSE 2 + Cardinality({m \in 1..(n - 1) : parts[m].dev = parts[n].dev
                                           /\ parts[m].number < parts[n].number})

PartName(p) == <<"part", p.number>>
PartType(p) ==
    IF p.number = 0 THEN ""
    ELSE IF p.dev = Drives(Job)[2] \/ (p.number > 9 /\ ~(p.number = 14 /\ Job.sqlite))
    THEN "MFS" ELSE "system"
MfsName(n) == <<"mfs", n>>

-----------------------------------------------------------------------------
(* The program.                                                            *)

LayoutUnchanged == UNCHANGED addVars

InitTarget ==
    /\ At("init") /\ GoOn("measure")
    /\ TableInit(TargetDev)
    /\ LayoutUnchanged

\* A second drive is one of size 0 when there is none.
MeasureTarget ==
    LET carve == IF layout.x = 1 THEN Job.carveA ELSE Job.carveB
        secs == Honoured(Job, TotalFree(Validated(TargetDev)), carve)
        more == layout.x < 2 /\ disk[Drives(Job)[2]].size > 0
    IN  /\ At("measure")
        /\ Measure(TargetDev)
        /\ layout' = [layout EXCEPT !.secs[layout.x] = secs,
                        !.pc = IF more THEN "init" ELSE "plan",
                        !.x = IF more THEN 2 ELSE 1]
        /\ LayoutUnchanged

\* "First target drive too small"; -c -1 then uses no more than the least of it.
Secs1 == IF Job.carveA = -1 THEN MinSectors(Job, layout.secs[1]) + MinMedia ELSE layout.secs[1]
NoPlan == Plan(<<>>, <<>>)
Planned(job, secs1, secs2) ==
    IF job.v3 THEN {IF FitsV3(job, secs1, secs2) THEN LayoutV3(job, secs1, secs2) ELSE NoPlan}
    ELSE IF FitsOneDrive(job, secs1) THEN {LayoutOneDrive(job, secs1)}
    ELSE IF secs2 > 0 /\ FitsTwoDrives(job, secs1, secs2)
    THEN {LayoutTwoDrives(job, secs1, order) : order \in {BestOrder(job, secs1, secs2)}}
    ELSE {NoPlan}

FirstTooSmall ==
    ~SizesAgree(Job) \/ MinSectors(Job, layout.secs[1]) + MinMedia > layout.secs[1]

TryDev ==
    /\ At("plan")
    /\ \E job \in {Job}, secs1 \in {Secs1} :
           \E plan \in IF FirstTooSmall THEN {NoPlan} ELSE Planned(job, secs1, layout.secs[2]) :
               layout' = [layout EXCEPT !.parts = plan.parts, !.mfs = plan.mfs, !.secs[1] = secs1,
                            !.pc = IF plan.parts = <<>> THEN "refused" ELSE "start"]
    /\ UNCHANGED ptVars /\ LayoutUnchanged

\* The devices a plan uses.
Targets == {layout.parts[n].dev : n \in DOMAIN layout.parts}

StartDevice ==
    /\ At("start")
    /\ layout' = [layout EXCEPT !.pc = "make", !.next = 1,
                    !.parts = Balanced(@, TargetDev, Job, layout.secs[layout.x])]
    /\ UNCHANGED ptVars /\ LayoutUnchanged

\* tivo_partition_add for the next partition of the device; the result is not looked at.
MakePart ==
    LET p == layout.parts[layout.next]
    IN  /\ At("make") /\ layout.next <= Len(layout.parts)
        /\ layout' = [layout EXCEPT !.next = @ + 1]
        /\ IF p.dev = TargetDev
           THEN AddTo(p.dev, Validated(p.dev), p.sectors, PlaceFor(layout.parts, layout.next),
                      PartName(p), PartType(p))
           ELSE UNCHANGED ptVars
        /\ LayoutUnchanged

PartsMade ==
    /\ At("make") /\ layout.next > Len(layout.parts)
    /\ layout' = [layout EXCEPT !.pc = "rename", !.next = 1]
    /\ UNCHANGED ptVars /\ LayoutUnchanged

NameMfs ==
    LET p == layout.mfs[layout.next]
    IN  /\ At("rename") /\ layout.next <= Len(layout.mfs)
        /\ layout' = [layout EXCEPT !.next = @ + 1]
        /\ IF p.dev = TargetDev /\ p.number \in Numbers(ReadTable(p.dev))
           THEN Rename(p.dev, p.number, MfsName(layout.next))
           ELSE UNCHANGED ptVars
        /\ LayoutUnchanged

\* tivo_partition_table_write; what it returns is not looked at.
BeginWrite ==
    /\ At("rename") /\ layout.next > Len(layout.mfs)
    /\ \/ /\ GoOn("table")
          /\ IF table[TargetDev].dirty THEN WriteBegin(TargetDev) ELSE UNCHANGED ptVars
       \/ /\ layout' = [layout EXCEPT !.pc = "table", !.lost = @ \cup {TargetDev}]
          /\ BootFails(TargetDev)
    /\ LayoutUnchanged

TargetFails ==
    /\ At("table")
    /\ WriteFails
    /\ layout' = [layout EXCEPT !.lost = @ \cup {writing.dev}]
    /\ LayoutUnchanged

\* The next device, or on to the data.
DeviceDone ==
    /\ At("table") /\ Idle
    /\ layout' = IF layout.x < 2 /\ Drives(Job)[2] \in Targets
                 THEN [layout EXCEPT !.pc = "start", !.x = 2]
                 ELSE [layout EXCEPT !.pc = "header"]
    /\ UNCHANGED ptVars /\ LayoutUnchanged

\* The partition list of the new volume header: restore_fixup_vol_list and its like.
WriteHeaderList ==
    /\ At("header")
    /\ volumes' = [n \in DOMAIN layout.mfs |->
                      [dev |-> layout.mfs[n].dev, number |-> layout.mfs[n].number,
                       name |-> MfsName(n)]]
    /\ GoOn("clean")
    /\ UNCHANGED add /\ UNCHANGED ptVars

\* The system partitions the backup does not hold are overwritten by their numbers, and
\* the one for swap is opened to be initialised.
ToClean == (2..9) \ UsedNumbers(Job)
CleanUp ==
    /\ At("clean")
    /\ GoOn(IF ToClean \cup {8} \subseteq Numbers(table[Drives(Job)[1]]) THEN "done" ELSE "failed")
    /\ UNCHANGED ptVars /\ LayoutUnchanged

LayoutOver == layout.pc \in {"off", "dead", "done", "refused", "failed"}

RestoreDies ==
    /\ ~LayoutOver
    /\ Exit /\ GoOn("dead")
    /\ LayoutUnchanged

LayoutStep ==
    \/ InitTarget \/ MeasureTarget \/ TryDev \/ StartDevice
    \/ MakePart \/ PartsMade \/ NameMfs \/ BeginWrite \/ TargetFails \/ DeviceDone
    \/ WriteHeaderList \/ CleanUp \/ RestoreDies
    \/ /\ At("table") /\ (WriteSector \/ WriteEnd) /\ UNCHANGED layout /\ LayoutUnchanged

-----------------------------------------------------------------------------
(* Properties.                                                             *)

\* A backup of version 1 for two drives with more than the eight partitions in front of
\* the first MFS pair: find_optimal_partitions writes over what is in slot 10
\* (restore.c:722 "count = 10").
Overwritten(lay) ==
    /\ ~lay.job.v3
    /\ \E n \in DOMAIN lay.mfs : lay.mfs[n].dev = Drives(lay.job)[2]
    /\ Len(SystemParts(lay.job, Drives(lay.job)[1], 0)) > 8

\* When the data is about to be written, every partition that was planned is on its drive
\* under the number and with the sectors that were planned, though each was put at a place
\* of the table that the later ones moved.  Not so on a drive whose table could not be
\* written, which restore does not notice, nor behind the first nine partitions of the
\* first drive where the first MFS pair was overwritten.
LayoutAsPlanned ==
    layout.pc \in {"header", "clean", "done"} =>
        \A n \in DOMAIN layout.parts :
            LET p == layout.parts[n]
                found == PartsOn(disk[p.dev])
                mfs == {k \in DOMAIN layout.mfs : layout.mfs[k].dev = p.dev
                                                    /\ layout.mfs[k].number = p.number}
            IN  \/ p.dev \in layout.lost
                \/ Overwritten(layout) /\ p.dev = Drives(Job)[1] /\ p.number \notin 1..9
                \/ /\ p.number \in DOMAIN found
                   /\ found[p.number].sectors = p.sectors
                   /\ found[p.number].type = PartType(p)
                   /\ found[p.number].name \in
                          IF mfs = {} THEN {PartName(p)} ELSE {MfsName(k) : k \in mfs}

\* What restore_trydev accepts fits: the partitions planned for a drive are no larger than
\* what it has (restore.c:781 "Test a device to see if the MFS will fit on it.").
AcceptedFits ==
    layout.pc = "start" =>
        \A x \in 1..2 :
            SumParts(layout.parts, LAMBDA p : IF p.dev = Drives(Job)[x] THEN p.sectors ELSE 0)
                <= layout.secs[x]
=============================================================================
