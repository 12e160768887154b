--------------------------- MODULE PartitionPrograms ---------------------------
(***************************************************************************)
(* The programs that change partition tables, each over the tables of      *)
(* PartitionTable: any client of the library, calling in any order,        *)
(* mfsadd, and restore.  Which one runs, and on which drives, is chosen in *)
(* the initial state.                                                      *)
(***************************************************************************)
EXTENDS RestoreLayout

CONSTANTS
    ClientDrives,   \* drives a client of the library may find
    ClientSizes,    \* the sizes it asks for
    MaxAdds,        \* the partitions it makes
    AddJobs,        \* the drives, volume set and options mfsadd is started with
    RestoreJobs     \* the drives, backup and options restore is started with

\* The first sector of a map says how many entries there are.  The volume set mfsadd is
\* started with could be opened, so its partitions are there and of the right type.
ASSUME ProgramsOK ==
    /\ 1 \in Handles
    /\ \A drives \in ClientDrives \cup {job.disk : job \in AddJobs \cup RestoreJobs} :
           /\ drives = [dev \in Devices |-> drives[dev]]
           /\ \A dev \in Devices :
                  LET d == drives[dev]
                  IN  /\ d = [boot |-> d.boot, size |-> d.size, map |-> d.map]
                      /\ 1 \in DOMAIN d.map /\ d.map[1].count \in Nat
    /\ \A job \in AddJobs :
           /\ job.opt.xdevs \in Seq(Devices)
           /\ \A v \in DOMAIN job.volumes :
                  LET vol == job.volumes[v]
                      parts == PartsOn(job.disk[vol.dev])
                  IN  /\ v \in Handles \cap Nat
                      /\ vol.dev \in Devices
                      /\ parts # <<>> /\ Len(parts) <= parts[1].sectors
                      /\ vol.number \in DOMAIN parts /\ parts[vol.number].type = "MFS"

\* The map of a drive has as many sectors as its first entry says, and no free partition
\* is empty: the search for space would go over such a one for ever.
DriveSound(d) ==
    /\ d.size \in Nat
    /\ d.map = [n \in DOMAIN d.map |-> d.map[n]]
    /\ \A n \in DOMAIN d.map : d.map[n] # Blank =>
           /\ d.map[n].start \in Nat /\ d.map[n].sectors \in Nat
           /\ d.map[n].type = "free" => d.map[n].sectors # 0
    /\ d.map[1] # Blank => 1..d.map[1].sectors \subseteq DOMAIN d.map

NewFits(d) == 1..MapSectors \subseteq DOMAIN d.map

\* Where a program starts a new table there is room for its map.  A restore has two drives,
\* or one: then the second has no size, and nothing on it.
ASSUME DrivesSound ==
    /\ \A drives \in ClientDrives, dev \in Devices :
           DriveSound(drives[dev]) /\ (drives[dev].boot \/ NewFits(drives[dev]))
    /\ \A job \in AddJobs \cup RestoreJobs, dev \in Devices :
           DriveSound(job.disk[dev]) /\ NewFits(job.disk[dev])
    /\ \A job \in RestoreJobs :
           /\ {job.drives[1], job.drives[2]} \subseteq Devices /\ job.drives[1] # job.drives[2]
           /\ job.disk[job.drives[2]].size = 0 => ~job.disk[job.drives[2]].boot

VARIABLES
    made,       \* how many partitions the client of the library made; -1: no client runs
    cut         \* the devices whose last write by the client stopped half way

vars == <<disk, table, open, writing, add, volumes, layout, made, cut>>

Fresh ==
    /\ table = [d \in Devices |-> NoTable]
    /\ open = [h \in Handles |-> Closed]
    /\ writing = NoWrite
    /\ cut = {}

ClientInit ==
    /\ made = 0
    /\ disk \in ClientDrives
    /\ add = NotAdding /\ volumes = <<>> /\ layout = NotRestoring

AddProgramInit ==
    /\ made = -1
    /\ \E job \in AddJobs :
           /\ disk = job.disk
           /\ volumes = job.volumes
           /\ add = AddInit(job.opt)
    /\ layout = NotRestoring

RestoreInit ==
    /\ made = -1
    /\ \E job \in RestoreJobs :
           /\ disk = job.disk
           /\ layout = LayoutInit(job)
    /\ add = NotAdding /\ volumes = <<>>

Init == Fresh /\ (ClientInit \/ AddProgramInit \/ RestoreInit)

-----------------------------------------------------------------------------
(* A client of the library: one handle, any call at any time.              *)

Client(Call) == made >= 0 /\ Call /\ UNCHANGED <<add, volumes, layout, made, cut>>

ClientWriteFails ==
    /\ made >= 0 /\ WriteFails
    /\ cut' = cut \cup {writing.dev}
    /\ UNCHANGED <<add, volumes, layout, made>>

ClientWriteEnd ==
    /\ made >= 0 /\ WriteEnd
    /\ cut' = cut \ {writing.dev}
    /\ UNCHANGED <<add, volumes, layout, made>>

\* What a client finds that starts over on a map written half way is not followed: an
\* entry put before others may have overwritten one that was still to be written.
ClientExit ==
    /\ made >= 0 /\ Exit
    /\ made' = IF cut = {} /\ Idle THEN made ELSE -1
    /\ UNCHANGED <<add, volumes, layout, cut>>

ClientAdd(dev) ==
    /\ made \in 0..(MaxAdds - 1)
    /\ Idle /\ ReadTable(dev) # NoTable
    /\ \E size \in ClientSizes, before \in 0..(Len(ReadTable(dev).parts) + 1) :
           AddTo(dev, Validated(dev), size, before, <<"new", made>>, "MFS")
    /\ made' = made + 1
    /\ UNCHANGED <<add, volumes, layout, cut>>

ClientStep ==
    \/ \E dev \in Devices :
           \/ ClientAdd(dev)
           \/ Client(Measure(dev)) \/ Client(Reread(dev) /\ dev \notin cut)
           \/ Client(WriteBegin(dev)) \/ Client(BootFails(dev))
           \/ Client(TableInit(dev) /\ ~disk[dev].boot /\ disk[dev].size > 0)
           \/ \E n \in 2..MapSectors : Client(Open(1, dev, n) /\ ~IsFree(ReadTable(dev), n))
    \/ Client(Close(1))
    \/ Client(WriteSector) \/ ClientWriteEnd
    \/ ClientWriteFails \/ ClientExit

AddProgram == made = -1 /\ add.pc # "off" /\ AddStep /\ UNCHANGED <<layout, made, cut>>

RestoreProgram == made = -1 /\ layout.pc # "off" /\ LayoutStep /\ UNCHANGED <<made, cut>>

Stopped == made = -1 /\ AddOver /\ LayoutOver /\ UNCHANGED vars

Next == ClientStep \/ AddProgram \/ RestoreProgram \/ Stopped

Spec == Init /\ [][Next]_vars

-----------------------------------------------------------------------------
(* Properties of the tables, whatever program runs.                        *)

\* A handle reads and writes the sectors it was opened on for as long as it is open: a
\* call that makes a partition moves no entry a handle points to
\* (macpart.c:799: "Make sure no partitions that are currently being used are affected").
InUseUntouched ==
    \A h \in Handles : open[h] # Closed =>
        LET p == table[open[h].dev].parts[open[h].number]
        IN  [start |-> p.start, sectors |-> p.sectors] = open[h].at

\* A table with nothing left to write is the one the next reader finds, but for the free
\* space validation adds at the end, after any number of writes that failed half way.
WrittenIsRead ==
    \A d \in Devices :
        LET t == table[d]
            found == PartsOn(disk[d])
        IN  (t # NoTable /\ ~t.dirty /\ ~t.noninit /\ disk[d].boot) =>
                /\ Len(t.parts) \in {Len(found), Len(found) + 1}
                /\ Len(t.parts) > Len(found) => IsFree(t, Len(t.parts))
                /\ \A n \in DOMAIN found :
                       [t.parts[n] EXCEPT !.refs = 1] = found[n]

Free(t) == {n \in Numbers(t) : IsFree(t, n)}
Apart(p, q) == EndOf(p) <= q.start \/ EndOf(q) <= p.start
Pieces(t) == {n \in Numbers(t) : t.parts[n].sectors > 0}

\* No sector of the device is in two entries, and no entry goes beyond its end.
Divides(t) ==
    \A n \in Pieces(t) :
        /\ EndOf(t.parts[n]) <= t.devsize
        /\ \A m \in Pieces(t) \ {n} : Apart(t.parts[m], t.parts[n])

\* Its entries follow one another from sector 1 on.
NoGaps(t) ==
    \A n \in Pieces(t) :
        \/ t.parts[n].start = 1
        \/ \E m \in Pieces(t) : EndOf(t.parts[m]) = t.parts[n].start

\* The entries of u that were made since v.
New(v, u) ==
    {n \in Numbers(u) : ~IsFree(u, n) /\ \A m \in Numbers(v) \ Free(v) :
                             v.parts[m].name # u.parts[n].name}

\* How many sectors a new partition p skips to be aligned: its start is that of a free
\* entry, rounded up.
Skipped(v, p) ==
    {p.start - v.parts[f].start : f \in {n \in Free(v) : RoundUp(v.parts[n].start) = p.start}}

\* Entry k of v is in u no more, not even in part.
TakenOut(v, u, k) ==
    \A n \in Numbers(u) : EndOf(u.parts[n]) # EndOf(v.parts[k]) \/ u.parts[n].name # v.parts[k].name

\* The entry q of v keeps its sectors though the new partition p has some of them.
Shared(v, u, p, q) ==
    \E k \in 2..Len(v.parts) :
        /\ q = v.parts[k]
        /\ \/ IsFree(v, k) /\ TakenOut(v, u, k - 1)
           \/ /\ k < StartPart(v) \/ TakenOut(v, u, k - 1)
              /\ \E skip \in Skipped(v, p) : EndOf(p) - q.start <= skip \/ q.sectors <= skip

\* What validation makes of a table that covers a device without a gap divides the device,
\* and so does what any call makes of one that does, but for two things that
\* tivo_partition_add does.  It measures the free space a partition needs from the
\* rounded start (macpart.c:840), so where free space starts at no multiple of eight a new
\* partition may end behind it, by no more than the sectors it skipped: behind the end of
\* the device when nothing else is there.  And the loop that takes out what is in the way
\* (891-911) begins behind the entries in use and passes over the one behind each it took
\* out: free space that is used up may so stay in the table, and so may a partition that
\* the new one runs into.  In no other way are sectors in two entries, and none but the
\* skipped ones drop out of all.
Tiled ==
    [][\A d \in Devices :
        LET t == ReadTable(d)
            v == Validated(d)
            u == table'[d]
        IN  (u \notin {NoTable, table[d], NewTable(disk[d].size)} /\ t # NoTable) =>
            /\ (Divides(t) /\ NoGaps(t)) => Divides(v)
            /\ (v.valid /\ Divides(v) /\ u.valid) =>
                /\ \A n \in Pieces(u) :
                    LET p == u.parts[n]
                    IN  /\ \/ EndOf(p) <= u.devsize
                           \/ n \in New(v, u) /\ \E skip \in Skipped(v, p) :
                                  EndOf(p) <= u.devsize + skip
                        /\ \A m \in Pieces(u) \ {n} :
                            \/ Apart(p, u.parts[m])
                            \/ n \in New(v, u) /\ Shared(v, u, p, u.parts[m])
                            \/ m \in New(v, u) /\ Shared(v, u, u.parts[m], p)
                /\ SumOf(u, Numbers(u)) > SumOf(v, Numbers(v)) - Align]_vars

\* No call moves, shrinks or drops a partition that holds data, as long as no sector is in
\* two entries, but for the one that starts the table of a new device.  The exception is
\* the new partition of Tiled that ends behind the free space it was put in.  The one it
\* runs into begins behind it from then on and loses less than eight sectors that way, only
\* at its front; one that has no more than were skipped is dropped.
DataStays ==
    [][\A d \in Devices :
        LET v == Validated(d)
            u == table'[d]
        IN  (u \notin {NoTable, table[d], NewTable(disk[d].size)} /\ v # NoTable /\ Divides(v)) =>
            \A n \in Numbers(v) \ Free(v) :
                LET q == v.parts[n]
                    same(m) == u.parts[m].type = q.type /\ EndOf(u.parts[m]) = EndOf(q)
                IN  \/ \E m \in Numbers(u) : same(m) /\ u.parts[m].start = q.start
                    \/ \E k \in New(v, u) : \E skip \in Skipped(v, u.parts[k]) :
                          LET end == EndOf(u.parts[k])
                          IN  \/ /\ q.start < end /\ end - q.start <= skip
                                 /\ \E m \in Numbers(u) : same(m) /\ u.parts[m].start = end
                              \/ EndOf(q) <= end /\ q.sectors \in 1..skip]_vars

\* At any moment, also half way through a table's write or after a crash, every partition
\* the header of the volume set names is found on its device under that number: the old
\* ones because the table keeps their places, the new ones because the header comes last
\* (mfsadd_main: tivo_partition_table_write before mfs_add_volume_pair).  What a write
\* returns is not looked at (mfsadd.c:658-661, restore.c:1560), so new ones may be missing
\* from a drive whose write failed; the old ones are found there too.  The other new ones
\* that may be missing are those of PairsNamed and LayoutAsPlanned.
VolumesFound ==
    \A v \in DOMAIN volumes :
        LET vol == volumes[v]
            parts == PartsOn(disk[vol.dev])
            added == IF add.pc = "off" THEN 0 ELSE add.done
        IN  \/ /\ vol.number \in DOMAIN parts
               /\ parts[vol.number].name = vol.name
               /\ parts[vol.number].type = "MFS"
            \/ /\ add.pc # "off" /\ v > Len(volumes) - added
               /\ vol.dev \in add.failed \/ Named(vol.dev, vol.name) \in add.shifted
            \/ /\ layout.pc # "off"
               /\ \/ vol.dev \in layout.lost
                  \/ Overwritten(layout) /\ vol.dev = Drives(Job)[1] /\ vol.number > 10
=============================================================================
