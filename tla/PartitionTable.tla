---------------------------- MODULE PartitionTable ----------------------------
(***************************************************************************)
(* The partition tables of the devices a program has open and the sectors  *)
(* they are kept in, src/lib/macpart.c: the cache of tables, the handles   *)
(* to partitions, and the write of a table that may stop half way.         *)
(*                                                                         *)
(* A table is read once and cached; every call works on the cached copy    *)
(* until tivo_partition_table_write puts it on disk entry by entry.  A     *)
(* handle keeps the address of its entry, so what it reads and writes is   *)
(* decided by what stands at that place of the array now.                  *)
(***************************************************************************)
EXTENDS MacPart

CONSTANTS
    Devices,
    Handles         \* the handles a program may hold

ASSUME HandlesOK == IsFiniteSet(Handles)

VARIABLES
    disk,       \* per device: its size, the boot sector's magic and the sectors of the map
    table,      \* per device: the cached table, or NoTable
    open,       \* per handle: the partition it was opened on, or Closed
    writing     \* the write in progress: device and next sector, or NoWrite

ptVars == <<disk, table, open, writing>>

NoTable == <<>>
Closed == <<>>
NoWrite == <<>>

-----------------------------------------------------------------------------
(* The sectors.                                                            *)

\* A sector of the map: a partition and how many there are, or one without the magic.
Blank == [count |-> 0]
MapSector(t, n) ==
    IF n > Len(t.parts) THEN Blank
    ELSE [count |-> Len(t.parts), start |-> t.parts[n].start,
          sectors |-> t.parts[n].sectors, name |-> t.parts[n].name,
          type |-> t.parts[n].type]

Image(t) == [boot |-> TRUE, size |-> t.devsize, map |-> [n \in 1..Room(t) |-> MapSector(t, n)]]
BlankDevice(size) == [boot |-> FALSE, size |-> size, map |-> [n \in 1..MapSectors |-> Blank]]

\* How many entries are read: as many as the first one says, up to one without the magic.
EntriesRead(d) ==
    IF ~d.boot THEN 0
    ELSE CHOOSE n \in 0..d.map[1].count :
             /\ \A m \in 1..n : d.map[m] # Blank
             /\ n = d.map[1].count \/ d.map[n + 1] = Blank

PartsOn(d) == [n \in 1..EntriesRead(d) |->
    Entry(d.map[n].start, d.map[n].sectors, d.map[n].name, d.map[n].type)]

\* tivo_read_partition_table: the cached table, else what is on the device.  "If it doesn't
\* make sense", with more partitions than the map has sectors, there is none.
ReadTable(dev) ==
    LET parts == PartsOn(disk[dev])
    IN  IF table[dev] # NoTable THEN table[dev]
        ELSE IF parts # <<>> /\ Len(parts) <= parts[1].sectors
        THEN Table(parts, disk[dev].size)
        ELSE NoTable

\* What the calls that need a sensible table begin with: it stays as validation left it.
Validated(dev) == IF ReadTable(dev) = NoTable THEN NoTable ELSE Validate(ReadTable(dev))

-----------------------------------------------------------------------------
Idle == writing = NoWrite
OpenOn(dev) == {h \in Handles : open[h] # Closed /\ open[h].dev = dev}

\* Any of the calls that measure a table: total_free, total_used, largest_free.
Measure(dev) ==
    /\ Idle /\ ReadTable(dev) # NoTable
    /\ table' = [table EXCEPT ![dev] = Validated(dev)]
    /\ UNCHANGED <<disk, open, writing>>

\* tivo_partition_add, on the table v the measuring left.
AddTo(dev, v, size, before, name, type) ==
    /\ Idle /\ v # NoTable
    /\ table' = [table EXCEPT ![dev] = Added(v, size, before, name, type).table]
    /\ UNCHANGED <<disk, open, writing>>

\* tivo_partition_rename: the entry's name only; the table is not marked as changed.
Rename(dev, n, name) ==
    /\ Idle /\ ReadTable(dev) # NoTable
    /\ n \in Numbers(ReadTable(dev))
    /\ table' = [table EXCEPT ![dev] = [ReadTable(dev) EXCEPT !.parts[n].name = name]]
    /\ UNCHANGED <<disk, open, writing>>

\* tivo_partition_open_direct: not while the device is a new one that was never written.
Open(h, dev, n) ==
    LET t == ReadTable(dev)
    IN  /\ Idle /\ open[h] = Closed
        /\ t # NoTable
        /\ n \in Numbers(t)
        /\ t.parts[n].refs >= 1 /\ ~t.noninit
        /\ table' = [table EXCEPT ![dev] = [t EXCEPT !.parts[n].refs = @ + 1]]
        /\ open' = [open EXCEPT ![h] = [dev |-> dev, number |-> n,
                                        at |-> [start |-> t.parts[n].start,
                                                sectors |-> t.parts[n].sectors]]]
        /\ UNCHANGED <<disk, writing>>

Close(h) ==
    /\ Idle /\ open[h] # Closed
    /\ table' = [table EXCEPT ![open[h].dev].parts[open[h].number].refs = @ - 1]
    /\ open' = [open EXCEPT ![h] = Closed]
    /\ UNCHANGED <<disk, writing>>

\* tivo_partition_rrpart: forgets the table unless the device is in use (EBUSY).
Reread(dev) ==
    /\ Idle /\ table[dev] # NoTable /\ OpenOn(dev) = {}
    /\ table' = [table EXCEPT ![dev] = NoTable]
    /\ UNCHANGED <<disk, open, writing>>

\* tivo_partition_table_init: a new table in the place of the cached one.
TableInit(dev) ==
    /\ Idle /\ OpenOn(dev) = {}
    /\ table' = [table EXCEPT ![dev] = NewTable(disk[dev].size)]
    /\ UNCHANGED <<disk, open, writing>>

-----------------------------------------------------------------------------
(* tivo_partition_table_write.                                             *)

\* The boot sector of a new table, then the map sector by sector with an empty one
\* behind the last entry.  A table without changes is not written at all.
WriteBegin(dev) ==
    /\ Idle /\ table[dev] # NoTable /\ table[dev].dirty
    /\ writing' = [dev |-> dev, next |-> 1]
    /\ table' = [table EXCEPT ![dev].noninit = FALSE]
    /\ disk' = IF table[dev].noninit THEN [disk EXCEPT ![dev].boot = TRUE] ELSE disk
    /\ UNCHANGED open

\* The flag is taken back before the boot sector is written, so a call that fails here
\* leaves a table whose later writes do without a boot sector.
BootFails(dev) ==
    /\ Idle /\ table[dev] # NoTable /\ table[dev].dirty /\ table[dev].noninit
    /\ table' = [table EXCEPT ![dev].noninit = FALSE]
    /\ UNCHANGED <<disk, open, writing>>

LastWritten(t) == IF Len(t.parts) < Room(t) THEN Len(t.parts) + 1 ELSE Room(t)

WriteSector ==
    /\ ~Idle /\ writing.next <= LastWritten(table[writing.dev])
    /\ disk' = [disk EXCEPT ![writing.dev].map[writing.next] =
                    MapSector(table[writing.dev], writing.next)]
    /\ writing' = [writing EXCEPT !.next = @ + 1]
    /\ UNCHANGED <<table, open>>

WriteEnd ==
    /\ ~Idle /\ writing.next > LastWritten(table[writing.dev])
    /\ table' = [table EXCEPT ![writing.dev].dirty = FALSE]
    /\ writing' = NoWrite
    /\ UNCHANGED <<disk, open>>

WriteFailsClean ==
    /\ ~Idle /\ writing.next <= LastWritten(table[writing.dev])
    /\ table' = [table EXCEPT ![writing.dev].dirty = FALSE]
    /\ writing' = NoWrite
    /\ UNCHANGED <<disk, open>>

\* A sector that can not be written ends the call; the table is still to be written.
WriteFails ==
    /\ ~Idle /\ writing.next <= LastWritten(table[writing.dev])
    /\ writing' = NoWrite
    /\ UNCHANGED <<disk, table, open>>

\* The program ends, or the machine does: only the sectors are left.
Exit ==
    /\ table' = [d \in Devices |-> NoTable]
    /\ open' = [h \in Handles |-> Closed]
    /\ writing' = NoWrite
    /\ UNCHANGED disk

=============================================================================
