------------------------------ MODULE VolumeSet -------------------------------
(***************************************************************************)
(* The volume set of src/lib/volume.c, mfs.c and zonemap.c: which          *)
(* partitions the volume header lists, where on them restore and mfsadd    *)
(* put zone maps, how the maps are chained, and what is found again when a *)
(* program has stopped between two of the writes.  The header and every    *)
(* map have a second copy.                                                 *)
(***************************************************************************)
EXTENDS ZoneMapSize, Sequences, FiniteSets, SequencesExt

CONSTANTS
    Jobs,           \* drives and backups to restore, see JobOf
    MaxVolumes      \* how many partitions the list of the header has room for

VARIABLES
    job,        \* the partitions there are and the zones the backup asks for
    plan,       \* where restore puts the zones and their maps
    hdr,        \* the two copies of the volume header on the drive
    maps,       \* the copies of zone maps on the drives, by partition and sector
    log,        \* for each committed transaction the zones it changed
    who,        \* the program that has the volume set open
    mem,        \* its handle: volumes, header, loaded zone maps
    pending,    \* the writes of the call under way that are still to come
    stopped,    \* a program was stopped at some time
    cut         \* ... between the link to a new zone and the header

vars == <<job, plan, hdr, maps, log, who, mem, pending, stopped, cut>>

Torn == [length |-> -1]      \* a map or a header with a wrong checksum
NoPtr == [sector |-> 0, sbackup |-> 0, length |-> 0]
Closed == [ok |-> FALSE, vols |-> <<>>, hdr |-> <<>>, zones |-> <<>>]

-----------------------------------------------------------------------------
(* Volumes one behind the other, volume.c.                                 *)

Size(v) == VolumeSize(job.sizes[v])
StartOf(vols, i) ==
    LET start[k \in Nat] == IF k = 1 THEN 0 ELSE start[k - 1] + Size(vols[k - 1]) IN start[i]
SetSize(vols) == StartOf(vols, Len(vols) + 1)

\* mfsvol_get_volume: the partition a sector of the set is in, and where in it.
In(vols, i, sector) == sector - StartOf(vols, i) \in 0..(Size(vols[i]) - 1)
Places(vols, sector) ==
    {<<vols[i], sector - StartOf(vols, i)>> : i \in {i \in DOMAIN vols : In(vols, i, sector)}}
Place(vols, sector) == CHOOSE p \in Places(vols, sector) : TRUE

\* mfsvol_volume_size: of the volume that starts there, 0 when none does.
SizeAt(vols, sector) ==
    LET at == {i \in DOMAIN vols : StartOf(vols, i) = sector}
    IN  IF at = {} THEN 0 ELSE Size(vols[CHOOSE i \in at : TRUE])

-----------------------------------------------------------------------------
(* Opening the set: mfs_load_volume_header and mfs_load_zone_maps.         *)

\* The map at a sector, if there is one and its checksum is right.
ReadCopy(vols, sector, length) ==
    {maps[p] : p \in {p \in Places(vols, sector) \cap DOMAIN maps :
                        maps[p] # Torn /\ maps[p].length = length}}

\* The first copy, or the second when the checksum of the first is wrong.
LoadMap(vols, ptr, copies) ==
    LET first == IF 1 \in copies THEN ReadCopy(vols, ptr.sector, ptr.length) ELSE {}
        second == IF 2 \in copies THEN ReadCopy(vols, ptr.sbackup, ptr.length) ELSE {}
    IN  IF first # {} THEN first ELSE second

\* The chain of zone maps from a pointer on, and whether all of them could be read.
Pointers == [sector : Nat, sbackup : Nat, length : Nat]
LoadZoneMaps(vols, from, copies) ==
    LET load[ptr \in Pointers] ==
          IF ptr.sector = 0 THEN [ok |-> TRUE, zones |-> <<>>]
          ELSE CHOOSE r \in {[load[map.next] EXCEPT !.zones = <<map>> \o @] :
                                map \in LoadMap(vols, ptr, copies)}
                            \cup {[ok |-> FALSE, zones |-> <<>>]} :
                   r.zones # <<>> \/ LoadMap(vols, ptr, copies) = {}
    IN  load[from]


SetOf(h, absent, copies) ==
    LET vols == SelectSeq(h.list, LAMBDA v : v \notin absent)
        loaded == LoadZoneMaps(vols, h.first, copies)
    IN  [ok |-> h.list[1] \notin absent /\ SetSize(vols) = h.total /\ loaded.ok,
         vols |-> vols, hdr |-> h, zones |-> loaded.zones]

\* mfs_load_volume_header, by what is wrong with the first sector of the set.  The second
\* copy, in the last sector of the first volume, is there for a wrong checksum alone: a
\* first sector that can not be read ends the call, and so do words of state and magic
\* that are not those of a header, or that mark the volume set for a check, for they are
\* taken from the first copy before its checksum is looked at.
Faults == {"none", "checksum", "unreadable", "magic", "marked"}
Opened(absent, fault, copies) ==
    CASE fault = "none" -> SetOf(hdr[1], absent, copies)
      [] fault = "checksum" -> IF hdr[2] = Torn THEN Closed ELSE SetOf(hdr[2], absent, copies)
      [] fault \in {"unreadable", "magic", "marked"} -> Closed
OpenedNow == Opened({}, "none", {1, 2})

-----------------------------------------------------------------------------
(* Writes.  A sector is written or not; a map of more can be torn.         *)

MapWrite(vols, sector, map) == [at |-> Place(vols, sector), val |-> map]
HdrWrite(copy, h) == [at |-> <<"header", copy>>, val |-> h]
WriteMaps(vols, map) == <<MapWrite(vols, map.sector, map), MapWrite(vols, map.sbackup, map)>>

\* mfs_write_volume_header: the first sector of the first volume, then its last.
WriteHeader(h) == <<HdrWrite(1, h), HdrWrite(2, h)>>

Set(f, x, y) == [z \in DOMAIN f \cup {x} |-> IF z = x THEN y ELSE f[z]]
Store(at, val) ==
    IF at[1] = "header" THEN hdr' = [hdr EXCEPT ![at[2]] = val] /\ UNCHANGED maps
    ELSE maps' = Set(maps, at, val) /\ UNCHANGED hdr

\* The next sectors of the call reach the drive; the calls that make a zone load all
\* maps again at their end.
Write ==
    /\ pending # <<>>
    /\ Store(Head(pending).at, Head(pending).val)
    /\ pending' = Tail(pending)
    /\ UNCHANGED <<job, plan, log, who, mem, stopped, cut>>

-----------------------------------------------------------------------------
(* mfs_new_zone_map.                                                       *)

NewMap(p, stamp) ==
    [sector |-> p.sector, sbackup |-> p.sbackup, length |-> MapSectorsFor(p.size \div p.min),
     next |-> NoPtr, first |-> p.first, size |-> p.size - (p.size % p.min), stamp |-> stamp,
     commits |-> {}, dirty |-> FALSE]
PtrTo(map) == [sector |-> map.sector, sbackup |-> map.sbackup, length |-> map.length]

\* "Write the changes, with the changes to live MFS last": the map, then the link to it.
NewZoneMap(m, p) ==
    LET map == NewMap(p, m.hdr.stamp)
        h == [m.hdr EXCEPT !.first = PtrTo(map)]
        linked == IF m.zones = <<>> THEN map ELSE [Last(m.zones) EXCEPT !.next = PtrTo(map)]
    IN  [writes |-> WriteMaps(m.vols, map) \o
                      (IF m.zones = <<>> THEN WriteHeader(h) ELSE WriteMaps(m.vols, linked)),
         mem |-> IF m.zones = <<>> THEN [m EXCEPT !.hdr = h, !.zones = <<map>>]
                 ELSE [m EXCEPT !.zones = Append(Front(m.zones), linked) \o <<map>>]]

-----------------------------------------------------------------------------
(* restore_generate_zone_maps: a place for the map and the sectors of each *)
(* zone of the backup, and for the media volumes that are left over.       *)

Vols == job.list
NMedia == Len(Vols) \div 2
At(s) == SizeAt(Vols, s)
Past(s) == s + At(s) + At(s + At(s))
NextApp(acc) ==
    LET v == Past(acc.app)
    IN  [acc EXCEPT !.app = v, !.shared = 0, !.last = IF At(v) > 0 THEN At(v) - 1 ELSE 0]

\* A media zone takes the next media volume, an application zone what the maps leave of
\* the application volume, an inode zone what the backup says.
Left(acc, z) ==
    LET left == acc.last - acc.shared
    IN  IF left < 0 THEN left ELSE left - 2 * MapSectorsFor(left \div z.min)
ZoneSize(acc, z) ==
    CASE z.type = "inode" -> z.size
      [] z.type = "media" -> At(acc.media)
      [] z.type = "application" -> Left(acc, z)

Failed(acc) == [acc EXCEPT !.ok = FALSE]

\* An application zone that the maps leave less than nothing: the size is an unsigned
\* number, so it is larger than a block, and the search for the order of that many blocks
\* (zonemap.c:589) shifts a 1 out of its int and does not end.
Hangs(acc) == [acc EXCEPT !.ok = FALSE, !.hangs = TRUE]

\* restore_create_empty_inodes writes the sectors of the zone by eights, and a write may not
\* go across the end of a volume.  Nothing else asks how much room an inode zone has.
InodesWritten(first, size) ==
    \E i \in DOMAIN Vols :
        /\ In(Vols, i, first)
        /\ first + size <= IF first % 8 = 0 THEN SetSize(Vols) ELSE StartOf(Vols, i + 1)

\* The sectors the second copy of a map takes from the end of the volume.
BackupForgotten(length) == 0
BackupLength(length) == length

Placed(acc, size, z, min) ==
    LET length == MapSectorsFor(size \div min)
        last == acc.last - BackupLength(length)
        behind == acc.shared + length + acc.app
        whole == size - (size % min)
        p == [sector |-> acc.shared + acc.app, sbackup |-> acc.last - length + 1 + acc.app,
              first |-> IF z.type = "media" THEN acc.media ELSE behind,
              size |-> whole, min |-> min, inodes |-> z.type = "inode"]
        next == [acc EXCEPT !.placed = Append(@, p), !.shared = @ + length, !.last = last]
    IN  IF \/ size < min
           \/ acc.last < acc.shared \/ acc.last - acc.shared + 1 < 2 * length
           \/ z.type = "inode" /\ ~InodesWritten(behind, whole)
        THEN Failed(acc)
        ELSE CASE z.type = "inode" ->
                      [next EXCEPT !.shared = @ + whole,
                         !.overrun = @ \cup (IF behind + whole > acc.app + last + 1
                                            THEN {Len(next.placed)} ELSE {})]
               [] z.type = "media" -> [next EXCEPT !.media = Past(@), !.created = TRUE, !.imedia = @ + 1]
               [] z.type = "application" -> [NextApp(next) EXCEPT !.created = FALSE]

PlaceZone(acc, z) ==
    IF ~acc.ok \/ (z.type = "media" /\ acc.imedia >= NMedia) THEN acc
    ELSE LET a == IF z.type = "media" /\ acc.created THEN NextApp(acc) ELSE acc
         IN  IF z.type = "application" /\ Left(a, z) < 0 THEN Hangs(a)
             ELSE Placed(a, ZoneSize(a, z), z, IF z.type = "media" THEN job.minalloc ELSE z.min)

\* "Fill out any remaining volumes."
PlaceRemaining(acc) ==
    LET size == At(acc.media)
        length == MapSectorsFor(size \div job.minalloc)
        p == [sector |-> acc.shared + acc.app, sbackup |-> acc.app + acc.last - length + 1,
              first |-> acc.media, size |-> size, min |-> job.minalloc, inodes |-> FALSE]
        app == acc.media + size
    IN  IF ~acc.ok \/ acc.over \/ acc.app >= acc.media \/ acc.imedia >= NMedia THEN acc
        ELSE IF acc.shared > acc.last \/ acc.last - acc.shared + 1 < 2 * length THEN Failed(acc)
        ELSE [acc EXCEPT !.placed = Append(@, p), !.imedia = @ + 1, !.shared = 0, !.app = app,
                         !.over = At(app) = 0, !.media = app + At(app), !.last = At(app) - 1]

\* The first volume has the header, the log and a region behind it, and the second copy
\* of the header in its last sector.  "overrun" is history: the inode zones that are
\* larger than what the maps left of their volume.
FirstFree == [ok |-> TRUE, hangs |-> FALSE, overrun |-> {}, over |-> FALSE, shared |-> job.free, app |-> 0, media |-> At(0),
              last |-> At(0) - 2, created |-> FALSE, imedia |-> 0, placed |-> <<>>]

GenerateZoneMaps ==
    LET zones == FoldLeft(PlaceZone, FirstFree, job.zones)
    IN  FoldLeft(LAMBDA acc, n : PlaceRemaining(acc), zones, [n \in 1..NMedia |-> n])

-----------------------------------------------------------------------------
(* restore.                                                                *)

\* restore_state_volume_header_v3 has written the header and opened the set.
Init ==
    /\ job \in Jobs
    /\ plan = GenerateZoneMaps
    /\ LET h == [list |-> job.list, total |-> SetSize(job.list), stamp |-> 0, first |-> NoPtr]
       IN  /\ hdr = <<h, h>>
           /\ mem = [ok |-> TRUE, vols |-> job.list, hdr |-> h, zones |-> <<>>]
    /\ maps = <<>> /\ log = <<>> /\ who = "restore" /\ pending = <<>>
    /\ stopped = FALSE /\ cut = FALSE

Restoring == who = "restore" /\ pending = <<>>
Generated == Len(mem.zones) = Len(plan.placed)

\* restore_create_empty_inodes: the headers and maps that are in the way are lost.
EmptyInodes(p) ==
    LET Over(sector, length) == sector < p.first + p.size /\ p.first < sector + length
        lost == {at \in {at \in DOMAIN maps : maps[at] # Torn} :
                    \E s \in {maps[at].sector, maps[at].sbackup} :
                        Place(Vols, s) = at /\ Over(s, maps[at].length)}
                \cup IF Over(Size(Vols[1]) - 1, 1) THEN {<<"header", 2>>} ELSE {}
    IN  IF p.inodes THEN SetToSeq({[at |-> at, val |-> Torn] : at \in lost}) ELSE <<>>

\* One zone of restore_generate_zone_maps.
GenerateZoneMap ==
    /\ Restoring /\ ~Generated
    /\ LET p == plan.placed[Len(mem.zones) + 1]
           new == NewZoneMap(mem, p)
       IN  mem' = new.mem /\ pending' = EmptyInodes(p) \o new.writes
    /\ UNCHANGED <<job, plan, hdr, maps, log, who, stopped, cut>>

\* A transaction is in the log, and the zone maps in memory follow it.
Commit ==
    /\ Restoring /\ Generated /\ plan.ok /\ Len(log) < job.commits
    /\ \E touched \in {{1}, {Len(mem.zones)}, DOMAIN mem.zones} :
           /\ log' = Append(log, touched)
           /\ mem' = [mem EXCEPT !.zones = [k \in DOMAIN @ |->
                  IF k \in touched
                  THEN [@[k] EXCEPT !.commits = @ \cup {Len(log) + 1}, !.dirty = TRUE]
                  ELSE @[k]]]
    /\ UNCHANGED <<job, plan, hdr, maps, who, pending, stopped, cut>>

\* mfs_zone_map_sync: the two copies of each map that changed, one after the other.
SyncedMap(map, stamp) == IF map.dirty THEN [map EXCEPT !.stamp = stamp, !.dirty = FALSE] ELSE map
ZoneMapSync(zones, stamp) ==
    FlattenSeq([k \in DOMAIN zones |->
        IF zones[k].dirty THEN WriteMaps(mem.vols, SyncedMap(zones[k], stamp)) ELSE <<>>])

FssyncHeaderFirst ==
    /\ Restoring /\ Generated /\ mem.hdr.stamp < Len(log)
    /\ LET h == [mem.hdr EXCEPT !.stamp = Len(log)]
       IN  /\ pending' = WriteHeader(h) \o ZoneMapSync(mem.zones, Len(log))
           /\ mem' = [mem EXCEPT !.hdr = h,
                                 !.zones = [k \in DOMAIN @ |-> SyncedMap(@[k], Len(log))]]
    /\ UNCHANGED <<job, plan, hdr, maps, log, who, stopped, cut>>

\* mfs_log_fssync: the zone maps, then the header.
Fssync ==
    /\ Restoring /\ Generated /\ mem.hdr.stamp < Len(log)
    /\ LET h == [mem.hdr EXCEPT !.stamp = Len(log)]
       IN  /\ pending' = ZoneMapSync(mem.zones, Len(log)) \o WriteHeader(h)
           /\ mem' = [mem EXCEPT !.hdr = h,
                                 !.zones = [k \in DOMAIN @ |-> SyncedMap(@[k], Len(log))]]
    /\ UNCHANGED <<job, plan, hdr, maps, log, who, stopped, cut>>

-----------------------------------------------------------------------------
(* mfsadd.                                                                 *)

Open ==
    /\ who = "none" /\ OpenedNow.ok
    /\ who' = "mfsadd" /\ mem' = OpenedNow
    /\ UNCHANGED <<job, plan, hdr, maps, log, pending, stopped, cut>>

AppTooSmall(app, media) == 2 * MapSectorsFor(Size(media) \div job.minalloc) + 2 > Size(app)

\* mfs_add_volume_pair refuses: no room in the list, a partition of less than a round,
\* or one too small for the maps.
CanAdd(app, media) ==
    /\ Len(mem.hdr.list) + 2 <= MaxVolumes
    /\ mem.zones # <<>>
    /\ Size(app) > 0 /\ Size(media) > 0
    /\ ~AppTooSmall(app, media)

\* mfs_add_volume_pair.
AddVolumePair ==
    /\ who = "mfsadd" /\ pending = <<>>
    /\ \E pair \in job.pairs :
           LET app == pair[1]
               media == pair[2]
               start == SetSize(mem.vols)
               size == Size(media)
               length == MapSectorsFor(size \div job.minalloc)
               p == [sector |-> start + 1, sbackup |-> start + Size(app) - length - 1,
                     first |-> start + Size(app), size |-> size, min |-> job.minalloc]
               wider == [mem EXCEPT !.vols = @ \o <<app, media>>]
               new == NewZoneMap(wider, p)
               h == [mem.hdr EXCEPT !.list = @ \o <<app, media>>, !.total = SetSize(wider.vols)]
           IN  /\ ToSet(mem.vols) \cap {app, media} = {}
               /\ CanAdd(app, media)
               /\ mem' = [new.mem EXCEPT !.hdr = h]
               /\ pending' = new.writes \o WriteHeader(h)
    /\ UNCHANGED <<job, plan, hdr, maps, log, who, stopped, cut>>

-----------------------------------------------------------------------------
\* A program ends, mfsadd also when a pair is refused; a restore that hangs has to be
\* stopped.
Close ==
    /\ who # "none" /\ pending = <<>>
    /\ who = "restore" => Generated /\ ~plan.hangs
    /\ who' = "none" /\ mem' = Closed
    /\ UNCHANGED <<job, plan, hdr, maps, log, pending, stopped, cut>>

\* In a call of mfsadd the first copy of the link is written and that of the header is not.
Linked ==
    /\ who = "mfsadd" /\ Len(pending) \in 2..3
    /\ HdrWrite(1, mem.hdr) \in ToSet(pending)

\* The machine stops; the map being written may be torn, but not while another copy of a
\* map is lost: nothing writes that one again, and two stops, or a stop after an inode zone
\* that overran its volume, can take both copies of a map.
Stop ==
    /\ who # "none"
    /\ \/ UNCHANGED <<hdr, maps>>
       \/ /\ pending # <<>> /\ Head(pending).at[1] # "header" /\ Head(pending).val.length > 1
          /\ \A at \in DOMAIN maps : maps[at] # Torn
          /\ Store(Head(pending).at, Torn)
    /\ stopped' = TRUE /\ cut' = (cut \/ Linked)
    /\ who' = "none" /\ mem' = Closed /\ pending' = <<>>
    /\ UNCHANGED <<job, plan, log>>

Done == who = "none" /\ UNCHANGED vars

Next == \/ GenerateZoneMap \/ Commit \/ Fssync \/ Open \/ AddVolumePair
        \/ Write \/ Close \/ Stop \/ Done

Spec == Init /\ [][Next]_vars

-----------------------------------------------------------------------------
TypeOK ==
    /\ who \in {"none", "restore", "mfsadd"} /\ {stopped, cut, mem.ok} \subseteq BOOLEAN
    /\ DOMAIN hdr = {1, 2}
    /\ \A h \in {hdr[1], hdr[2]} \ {Torn} : h.stamp \in 0..Len(log)
    /\ \A at \in DOMAIN maps : at[1] \in DOMAIN job.sizes /\ at[2] \in 0..(Size(at[1]) - 1)


\* What a replay of the log adds to a map: the transactions behind the header's stamp
\* that are newer than the map's own.
Recovered(set, k) ==
    set.zones[k].commits \cup
    {n \in (set.hdr.stamp + 1)..Len(log) : k \in log[n] /\ n > set.zones[k].stamp}

Whole(set) ==
    \A k \in DOMAIN set.zones : Recovered(set, k) = {n \in DOMAIN log : k \in log[n]}

\* Whatever a stop leaves of two copies of each map, those that opening chooses and the
\* log give every committed change of every zone.  When no program was stopped, then
\* between any two calls the second copies alone do so as well, of the header and of every
\* map whose first copy has a wrong checksum.  A header that is lost in any other way has
\* a second copy that nothing reads, see Opened; and an inode zone that overruns its
\* volume may lie on the second copies, see RegionsApart.
MapsCurrent ==
    /\ OpenedNow.ok => Whole(OpenedNow)
    /\ (~stopped /\ pending = <<>> /\ plan.overrun = {}) =>
          \A copies \in {{1, 2}, {2}} :
              LET second == Opened({}, "checksum", copies)
              IN  second.ok /\ Whole(second) /\ Len(second.zones) = Len(OpenedNow.zones)

\* The sectors of the set that something is kept in: both headers, the log and the region
\* behind it, both copies of every map, and the zones.
Regions(set) ==
    {<<"header", 0, 1>>, <<"header", Size(Vols[1]) - 1, 1>>, <<"log", 1, job.free - 1>>}
    \cup UNION {LET z == set.zones[k]
                IN  {<<"map", z.sector, z.length>>, <<"map", z.sbackup, z.length>>,
                     <<"zone", z.first, z.size>>} : k \in DOMAIN set.zones}

\* The inode zones that do not fit.
Overrunning ==
    {<<"zone", plan.placed[k].first, plan.placed[k].size>> : k \in plan.overrun}

\* Every variable has its type, no two regions share a sector, and each lies in one volume
\* of the set, whatever mix of zones restore was given and did not refuse, and mfsadd has
\* added; at the end of any call and after a stop.  Not so an inode zone that is larger
\* than what is left of its volume when no map is put behind it there: restore writes it
\* over the second copies of maps and header, or over the next volume
\* (restorev3.c:172-175), and only the next map finds that there is no room.
RegionsApart ==
    /\ TypeOK
    /\ LET set == OpenedNow
       IN  (pending = <<>> /\ plan.ok /\ set.ok) =>
             /\ Cardinality(Regions(set)) = 3 + 3 * Len(set.zones)
             /\ \A r \in Regions(set) \ Overrunning :
                  /\ Places(set.vols, r[2]) # {}
                  /\ Places(set.vols, r[2] + r[3] - 1) # {}
                  /\ Place(set.vols, r[2])[1] = Place(set.vols, r[2] + r[3] - 1)[1]
             /\ \A r, s \in Regions(set) \ Overrunning :
                  r # s => r[2] + r[3] <= s[2] \/ s[2] + s[3] <= r[2]
=============================================================================
