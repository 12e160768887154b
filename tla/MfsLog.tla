------------------------------- MODULE MfsLog -------------------------------
(***************************************************************************)
(* The MFS transaction log (lib/log.c) with the parts of the zone maps     *)
(* (lib/zonemap.c), the inode table and the volume header (lib/mfs.c) that *)
(* a commit, a sync and a replay touch.                                    *)
(*                                                                         *)
(* One process holds the volume at a time.  It builds transactions with    *)
(* mfs_log_inode_update, closes them with mfs_log_commit and checkpoints   *)
(* with mfs_log_fssync; it may stop between any two writes.  A later mount *)
(* either writes to the disk ("rw") or, as backup, mfsck and mfsd do after *)
(* mfs_enable_memwrite, only to an overlay in memory ("mem").              *)
(*                                                                         *)
(* Abstractions: a run of sectors is a member of Blocks, always used       *)
(* whole; the length of a log entry is one or two units of a log sector,   *)
(* so that it goes over one sector end at most; an inode is the set of     *)
(* blocks it owns, {} when it is free; a zone map is the set of its        *)
(* allocated blocks; the write of one log sector, of one inode, of one     *)
(* zone map or of the header is atomic.                                    *)
(***************************************************************************)
EXTENDS Integers, Sequences, FiniteSets

CONSTANTS
  Fsids,         \* the fsids clients use, positive integers
  Blocks,        \* the runs of sectors that can be allocated
  NZones,        \* the number of loaded zone maps, kept in list order 1..NZones
  ZoneOf,        \* the zone map each block belongs to
  NSectors,      \* lognsectors: log sectors, reused cyclically
  Cap,           \* units of entry data in a log sector
  MapLen,        \* units of a zone map entry
  InodeLen,      \* units of an inode entry
  MarkLen,       \* units of a commit, fssync or replay entry
  RemountModes,  \* how the volume may be opened again: subset of {"rw","mem"}
  NoChange,      \* an fsid the open transaction has not touched
  MaxTxn,        \* bound: fsids changed by one transaction
  MaxStamp       \* bound: no call starts once current_log is past this stamp

ASSUME ConstantsOK ==
  /\ Fsids \subseteq Nat \ {0}
  /\ NZones \in Nat \ {0}
  /\ ZoneOf \in [Blocks -> 1..NZones]
  /\ NSectors \in Nat \ {0}
  /\ Cap \in Nat /\ Cap >= 2
  /\ {MapLen, InodeLen, MarkLen} \subseteq {1, 2}
  /\ RemountModes \subseteq {"rw", "mem"}
  /\ \A B \in SUBSET Blocks : NoChange # B
  /\ MaxTxn \in Nat /\ MaxStamp \in Nat

\* The inode table and the drives are of some size.
ASSUME DrivesFinite == IsFiniteSet(Fsids) /\ IsFiniteSet(Blocks)

VARIABLES
  disk,        \* what is on the drives
  view,        \* what reads return: disk, under the overlay of a "mem" mount
  mode,        \* the mount in force
  pc,          \* where the running call is; "ready" between calls
  call,        \* the call that is running
  err,         \* why the last call failed
  current_log, \* the log sector being filled
  lastcommit,  \* lastlogcommit
  lastsync,    \* lastlogsync
  zmap,        \* the loaded zone maps
  vol_hdr,     \* the loaded volume header
  pend,        \* changed_runs: blocks handed out since the zone's last commit
  txn,         \* the open transaction, as its client sees it
  todo,        \* what the running call has still to add to the log
  ld,          \* the loop variables of mfs_log_load_list
  list,        \* the entries mfs_log_load_list has returned, not applied yet
  zi           \* the zone mfs_zone_map_sync is at

logvars  == <<current_log, lastcommit, lastsync>>
memvars  == <<zmap, vol_hdr, pend>>
callvars == <<todo, ld, list, zi>>
vars == <<disk, view, mode, pc, call, err, logvars, memvars, txn, callvars>>

-----------------------------------------------------------------------------
(* Log entries, log sectors and volumes.                                   *)

MapRec(b, free) == [t |-> "map", blk |-> b, free |-> free]
InodeRec(f, B)  == [t |-> "inode", fsid |-> f, blks |-> B]
Mark(t)         == [t |-> t]

Rec == [t : {"map"}, blk : Blocks, free : BOOLEAN]
         \cup [t : {"inode"}, fsid : Fsids, blks : SUBSET Blocks]
         \cup [t : {"commit", "fssync", "replay"}]

UnitsOf(r) == CASE r.t = "map"   -> MapLen
                [] r.t = "inode" -> InodeLen
                [] OTHER         -> MarkLen

\* A sector of the log: the entries that start in it, whether it starts with
\* the rest of one that started before (first # 0), and whether its last
\* entry goes on in the next sector.
Sector == [stamp : Nat, first : BOOLEAN, recs : Seq(Rec), split : BOOLEAN]
BlankSector == [stamp |-> 0, first |-> FALSE, recs |-> <<>>, split |-> FALSE]

Slots == 0..(NSectors - 1)
Slot(stamp) == stamp % NSectors
Zones == 1..NZones
BlocksOf(z) == {b \in Blocks : ZoneOf[b] = z}

\* An entry as the loader keeps it: with the stamp of the sector it starts in.
Entry == [stamp : Nat, rec : Rec]

Volume == [log   : [Slots -> Sector],
           inode : [Fsids -> SUBSET Blocks],
           zone  : [Zones -> [alloc : SUBSET Blocks, stamp : Nat]],
           hdr   : [stamp : Nat, next_fsid : Nat]]

FreshVolume == [log   |-> [i \in Slots |-> BlankSector],
                inode |-> [f \in Fsids |-> {}],
                zone  |-> [z \in Zones |-> [alloc |-> {}, stamp |-> 0]],
                hdr   |-> [stamp |-> 0, next_fsid |-> 1]]

NoLog == [stamp |-> 0, first |-> FALSE, recs |-> <<>>, size |-> 0]
EmptyLog(stamp, first, size) ==
  [stamp |-> stamp, first |-> first, recs |-> <<>>, size |-> size]

NoTxn  == [f \in Fsids |-> NoChange]
NoTodo == [free |-> {}, alloc |-> {}, tail |-> <<>>]
NoLoad == [next |-> 0, last |-> 0, part |-> <<>>]

Touched == {f \in Fsids : txn[f] # NoChange}
Readable(stamp) == view.log[Slot(stamp)].stamp = stamp
HigherOf(a, b) == IF a > b THEN a ELSE b

\* Writes reach the drives unless the volume set is in memwrite mode.
WriteVol(v) == /\ view' = v
               /\ disk' = IF mode = "rw" THEN v ELSE disk

-----------------------------------------------------------------------------
(* What a mount loads from the volume.                                     *)

LoadedZones(v) == [z \in Zones |-> [alloc |-> v.zone[z].alloc,
                                    stamp |-> v.zone[z].stamp,
                                    dirty |-> FALSE]]

\* A volume that mfstool restore has just laid out, still open read-write.
Init ==
  /\ disk = FreshVolume /\ view = FreshVolume
  /\ mode = "rw" /\ pc = "ready" /\ call = "none" /\ err = "none"
  /\ current_log = NoLog /\ lastcommit = 0 /\ lastsync = 0
  /\ zmap = LoadedZones(FreshVolume) /\ vol_hdr = FreshVolume.hdr /\ pend = {}
  /\ txn = NoTxn
  /\ todo = NoTodo /\ ld = NoLoad /\ list = <<>> /\ zi = 1

-----------------------------------------------------------------------------
(* Steps shared by the calls.                                              *)

\* An entry that exactly fills the sector counts as one that does not fit.
HasRoomOffByOne(r) == UnitsOf(r) <= Cap - current_log.size
HasRoom(r) == UnitsOf(r) < Cap - current_log.size

\* mfs_log_add_entry for one entry.  A sector that would be left without room
\* is written out at once, and the rest of the entry opens the next one.  The
\* code's loop turns again, and gives a whole sector to the middle of an entry,
\* for a rest of 496 bytes or more: only an inode entry with 419 to 452 bytes
\* of data has one, in a sector with at most 34 bytes left.  Lengths of one or
\* two units leave that case out.
AddRec(r) ==
  LET space == Cap - current_log.size
      split == UnitsOf(r) > space
      full  == [stamp |-> current_log.stamp, first |-> current_log.first,
                recs |-> Append(current_log.recs, r), split |-> split]
  IN  IF HasRoom(r)
        THEN /\ current_log' = [current_log EXCEPT !.recs = Append(@, r),
                                                   !.size = @ + UnitsOf(r)]
             /\ UNCHANGED <<disk, view>>
        ELSE /\ WriteVol([view EXCEPT !.log[Slot(full.stamp)] = full])
             /\ current_log' = EmptyLog(full.stamp + 1, split, UnitsOf(r) - space)

\* Which call comes back to its client and which goes on to write the sector.
AfterAdd == IF call = "log" THEN /\ pc' = "ready" /\ call' = "none"
                            ELSE /\ pc' = "close" /\ UNCHANGED call

\* The running call adds its next entry: first the blocks the inode gave up,
\* then the blocks it gained, then the rest in order.
AddEntry ==
  /\ pc = "add"
  /\ \/ \E b \in todo.free :
          /\ AddRec(MapRec(b, TRUE))
          /\ todo' = [todo EXCEPT !.free = @ \ {b}]
          /\ UNCHANGED <<pc, call>>
     \/ /\ todo.free = {}
        /\ \E b \in todo.alloc :
             /\ AddRec(MapRec(b, FALSE))
             /\ todo' = [todo EXCEPT !.alloc = @ \ {b}]
             /\ UNCHANGED <<pc, call>>
     \/ /\ todo.free = {} /\ todo.alloc = {} /\ todo.tail # <<>>
        /\ AddRec(Head(todo.tail))
        /\ todo' = [todo EXCEPT !.tail = Tail(@)]
        /\ IF Len(todo.tail) = 1 THEN AfterAdd ELSE UNCHANGED <<pc, call>>
  /\ UNCHANGED <<mode, err, lastcommit, lastsync, memvars, txn, ld, list, zi>>

\* mfs_log_write_current_log at the end of a commit or a sync.
CloseSector ==
  /\ pc = "close"
  /\ LET s == [stamp |-> current_log.stamp, first |-> current_log.first,
               recs |-> current_log.recs, split |-> FALSE]
     IN  /\ WriteVol([view EXCEPT !.log[Slot(s.stamp)] = s])
         /\ current_log' = EmptyLog(s.stamp + 1, FALSE, 0)
         /\ IF call = "commit"
              THEN /\ pc' = "load"
                   /\ ld' = [next |-> lastcommit + 1, last |-> s.stamp, part |-> <<>>]
                   /\ txn' = NoTxn
                   /\ UNCHANGED zi
              ELSE /\ pc' = "zsync"
                   /\ zi' = 1
                   /\ UNCHANGED <<ld, txn>>
  /\ list' = <<>>
  /\ UNCHANGED <<mode, call, err, lastcommit, lastsync, memvars, todo>>

-----------------------------------------------------------------------------
(* mfs_log_load_list, one log sector at a time.                            *)

EntriesOf(s) == [i \in 1..Len(s.recs) |-> [stamp |-> s.stamp, rec |-> s.recs[i]]]

\* The end a replay passes, ~0: on to the last log sector written.
NoEnd == 0

Loading == /\ pc = "load"
           /\ ld.last = NoEnd \/ ld.next <= ld.last
           /\ Readable(ld.next)

\* A continued sector after a gap, or an entry that is not continued.
Broken(s) == IF ld.part = <<>> THEN s.first /\ list # <<>> ELSE ~s.first

\* How many of the entries that start in a sector also end in it.
WholeInPartialToo(s) == Len(s.recs)
WholeIn(s) == IF s.split THEN Len(s.recs) - 1 ELSE Len(s.recs)

LoadSector ==
  /\ Loading
  /\ LET s  == view.log[Slot(ld.next)]
         es == EntriesOf(s)
         n  == WholeIn(s)
     IN  IF Broken(s)
           THEN /\ pc' = "failed" /\ err' = "badlog"
                /\ UNCHANGED <<ld, list>>
           ELSE /\ list' = list \o ld.part \o SubSeq(es, 1, n)
                /\ ld' = [ld EXCEPT !.next = @ + 1,
                                    !.part = SubSeq(es, n + 1, Len(es))]
                /\ UNCHANGED <<pc, err>>
  /\ UNCHANGED <<disk, view, mode, call, logvars, memvars, txn, todo, zi>>

\* The first unreadable sector ends the list; an unfinished entry is dropped.
LoadDone ==
  /\ pc = "load" /\ ~Loading
  /\ pc' = IF call = "commit" THEN "apply" ELSE "scan"
  /\ ld' = [ld EXCEPT !.part = <<>>]
  /\ UNCHANGED <<disk, view, mode, call, err, logvars, memvars, txn, todo, list, zi>>

-----------------------------------------------------------------------------
(* mfs_log_commit_list and mfs_log_fssync_list.                            *)

\* The last position of an entry of type t in the list, 0 when there is none.
LastOf(t) ==
  IF \E i \in 1..Len(list) : list[i].rec.t = t
    THEN CHOOSE i \in 1..Len(list) :
           /\ list[i].rec.t = t
           /\ \A j \in (i + 1)..Len(list) : list[j].rec.t # t
    ELSE 0

\* What of the list a replay applies.
ReplayedAll == list
Replayed == SubSeq(list, 1, LastOf("commit"))

\* mfs_log_fssync_list: the last sync seen is remembered even when nothing
\* after it was committed; entries past the last commit are not replayed.
Scan ==
  /\ pc = "scan"
  /\ lastsync' = IF LastOf("fssync") = 0 THEN lastsync ELSE list[LastOf("fssync")].stamp
  /\ list' = Replayed
  /\ pc' = "apply"
  /\ UNCHANGED <<disk, view, mode, call, err, current_log, lastcommit, memvars,
                 txn, todo, ld, zi>>

\* mfs_zone_map_update: nothing when the zone has already seen the entry or
\* the block is already in the wanted state.
ZoneMapUpdate(e) ==
  LET z == ZoneOf[e.rec.blk]
      b == e.rec.blk
      changes == (b \in zmap[z].alloc) = e.rec.free
  IN  IF e.stamp <= zmap[z].stamp \/ ~changes
        THEN UNCHANGED zmap
        ELSE zmap' = [zmap EXCEPT ![z].alloc = IF e.rec.free THEN @ \ {b} ELSE @ \cup {b},
                                  ![z].dirty = TRUE]

\* mfs_zone_map_commit and the end of mfs_log_commit_list.
CommitPoint(stamp) ==
  /\ lastcommit' = stamp
  /\ vol_hdr' = [vol_hdr EXCEPT !.stamp = stamp]
  /\ zmap' = [z \in Zones |-> IF zmap[z].dirty THEN [zmap[z] EXCEPT !.stamp = stamp]
                                               ELSE zmap[z]]
  /\ pend' = {b \in pend : ~zmap[ZoneOf[b]].dirty}

\* mfs_log_sync_inode keeps the header's next_fsid above every fsid in use.
NextFsidAfter(f) == HigherOf(vol_hdr.next_fsid, f + 1)

ApplyEntry ==
  /\ pc = "apply" /\ list # <<>>
  /\ LET e == Head(list)
     IN  \/ /\ e.rec.t = "map"
            /\ ZoneMapUpdate(e)
            /\ UNCHANGED <<disk, view, lastcommit, vol_hdr, pend>>
         \/ /\ e.rec.t = "inode"
            /\ WriteVol([view EXCEPT !.inode[e.rec.fsid] = e.rec.blks])
            /\ vol_hdr' = [vol_hdr EXCEPT !.next_fsid = NextFsidAfter(e.rec.fsid)]
            /\ UNCHANGED <<lastcommit, zmap, pend>>
         \/ /\ e.rec.t = "commit" /\ call = "fssync"
            /\ CommitPoint(e.stamp)
            /\ UNCHANGED <<disk, view>>
         \/ /\ e.rec.t \in {"fssync", "replay"} \/ (e.rec.t = "commit" /\ call = "commit")
            /\ UNCHANGED <<disk, view, lastcommit, memvars>>
  /\ list' = Tail(list)
  /\ UNCHANGED <<mode, pc, call, err, current_log, lastsync, txn, todo, ld, zi>>

\* mfs_log_commit: a checkpoint once half the log is in use.
SyncDueTooLate(stamp) == stamp - lastsync > NSectors
SyncDue(stamp) == stamp - lastsync > NSectors \div 2

CommitApplied ==
  /\ pc = "apply" /\ list = <<>> /\ call = "commit"
  /\ CommitPoint(ld.last)
  /\ IF SyncDue(ld.last)
       THEN /\ pc' = "add" /\ call' = "fssync"
            /\ todo' = [NoTodo EXCEPT !.tail = <<Mark("fssync")>>]
       ELSE /\ pc' = "ready" /\ call' = "none"
            /\ UNCHANGED todo
  /\ UNCHANGED <<disk, view, mode, err, current_log, lastsync, txn, ld, list, zi>>

\* mfs_log_fssync after the replay: the log goes on behind the last sync.
ReplayApplied ==
  /\ pc = "apply" /\ list = <<>> /\ call = "fssync"
  /\ lastcommit' = IF lastcommit = 0 THEN view.hdr.stamp ELSE lastcommit
  /\ lastsync' = IF lastsync = 0 THEN view.hdr.stamp ELSE lastsync
  /\ current_log' = EmptyLog(lastsync' + 1, FALSE, 0)
  /\ todo' = [NoTodo EXCEPT !.tail = <<Mark("replay"), Mark("fssync")>>]
  /\ pc' = "add"
  /\ UNCHANGED <<disk, view, mode, call, err, memvars, txn, ld, list, zi>>

-----------------------------------------------------------------------------
(* mfs_zone_map_sync and mfs_write_volume_header.                          *)

\* The list of zones is walked to its end whether a zone is dirty or not.
ZoneAfterStuck(z) == IF zmap[z].dirty THEN z + 1 ELSE z
ZoneAfter(z) == z + 1

ZoneMapSync ==
  /\ pc = "zsync" /\ zi \in Zones
  /\ IF zmap[zi].dirty
       THEN /\ zmap' = [zmap EXCEPT ![zi].stamp = lastcommit]
            /\ WriteVol([view EXCEPT !.zone[zi] = [alloc |-> zmap[zi].alloc,
                                                   stamp |-> lastcommit]])
            /\ pend' = pend \ BlocksOf(zi)
       ELSE UNCHANGED <<disk, view, zmap, pend>>
  /\ zi' = ZoneAfter(zi)
  /\ UNCHANGED <<mode, pc, call, err, logvars, vol_hdr, txn, todo, ld, list>>

WriteVolumeHeader ==
  /\ pc = "zsync" /\ zi \notin Zones
  /\ WriteVol([view EXCEPT !.hdr = vol_hdr])
  /\ pc' = "ready" /\ call' = "none"
  /\ UNCHANGED <<mode, err, logvars, memvars, txn, callvars>>

-----------------------------------------------------------------------------
(* The calls a client makes.                                               *)

InBounds == current_log.stamp <= MaxStamp

\* What mfs_zone_find_run can hand out: what the zone maps call free, less
\* what was handed out before.  Blocks freed by the open transaction stay in
\* the zone maps, and out of reach, until it is committed.
FreeBlocksForgetful == {b \in Blocks : b \notin zmap[ZoneOf[b]].alloc}
FreeBlocks == {b \in Blocks : b \notin zmap[ZoneOf[b]].alloc /\ b \notin pend}

\* mfs_log_zone_update_for_inodes: the blocks in one inode and not the other.
OnlyInUnlessEmpty(B, C) == IF C = {} THEN {} ELSE B \ C
OnlyIn(B, C) == B \ C

\* mfs_log_inode_update of an inode to own the blocks of B, {} to delete it,
\* with the mfs_alloc_greedy that found its new blocks.  A client passes a
\* file once in a transaction: the old contents are those on disk.
LogInodeUpdate(f, B) ==
  LET old == view.inode[f]
  IN  /\ pc = "ready" /\ mode = "rw" /\ current_log # NoLog /\ InBounds
      /\ txn[f] = NoChange /\ Cardinality(Touched) < MaxTxn
      /\ B # old /\ (B \ old) \subseteq FreeBlocks
      /\ pend' = pend \cup (B \ old)
      /\ txn' = [txn EXCEPT ![f] = B]
      /\ todo' = [free  |-> OnlyIn(old, B),
                  alloc |-> OnlyIn(B, old),
                  tail  |-> <<InodeRec(f, B)>>]
      /\ pc' = "add" /\ call' = "log"
      /\ UNCHANGED <<disk, view, mode, err, logvars, zmap, vol_hdr, ld, list, zi>>

\* mfs_alloc_greedy running out of space after it took some blocks: it
\* returns 0 and leaves them marked as handed out.
AllocFails(B) ==
  /\ pc = "ready" /\ mode = "rw" /\ current_log # NoLog /\ InBounds
  /\ B # {} /\ B \subseteq FreeBlocks
  /\ pend' = pend \cup B
  /\ UNCHANGED <<disk, view, mode, pc, call, err, logvars, zmap, vol_hdr, txn, callvars>>

LogCommit ==
  /\ pc = "ready" /\ mode = "rw" /\ current_log # NoLog /\ InBounds
  /\ pc' = "add" /\ call' = "commit"
  /\ todo' = [NoTodo EXCEPT !.tail = <<Mark("commit")>>]
  /\ UNCHANGED <<disk, view, mode, err, logvars, memvars, txn, ld, list, zi>>

\* What mfs_log_fssync decides before it writes anything.
FssyncVerdict ==
  IF current_log = NoLog THEN "replay"
  ELSE IF current_log.first \/ current_log.size # 0 THEN "outstanding"
  ELSE IF current_log.stamp = lastsync + 1 THEN "synced"
  ELSE IF current_log.stamp # lastcommit + 1 THEN "uncommitted"
  ELSE "sync"

LogFssync ==
  /\ pc = "ready" /\ InBounds
  /\ LET v == FssyncVerdict
     IN  \/ /\ v = "replay"
            /\ pc' = "load" /\ call' = "fssync"
            /\ ld' = [next |-> vol_hdr.stamp + 1, last |-> NoEnd, part |-> <<>>]
            /\ UNCHANGED <<err, todo>>
         \/ /\ v = "sync"
            /\ pc' = "add" /\ call' = "fssync"
            /\ todo' = [NoTodo EXCEPT !.tail = <<Mark("fssync")>>]
            /\ UNCHANGED <<err, ld>>
         \/ /\ v \notin {"replay", "sync"}
            /\ IF v = "synced" THEN UNCHANGED <<pc, err>>
                               ELSE pc' = "failed" /\ err' = v
            /\ UNCHANGED <<call, todo, ld>>
  /\ list' = <<>>
  /\ UNCHANGED <<disk, view, mode, logvars, memvars, txn, zi>>

-----------------------------------------------------------------------------
(* The process stops, at any point, and the volume is opened again.        *)

Crash ==
  /\ pc # "down"
  /\ pc' = "down" /\ call' = "none" /\ err' = "none"
  /\ view' = disk
  /\ current_log' = NoLog /\ lastcommit' = 0 /\ lastsync' = 0
  /\ zmap' = LoadedZones(disk) /\ vol_hdr' = disk.hdr /\ pend' = {}
  /\ txn' = NoTxn
  /\ todo' = NoTodo /\ ld' = NoLoad /\ list' = <<>> /\ zi' = 1
  /\ UNCHANGED <<disk, mode>>

\* mfs_init, and mfs_enable_memwrite for "mem".
Mount(m) ==
  /\ pc = "down"
  /\ mode' = m /\ pc' = "ready"
  /\ view' = disk /\ zmap' = LoadedZones(disk) /\ vol_hdr' = disk.hdr
  /\ UNCHANGED <<disk, call, err, logvars, pend, txn, callvars>>

\* One step of the call in progress.
Step == \/ AddEntry \/ CloseSector
        \/ LoadSector \/ LoadDone \/ Scan
        \/ ApplyEntry \/ CommitApplied \/ ReplayApplied
        \/ ZoneMapSync \/ WriteVolumeHeader

Client == \/ \E f \in Fsids, B \in SUBSET Blocks : LogInodeUpdate(f, B)
          \/ \E B \in SUBSET Blocks : AllocFails(B)
          \/ LogCommit \/ LogFssync

Next == \/ Step
        \/ Client
        \/ Crash
        \/ \E m \in RemountModes : Mount(m)

Spec == Init /\ [][Next]_vars

\* A call that has started goes on until it returns: nothing in the library
\* waits for anything but the drive.
FairSpec == Spec /\ WF_vars(Step)

-----------------------------------------------------------------------------
PCs   == {"down", "ready", "add", "close", "load", "scan", "apply", "zsync", "failed"}
Calls == {"none", "log", "commit", "fssync"}
Errs  == {"none", "badlog", "outstanding", "uncommitted"}

\* Every variable has its type, and a log sector being filled has room left.
TypeOK ==
  /\ disk \in Volume /\ view \in Volume
  /\ mode \in {"rw", "mem"} /\ pc \in PCs /\ call \in Calls /\ err \in Errs
  /\ current_log \in [stamp : Nat, first : BOOLEAN, recs : Seq(Rec), size : 0..(Cap - 1)]
  /\ lastcommit \in Nat /\ lastsync \in Nat
  /\ zmap \in [Zones -> [alloc : SUBSET Blocks, stamp : Nat, dirty : BOOLEAN]]
  /\ vol_hdr \in [stamp : Nat, next_fsid : Nat]
  /\ pend \subseteq Blocks
  /\ txn \in [Fsids -> {NoChange} \cup SUBSET Blocks]
  /\ todo \in [free : SUBSET Blocks, alloc : SUBSET Blocks, tail : Seq(Rec)]
  /\ ld \in [next : Nat, last : Nat, part : Seq(Entry)]
  /\ list \in Seq(Entry)
  /\ zi \in 1..(NZones + 1)

\* The blocks an inode of the open transaction gains.
Gained(f) == IF txn[f] = NoChange THEN {} ELSE txn[f] \ view.inode[f]

\* No two files of the open transaction gain the same block, and no block
\* gained is allocated in the loaded zone maps before the transaction is
\* committed, so writing its data ahead of the commit harms nobody
\* (mfs_zone_find_run with changed_runs, mfs_zone_map_commit).
GainedIsOurs ==
  \A f \in Fsids : \A b \in Gained(f) :
     /\ b \notin zmap[ZoneOf[b]].alloc
     /\ \A g \in Fsids \ {f} : b \notin Gained(g)

-----------------------------------------------------------------------------
(* Why it holds, as an invariant every step preserves, for a volume that   *)
(* is not reopened for writing.                                            *)

\* A transaction is open only between calls, or in the ones that build it.
TxnOpen == txn # NoTxn =>
  /\ mode = "rw" /\ current_log # NoLog
  /\ pc \in {"ready", "add", "close", "failed"}
  /\ pc = "add" => call \in {"log", "commit"}
  /\ pc = "close" => call = "commit"

\* Before its first replay a volume open for writing is as restore left it.
FreshLog == (mode = "rw" /\ current_log = NoLog /\ pc # "down") =>
  /\ pc \in {"ready", "load", "scan", "apply", "failed"}
  /\ pc \in {"load", "scan", "apply"} => call = "fssync" /\ ld.next = 1
  /\ view.log = FreshVolume.log /\ vol_hdr.stamp = 0
  /\ lastcommit = 0 /\ lastsync = 0 /\ list = <<>> /\ ld.part = <<>>

\* A replay is the first thing that happens to the log.
ReplayFirst == (pc \in {"load", "scan", "apply"} /\ call = "fssync") => current_log = NoLog

\* The log grows from behind the last commit.
LogAhead == (mode = "rw" /\ current_log # NoLog) =>
  /\ lastcommit < current_log.stamp
  /\ (pc \in {"load", "scan", "apply"} /\ call = "commit") => ld.last < current_log.stamp

\* An open transaction has entries behind the last commit, so that a sync is
\* refused: the zones' lists of blocks handed out outlive the transaction.
TxnLogged == (pc = "ready" /\ txn # NoTxn) =>
  current_log.first \/ current_log.size # 0 \/ current_log.stamp # lastcommit + 1

\* Every block gained is still in its zone's list of blocks handed out.
GainedPending == \A f \in Fsids : Gained(f) \subseteq pend

TxnInv == /\ TxnOpen /\ FreshLog /\ ReplayFirst /\ LogAhead /\ TxnLogged
          /\ GainedPending /\ GainedIsOurs
=============================================================================
