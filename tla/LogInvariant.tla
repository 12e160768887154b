---------------------------- MODULE LogInvariant ----------------------------
(***************************************************************************)
(* Why a replay of the log finds every committed transaction whole and no  *)
(* other: what every step keeps true of the log, the zone maps, the        *)
(* inodes, the header and the open transaction of a volume that is not     *)
(* reopened for writing.                                                   *)
(***************************************************************************)
EXTENDS MfsRecovery

k == current_log.stamp
H == view.hdr.stamp
RecsAt(s) == SectorAt(view, s).recs
RecSet(seq) == {seq[i] : i \in DOMAIN seq}
RecsIn(S) == UNION {RecSet(RecsAt(s)) : s \in S}

\* The entries that say something of a file or a block.
Data(R) == {r \in R : r.t \in {"map", "inode"}}

\* The volume is being written and its log is known.
Running == mode = "rw" /\ pc # "down" /\ current_log # NoLog

\* A commit has been written and its entries are being applied.
Applying == call = "commit" /\ pc \in {"load", "apply"}

\* The last log sector that a replay would apply.
Frontier == IF Applying THEN ld.last ELSE IF CommitLanded THEN k - 1 ELSE lastcommit

\* The entries of the open transaction that are in the log, and those to come.
OpenRecs == RecsIn((lastcommit + 1)..(k - 1)) \cup RecSet(current_log.recs)
TodoRecs == {MapRec(b, TRUE) : b \in todo.free} \cup {MapRec(b, FALSE) : b \in todo.alloc}
              \cup RecSet(todo.tail)

\* The entries of a commit that is in the log, and those of them not applied yet.
Batch == Data(RecsIn((lastcommit + 1)..Frontier))
LoadedRecs == {list[i].rec : i \in DOMAIN list} \cup {ld.part[i].rec : i \in DOMAIN ld.part}
ToApply == IF Applying THEN Data(LoadedRecs \cup RecsIn(ld.next..ld.last)) ELSE Batch

\* What the open transaction comes to, as log entries.
Lost(f) == IF txn[f] = NoChange THEN {} ELSE view.inode[f] \ txn[f]
Gains  == UNION {Gained(f) : f \in Fsids}
Losses == UNION {Lost(f) : f \in Fsids}
TxnRecs == {InodeRec(f, txn[f]) : f \in Touched}
             \cup {MapRec(b, TRUE) : b \in Losses} \cup {MapRec(b, FALSE) : b \in Gains}

EndsInCommit(seq) == seq # <<>> /\ seq[Len(seq)].t = "commit"

-----------------------------------------------------------------------------
(* The log of a volume v whose last sector written has stamp e, and whose  *)
(* last commit ends with the sector of stamp c.                            *)

\* From the checkpoint on no sector is missing, and an entry that runs over the end
\* of one finds its rest in the next.
WholeLog(v, e) ==
  /\ v.hdr.stamp <= e /\ e <= v.hdr.stamp + NSectors
  /\ \A s \in (v.hdr.stamp + 1)..e : SectorAt(v, s).stamp = s
  /\ \A i \in Slots : v.log[i].stamp <= e
  /\ \A s \in (v.hdr.stamp + 1)..(e - 1) : SectorAt(v, s + 1).first = SectorAt(v, s).split

\* A commit ends its sector; none that is whole comes behind c, and nothing comes
\* between the last one and the end of c.
CommitsEnd(v, e, c) ==
  /\ v.hdr.stamp <= c /\ c <= e
  /\ \A s \in (v.hdr.stamp + 1)..e : \A i \in DOMAIN SectorAt(v, s).recs :
       SectorAt(v, s).recs[i].t = "commit" =>
         /\ i = Len(SectorAt(v, s).recs)
         /\ s > c => s = e /\ SectorAt(v, s).split
  /\ c > v.hdr.stamp =>
       /\ ~SectorAt(v, c).split
       /\ \E s \in (v.hdr.stamp + 1)..c :
            /\ EndsInCommit(SectorAt(v, s).recs)
            /\ \A t \in (s + 1)..c : SectorAt(v, t).recs = <<>>

\* The places of the entries that start in a sector up to c.
PlacesUpto(v, c) ==
  UNION {{<<s, i>> : i \in DOMAIN SectorAt(v, s).recs} : s \in (v.hdr.stamp + 1)..c}
-----------------------------------------------------------------------------
\* What is left to do belongs to the call.
CallOK ==
  /\ pc # "add" => todo = NoTodo
  /\ pc = "add" => call # "none"
  /\ pc = "add" /\ call = "commit" => todo = [NoTodo EXCEPT !.tail = <<Mark("commit")>>]
  /\ pc = "add" /\ call = "fssync" =>
       todo \in {[NoTodo EXCEPT !.tail = <<Mark("fssync")>>],
                 [NoTodo EXCEPT !.tail = <<Mark("replay"), Mark("fssync")>>]}
  /\ pc = "add" /\ call = "log" => \E f \in Touched : todo.tail = <<InodeRec(f, txn[f])>>
  /\ pc = "close" => call \in {"commit", "fssync"}
  /\ pc \in {"scan", "zsync"} => call = "fssync"
  /\ pc \in {"load", "apply"} => call \in {"commit", "fssync"}
  /\ pc \in {"ready", "down"} => call = "none"

SameDisk == mode = "rw" => view = disk

\* Before its first replay the volume is as restore left it.
FreshStart == (mode = "rw" /\ pc # "down" /\ current_log = NoLog) =>
  /\ view = FreshVolume /\ zmap = LoadedZones(FreshVolume) /\ vol_hdr = FreshVolume.hdr
  /\ txn = NoTxn

\* The log is whole from the checkpoint to the sector being filled.
LogWhole == Running =>
  /\ lastcommit <= Frontier /\ H <= lastcommit /\ WholeLog(view, k - 1)
  /\ k - 1 > H => current_log.first = SectorAt(view, k - 1).split
  /\ current_log.size = 0 => ~current_log.first /\ current_log.recs = <<>>

\* Behind the frontier there is no commit but the one being written.
CommitsLast == Running =>
  /\ CommitsEnd(view, k - 1, Frontier)
  /\ \A s \in (Frontier + 1)..(k - 1) : \A i \in DOMAIN RecsAt(s) :
       RecsAt(s)[i].t = "commit" => pc = "close" /\ call = "commit"
  /\ \A i \in DOMAIN current_log.recs : current_log.recs[i].t = "commit" =>
       i = Len(current_log.recs) /\ pc = "close" /\ call = "commit"
  /\ (pc = "close" /\ call = "commit") =>
       \/ EndsInCommit(current_log.recs)
       \/ current_log.recs = <<>> /\ k - 1 > lastcommit /\ EndsInCommit(RecsAt(k - 1))

\* The log says of the open transaction what the client asked for.
TxnInLog == (Running /\ ~Applying) => Data(OpenRecs) \cup Data(TodoRecs) = TxnRecs

\* The loader is somewhere in the entries of a commit, and drops none.
LoaderOK == (Running /\ Applying) =>
  /\ ld.last = k - 1 /\ lastcommit < ld.last /\ ld.next \in (lastcommit + 1)..(ld.last + 1)
  /\ current_log.recs = <<>> /\ current_log.size = 0
  /\ pc = "apply" => ld.next = ld.last + 1 /\ ld.part = <<>>
  /\ pc = "load" => (ld.part # <<>> <=> ld.next > lastcommit + 1 /\ SectorAt(view, ld.next - 1).split)
  /\ pc = "load" /\ list # <<>> => ld.next > lastcommit + 1
  /\ \A i \in DOMAIN list : list[i].stamp > lastcommit
  /\ \A i \in DOMAIN ld.part : ld.part[i].stamp > lastcommit
  /\ Data(LoadedRecs) \subseteq Batch

\* An entry of a commit is still to be applied, or has been.
BatchApplied == (Running /\ Applying) =>
  /\ \A f \in Fsids, B \in SUBSET Blocks : InodeRec(f, B) \in Batch =>
       InodeRec(f, B) \in ToApply \/ view.inode[f] = B
  /\ \A b \in Blocks, x \in BOOLEAN : MapRec(b, x) \in Batch =>
       MapRec(b, x) \in ToApply \/ (b \in zmap[ZoneOf[b]].alloc <=> ~x)

\* The stamps of zone maps and header, and what a checkpoint has written.
StampsOK == Running =>
  /\ \A z \in Zones : view.zone[z].stamp <= lastcommit /\ zmap[z].stamp <= lastcommit
  /\ \A z \in Zones : ~zmap[z].dirty => zmap[z].alloc = view.zone[z].alloc
  /\ pc = "zsync" => \A z \in Zones : z < zi => zmap[z].alloc = view.zone[z].alloc
  /\ vol_hdr.stamp = lastcommit

\* A replay comes to what memory has, once the entries of the last commit are applied.
FilesLogged == Running =>
  LET F == RecoveredFiles(view)
  IN  /\ \A f \in Fsids, B \in SUBSET Blocks : InodeRec(f, B) \in Batch => F[f] = B
      /\ \A f \in Fsids : F[f] = view.inode[f] \/ InodeRec(f, F[f]) \in Batch
BlocksLogged == Running =>
  LET A == RecoveredAlloc(view)
  IN  /\ \A b \in Blocks, x \in BOOLEAN : MapRec(b, x) \in Batch => (b \in A <=> ~x)
      /\ \A b \in Blocks : (b \in A <=> b \in zmap[ZoneOf[b]].alloc)
                           \/ \E x \in BOOLEAN : MapRec(b, x) \in Batch
FsidsLogged == Running =>
  LET n == RecoveredNextFsid(view)
  IN  /\ \A f \in Fsids, B \in SUBSET Blocks : InodeRec(f, B) \in Batch => f < n
      /\ vol_hdr.next_fsid <= n
      /\ \/ vol_hdr.next_fsid = n
         \/ \E f \in Fsids, B \in SUBSET Blocks : InodeRec(f, B) \in ToApply /\ n = f + 1

-----------------------------------------------------------------------------
(* How full the log is: no step checks it, so that transactions have to be *)
(* short enough for the room that a commit's periodic sync leaves.         *)

Half == NSectors \div 2

\* The units of log that a sync, the running call and the open transaction take.
SyncLen == IF lastcommit = 0 THEN 2 * MarkLen ELSE MarkLen
TodoUnits == MapLen * (Cardinality(todo.free) + Cardinality(todo.alloc))
               + (IF call = "log" THEN InodeLen ELSE MarkLen) * Len(todo.tail)
TxnUnits == MapLen * Cardinality(Gains \cup Losses) + InodeLen * Cardinality(Touched)

\* The sectors that n units go over, beyond the one they start in.
Beyond(n) == n \div Cap

\* A transaction of n units with its commit leaves room for the sync behind it: after a
\* commit in the first half of the log, and after a sync.
Fits(n) ==
  /\ Half + 1 + Beyond(n) + 1 + Beyond(MarkLen) <= NSectors
  /\ 2 + Beyond(2 * MarkLen) + Beyond(n) + 1 + Beyond(MarkLen) <= NSectors
ShortTxn(n) == TxnUnits + MarkLen <= n

\* A transaction takes no more units than all blocks and MaxTxn inodes do.
LongestTxn == MapLen * Cardinality(Blocks) + InodeLen * MaxTxn + MarkLen
FewTouched == Cardinality(Touched) <= MaxTxn

\* Where the transaction's entries start, at the latest.
Base == IF H = lastcommit THEN lastcommit + 2 + Beyond(SyncLen) ELSE lastcommit + 1

LogRoom == Running =>
  /\ lastsync = 0
  /\ call # "fssync" /\ ~Applying =>
       /\ (k - Base) * Cap + current_log.size + TodoUnits
            <= TxnUnits + (IF call = "commit" THEN MarkLen ELSE 0)
       /\ H = lastcommit \/ lastcommit <= Half
  /\ call = "fssync" /\ pc \in {"add", "close"} =>
       (k - (lastcommit + 1)) * Cap + current_log.size + TodoUnits <= SyncLen
  /\ call = "fssync" /\ pc = "zsync" =>
       current_log.size = 0 /\ k <= lastcommit + 2 + Beyond(SyncLen)
  /\ call = "fssync" => lastcommit + 1 + Beyond(SyncLen) <= H + NSectors
  /\ Applying => ld.last + 1 + Beyond(MarkLen) <= H + NSectors

RecoveryInv ==
  /\ CallOK /\ SameDisk /\ FreshStart /\ LogWhole /\ CommitsLast /\ TxnInLog /\ LoaderOK
  /\ BatchApplied /\ StampsOK /\ FilesLogged /\ BlocksLogged /\ FsidsLogged /\ LogRoom
  /\ NoLeakNoSharing

-----------------------------------------------------------------------------
(* What a reader's replay does, in memwrite mode: the loader goes through  *)
(* the log of the drives from the checkpoint on, and what it has loaded is *)
(* applied to the overlay, to the zone maps and to the header.             *)

\* Wherever the process stops, the drives hold a whole log.
DiskWhole == \E e \in Nat, c \in Nat : WholeLog(disk, e) /\ CommitsEnd(disk, e, c)

\* The sequence q has the entries at the places P of the log of v, in their order.
Before(x, y) == x[1] < y[1] \/ (x[1] = y[1] /\ x[2] < y[2])
PlacedAt(q, v, P, p) ==
  /\ \A i \in DOMAIN q : q[i].stamp = p[i][1] /\ q[i].rec = RecAt(v, p[i])
  /\ \A x \in P : \E i \in DOMAIN q : p[i] = x
  /\ \A i, j \in DOMAIN q : i < j => Before(p[i], p[j])
InOrder(q, v, P) == \E p \in [DOMAIN q -> P] : PlacedAt(q, v, P, p)

\* A reader starts no transaction, and a new process knows no log until its replay is
\* applied.
ReaderCalls == /\ mode # "rw" => call \in {"none", "fssync"}
               /\ mode # "rw" /\ pc \in {"add", "close", "zsync"} => current_log # NoLog
               /\ pc = "down" => current_log = NoLog

\* Until its replay is applied a reader has what the drives have.
ReaderMounts == (mode # "rw" /\ current_log = NoLog /\ pc \in {"ready", "load", "scan"}) =>
  view = disk /\ zmap = LoadedZones(disk) /\ vol_hdr = disk.hdr

\* The loader has the entries of the sectors before ld.next, the last of which may be
\* waiting for its rest.
ReaderLoads == (mode # "rw" /\ pc = "load") =>
  /\ ld.last = NoEnd /\ disk.hdr.stamp < ld.next
  /\ ld.next = disk.hdr.stamp + 1 => list = <<>> /\ ld.part = <<>>
  /\ ld.next > disk.hdr.stamp + 1 =>
       /\ SectorAt(disk, ld.next - 1).stamp = ld.next - 1
       /\ ld.part # <<>> <=> SectorAt(disk, ld.next - 1).split
  /\ ld.part # <<>> => Len(ld.part) = 1
  /\ InOrder(list \o ld.part, disk, PlacesUpto(disk, ld.next - 1))
ReaderScans == (mode # "rw" /\ pc = "scan") => InOrder(list, disk, LivePlaces(disk))

\* The entries not applied yet, or what has been applied, give each file and each block
\* its last committed state.
IsInode(e, f) == e.rec.t = "inode" /\ e.rec.fsid = f
IsNewMap(e, b) == e.rec.t = "map" /\ e.rec.blk = b /\ e.stamp > zmap[ZoneOf[b]].stamp
FilesRemain == \A f \in Fsids :
  /\ \A i \in DOMAIN list : IsInode(list[i], f) =>
       \/ list[i].rec.blks = RecoveredFiles(disk)[f]
       \/ \E j \in DOMAIN list : i < j /\ IsInode(list[j], f)
  /\ \/ view.inode[f] = RecoveredFiles(disk)[f]
     \/ \E i \in DOMAIN list : IsInode(list[i], f)
BlocksRemain == \A b \in Blocks :
  /\ \A i \in DOMAIN list : IsNewMap(list[i], b) =>
       \/ b \in RecoveredAlloc(disk) <=> ~list[i].rec.free
       \/ \E j \in DOMAIN list : i < j /\ IsNewMap(list[j], b)
  /\ \/ b \in RecoveredAlloc(disk) <=> b \in zmap[ZoneOf[b]].alloc
     \/ \E i \in DOMAIN list : IsNewMap(list[i], b)
FsidsRemain ==
  LET n == RecoveredNextFsid(disk)
  IN  /\ vol_hdr.next_fsid <= n
      /\ \A i \in DOMAIN list : \A f \in Fsids : IsInode(list[i], f) => f < n
      /\ \/ vol_hdr.next_fsid = n
         \/ \E i \in DOMAIN list : \E f \in Fsids : IsInode(list[i], f) /\ n = f + 1

\* They are in the order of the log, and behind every commit there is a new sector, so
\* that the stamp a zone map takes from it hides none of them.
StampsRise ==
  /\ \A i, j \in DOMAIN list : i < j =>
       /\ list[i].stamp <= list[j].stamp
       /\ list[i].rec.t = "commit" => list[i].stamp < list[j].stamp
  /\ \A z \in Zones : zmap[z].dirty => \A i \in DOMAIN list : zmap[z].stamp <= list[i].stamp
Remains == FilesRemain /\ BlocksRemain /\ FsidsRemain /\ StampsRise
ReaderApplies == (mode # "rw" /\ pc = "apply") => Remains

\* From then on a reader has what the log says.
ReaderHas == (mode # "rw" /\ current_log # NoLog) =>
  /\ \A f \in Fsids : view.inode[f] = RecoveredFiles(disk)[f]
  /\ \A b \in Blocks : b \in RecoveredAlloc(disk) <=> b \in zmap[ZoneOf[b]].alloc
  /\ vol_hdr.next_fsid = RecoveredNextFsid(disk)

ReaderInv ==
  /\ DiskWhole /\ ReaderCalls /\ ReaderMounts /\ ReaderLoads /\ ReaderScans /\ ReaderApplies
  /\ ReaderHas /\ err # "badlog"
=============================================================================
