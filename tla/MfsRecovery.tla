---------------------------- MODULE MfsRecovery -----------------------------
(***************************************************************************)
(* What the transaction log means: the state that replaying a volume's log *)
(* would rebuild, stated directly over the sectors of the log instead of   *)
(* step by step, and the properties of MfsLog that are about it.           *)
(***************************************************************************)
EXTENDS MfsLog, FiniteSetsExt

\* The log sectors a replay of volume v reads: the stamps that follow the
\* header's without a gap.
LiveStamps(v) ==
  {s \in (v.hdr.stamp + 1)..(v.hdr.stamp + NSectors) :
     \A t \in (v.hdr.stamp + 1)..s : v.log[Slot(t)].stamp = t}

\* An entry is known by its place: the stamp of the sector it starts in, and its
\* position there.  Places are in the order the entries were added.
SectorAt(v, s) == v.log[Slot(s)]
RecAt(v, p) == SectorAt(v, p[1]).recs[p[2]]
Upto(p, q) == p[1] < q[1] \/ (p[1] = q[1] /\ p[2] <= q[2])
LastPlace(P) == CHOOSE p \in P : \A q \in P : Upto(q, p)

\* How many entries of a live sector a replay sees the end of: the last one may go
\* on in a sector that is missing.
Ended(v, s) == IF SectorAt(v, s + 1).stamp = s + 1 THEN Len(SectorAt(v, s).recs)
                                                   ELSE WholeIn(SectorAt(v, s))
LivePlaces(v) == UNION {{<<s, i>> : i \in 1..Ended(v, s)} : s \in LiveStamps(v)}

\* Those a replay applies: up to the last commit.
Commits(v)   == {p \in LivePlaces(v) : RecAt(v, p).t = "commit"}
Committed(v) == UNION {{p \in LivePlaces(v) : Upto(p, q)} : q \in Commits(v)}

InodePlaces(v, P, f) == {p \in P : RecAt(v, p).t = "inode" /\ RecAt(v, p).fsid = f}
MapPlaces(v, P, b)   == {p \in P : RecAt(v, p).t = "map" /\ RecAt(v, p).blk = b}

\* The last entry about an inode decides.
RecoveredFiles(v) ==
  LET committed == Committed(v)
      Last(P, old) == IF P = {} THEN old ELSE RecAt(v, LastPlace(P)).blks
  IN  [f \in Fsids |-> Last(InodePlaces(v, committed, f), v.inode[f])]

\* The last entry about a block, but a zone map takes only those that are newer than
\* its own stamp.
RecoveredAlloc(v) ==
  LET committed == Committed(v)
      Taken(P, old) == IF P = {} THEN old ELSE ~RecAt(v, LastPlace(P)).free
  IN  {b \in Blocks :
         LET z == v.zone[ZoneOf[b]]
         IN  Taken({p \in MapPlaces(v, committed, b) : p[1] > z.stamp}, b \in z.alloc)}

RecoveredNextFsid(v) ==
  LET committed == Committed(v)
      logged == {f \in Fsids : InodePlaces(v, committed, f) # {}}
  IN  Max({v.hdr.next_fsid} \cup {f + 1 : f \in logged})

-----------------------------------------------------------------------------
\* The commit entry has reached the log with the sector it filled up, ahead of
\* the write that ends the call.
CommitLanded == pc = "close" /\ call = "commit" /\ current_log.size = 0

Fs == INSTANCE AtomicFs WITH
        files  <- RecoveredFiles(disk),
        staged <- IF CommitLanded THEN NoTxn ELSE txn

\* The log implements the atomic file system: whatever a crash leaves on the
\* drives, a replay finds every committed transaction whole and no other, and
\* blocks of committed files are never handed out (log.c and zonemap.c).
Atomic == Fs!Spec

\* Replaying the log gives a block map and inodes that agree: a block is
\* allocated exactly when some file owns it, and one file only; and an fsid for
\* the next file that no file has.  It relates zone maps, inodes and the header,
\* which a sync writes at different moments.
NoLeakNoSharing ==
  LET fs == RecoveredFiles(disk)
  IN  /\ RecoveredAlloc(disk) = UNION {fs[f] : f \in Fsids}
      /\ \A f, g \in Fsids : f # g => fs[f] \cap fs[g] = {}
      /\ \A f \in Fsids : fs[f] # {} => f < RecoveredNextFsid(disk)

Synced == pc = "ready" /\ current_log # NoLog

\* Between calls, what the library holds in memory (or a memwrite reader sees
\* through its overlay) is what a replay of the drives would rebuild.
MemoryIsReplay ==
  Synced => /\ view.inode = RecoveredFiles(disk)
            /\ {b \in Blocks : b \in zmap[ZoneOf[b]].alloc} = RecoveredAlloc(disk)
            /\ vol_hdr.next_fsid = RecoveredNextFsid(disk)

\* Between calls at most half of the log separates the last commit from the
\* checkpoint in the header, and the log has not come round to sectors that a
\* replay still needs (mfs_log_commit's periodic fssync).
LogNeverFull ==
  (pc = "ready" /\ mode = "rw" /\ current_log # NoLog) =>
     /\ lastcommit - disk.hdr.stamp <= NSectors \div 2
     /\ current_log.stamp - disk.hdr.stamp <= NSectors

\* Whatever a crash leaves of a log that grew without being reopened for
\* writing, the loader takes it: an entry that runs over the end of a sector
\* always finds its rest, or is the last (mfs_log_load_list).
LogLoads == "rw" \notin RemountModes => err # "badlog"

\* A call that was started returns, with success or with an error, unless the
\* process is stopped.
CallsReturn == (pc \notin {"ready", "failed", "down"}) ~> (pc \in {"ready", "failed", "down"})

-----------------------------------------------------------------------------
(* What a comment in the source says and the code does not do.              *)

\* mfs.h:93, zone_changed_run: a run with currently live data in it is never
\* handed out, that is, one that a replay of the drives gives to a file.
LiveDataNotHandedOut ==
  LET fs == RecoveredFiles(disk)
  IN  \A f \in Touched : (txn[f] \ fs[f]) \cap UNION {fs[g] : g \in Fsids} = {}
=============================================================================
