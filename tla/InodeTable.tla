----------------------------- MODULE InodeTable -----------------------------
(***************************************************************************)
(* The inode table (lib/inode.c) as the transaction log writes it          *)
(* (mfs_log_sync_inode in lib/log.c).  A file's inode is found from its    *)
(* fsid: the hash gives the first place to look, and the search goes on    *)
(* from one inode to the next while they are flagged as chained.           *)
(*                                                                         *)
(* Entries are applied when they are committed and again, all of them from *)
(* the last sync on, after a crash.  An inode write is atomic: both copies *)
(* are written in one call, and the reader takes the one whose checksum is *)
(* right.                                                                  *)
(***************************************************************************)
EXTENDS Integers, FiniteSets, Sequences, FiniteSetsExt

CONSTANTS
  NInodes,      \* mfs_inode_count
  Fsids,        \* fsids of files, positive integers
  Home,         \* fsid * MFS_FSID_HASH, as an inode number
  Data,         \* what distinguishes two versions of a file
  Modes,        \* what may happen: "crashes", or files at the end of a chain "deleted"
  MaxLog        \* bound: entries between two syncs

ASSUME TableOK == /\ NInodes \in Nat \ {0} /\ Fsids \subseteq Nat \ {0}
                  /\ Home \in [Fsids -> 0..(NInodes - 1)]
                  /\ Modes \subseteq {"crashes", "deleted"} /\ MaxLog \in Nat

VARIABLES
  table,   \* the inodes on the drive
  log,     \* the entries committed since the last sync
  done,    \* how many of them have been applied
  pc,      \* "idle", "mark" or "write" in the middle of an entry, or "failed"
  src,     \* the inode mfs_find_inode_for_fsid has in memory
  inode,   \* the number it is going to give it
  files,   \* what the committed entries say: contents, or why there are none
  mode     \* which of Modes this behaviour is

vars == <<table, log, done, pc, src, inode, files, mode>>

Inodes == 0..(NInodes - 1)
\* Why a file has no contents.
Unborn == "unborn"
Gone   == "gone"

ASSUME MarksApart == Unborn \notin Data /\ Gone \notin Data

None == 0           \* the fsid of an inode not in use
Unknown == -1       \* the inode number of an entry that leaves it to the fsid
Free == [fsid |-> None, data |-> Gone, chained |-> FALSE]

NextInode(i) == (i + 1) % NInodes

Init == /\ table = [i \in Inodes |-> Free]
        /\ log = <<>> /\ done = 0
        /\ pc = "idle" /\ src = 0 /\ inode = 0
        /\ files = [f \in Fsids |-> Unborn]
        /\ mode \in Modes

-----------------------------------------------------------------------------
(* The search from the home of an fsid.                                    *)

\* The inode n places after the home of f.
Place(f, n) == (Home[f] + n) % NInodes

\* How many places on the search for f ends: at the fsid, at an inode that is
\* not chained, or once round.
StopAt(f) == Min({n \in Inodes : \/ table[Place(f, n)].fsid = f
                                 \/ ~table[Place(f, n)].chained
                                 \/ n = NInodes - 1})
Stop(f) == Place(f, StopAt(f))

\* mfs_read_inode_by_fsid.
LookUpHome(f) == IF table[Home[f]].fsid = f THEN {Home[f]} ELSE {}
LookUp(f) == IF table[Stop(f)].fsid = f THEN {Stop(f)} ELSE {}

\* The inode number the search ends with: it has moved on from the inode in
\* memory only when the search went all the way round.
EndedAt(f) == LET e == table[Stop(f)]
              IN  IF e.fsid # f /\ e.chained THEN Home[f] ELSE Stop(f)

\* The empty inodes on the way, by their places.
Passed(f) == {n \in 0..StopAt(f) : table[Place(f, n)].fsid = None}

-----------------------------------------------------------------------------
(* mfs_log_sync_inode for the next entry.                                  *)

Entry == log[done + 1]

\* What the search for a new file's inode comes to: its own inode, an empty
\* one it passed, or the last of the chain, which has to be made longer.
Found(f) == IF LookUp(f) # {}
              THEN [src |-> Stop(f), inode |-> Stop(f), pc |-> "write"]
            ELSE IF Passed(f) # {}
              THEN [src |-> Place(f, Min(Passed(f))), inode |-> EndedAt(f), pc |-> "write"]
            ELSE [src |-> Stop(f), inode |-> EndedAt(f), pc |-> "mark"]

FindInode ==
  /\ pc = "idle" /\ done < Len(log)
  /\ IF Entry.inode # Unknown
       THEN src' = Entry.inode /\ inode' = Entry.inode /\ pc' = "write"
       ELSE LET r == Found(Entry.fsid)
            IN  src' = r.src /\ inode' = r.inode /\ pc' = r.pc
  /\ UNCHANGED <<table, log, done, files>>

\* The search for an empty inode gives up where it began.
GivesUp(i) == NextInode(i) = Home[Entry.fsid]

\* The inode in memory is flagged as chained before the one after it is looked
\* at.
ChainedUnlessHome(i) == i # Home[Entry.fsid]
Chained(i) == TRUE
MarkChained ==
  /\ pc = "mark"
  /\ table' = [table EXCEPT ![src].chained = Chained(src)]
  /\ src' = inode
  /\ IF table[inode].fsid = None
       THEN pc' = "write" /\ UNCHANGED inode
     ELSE IF GivesUp(inode)
       THEN pc' = "failed" /\ UNCHANGED inode
     ELSE inode' = NextInode(inode) /\ UNCHANGED pc
  /\ UNCHANGED <<log, done, files>>

\* The fields of the entry go over those of the inode in memory, which keeps
\* its flag.
WriteInode ==
  /\ pc = "write"
  /\ table' = [table EXCEPT ![inode] = [fsid |-> Entry.fsid, data |-> Entry.data,
                                        chained |-> table[src].chained]]
  /\ done' = done + 1 /\ pc' = "idle"
  /\ UNCHANGED <<log, src, inode, files>>

-----------------------------------------------------------------------------
(* What clients log, syncs and crashes.                                    *)

Ready == pc = "idle" /\ done = Len(log)

Commit(i, f, d) ==
  /\ Ready /\ Len(log) < MaxLog
  /\ log' = Append(log, [inode |-> i, fsid |-> f, data |-> d])
  /\ UNCHANGED <<table, done, pc, src, inode>>

\* Fsids are not used again: mfs_log_sync_inode keeps next_fsid above them.
Create(f, d) == /\ files[f] = Unborn
                /\ Commit(Unknown, f, d)
                /\ files' = [files EXCEPT ![f] = d]

Update(f, d) == /\ files[f] \in Data \ {d}
                /\ \E i \in LookUp(f) \cup {Unknown} : Commit(i, f, d)
                /\ files' = [files EXCEPT ![f] = d]

\* A free: the inode is logged without an fsid.
Delete(f) == /\ mode = "deleted" /\ files[f] \in Data
             /\ \E i \in LookUp(f) : ~table[i].chained /\ Commit(i, None, Gone)
             /\ files' = [files EXCEPT ![f] = Gone]

\* mfs_log_fssync: the log before it is not replayed any more.
Sync == /\ Ready /\ log # <<>>
        /\ log' = <<>> /\ done' = 0
        /\ UNCHANGED <<table, pc, src, inode, files>>

\* The process stops; the next one replays the log.
Crash == /\ mode = "crashes" /\ pc # "failed"
         /\ done' = 0 /\ pc' = "idle"
         /\ UNCHANGED <<table, log, src, inode, files>>

Next == /\ \/ FindInode \/ MarkChained \/ WriteInode
           \/ \E f \in Fsids, d \in Data : Create(f, d) \/ Update(f, d)
           \/ \E f \in Fsids : Delete(f)
           \/ Sync \/ Crash
        /\ UNCHANGED mode

Spec == Init /\ [][Next]_vars

-----------------------------------------------------------------------------
InUse(i) == table[i].fsid # None

\* Every variable has its type.
TypeOK ==
  /\ table \in [Inodes -> [fsid : Fsids \cup {None}, data : Data \cup {Gone},
                           chained : BOOLEAN]]
  /\ log \in Seq([inode : Inodes \cup {Unknown}, fsid : Fsids \cup {None},
                  data : Data \cup {Gone}])
  /\ done \in 0..Len(log) /\ pc \in {"idle", "mark", "write", "failed"}
  /\ src \in Inodes /\ inode \in Inodes
  /\ files \in [Fsids -> Data \cup {Unborn, Gone}] /\ mode \in Modes

\* Every variable has its type, and every inode between the home of a file and the file's own is flagged as
\* chained, also when a crash comes between flagging and writing: it is what
\* mfsck reports as "requires chained flag, but not set".
ChainsWhole ==
  /\ TypeOK
  /\ \A i \in Inodes : InUse(i) =>
    \A n \in 0..(NInodes - 1) :
      (\A m \in 0..n : Place(table[i].fsid, m) # i) => table[Place(table[i].fsid, n)].chained

\* Between calls every file is found under its fsid with what was committed
\* last, and nothing else is, however often a crash made the log run again;
\* and a new file is turned down only when every inode is in use.
FilesFound ==
  /\ Ready => \A f \in Fsids : {table[i].data : i \in LookUp(f)} = {files[f]} \cap Data
  /\ pc = "failed" => \A i \in Inodes : InUse(i)

\* No fsid has two inodes, not even halfway through a replay.
OneInode == \A i, j \in Inodes : (InUse(i) /\ table[i].fsid = table[j].fsid) => i = j
=============================================================================
