---------------------------- MODULE CopyPrograms ----------------------------
(***************************************************************************)
(* The programs around the stream: mfstool backup and restore, with a file *)
(* or a pipe between them (backmain.c, restmain.c), and mfstool copy, one  *)
(* process that reads with one hand and writes with the other (copy.c).    *)
(* A stored backup may be cut short or damaged before it is restored.      *)
(***************************************************************************)
EXTENDS BackupStream, RestoreStream

CONSTANTS
  Modes,   \* subset of {"file", "pipe", "copy"}
  Bufs,    \* sectors in the programs' buffer (BUFSIZE / 512)
  Ratios   \* units of data in a unit of compressed data; 0 for no compression

ASSUME JobsOK == Bufs \subseteq Nat \ {0} /\ Ratios \subseteq Nat

VARIABLES
  job,    \* [mode, buf] of this run of the programs, never changed
  phase,  \* where the programs are
  file,   \* the backup on its way, a sequence of units
  chunk,  \* the buffer of restore and copy
  whole   \* nothing happened to the stored backup

vars == <<bvars, rvars, job, phase, file, chunk, whole>>

Size == job.buf * SECTOR
Copies == job.mode = "copy"

Init ==
  /\ \E mode \in Modes, buf \in Bufs, ratio \in Ratios :
       /\ mode = "copy" => ratio = 0
       /\ job = [mode |-> mode, buf |-> buf]
       /\ BackupInit(ratio > 0, ratio)
       /\ phase = IF mode = "copy" THEN "fill" ELSE "backup"
  /\ RestoreInit /\ file = <<>> /\ chunk = <<>> /\ whole = TRUE

BackupReads(size) == ReadStarts(size) /\ UNCHANGED <<rvars, job, phase, file, chunk, whole>>
BackupTaken == bpc = "return" /\ bpc' = "idle" /\ UNCHANGED <<b, bcall, zip, bout>>

----------------------------------------------------------------------------
\* mfstool backup: read and write to the end, then backup_finish.
BackmainReads == phase = "backup" /\ BackupReads(Size)

BackmainWrites ==
  /\ phase = "backup" /\ BackupTaken
  /\ file' = file \o bout
  /\ phase' = IF bout # <<>> THEN "backup"
              ELSE IF b.cursector = NSectors THEN "stored" ELSE "short"
  /\ UNCHANGED <<rvars, job, chunk, whole>>

\* mfstool copy fills its buffer; every read goes to the start of it.
CopyFills == phase = "fill" /\ Len(chunk) < Size /\ BackupReads(Size - Len(chunk))

CopyFilled ==
  /\ phase = "fill" /\ BackupTaken
  /\ chunk' = IF chunk = <<>> THEN bout
              ELSE [i \in 1..(Len(chunk) + Len(bout)) |->
                     IF i <= Len(bout) THEN bout[i]
                     ELSE IF i <= Len(chunk) THEN chunk[i] ELSE <<"junk", 0, 0>>]
  /\ phase' = IF bout = <<>> THEN "failed"
              ELSE IF Len(chunk') < Size THEN "fill" ELSE "filled"
  /\ UNCHANGED <<rvars, job, file, whole>>

----------------------------------------------------------------------------
\* Something happens to the stored backup: it is cut short, or a unit behind
\* the header is not what was written.  zlib notices damage by itself.
CutShort ==
  /\ phase = "stored" /\ job.mode = "file" /\ whole
  /\ \E n \in 0..(Len(file) - 1) : file' = SubSeq(file, 1, n)
  /\ whole' = FALSE /\ UNCHANGED <<bvars, rvars, job, phase, chunk>>

Damaged ==
  /\ phase = "stored" /\ job.mode = "file" /\ whole /\ ~b.compressed
  /\ \E i \in (HeaderSectors * SECTOR + 1)..Len(file) :
       \/ file' = [file EXCEPT ![i] = <<"bad", 0, 0>>]
       \/ /\ file[i][1] = "inode"
          /\ \E size \in (0..MaxData) \ {file[i][3]} : file' = [file EXCEPT ![i][3] = size]
  /\ whole' = FALSE /\ UNCHANGED <<bvars, rvars, job, phase, chunk>>

----------------------------------------------------------------------------
\* read (fd, buf, BUFSIZE): from a pipe it may return with less.
Reads(n) ==
  /\ n <= SmallerOf(Size, Len(file))
  /\ job.mode = "file" => n = SmallerOf(Size, Len(file))
  /\ job.mode = "pipe" /\ file # <<>> => n > 0
  /\ chunk' = SubSeq(file, 1, n) /\ file' = SubSeq(file, n + 1, Len(file))

\* restore and copy hand the first buffer to restore_write.
FirstWrite ==
  /\ \/ /\ phase = "filled" /\ UNCHANGED <<file, chunk>>
        /\ phase' = "first" /\ WriteStarts(chunk)
     \/ /\ phase = "stored"
        /\ \E n \in 0..Size :
             /\ Reads(n)
             /\ IF n = 0 THEN phase' = "failed" /\ UNCHANGED rvars
                ELSE phase' = "first" /\ WriteStarts(chunk')
  /\ UNCHANGED <<bvars, job, whole>>

\* With the header known, restore_trydev and restore_start prepare the target.  An error
\* inside restore_write ends the program here too: by a negative result, or, when
\* restore_write makes 511 or 0 of it (restore.c:591, 602), by restore_trydev or at the
\* latest restore_start, which refuses to begin before the whole header has been read.
FirstWritten ==
  /\ phase = "first"
  /\ \/ /\ rpc = "return" /\ Position(r.state) > Position("infoend")
        /\ phase' = "start"
        /\ r' = [r EXCEPT !.initialized = TRUE]
        /\ chunk' = SubSeq(chunk, rcall.got + 1, Len(chunk))
        /\ rpc' = "idle" /\ UNCHANGED <<rcall, unzip, head, target>>
     \/ /\ rpc = "error" \/ (rpc = "return" /\ Position(r.state) <= Position("infoend"))
        /\ phase' = "failed" /\ UNCHANGED <<rvars, chunk>>
  /\ UNCHANGED <<bvars, job, file, whole>>

\* What restore_write had not taken of the first buffer.
RestWrite ==
  /\ phase = "start" /\ phase' = "write" /\ WriteStarts(chunk)
  /\ UNCHANGED <<bvars, job, file, chunk, whole>>

\* restore_write must take all of every buffer from now on.
Written ==
  /\ phase = "write"
  /\ \/ /\ rpc = "return" /\ rcall.got = Len(chunk)
        /\ rpc' = "idle" /\ phase' = "read"
        /\ UNCHANGED <<r, rcall, unzip, head, target>>
     \/ /\ rpc = "error" \/ (rpc = "return" /\ rcall.got # Len(chunk))
        /\ phase' = "failed" /\ UNCHANGED rvars
  /\ UNCHANGED <<bvars, job, file, chunk, whole>>

\* restore_finish: all sectors were seen and the last state was left.
Finished ==
  IF r.cursector # r.nsectors THEN "premature" ELSE IF r.state = "max" THEN "ok" ELSE "failed"

\* The loop of restore: another buffer, or the end.
RestmainLoop ==
  /\ phase = "read" /\ ~Copies
  /\ \E n \in 0..Size :
       /\ Reads(n)
       /\ IF n = 0 THEN phase' = Finished /\ UNCHANGED rvars
          ELSE phase' = "write" /\ WriteStarts(chunk')
  /\ UNCHANGED <<bvars, job, whole>>

\* The loop of copy: backup_finish comes before restore_finish.
CopyReads == phase = "read" /\ Copies /\ BackupReads(Size)

CopyWrites ==
  /\ phase = "read" /\ Copies /\ BackupTaken
  /\ chunk' = bout
  /\ IF bout # <<>> THEN phase' = "write" /\ WriteStarts(bout)
     ELSE /\ phase' = IF b.cursector = NSectors THEN Finished ELSE "short"
          /\ UNCHANGED rvars
  /\ UNCHANGED <<job, file, whole>>

Over == phase \in {"ok", "failed", "premature", "short"}
Exited == Over /\ UNCHANGED vars

Backup == BackupStep /\ UNCHANGED <<rvars, job, phase, file, chunk, whole>>
Restore == RestoreStep /\ UNCHANGED <<bvars, job, phase, file, chunk, whole>>

Next ==
  \/ Backup \/ BackmainReads \/ BackmainWrites \/ CopyFills \/ CopyFilled
  \/ CutShort \/ Damaged
  \/ Restore \/ FirstWrite \/ FirstWritten \/ RestWrite \/ Written
  \/ RestmainLoop \/ CopyReads \/ CopyWrites \/ Exited

Spec == Init /\ [][Next]_vars

\* The programs go on until they exit; nobody has to damage the file.
FairSpec == Spec /\ WF_vars(Next)

----------------------------------------------------------------------------
Phases == {"backup", "fill", "filled", "stored", "first", "start", "write", "read",
           "ok", "failed", "premature", "short"}

TypeOK ==
  /\ phase \in Phases /\ whole \in BOOLEAN
  /\ bpc \in {"idle", "next", "zip", "return"}
  /\ rpc \in {"idle", "first", "next", "unzip", "unzipped", "return", "error"}
  /\ b.state \in ToSet(BackupTable) /\ r.state \in ToSet(RestoreTable)
  /\ b.shared \in 0..(SECTOR - 1) /\ r.shared \in 0..(SECTOR - 1)
  /\ b.cursector \in 0..NSectors /\ r.cursector \in 0..NSectors
  /\ bcall.room \in Nat /\ rcall.room \in Nat
  /\ Len(unzip.out) <= CompBuf * SECTOR

\* The target is the source: every list of the header, the boot block, the
\* raw partitions, the MFS regions, every inode committed and all its data.
TargetIsSource ==
  /\ head.parts = PartUnits /\ head.mfsparts = MfsUnits /\ head.zones = ZoneUnits
  /\ head.extra = FlattenSeq([i \in DOMAIN Drive.extra |-> ExtraUnits(i)])
  /\ target.boot = DataSector("boot", 0, 0)
  /\ target.disk = [i \in DOMAIN Drive.parts |-> DataSectors("disk", i, 0, Drive.parts[i])]
  /\ target.regions = {"mfsinit", "volhdr", "translog", "unkregion", "reinit"}
  /\ target.logged = {}
  /\ target.committed =
       {<<i, <<"inode", i, Drive.files[i]>>, Drive.files[i]>> : i \in DOMAIN Drive.files}
  /\ target.data = [i \in DOMAIN Drive.files |-> DataSectors("data", i, 0, Drive.files[i])]
  /\ target.fixed

\* Every variable has its type, and a restore or copy that reports success has made the target equal to the
\* source, whatever became of the stream on the way and however it was cut
\* into buffers (restore_finish, restore_state_complete_v3).
AcceptedIsWhole == TypeOK /\ (phase = "ok" => TargetIsSource)

\* The scan counts exactly the sectors that the state machine then makes, so no
\* backup ends short of them; one that nothing happened to is restored from a file or by a copy,
\* as long as the first buffer holds more than the header and, for copy, no
\* more than the backup.  The one exception is a compressed backup of which
\* just the last sector waits in the buffer behind zlib (restore_write).
UndamagedRestores ==
  /\ phase # "short"
  /\ (phase \in {"failed", "premature"} /\ whole /\ job.mode # "pipe")
    => \/ job.buf <= HeaderSectors
       \/ Copies /\ job.buf > NSectors
       \/ /\ phase = "premature" /\ b.compressed
          /\ r.state = "complete" /\ Len(unzip.out) = SECTOR

\* The target's last repairs (restore_state_complete_v3) find every inode
\* of the stream committed, with as much data as its record asks for.
RepairsLast ==
  target.fixed =>
    /\ target.logged = {}
    /\ \A i \in DOMAIN Drive.files :
         \E rec \in target.committed :
           rec[1] = i /\ Len(target.data[i]) = rec[3] * SECTOR

\* Backup, restore and copy end, with a result or an error.
ProgramsEnd == <>Over
=============================================================================
