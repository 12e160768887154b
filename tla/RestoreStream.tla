---------------------------- MODULE RestoreStream ---------------------------
(***************************************************************************)
(* The reader of a version 3 backup: restore_write, which takes the stream *)
(* from the caller in buffers of any size, and the state machine that      *)
(* writes the target (restore.c, restorev3.c).                             *)
(*                                                                         *)
(* One action is one call of a state handler; the inode handler, which     *)
(* loops over its inodes, is one action per turn of its loop, and what it  *)
(* does behind the loop belongs to its last turn.                          *)
(***************************************************************************)
EXTENDS StreamFormat

CONSTANT CommitEvery   \* inodes restored before a commit in between (128)

VARIABLES
  r,      \* struct backup_info: the state machine, counters and rest_flags
  rpc,    \* where restore_write is
  rcall,  \* this call of restore_write and of restore_next_sectors
  unzip,  \* struct z_stream_s and comp_buf
  head,   \* what the stream has said of itself: lists of units
  target  \* the drive that is written

rvars == <<r, rpc, rcall, unzip, head, target>>

\* The handlers of restore_v3, in order (NULL entries left out).
RestoreTable ==
  <<"begin", "parts", "mfsparts", "zones", "extra", "infoend", "boot", "partitions",
    "mfsinit", "volhdr", "translog", "unkregion", "reinit", "inodes", "complete", "max">>
Position(s) == CHOOSE i \in DOMAIN RestoreTable : RestoreTable[i] = s

NoUnzip == [open |-> FALSE, out |-> <<>>, held |-> <<>>, ended |-> FALSE]

\* MFS on the target: mounted volumes, the regions of the first volume that
\* are initialised, inode records in the log and committed, and their data.
NoTarget == [boot |-> <<>>, disk |-> <<>>, regions |-> {}, logged |-> {},
             committed |-> {}, data |-> <<>>, fixed |-> FALSE]

RestoreInit ==
  /\ r = [state |-> "begin", val1 |-> 0, val2 |-> 0, ptr |-> 0, shared |-> 0, since |-> 0,
          cursector |-> 0, crc |-> <<>>, nsectors |-> 0, compressed |-> FALSE,
          initialized |-> FALSE]
  /\ rpc = "idle" /\ unzip = NoUnzip /\ target = NoTarget
  /\ head = [parts |-> <<>>, mfsparts |-> <<>>, zones |-> <<>>, extra |-> <<>>]
  /\ rcall = [size |-> 0, in |-> <<>>, room |-> 0, page |-> <<>>, done |-> 0, got |-> 0]

----------------------------------------------------------------------------
\* restore_next_sectors: past the header nothing is done before restore_start.
Handles(s) ==
  /\ rpc \in {"first", "next", "unzipped"} /\ rcall.room > 0
  /\ r.state = s
  /\ Position(s) > Position("infoend") => r.initialized

\* What it does with a handler's answer.
Answered(ret, info, consumed) ==
  LET next == [info EXCEPT !.cursector = @ + consumed,
                           !.crc = @ \o SubSeq(rcall.page, 1, consumed * SECTOR)]
  IN  /\ r' = IF ret = "more" THEN next
              ELSE [next EXCEPT !.state = NextState(RestoreTable, r.state),
                                !.val1 = 0, !.val2 = 0, !.ptr = 0]
      /\ rcall' = [rcall EXCEPT !.room = @ - consumed, !.done = @ + consumed,
                     !.page = SubSeq(@, consumed * SECTOR + 1, Len(@))]
      /\ UNCHANGED <<rpc, unzip>>

\* bsError: restore_next_sectors and restore_write return -1.
HandlerFails == rpc' = "error" /\ UNCHANGED <<r, rcall, unzip, head>>

\* restore_state_begin_v3
RestoreBegin ==
  /\ Handles("begin")
  /\ LET h == rcall.page[1]
     IN  Answered("next", [r EXCEPT !.compressed = h[2], !.nsectors = h[3],
                                    !.shared = HeadLen], 0)
  /\ UNCHANGED <<head, target>>

\* restore_read_header: the units of one list of the header.
ReadHeader(list, len) ==
  LET count == HeaderCount(len, r.val1, r.shared, rcall.room)
      end   == r.shared + count
  IN  /\ Handles(list)
      /\ head' = [head EXCEPT ![list] =
                    Put(@, r.val1, SubSeq(rcall.page, r.shared + 1, end))]
      /\ Answered(IF r.val1 + count < len THEN "more" ELSE "next",
                  [r EXCEPT !.val1 = @ + count, !.shared = end % SECTOR], end \div SECTOR)
      /\ UNCHANGED target

\* The lengths are those of the fixed header, which the damage modelled here
\* does not touch.
RestoreHeader ==
  \/ ReadHeader("parts", Len(Drive.parts))
  \/ ReadHeader("mfsparts", Drive.mfs)
  \/ ReadHeader("zones", Drive.zones)
  \/ ReadHeader("extra", Sum(Drive.extra))

\* restore_state_info_end
PaddingLeft == 0
Padding == IF r.shared > 0 THEN 1 ELSE 0
RestoreInfoEnd ==
  /\ Handles("infoend")
  /\ Answered("next", [r EXCEPT !.shared = 0], Padding)
  /\ UNCHANGED <<head, target>>

\* restore_state_boot_block; the raw partitions behind it are empty so far.
RestoreBoot ==
  /\ Handles("boot")
  /\ Answered("next", r, 1)
  /\ target' = [target EXCEPT !.boot = SubSeq(rcall.page, 1, SECTOR),
                              !.disk = [i \in DOMAIN head.parts |-> <<>>]]
  /\ UNCHANGED head

\* restore_state_partitions: the sizes are those in the header just read.
RestorePartitions ==
  /\ Handles("partitions")
  /\ LET p      == r.val1 + 1
         size   == head.parts[p][3]
         tocopy == SmallerOf(size - r.val2, rcall.room)
         info   == IF r.val2 + tocopy >= size THEN [r EXCEPT !.val1 = @ + 1, !.val2 = 0]
                   ELSE [r EXCEPT !.val2 = @ + tocopy]
     IN  /\ target' = [target EXCEPT !.disk[p] =
                         Put(@, r.val2 * SECTOR, SubSeq(rcall.page, 1, tocopy * SECTOR))]
         /\ Answered(IF info.val1 < Len(head.parts) THEN "more" ELSE "next", info, tocopy)
  /\ UNCHANGED head

\* The states that write the target's file system without reading the
\* stream (restore_state_mfs_init, transaction_log_v3, unk_region_v3,
\* mfs_reinit_v3), and the volume header, which takes one sector of it.
RestoreRegion ==
  \E s \in {"mfsinit", "volhdr", "translog", "unkregion", "reinit"} :
    /\ Handles(s)
    /\ target' = [target EXCEPT !.regions = @ \cup {s}]
    /\ Answered("next", r, IF s = "volhdr" THEN 1 ELSE 0)
    /\ UNCHANGED head

\* mfs_log_commit
Commit(t) == [t EXCEPT !.committed = @ \cup t.logged, !.logged = {}]

\* The end of a turn of the loop of restore_state_inodes_v3.  When the buffer
\* or the list is used up, what is finished is committed and it returns.
CommitDueAtLimit(info) == info.since > CommitEvery
CommitDue(info) == info.since > 0
InodeTurn(info, t, consumed) ==
  LET listed  == info.val1 = Len(Drive.files)
      returns == listed \/ rcall.room = consumed
  IN  /\ target' = IF returns /\ CommitDue(info) THEN Commit(t) ELSE t
      /\ Answered(IF listed THEN "next" ELSE "more",
                  IF returns THEN [info EXCEPT !.since = 0] ELSE info, consumed)
      /\ UNCHANGED head

\* restore_state_inodes_v3, the next inode of the stream: its record goes
\* into the log before its data is written.  A sector that is not an inode
\* is taken for one of any size.
RestoreInode(size) ==
  /\ Handles("inodes") /\ r.ptr = 0 /\ r.val1 < Len(Drive.files)
  /\ rcall.page[1][1] = "inode" => size = rcall.page[1][3]
  /\ LET many == r.since > CommitEvery
         t    == IF many THEN Commit(target) ELSE target
         made == [t EXCEPT !.logged = @ \cup {<<r.val1 + 1, rcall.page[1], size>>},
                           !.data = Append(@, <<>>)]
         info == [r EXCEPT !.since = IF many THEN 0 ELSE @]
     IN  InodeTurn(IF size = 0 THEN [info EXCEPT !.val1 = @ + 1, !.since = @ + 1]
                   ELSE [info EXCEPT !.ptr = size, !.val2 = 0], made, 1)

\* restore_state_inodes_v3, data of an inode: mfs_write_inode_data_part.
RestoreInodeData ==
  /\ Handles("inodes") /\ r.ptr > 0
  /\ LET towrite == SmallerOf(r.ptr - r.val2, rcall.room)
         done    == r.val2 + towrite >= r.ptr
     IN  InodeTurn(IF done THEN [r EXCEPT !.ptr = 0, !.val1 = @ + 1, !.since = @ + 1,
                                          !.val2 = 0]
                   ELSE [r EXCEPT !.val2 = @ + towrite],
                   [target EXCEPT !.data[r.val1 + 1] =
                      Put(@, r.val2 * SECTOR, SubSeq(rcall.page, 1, towrite * SECTOR))],
                   towrite)

\* restore_state_complete_v3: the last repairs are made to the target before
\* the checksum is compared.
CrcThere  == rcall.page[SECTOR][1] = "crc"
CrcRight  == rcall.page[SECTOR] = <<"crc", r.crc, 0>>
RestoreComplete ==
  /\ Handles("complete")
  /\ target' = [target EXCEPT !.fixed = TRUE]
  /\ IF CrcRight
     THEN Answered("next", r, 1) /\ UNCHANGED head
     ELSE HandlerFails

----------------------------------------------------------------------------
\* The call of restore_next_sectors is over.
NextSectorsStop ==
  \/ rcall.room = 0 \/ r.state = "max"
  \/ (Position(r.state) > Position("infoend") /\ ~r.initialized)

\* restore_next_sectors on the sectors of units.
Process(call, units) ==
  [call EXCEPT !.page = units, !.room = Len(units) \div SECTOR, !.done = 0]

\* restore_write, the start of a call with the units given.
WriteStarts(units) ==
  /\ rpc = "idle"
  /\ \/ /\ r.compressed /\ r.cursector > 0
        /\ rpc' = "unzip"
        /\ rcall' = [rcall EXCEPT !.size = Len(units), !.in = units, !.got = 0]
     \/ /\ ~(r.compressed /\ r.cursector > 0)
        /\ LET call == [rcall EXCEPT !.size = Len(units), !.in = <<>>, !.got = 0]
           IN  \/ /\ Len(units) < SECTOR          \* Short read from backup
                  /\ rpc' = "error" /\ UNCHANGED rcall
               \/ /\ Len(units) >= SECTOR /\ r.cursector = 0
                  /\ rpc' = "first"
                  /\ rcall' = [Process(call, units) EXCEPT !.room = 1]
               \/ /\ Len(units) >= SECTOR /\ r.cursector > 0
                  /\ rpc' = "next" /\ rcall' = Process(call, units)
  /\ UNCHANGED <<r, unzip, head, target>>

\* Behind the first sector: the rest is compressed, or it is not.
FirstSectorDone ==
  /\ rpc = "first" /\ rcall.room = 0
  /\ LET rest == rcall.page
     IN  \/ /\ r.compressed
            /\ unzip' = [NoUnzip EXCEPT !.open = TRUE]
            /\ rcall' = [rcall EXCEPT !.in = rest, !.got = SECTOR]
            /\ rpc' = IF rest = <<>> THEN "return" ELSE "unzip"
         \/ /\ ~r.compressed /\ UNCHANGED unzip
            /\ rcall' = [Process(rcall, rest) EXCEPT !.got = SECTOR]
            /\ rpc' = IF Len(rest) < SECTOR THEN "return" ELSE "next"
  /\ UNCHANGED <<r, head, target>>

\* An uncompressed buffer is done as far as it goes.
BufferDone ==
  /\ rpc = "next" /\ NextSectorsStop
  /\ rcall' = [rcall EXCEPT !.got = @ + rcall.done * SECTOR]
  /\ rpc' = "return" /\ UNCHANGED <<r, unzip, head, target>>

\* The condition of the loop over the compressed buffer, and what it does.
Pending == Len(unzip.out) > SECTOR
Loops == rcall.in # <<>> \/ ((unzip.ended \/ ~r.initialized) /\ Pending)

UnzipReturn ==
  /\ rpc' = "return" /\ rcall' = [rcall EXCEPT !.got = rcall.size - Len(rcall.in)]
  /\ UNCHANGED <<r, unzip, head, target>>

\* Uncompressed sectors go through the state machine ...
UnzipProcess ==
  /\ rpc = "unzip" /\ Loops /\ Pending
  /\ rpc' = "unzipped"
  /\ rcall' = Process(rcall, unzip.out)
  /\ UNCHANGED <<r, unzip, head, target>>

\* ... and what it left is moved to the front of the buffer.
MovedUp ==
  /\ rpc' = "unzip"
  /\ unzip' = [unzip EXCEPT !.out = SubSeq(@, rcall.done * SECTOR + 1, Len(@))]
  /\ UNCHANGED <<r, rcall, head, target>>
UnzipProcessedAgain == rpc = "unzipped" /\ NextSectorsStop /\ MovedUp
UnzipProcessed ==
  /\ rpc = "unzipped" /\ NextSectorsStop
  /\ \/ (rcall.done = 0 /\ UnzipReturn)
     \/ (rcall.done > 0 /\ MovedUp)

\* How many units of the input are of the compressed stream, up to its end.
ZipUnits(units) ==
  CHOOSE n \in 0..Len(units) :
    /\ \A i \in 1..n : units[i][1] = "zip"
    /\ n < Len(units) => units[n + 1][1] # "zip"
Contents(units) == FlattenSeq([i \in DOMAIN units |-> units[i][2]])

\* What zlib has when it took n units of the input, and how many of them it
\* takes to fill so much space; all there are if they do not fill it.
Uncompressed(held, in, n) == held \o Contents(SubSeq(in, 1, n))
UnitsTaken(held, in, space) ==
  LET Fills(n) == Len(Uncompressed(held, in, n)) >= space
      all      == 0..ZipUnits(in)
  IN  IF \E n \in all : Fills(n)
      THEN CHOOSE n \in all : Fills(n) /\ \A m \in 0..(n - 1) : ~Fills(m)
      ELSE ZipUnits(in)

\* inflate: as much input as it takes to fill the buffer.
OutSpace == CompBuf * SECTOR - Len(unzip.out)
Inflate ==
  /\ rpc = "unzip" /\ Loops /\ ~Pending /\ ~unzip.ended
  /\ LET n    == UnitsTaken(unzip.held, rcall.in, OutSpace)
         all  == Uncompressed(unzip.held, rcall.in, n)
         give == SmallerOf(OutSpace, Len(all))
         end  == Len(all) = give /\ n < Len(rcall.in) /\ n = ZipUnits(rcall.in)
     IN  /\ unzip' = [unzip EXCEPT !.out = @ \o SubSeq(all, 1, give),
                                   !.held = SubSeq(all, give + 1, Len(all)),
                                   !.ended = end]
         /\ rcall' = [rcall EXCEPT !.in = SubSeq(@, (IF end THEN n + 1 ELSE n) + 1, Len(@))]
  /\ UNCHANGED <<r, rpc, head, target>>

\* Nothing more is asked for, or there is input behind the end.
UnzipOver ==
  /\ rpc = "unzip" /\ (~Loops \/ (unzip.ended /\ ~Pending))
  /\ UnzipReturn

RestoreStep ==
  \/ RestoreBegin \/ RestoreHeader \/ RestoreInfoEnd \/ RestoreBoot
  \/ RestorePartitions \/ RestoreRegion \/ RestoreInodeData \/ RestoreComplete
  \/ \E size \in 0..MaxData : RestoreInode(size)
  \/ FirstSectorDone \/ BufferDone \/ UnzipProcess \/ UnzipProcessed \/ Inflate \/ UnzipOver
=============================================================================
