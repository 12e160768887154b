---------------------------- MODULE BackupStream ----------------------------
(***************************************************************************)
(* The writer of a version 3 backup: the state machine that makes the      *)
(* stream (backup.c, backupv3.c) and backup_read, which hands it to the    *)
(* caller in buffers, as it is or through zlib.                            *)
(*                                                                         *)
(* One action is one call of a state handler; the inode handler, which     *)
(* loops over its inodes, is one action per turn of its loop.              *)
(***************************************************************************)
EXTENDS StreamFormat

VARIABLES
  b,      \* struct backup_info: the state machine and its counters
  bpc,    \* where backup_read is
  bcall,  \* the buffer of this call of backup_next_sectors
  zip,    \* struct z_stream_s and comp_buf
  bout    \* what this call of backup_read has put into the caller's buffer

bvars == <<b, bpc, bcall, zip, bout>>

\* The handlers of backup_v3, in order (NULL entries left out).
BackupTable ==
  <<"begin", "parts", "mfsparts", "zones", "extra", "infoend", "boot",
    "partitions", "volhdr", "inodes", "complete", "max">>

NoZip == [open |-> FALSE, buf |-> FALSE, in |-> <<>>, held |-> <<>>]

\* compressed and ratio (units of data in a unit of output) stay as chosen.
BackupInit(compressed, ratio) ==
  /\ b = [state |-> "begin", val1 |-> 0, val2 |-> 0, ptr |-> FALSE, shared |-> 0,
          cursector |-> 0, crc |-> <<>>, compressed |-> compressed, ratio |-> ratio]
  /\ bpc = "idle" /\ zip = NoZip /\ bout = <<>>
  /\ bcall = [room |-> 0, page |-> <<>>, out |-> <<>>, size |-> 0]

----------------------------------------------------------------------------
\* backup_next_sectors: what it does with a handler's answer.  info is the
\* info structure as the handler leaves it, page what is in the buffer from
\* where it points on.
Answer(ret, info, page, consumed) ==
  LET sent == SubSeq(page, 1, consumed * SECTOR)
      next == [info EXCEPT !.cursector = @ + consumed, !.crc = @ \o sent]
  IN  /\ bpc = "next" /\ bcall.room > 0
      /\ b' = IF ret = "more" THEN next
              ELSE [next EXCEPT !.state = NextState(BackupTable, b.state),
                                !.val1 = 0, !.val2 = 0, !.ptr = FALSE]
      /\ bcall' = [bcall EXCEPT !.room = @ - consumed, !.out = @ \o sent,
                     !.page = SubSeq(page, consumed * SECTOR + 1, Len(page))]
      /\ UNCHANGED <<bpc, zip, bout>>

\* backup_state_begin_v3: the fixed header; no sector is finished yet.
BackupBegin ==
  /\ b.state = "begin"
  /\ LET head == <<"head", b.compressed, NSectors>>
     IN  Answer("next", [b EXCEPT !.shared = HeadLen],
                Put(bcall.page, 0, [j \in 1..HeadLen |-> head]), 0)

\* backup_write_header: as much of units as fits behind what is in the block.
WriteHeader(units, last, info) ==
  LET count == HeaderCount(Len(units), b.val1, b.shared, bcall.room)
      end   == b.shared + count
      all   == b.val1 + count = Len(units)
  IN  Answer(IF all /\ last THEN "next" ELSE "more",
             IF all /\ ~last THEN [info EXCEPT !.shared = end % SECTOR, !.val1 = 0]
             ELSE [info EXCEPT !.shared = end % SECTOR, !.val1 = @ + count,
                               !.val2 = IF all THEN @ ELSE b.val2],
             Put(bcall.page, b.shared, SubSeq(units, b.val1 + 1, b.val1 + count)),
             end \div SECTOR)

BackupHeader ==
  \/ b.state = "parts"    /\ WriteHeader(PartUnits, TRUE, b)
  \/ b.state = "mfsparts" /\ WriteHeader(MfsUnits, TRUE, b)
  \/ b.state = "zones"    /\ WriteHeader(ZoneUnits, TRUE, b)

\* backup_state_info_extra_v3: one named string.
BackupExtra ==
  /\ b.state = "extra"
  /\ IF b.val2 < Len(Drive.extra)
     THEN WriteHeader(ExtraUnits(b.val2 + 1), b.val2 + 1 = Len(Drive.extra),
                      [b EXCEPT !.val2 = @ + 1])
     ELSE Answer("next", b, bcall.page, 0)

\* backup_state_info_end: zeros to the end of the header's last sector.
BackupInfoEnd ==
  /\ b.state = "infoend"
  /\ IF b.shared > 0
     THEN Answer("next", [b EXCEPT !.shared = 0],
                 Put(bcall.page, b.shared, Zeros(SECTOR - b.shared)), 1)
     ELSE Answer("next", b, bcall.page, 0)

\* backup_state_boot_block, backup_state_volume_header_v3
BackupOneSector ==
  /\ b.state \in {"boot", "volhdr"}
  /\ Answer("next", b, DataSector(b.state, 0, 0), 1)

\* What fits in a call is read on from where the last one stopped.
FromStart == 0
ReadFrom == b.val2

\* backup_state_partitions
BackupPartitions ==
  /\ b.state = "partitions"
  /\ LET tocopy == SmallerOf(Drive.parts[b.val1 + 1] - b.val2, bcall.room)
         done   == b.val2 + tocopy >= Drive.parts[b.val1 + 1]
         info   == IF done THEN [b EXCEPT !.val1 = @ + 1, !.val2 = 0]
                   ELSE [b EXCEPT !.val2 = @ + tocopy]
     IN  Answer(IF info.val1 < Len(Drive.parts) THEN "more" ELSE "next", info,
                DataSectors("disk", b.val1 + 1, ReadFrom, tocopy), tocopy)

\* backup_state_inodes_v3, the next inode: its own sector.
BackupInode ==
  /\ b.state = "inodes" /\ ~b.ptr /\ b.val1 < Len(Drive.files)
  /\ LET size == Drive.files[b.val1 + 1]
         info == IF size = 0 THEN [b EXCEPT !.val1 = @ + 1]
                 ELSE [b EXCEPT !.ptr = TRUE, !.val2 = 0]
     IN  Answer(IF info.val1 < Len(Drive.files) THEN "more" ELSE "next", info,
                <<<<"inode", b.val1 + 1, size>>>> \o Zeros(SECTOR - 1), 1)

\* backup_state_inodes_v3, as much of the inode's data as there is room for.
BackupInodeData ==
  /\ b.state = "inodes" /\ b.ptr
  /\ LET tocopy == SmallerOf(Drive.files[b.val1 + 1] - b.val2, bcall.room)
         done   == b.val2 + tocopy = Drive.files[b.val1 + 1]
         info   == IF done THEN [b EXCEPT !.ptr = FALSE, !.val1 = @ + 1, !.val2 = 0]
                   ELSE [b EXCEPT !.val2 = @ + tocopy]
     IN  Answer(IF info.val1 < Len(Drive.files) THEN "more" ELSE "next", info,
                DataSectors("data", b.val1 + 1, ReadFrom, tocopy), tocopy)

\* backup_state_complete_v3: a sector of zeros that ends in the checksum of
\* everything before it.
BackupComplete ==
  /\ b.state = "complete"
  /\ Answer("next", b, Zeros(SECTOR - 1) \o <<<<"crc", b.crc, 0>>>>, 1)

----------------------------------------------------------------------------
\* The call of backup_next_sectors is over.
NextSectorsOver == bpc = "next" /\ (bcall.room = 0 \/ b.state = "max")

Call(room) == bcall' = [bcall EXCEPT !.room = room, !.page = <<>>, !.out = <<>>]

\* backup_read with a buffer of size units: the first sector of a compressed
\* backup is not compressed.
ReadStarts(size) ==
  /\ bpc = "idle" /\ bout' = <<>>
  /\ \/ /\ b.compressed /\ b.cursector > 0
        /\ bpc' = IF zip.open THEN "zip" ELSE "return"
        /\ bcall' = [bcall EXCEPT !.size = size]
     \/ /\ ~(b.compressed /\ b.cursector > 0)
        /\ bpc' = "next"
        /\ bcall' = [room |-> IF b.compressed THEN 1 ELSE size \div SECTOR,
                     page |-> <<>>, out |-> <<>>, size |-> size]
  /\ UNCHANGED <<b, zip>>

\* What the state machine made goes to the caller, or to zlib.
ReadGoesOn ==
  /\ NextSectorsOver
  /\ \/ /\ ~b.compressed
        /\ bout' = bcall.out /\ bpc' = "return" /\ UNCHANGED zip
     \/ /\ b.compressed /\ ~zip.open
        /\ bout' = bcall.out /\ bpc' = "zip"
        /\ zip' = [NoZip EXCEPT !.open = TRUE, !.buf = TRUE]
     \/ /\ b.compressed /\ zip.open
        /\ zip' = IF bcall.out = <<>> THEN [zip EXCEPT !.buf = FALSE]
                  ELSE [zip EXCEPT !.in = bcall.out]
        /\ bpc' = "zip" /\ UNCHANGED bout
  /\ UNCHANGED <<b, bcall>>

Space == bcall.size - Len(bout)

\* zlib, as far as the program sees it: a unit of output stands for ratio
\* units of input, the last one for what is left, and an end mark follows.
Pack(units, count) ==
  [i \in 1..count |->
    <<"zip", SubSeq(units, (i - 1) * b.ratio + 1, SmallerOf(i * b.ratio, Len(units))), 0>>]
EndMark == <<"zend", 0, 0>>

\* deflate (Z_NO_FLUSH): takes input until it is used up or the output full.
ZipInput ==
  /\ bpc = "zip" /\ zip.open /\ Space > 0 /\ zip.in # <<>>
  /\ LET take == SmallerOf(Len(zip.in), Space * b.ratio - Len(zip.held))
         held == zip.held \o SubSeq(zip.in, 1, take)
         full == Len(held) \div b.ratio
     IN  /\ bout' = bout \o Pack(held, full)
         /\ zip' = [zip EXCEPT !.in = SubSeq(@, take + 1, Len(@)),
                               !.held = SubSeq(held, full * b.ratio + 1, Len(held))]
  /\ UNCHANGED <<b, bpc, bcall>>

\* The input is used up: the next 2048 sectors.
ZipRefill ==
  /\ bpc = "zip" /\ zip.open /\ Space > 0 /\ zip.in = <<>> /\ zip.buf
  /\ bpc' = "next" /\ Call(CompBuf) /\ UNCHANGED <<b, zip, bout>>

\* deflate (Z_FINISH), and deflateEnd when everything is out.
ZipFinish ==
  /\ bpc = "zip" /\ zip.open /\ Space > 0 /\ zip.in = <<>> /\ ~zip.buf
  /\ LET rest  == IF zip.held = <<>> THEN <<>> ELSE Pack(zip.held, 1)
         whole == Len(rest) < Space
     IN  /\ bout' = bout \o rest \o (IF whole THEN <<EndMark>> ELSE <<>>)
         /\ zip' = IF whole THEN NoZip ELSE [zip EXCEPT !.held = <<>>]
  /\ UNCHANGED <<b, bpc, bcall>>

\* The caller's buffer is full, or the compressed stream has ended.
ZipReturn ==
  /\ bpc = "zip" /\ (Space = 0 \/ ~zip.open)
  /\ bpc' = "return" /\ UNCHANGED <<b, bcall, zip, bout>>

BackupStep ==
  \/ BackupBegin \/ BackupHeader \/ BackupExtra \/ BackupInfoEnd
  \/ BackupOneSector \/ BackupPartitions \/ BackupInode \/ BackupInodeData
  \/ BackupComplete
  \/ ReadGoesOn \/ ZipInput \/ ZipRefill \/ ZipFinish \/ ZipReturn
=============================================================================
