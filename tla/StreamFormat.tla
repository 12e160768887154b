---------------------------- MODULE StreamFormat ----------------------------
(***************************************************************************)
(* What a version 3 backup is made of (include/backup.h), shared by its    *)
(* writer, BackupStream, and its reader, RestoreStream.  Both are state    *)
(* machines over the same list of states; each state writes or reads its   *)
(* part of the stream.  A sector is SECTOR units long; a unit is a triple  *)
(* <<what it is, which one, its value>>.                                   *)
(***************************************************************************)
EXTENDS Integers, Sequences, SequencesExt

CONSTANTS
  SECTOR,   \* units in a sector (512 bytes)
  HeadLen,  \* units of the fixed header, rounded up to 8 bytes
  Drive,    \* the source: [parts, mfs, zones, extra, files], see below
  CompBuf,  \* sectors in the buffer between the state machine and zlib
  MaxData   \* the most data sectors of a file, or of what is taken for one

\* Drive.parts: sectors of each raw partition; Drive.mfs, Drive.zones: how
\* many volume and zone map records; Drive.extra: units of each named string;
\* Drive.files: data sectors of each inode that the scan lists.
ASSUME DriveAssumption ==
  /\ SECTOR \in Nat \ {0} /\ CompBuf \in Nat \ {0} /\ HeadLen \in 1..(SECTOR - 1)
  /\ Drive.parts \in Seq(Nat \ {0}) /\ Drive.parts # <<>>
  /\ Drive.mfs \in Nat /\ Drive.zones \in Nat /\ Drive.extra \in Seq(Nat)
  /\ MaxData \in Nat /\ Drive.files \in Seq(0..MaxData) /\ Drive.files # <<>>

SmallerOf(a, b) == IF a < b THEN a ELSE b
Sum(s) ==
  LET upto[i \in 0..Len(s)] == IF i = 0 THEN 0 ELSE upto[i - 1] + s[i]
  IN  upto[Len(s)]

\* The parts of the header, as they lie one after another in the stream.
PartUnits == [i \in DOMAIN Drive.parts |-> <<"part", i, Drive.parts[i]>>]
MfsUnits  == [i \in 1..Drive.mfs |-> <<"mfs", i, 0>>]
ZoneUnits == [i \in 1..Drive.zones |-> <<"zone", i, 0>>]
ExtraUnits(i) == [j \in 1..Drive.extra[i] |-> <<"extra", i, j>>]

\* Sectors of raw data, of the n-th thing of its sort.
DataSectors(sort, n, from, count) ==
  [j \in 1..(count * SECTOR) |-> <<sort, n, from * SECTOR + j>>]
DataSector(sort, n, at) == DataSectors(sort, n, at, 1)
Zeros(n) == [j \in 1..n |-> <<"zero", 0, 0>>]

\* backup_state_scan_mfs_v3 and what it calls: what the backup will take.  The
\* boot block, the volume header and the checksum are a sector each.
HeaderLen == HeadLen + Len(PartUnits) + Drive.mfs + Drive.zones + Sum(Drive.extra)
HeaderSectors == (HeaderLen + SECTOR - 1) \div SECTOR
NSectors == HeaderSectors + Sum(Drive.parts) + 3 + Len(Drive.files) + Sum(Drive.files)

\* memcpy of units to the offset off of a buffer.
Put(buf, off, units) ==
  LET last == off + Len(units)
  IN  [k \in 1..(IF Len(buf) > last THEN Len(buf) ELSE last) |->
        IF k > off /\ k <= last THEN units[k - off]
        ELSE IF k <= Len(buf) THEN buf[k] ELSE <<"junk", 0, 0>>]

\* How much of a list of len units, of which done are copied, fits in the
\* room sectors that are left, of which the first is used up to shared.
HeaderCount(len, done, shared, room) ==
  IF len - done + shared > room * SECTOR THEN room * SECTOR - shared ELSE len - done

\* The state after s in a table of handlers.
NextState(table, s) == table[(CHOOSE i \in DOMAIN table : table[i] = s) + 1]
=============================================================================
