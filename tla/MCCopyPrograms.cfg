\* Backups stored, piped and copied, some of them damaged.
CONSTANTS
  SECTOR = 2
  HeadLen = 1
  Drive <- MCDrive
  CompBuf = 3
  MaxData = 5
  CommitEvery = 1
  Modes = {"file", "pipe", "copy"}
  Bufs = {4, 5, 6}
  Ratios = {0, 1, 3}
SPECIFICATION FairSpec
INVARIANTS
  AcceptedIsWhole
  UndamagedRestores
  RepairsLast
PROPERTIES
  ProgramsEnd
