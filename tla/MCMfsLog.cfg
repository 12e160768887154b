\* A restore that may stop anywhere, then readers in memwrite mode; every entry may run
\* over the end of a log sector.
CONSTANTS
  Fsids = {1, 2}
  Blocks = {1, 2}
  NZones = 2
  ZoneOf <- MCZoneOf
  NSectors = 8
  Cap = 3
  MapLen = 1
  InodeLen = 2
  MarkLen = 2
  RemountModes = {"mem"}
  NoChange = NoChange
  MaxTxn = 2
  MaxStamp = 9
SPECIFICATION FairSpec
INVARIANTS
  TypeOK
  GainedIsOurs
  NoLeakNoSharing
  MemoryIsReplay
  LogNeverFull
  LogLoads
PROPERTIES
  Atomic
  CallsReturn
