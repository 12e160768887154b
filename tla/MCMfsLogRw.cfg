\* The volume is opened again for writing after a stop.
CONSTANTS
  Fsids = {1, 2}
  Blocks = {1, 2}
  NZones = 2
  ZoneOf <- MCZoneOf
  NSectors = 8
  Cap = 3
  MapLen = 1
  InodeLen = 2
  MarkLen = 1
  RemountModes = {"rw"}
  NoChange = NoChange
  MaxTxn = 1
  MaxStamp = 8
SPECIFICATION Spec
INVARIANT LiveDataNotHandedOut
