\* Allocation in two zones of different units.
CONSTANTS
  WordBits = 2
  ZoneUnits <- MCZoneUnits
  MinAlloc <- MCMinAlloc
  Sizes = {1, 2, 5}
  MaxRuns = 3
  MaxFiles = 2
SPECIFICATION Spec
INVARIANTS
  FreeBlocksTrue
  SizeCovered
  FailsOnlyWhenFull
  RunsApart
