\* A zone of five units: the last one has no buddy.
CONSTANTS
  NUnits = 5
  WordBits = 2
  MaxLogged = 3
SPECIFICATION Spec
INVARIANTS
  BitmapsMerged
  CountersTrue
  FilesAndFreeTile
PROPERTY ImplementsFreeSpace
