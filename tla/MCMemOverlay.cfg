\* Any writes of sectors and of parts of files; reads within a volume and of any part.
CONSTANTS
  VolSizes <- MCVolSizes
  Vals = {a, b}
  MaxCount = 3
  Files <- MCFiles
SPECIFICATION DataSpec
INVARIANTS
  ReadsLatest
  BlocksApart
  PartsRead
