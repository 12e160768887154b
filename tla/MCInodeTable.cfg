\* More files than inodes, created and updated, with the log run again after
\* crashes; or with files at the ends of their chains deleted and their inodes used again.
CONSTANTS
  NInodes = 3
  Fsids = {1, 2, 3, 4}
  Home <- MCHome
  Data = {"a", "b"}
  Modes = {"crashes", "deleted"}
  MaxLog = 3
SPECIFICATION Spec
CHECK_DEADLOCK FALSE
INVARIANTS
  ChainsWhole
  FilesFound
  OneInode
