\* Volumes of two zones and three inodes, sound and damaged; and up to three pairs of
\* partitions that are backed up, restored and checked.
CONSTANTS
    Volumes <- MCVolumes
    NInodes = 3
    Home <- MCHome
    IntBits = 2
    Jobs <- MCCopyJobs
    Bufs = {5}
SPECIFICATION CopySpec
INVARIANTS
    ChecksTrue
    ShrunkIsWhole
