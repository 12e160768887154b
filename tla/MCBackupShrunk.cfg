\* Volumes of two and three pairs, of which those at the end are left off a backup.
CONSTANTS
    Volumes <- NoVolumes
    NInodes = 3
    Home <- MCHome
    IntBits = 2
    Jobs <- MCCopyJobs
    Bufs = {5}
SPECIFICATION CopySpec
INVARIANTS
    BackedUpIsKept
