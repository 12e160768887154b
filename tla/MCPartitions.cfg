SPECIFICATION Spec
CONSTANTS
    MapSectors = 31
    Align = 8
    Slack = 3
    Devices = {"a", "b"}
    Handles = {1, 2, 3, 4, 5, 6, 7, 8, 9, 10, 11, 12}
    MinFree = 2097152
    MaxVolumes = 12
    ClientDrives <- MCClientDrives
    ClientSizes = {0, 4, 12, 16}
    MaxAdds = 2
    AddJobs <- MCAddJobs
    RestoreJobs <- MCRestoreJobs
INVARIANTS
    InUseUntouched
    WrittenIsRead
    VolumesFound
    PairsNamed
    NoOrphan
    LayoutAsPlanned
PROPERTIES
    Tiled
    DataStays
