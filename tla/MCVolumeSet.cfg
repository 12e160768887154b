\* Restores and added pairs, stopped between any two writes.
CONSTANTS
    Jobs <- MCJobs
    MaxVolumes = 8
SPECIFICATION Spec
INVARIANTS
    
    MapsCurrent
    RegionsApart
