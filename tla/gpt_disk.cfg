SPECIFICATION CachedSpec
CONSTANTS
    Edits = {e1}
    MaxFaults = 2
    MaxCached = 5
INVARIANTS CommitIsAtomic CommittedIsThere PowerLossIsAtomic
PROPERTIES StageIsKept
