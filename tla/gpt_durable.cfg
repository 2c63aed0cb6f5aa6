SPECIFICATION CachedSpec
CONSTANTS
    Edits = {e1}
    MaxFaults = 2
    MaxCached = 4
INVARIANTS CommittedIsDurable
