CONSTANTS
    Users = {u1}
    Rates = {0, 2}
    Prices = {}
    None = None
    MaxJobs = 2
    MaxEntries = 2
    MaxTime = 1
SPECIFICATION Spec
INVARIANTS
    TypeOK ClockedInOnce EntriesFollowTheirJobs SnapshotStands
CHECK_DEADLOCK FALSE
