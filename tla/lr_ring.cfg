SPECIFICATION Spec
CONSTANTS
    Requests = {r1, r2, r3}
    r1 = r1
    r2 = r2
    r3 = r3
    NoRecord = NoRecord
    MaxValues = 3
    Cap = 3
INVARIANTS TypeOK SnapshotIsRecent AcknowledgedIsFound
CHECK_DEADLOCK FALSE
