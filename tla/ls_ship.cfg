SPECIFICATION FairSpec
CONSTANTS
    Files = {f1}
    f1 = f1
    NoFile = NoFile
    BatchMax = 2
    MaxBody = 1
    MaxLines = 2
    MaxTruncations = 1
    MaxFaults = 1
    MaxReadErrors = 1
    MaxCrashes = 1
    DrainAttempts = 2
INVARIANTS TypeOK CommittedIsStored DrainShipsAll
PROPERTY EventuallyShipped
CHECK_DEADLOCK FALSE
