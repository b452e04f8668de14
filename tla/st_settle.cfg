SPECIFICATION FairSpec
CONSTANTS
    Pods = {p1, p2}
    Orders = {o1}
    LeaseDuration = 2
    RenewDeadline = 1
    Punctual = TRUE
    MaxFaults = 1
    MaxErrors = 1
    MaxHandovers = 1
    p1 = p1
    p2 = p2
    o1 = o1
    NoPod = NoPod
    NoOrder = NoOrder
PROPERTY EventuallySettled
INVARIANTS TypeOK PendingOrFinalized FinalizeOncePerPod OverlapOnlyWhileStopping
