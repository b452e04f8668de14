SPECIFICATION FairSpec
CONSTANTS
    Requests = {r1, r2}
    Buckets = {5, 10}
    Latencies = {5, 20}
    Inf = 1000
    MaxCrashes = 1
    r1 = r1
    r2 = r2
INVARIANTS TypeOK ScrapeConsistent AnsweredIsCounted TaskMatchesAnswer
PROPERTY Completes
CHECK_DEADLOCK FALSE
