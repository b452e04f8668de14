SPECIFICATION Spec
CONSTANTS
    Tasks = {t1}
    Workers = {w1, w2}
    Reapers = {r1}
    MaxAttempts = 2
    MinUp = 0
    Faults = {"sigterm"}
    t1 = t1
    w1 = w1
    w2 = w2
    r1 = r1
    NoTask = NoTask
INVARIANT NoTaskLost
