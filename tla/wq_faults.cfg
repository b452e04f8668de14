SPECIFICATION Spec
CONSTANTS
    Tasks = {t1}
    Workers = {w1, w2}
    Reapers = {r1, r2}
    MaxAttempts = 3
    MinUp = 0
    Faults = {"crash", "restart", "sigterm", "redis"}
    t1 = t1
    w1 = w1
    w2 = w2
    r1 = r1
    r2 = r2
    NoTask = NoTask
SYMMETRY Symmetry
INVARIANTS TypeOK LostOnlyByAbandon RetryBudget
PROPERTY ImplementsLifecycle
