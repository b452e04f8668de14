SPECIFICATION Spec
CONSTANTS
    Tasks = {ok}
    Valid = {ok}
    MaxRuns = 2
    MaxCrashes = 0
    Killable = FALSE
    ok = ok
    NoTask = NoTask
CHECK_DEADLOCK FALSE
INVARIANT RejectOnlyInvalid
