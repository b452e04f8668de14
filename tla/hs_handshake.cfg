SPECIFICATION FairSpec
CONSTANTS
    Tasks = {ok, bad}
    Valid = {ok}
    MaxRuns = 2
    MaxCrashes = 1
    Killable = TRUE
    ok = ok
    bad = bad
    NoTask = NoTask
CHECK_DEADLOCK FALSE
INVARIANTS TypeOK OneMarker AcceptOnlyValid
PROPERTY StageAnswers
