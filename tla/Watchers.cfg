\* Two murojaats and a sweep that takes one row at a time, requests under it; two
\* positions, two requests that carry them, tracking that stops once.
SPECIFICATION WatchersSpec
CONSTANTS
    Parts = {"murojaats", "places"}
    Apps = {a1, a2}
    Emps = {}
    Handlers = {h1}
    MaxReopens = 1
    SweepLimit = 1
    Traffic = {"status", "admin", "reply", "reopen", "remove"}
    Null = Null
    Keep = Keep
    Msgs = {}
    Workers = {}
    MaxEdits = 0
    Scans = {}
    DayLength = 1
    Deadline = 0
    WorkEnd = 0
    MaxHour = 0
    MaxRows = 0
    MaxPoints = 2
    Posts = {p1, p2}
    MaxStops = 1
INVARIANTS TypesOK OneAlertPerSilence
PROPERTIES OverdueIsReported SilenceIsReported
CHECK_DEADLOCK FALSE
