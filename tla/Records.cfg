\* Two requests about one murojaat, two about a conversation of two messages, two scans
\* under way in two days of two hours.
SPECIFICATION RecordsSpec
CONSTANTS
    Parts = {"murojaats", "conversation", "attendance"}
    Apps = {a1}
    Emps = {e1}
    Handlers = {h1, h2}
    MaxReopens = 1
    SweepLimit = 1
    Traffic = {"status", "assign", "reply", "rate", "reopen", "restart"}
    Null = Null
    Keep = Keep
    Msgs = {m1, m2}
    Workers = {w1, w2}
    MaxEdits = 1
    Scans = {s1, s2}
    DayLength = 2
    Deadline = 0
    WorkEnd = 1
    MaxHour = 3
    MaxRows = 3
    MaxPoints = 0
    Posts = {}
    MaxStops = 0
SYMMETRY Symmetry
INVARIANTS TypesOK ClosedHasAnswer AlertedOnce ReopenOvershoot NewsIsShown ViewsAgree
CHECK_DEADLOCK FALSE
