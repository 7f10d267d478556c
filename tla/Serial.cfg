\* One request at a time about a murojaat, the SLA sweep under it; a meeting id used for
\* two rooms, which nobody need enter; three admin accounts, one change at a time.
SPECIFICATION SerialSpec
CONSTANTS
    Apps = {a1}
    Emps = {e1, e2}
    Handlers = {h1}
    MaxReopens = 2
    SweepLimit = 1
    Traffic = {"status", "assign", "admin", "reply", "rate", "reopen", "message", "remove", "staff", "restart"}
    Null = Null
    Keep = Keep
    Meetings = {m1}
    Admins <- MCAdmins
    Employees <- MCEmployees
    Sockets <- MCSockets
    adm = adm
    emp = emp
    s1 = s1
    s2 = s2
    Queries = {q1, q2}
    Kinds = {"some", "all"}
    Fails = FALSE
    MaxRooms = 2
    Accounts = {1, 2, 3}
    Changes = {c1}
    Same = Same
INVARIANTS MarksFollowStatus AuditTellsStatus EmptyIsWatched SuperAdminRemains
PROPERTIES KeepsPromise EmptyEnds
CHECK_DEADLOCK FALSE
