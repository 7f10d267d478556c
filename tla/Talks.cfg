\* Two calls between two users, two requests in flight, writes that are lost; one meeting
\* id used twice or two meetings, an employee on two connections, queries that fail; a
\* meeting of two pages and a phone, which enter once and one of which may leave.
SPECIFICATION TalksSpec
CONSTANTS
    Users = {u1, u2}
    Ids = {c1, c2}
    Handlers = {h1, h2}
    WritesFail = TRUE
    MaxInFlight = 3
    Admins <- MCAdmins
    Employees <- MCEmployees
    Sockets <- MCSockets
    Owner <- MCOwner
    adm = adm
    emp = emp
    s1 = s1
    s2 = s2
    s3 = s3
    Meetings = {m1, m2}
    Meeting = m1
    Queries = {q1}
    Kinds = {"some", "all"}
    Fails = TRUE
    MaxRooms = 2
    Pages = {w1, w2}
    Phones = {f1}
    MaxJoins = 1
    MaxGone = 1
SYMMETRY MeshSymmetry
INVARIANTS TypeOK RingCovered EndedIsMirrored RoomTypesOK NoGhosts DevicesAgree Meshed ShownAreInside
PROPERTIES KeepsLifecycle
CHECK_DEADLOCK FALSE
