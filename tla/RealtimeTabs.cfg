\* One call, an employee with two connections.
SPECIFICATION Spec
CONSTANTS
    Users <- MCUsers
    Sockets <- TrioSockets
    Owner <- TrioOwner
    Staff <- MCStaff
    me = me
    emp = emp
    s1 = s1
    s2 = s2
    s3 = s3
    Ids = {c1}
    Handlers = {h1}
    WritesFail = FALSE
SYMMETRY TrioSymmetry
INVARIANTS TypeOK ConnectedIsOnline AnsweredIsAttended
CHECK_DEADLOCK FALSE
