\* One call, an admin and an employee who come and go.
SPECIFICATION FairSpec
CONSTANTS
    Users <- MCUsers
    Sockets <- PairSockets
    Owner <- PairOwner
    Staff <- MCStaff
    me = me
    emp = emp
    s1 = s1
    s2 = s2
    s3 = s3
    Ids = {c1}
    Handlers = {h1}
    WritesFail = FALSE
PROPERTIES AbandonedCallEnds StopsRinging
CHECK_DEADLOCK FALSE
