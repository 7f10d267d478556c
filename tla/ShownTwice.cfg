\* Two messages of one employee, one request each: what is shown of them.
SPECIFICATION Spec
CONSTANTS
    Messages = {m1, m2}
    Files = {}
    MaxSends = 1
    MaxUsers = 1
    None = None
INVARIANTS OneBubble
CHECK_DEADLOCK FALSE
