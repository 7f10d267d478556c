\* A page and a phone that enter once each.
SPECIFICATION Spec
CONSTANTS
    Pages = {w1}
    Phones = {f1}
    MaxJoins = 1
    MaxGone = 2
INVARIANT LeaverIsOut
CHECK_DEADLOCK FALSE
