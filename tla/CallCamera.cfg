\* One call, connections kept: what is left open when nobody is in a call.
SPECIFICATION Spec
CONSTANTS
    Webs <- MCWebs
    Phones <- MCPhones
    web = web
    phone = phone
    MaxCalls = 1
    MaxDrops = 0
INVARIANTS CameraReleased
CHECK_DEADLOCK FALSE
