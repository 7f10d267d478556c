\* An admin and an employee dial twice between them, and the phone loses its connection.
SPECIFICATION FairSpec
CONSTANTS
    Webs <- MCWebs
    Phones <- MCPhones
    web = web
    phone = phone
    MaxCalls = 2
    MaxDrops = 1
INVARIANTS TypeOK EndIsTold ActiveIsAnswered
PROPERTIES WaitingEnds
CHECK_DEADLOCK FALSE
