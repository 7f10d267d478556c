\* Two writes in two attempts each, with room for two answers; three refresh tokens and
\* two refreshes; two messages of two employees.
SPECIFICATION NetworkSpec
CONSTANTS
    Keys <- MCKeys
    Large <- MCLarge
    small = small
    big = big
    MaxTries = 2
    MaxEntries = 2
    MaxCrashes = 1
    Tokens = {1, 2, 3}
    Refreshes = {1, 2}
    Requests = {r1}
    MaxRefreshTries = 2
    MaxRestarts = 1
    Messages = {m1, m2}
    Files = {m2}
    MaxSends = 1
    MaxUsers = 2
    None = None
INVARIANTS TypesOK ExecutedOnce EntryIsTrue SessionKept ShownOnce
PROPERTIES OutboxKeeps
CHECK_DEADLOCK FALSE
