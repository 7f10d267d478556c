--------------------------- MODULE SessionBounds ---------------------------
(* The parameters of Sessions, apart from its variables: a composition that  *)
(* takes several modules side by side EXTENDS this one.                      *)
EXTENDS Naturals

CONSTANTS
    Tokens,             \* refresh tokens, numbered in the order they are issued
    Refreshes,          \* refresh calls, numbered in the order they are made
    Requests,           \* API calls of the app under way at one time
    MaxRefreshTries,    \* 3 attempts
    MaxRestarts         \* bound: restarts of the server

ASSUME SessionBoundsAssumption ==
    /\ Tokens \subseteq Nat \ {0}
    /\ Refreshes \subseteq Nat \ {0}
    /\ MaxRefreshTries \in Nat \ {0}
    /\ MaxRestarts \in Nat
=============================================================================
