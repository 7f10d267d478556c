--------------------------- MODULE AccountBounds ---------------------------
(* The parameters of AdminUsers, apart from its variables: a composition     *)
(* that takes several modules side by side EXTENDS this one.                 *)
EXTENDS Naturals, FiniteSets

CONSTANTS
    Accounts,       \* ids, numbered in the order they are given
    Changes,        \* updates and removals under way at one time
    Same            \* a field the request leaves out

ASSUME AccountsAssumption == Accounts \subseteq Nat /\ IsFiniteSet(Accounts) /\ 1 \in Accounts
ASSUME SameAssumption ==
    Same \notin {"SUPER_ADMIN", "ADMIN", "none", "deleted"} /\ Same \notin BOOLEAN
=============================================================================
