----------------------------- MODULE AdminUsers -----------------------------
(***************************************************************************)
(* The accounts of the web admin (AdminUsersService) and the access tokens *)
(* that let a super admin change them (AdminAuthService).  The role is in  *)
(* the token, and no request looks it up again: a token outlives what made *)
(* its holder a super admin until it expires.                              *)
(*                                                                         *)
(* An account is its id.  Of the roles only that of the super admin counts *)
(* here, and of the tokens only those that bear it.                        *)
(***************************************************************************)
EXTENDS Naturals, FiniteSets, AccountBounds

CONSTANT None

VARIABLES
    account,        \* per id: its row
    seed,           \* the id that has the user name of the seeded admin, or None
    entering,       \* logins and refreshes that have read an active super admin
    holders,        \* ids with an access token of a super admin
    change          \* per request: what it is about to do

vars == <<account, seed, entering, holders, change>>
-----------------------------------------------------------------------------
Roles == {"SUPER_ADMIN", "ADMIN"}
Row == [role : Roles, isActive : BOOLEAN]
NoRow == [role |-> "none", isActive |-> FALSE]      \* not given yet
Deleted == [role |-> "deleted", isActive |-> FALSE]
Exists(a) == account[a] \in Row
Super == [role |-> "SUPER_ADMIN", isActive |-> TRUE]
ActiveSuperAdmins == {a \in Accounts : account[a] = Super}

Idle == [step |-> "idle"]
Updates == [role : Roles \cup {Same}, isActive : BOOLEAN \cup {Same}]
Removal == [role |-> "deleted", isActive |-> FALSE]
Activation == [role |-> Same, isActive |-> TRUE]

TypeOK ==
    /\ account \in [Accounts -> Row \cup {NoRow, Deleted}]
    /\ seed \in Accounts \cup {None}
    /\ entering \subseteq Accounts /\ holders \subseteq Accounts
    /\ change \in [Changes -> {Idle} \cup [step : {"count", "write"}, target : Accounts,
                                           to : Updates \cup {Removal}]]

\* seedAdmin has run on an empty table.
Init ==
    /\ account = [a \in Accounts |-> IF a = 1 THEN Super ELSE NoRow]
    /\ seed = 1
    /\ entering = {} /\ holders = {}
    /\ change = [c \in Changes |-> Idle]
-----------------------------------------------------------------------------
(***************************************************************************)
(* Tokens: login and refresh read the row, and issue a token with its role *)
(* after another round trip, which fails if the row is gone.               *)
(***************************************************************************)
Enters(a) ==
    /\ a \in ActiveSuperAdmins
    /\ entering' = entering \cup {a}
    /\ UNCHANGED <<account, seed, holders, change>>

Entered(a) ==
    /\ a \in entering
    /\ entering' = entering \ {a}
    /\ holders' = IF Exists(a) THEN holders \cup {a} ELSE holders
    /\ UNCHANGED <<account, seed, change>>

Expires(a) ==
    /\ a \in holders
    /\ holders' = holders \ {a}
    /\ UNCHANGED <<account, seed, entering, change>>
-----------------------------------------------------------------------------
(***************************************************************************)
(* Changes.  A definition whose name ends in Bug is a plausible mistake in *)
(* the one after it; PROJECT.json says which property finds it.            *)
(***************************************************************************)
NextId(a) == account[a] = NoRow /\ \A b \in Accounts : b < a => account[b] # NoRow

Create(a, role) ==
    /\ holders # {}
    /\ NextId(a)
    /\ account' = [account EXCEPT ![a] = [role |-> role, isActive |-> TRUE]]
    /\ UNCHANGED <<seed, entering, holders, change>>

Demotes(to) == to.role \notin {"SUPER_ADMIN", Same}
Deactivates(to) == to.isActive = FALSE

\* update, remove: the row is read; nobody takes the role or the account from
\* themselves ...
Permitted(caller, target, to) ==
    /\ Exists(target)
    /\ caller = target => /\ to # Removal
                          /\ ~Deactivates(to)
                          /\ ~(account[target].role = "SUPER_ADMIN" /\ Demotes(to))

MustCountBug(target, to) == FALSE         \* nobody but themselves: that is enough

\* ... and an active super admin loses either only after the others have been counted.
MustCount(target, to) == account[target] = Super /\ (Demotes(to) \/ Deactivates(to))

Read(c, caller, target, to) ==
    /\ change[c] = Idle
    /\ caller \in holders
    /\ Permitted(caller, target, to)
    /\ change' = [change EXCEPT ![c] =
                     [step |-> IF MustCount(target, to) THEN "count" ELSE "write",
                      target |-> target, to |-> to]]
    /\ UNCHANGED <<account, seed, entering, holders>>

\* assertNotLastActiveSuperAdmin.
Count(c) ==
    /\ change[c].step = "count"
    /\ change' = [change EXCEPT ![c] = IF Cardinality(ActiveSuperAdmins) <= 1 THEN Idle
                                       ELSE [change[c] EXCEPT !.step = "write"]]
    /\ UNCHANGED <<account, seed, entering, holders>>

Kept(old, new) == IF new = Same THEN old ELSE new

Written(old, to) ==
    IF to = Removal THEN Deleted
    ELSE [role |-> Kept(old.role, to.role), isActive |-> Kept(old.isActive, to.isActive)]

\* A row that is gone is an error.
Write(c) ==
    /\ change[c].step = "write"
    /\ LET t == change[c].target IN
       /\ account' = IF Exists(t) THEN [account EXCEPT ![t] = Written(@, change[c].to)]
                     ELSE account
       /\ seed' = IF change[c].to = Removal /\ seed = t THEN None ELSE seed
    /\ change' = [change EXCEPT ![c] = Idle]
    /\ UNCHANGED <<entering, holders>>

\* The server is started again: what is under way is lost, and seedAdmin sees to the
\* seeded account, which it activates when a password is configured.
Restart ==
    /\ change' = [c \in Changes |-> Idle] /\ entering' = {}
    /\ \/ /\ seed = None
          /\ \E a \in Accounts :
                /\ NextId(a)
                /\ account' = [account EXCEPT ![a] = Super]
                /\ seed' = a
       \/ /\ seed # None
          /\ \E password \in BOOLEAN :
                account' = IF password THEN [account EXCEPT ![seed] = Written(@, Activation)]
                           ELSE account
          /\ UNCHANGED seed
    /\ UNCHANGED holders

Next ==
    \/ \E a \in Accounts : Enters(a) \/ Entered(a) \/ Expires(a)
    \/ \E a \in Accounts, role \in Roles : Create(a, role)
    \/ \E c \in Changes, caller \in Accounts, target \in Accounts, to \in Updates \cup {Removal} :
          Read(c, caller, target, to)
    \/ \E c \in Changes : Count(c) \/ Write(c)
    \/ Restart

Spec == Init /\ [][Next]_vars
-----------------------------------------------------------------------------
\* "The lockout guards here stop a super-admin from locking themselves - or every
\* super-admin - out": with one change at a time there is always somebody who may
\* manage the accounts, also while those who no longer are super admins still hold a
\* token that says so.
SuperAdminRemains == ActiveSuperAdmins # {}
=============================================================================
