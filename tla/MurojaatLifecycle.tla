------------------------- MODULE MurojaatLifecycle -------------------------
(***************************************************************************)
(* What the hokimiyat promises the citizen about ONE murojaat (appeal):    *)
(* the statuses it may pass through, that it is closed only with an answer *)
(* on its thread, that a citizen's reopening starts the work again, and    *)
(* how often a citizen may do that.  No handlers, no database, no SLA.     *)
(***************************************************************************)
EXTENDS Naturals

CONSTANTS MaxReopens      \* how many times a citizen may reopen (MAX_REOPENS)

VARIABLES
    status,               \* where the murojaat stands
    answered,             \* the staff wrote something on the thread
    reopens               \* how many times the citizen reopened it

vars == <<status, answered, reopens>>

Init == status = "NEW" /\ answered = FALSE /\ reopens = 0

\* The staff write on the thread without moving the status.
Answer == answered' = TRUE /\ UNCHANGED <<status, reopens>>

\* Somebody starts working on it, perhaps with a first message.
Start ==
    /\ status = "NEW"
    /\ status' = "IN_PROGRESS"
    /\ answered' \in {answered, TRUE}
    /\ UNCHANGED reopens

\* Closing always leaves an answer or a reason behind.
Close ==
    /\ status \in {"NEW", "IN_PROGRESS"}
    /\ status' \in {"RESOLVED", "REJECTED"}
    /\ answered' = TRUE
    /\ UNCHANGED reopens

AdminReopen ==
    /\ status = "RESOLVED"
    /\ status' = "IN_PROGRESS"
    /\ answered' \in {answered, TRUE}
    /\ UNCHANGED reopens

CitizenReopen ==
    /\ status = "RESOLVED"
    /\ reopens < MaxReopens
    /\ status' = "IN_PROGRESS"
    /\ reopens' = reopens + 1
    /\ UNCHANGED answered

\* The assignee leaves the hokimiyat: an open murojaat is handed back.
Release ==
    /\ status = "IN_PROGRESS"
    /\ status' = "NEW"
    /\ UNCHANGED <<answered, reopens>>

Next == Answer \/ Start \/ Close \/ AdminReopen \/ CitizenReopen \/ Release

Spec == Init /\ [][Next]_vars
=============================================================================
