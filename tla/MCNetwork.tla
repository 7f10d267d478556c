----------------------------- MODULE MCNetwork -----------------------------
(***************************************************************************)
(* What an unreliable network can do to a phone, for TLC: the retried      *)
(* writes (Idempotency), the session (Sessions) and the messages waiting   *)
(* to be sent (Outbox).  The three share no state, so they are checked     *)
(* side by side: focus says which of them moves, and the states to visit   *)
(* are the sum of theirs.                                                  *)
(***************************************************************************)
EXTENDS Idempotency, SessionBounds

CONSTANTS small, big                        \* two writes, one with an answer too large to keep
CONSTANTS Messages, Files, MaxSends, MaxUsers, None

MCKeys == {small, big}
MCLarge == {big}

VARIABLES
    access, stored, flight, tries, storing, request, leaving, expelled, excused,
    wire, bearer, server, pair, byes, row, active, entering, restarts

VARIABLES
    saved, trying, current, head, queue, offline, screen, page, shown, failed, pending,
    user, signedIn, loggingOut, author, gone, posted, created, echoes

VARIABLE focus

sessionVars == <<
    access, stored, flight, tries, storing, request, leaving, expelled, excused,
    wire, bearer, server, pair, byes, row, active, entering, restarts>>
outboxVars == <<
    saved, trying, current, head, queue, offline, screen, page, shown, failed, pending,
    user, signedIn, loggingOut, author, gone, posted, created, echoes>>
allVars == <<vars, sessionVars, outboxVars, focus>>

S == INSTANCE Sessions
O == INSTANCE Outbox

\* What the phone shows is a local id or a message of the server; None is neither.
ASSUME OutboxAssumption ==
    /\ MaxUsers \in Nat \ {0}
    /\ Messages \cap O!Posts = {}
    /\ None \notin O!Posts

NetworkInit ==
    /\ Init /\ S!Init /\ O!Init
    /\ focus \in {"writes", "session", "outbox"}

NetworkNext ==
    /\ UNCHANGED focus
    /\ \/ focus = "writes" /\ Next /\ UNCHANGED <<sessionVars, outboxVars>>
       \/ focus = "session" /\ S!Next /\ UNCHANGED <<vars, outboxVars>>
       \/ focus = "outbox" /\ O!Next /\ UNCHANGED <<vars, sessionVars>>

NetworkSpec == NetworkInit /\ [][NetworkNext]_allVars

TypesOK == TypeOK /\ S!TypeOK /\ O!TypeOK
SessionKept == S!SessionKept
OutboxKeeps == O!OutboxKeeps
ShownOnce == O!ShownOnce
=============================================================================
