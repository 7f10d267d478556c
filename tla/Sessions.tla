------------------------------ MODULE Sessions ------------------------------
(***************************************************************************)
(* The session of a worker's phone: the tokens it stores and refreshes     *)
(* (AuthInterceptor of app_core), the refresh tokens in the table          *)
(* (AuthService), and the archiving of the employee (OversightService).    *)
(*                                                                         *)
(* A refresh is a call with an Idempotency-Key of its own, sent in up to   *)
(* MaxRefreshTries attempts; the server runs it once per key, in three     *)
(* round trips, and answers every attempt of the key with the same pair    *)
(* (the module Idempotency).  An attempt may be lost, and may arrive late. *)
(***************************************************************************)
EXTENDS Naturals, SessionBounds

VARIABLES
    access,         \* the access token in SharedPreferences
    stored,         \* the refresh token in SharedPreferences, or 0
    flight,         \* the key of the refresh in flight (_refreshing), or 0
    tries,          \* attempts of it so far
    storing,        \* its answer is being stored
    request,        \* per API call: where it is
    leaving,        \* endSession is under way
    expelled,       \* sessionExpired was raised: the app went to the login page
    excused,        \* something other than the app and the server intervened
    wire,           \* per key: attempts that have not arrived
    bearer,         \* per key: the token it presents
    server,         \* per key: how far its execution is
    pair,           \* per key: the token it was answered with
    byes,           \* tokens whose /auth/logout has not arrived
    row,            \* per token: its row
    active,         \* employee.isActive
    entering,       \* employeeLogin has found an active employee
    restarts

phoneVars == <<access, stored, flight, tries, storing, request, leaving, expelled, excused>>
netVars == <<wire, bearer>>
serverVars == <<server, pair, byes, row, active, entering, restarts>>
vars == <<phoneVars, netVars, serverVars>>
-----------------------------------------------------------------------------
TypeOK ==
    /\ access \in {"none", "fresh", "expired"}
    /\ stored \in Tokens \cup {0}
    /\ flight \in Refreshes \cup {0}
    /\ tries \in 0..MaxRefreshTries
    /\ storing \in BOOLEAN
    /\ request \in [Requests -> {"idle", "sent", "joined"}]
    /\ leaving \in BOOLEAN /\ expelled \in BOOLEAN /\ excused \in BOOLEAN
    /\ wire \in [Refreshes -> 0..MaxRefreshTries]
    /\ bearer \in [Refreshes -> Tokens \cup {0}]
    /\ server \in [Refreshes -> {"none", "finding", "revoking", "issuing", "answered", "refused"}]
    /\ pair \in [Refreshes -> Tokens \cup {0}]
    /\ byes \subseteq Tokens
    /\ row \in [Tokens -> {"none", "valid", "revoked"}]
    /\ active \in BOOLEAN /\ entering \in BOOLEAN
    /\ restarts \in 0..MaxRestarts

Init ==
    /\ access = "none" /\ stored = 0
    /\ flight = 0 /\ tries = 0 /\ storing = FALSE
    /\ request = [r \in Requests |-> "idle"]
    /\ leaving = FALSE /\ expelled = FALSE /\ excused = FALSE
    /\ wire = [k \in Refreshes |-> 0]
    /\ bearer = [k \in Refreshes |-> 0]
    /\ server = [k \in Refreshes |-> "none"]
    /\ pair = [k \in Refreshes |-> 0]
    /\ byes = {}
    /\ row = [t \in Tokens |-> "none"]
    /\ active = TRUE /\ entering = FALSE
    /\ restarts = 0
-----------------------------------------------------------------------------
(***************************************************************************)
(* The phone.  A definition whose name ends in Bug is a plausible mistake  *)
(* in the one after it; PROJECT.json says which property finds it.         *)
(***************************************************************************)
NewKey(k) == bearer[k] = 0 /\ \A j \in Refreshes : j < k => bearer[j] # 0
NewToken(t) == row[t] = "none" /\ \A s \in Tokens : s < t => row[s] # "none"

Excused(now) == excused' = (excused \/ now)

\* An API call with an access token that is out of date: it will be a 401.
Sends(r) ==
    /\ request[r] = "idle" /\ access = "expired"
    /\ request' = [request EXCEPT ![r] = "sent"]
    /\ UNCHANGED <<access, stored, flight, tries, storing, leaving, expelled, excused,
                   netVars, serverVars>>

AccessExpires ==
    /\ access = "fresh"
    /\ access' = "expired"
    /\ UNCHANGED <<stored, flight, tries, storing, request, leaving, expelled, excused,
                   netVars, serverVars>>

\* _clearTokens: the app hears of it if there was a session.
ClearTokens ==
    /\ expelled' = (expelled \/ access # "none")
    /\ access' = "none" /\ stored' = 0

\* The 401: without a refresh token the session is over; otherwise the call waits for
\* the refresh in flight, or starts one.
Unauthorized(r) ==
    /\ request[r] = "sent"
    /\ \/ /\ stored = 0
          /\ ClearTokens
          /\ request' = [request EXCEPT ![r] = "idle"]
          /\ UNCHANGED <<flight, tries, netVars>>
       \/ /\ stored # 0 /\ flight # 0
          /\ request' = [request EXCEPT ![r] = "joined"]
          /\ UNCHANGED <<access, stored, expelled, flight, tries, netVars>>
       \/ /\ stored # 0 /\ flight = 0
          /\ request' = [request EXCEPT ![r] = "joined"]
          /\ \E k \in Refreshes :
                /\ NewKey(k)
                /\ flight' = k /\ tries' = 1
                /\ bearer' = [bearer EXCEPT ![k] = stored]
                /\ wire' = [wire EXCEPT ![k] = 1]
          /\ UNCHANGED <<access, stored, expelled>>
    /\ UNCHANGED <<storing, leaving, excused, serverVars>>

\* The refresh is over: the calls that waited for it are retried or fail.
Lands ==
    /\ flight' = 0 /\ tries' = 0 /\ storing' = FALSE
    /\ request' = [r \in Requests |-> IF request[r] = "joined" THEN "idle" ELSE request[r]]

TimesOutBug ==                            \* a key of its own for every attempt
    /\ flight # 0 /\ ~storing /\ tries < MaxRefreshTries
    /\ \E k \in Refreshes :
          /\ NewKey(k)
          /\ flight' = k
          /\ bearer' = [bearer EXCEPT ![k] = bearer[flight]]
          /\ wire' = [wire EXCEPT ![k] = 1]
    /\ tries' = tries + 1
    /\ UNCHANGED <<access, stored, storing, request, leaving, expelled, excused, serverVars>>

\* An attempt is lost, or its answer: the same key again ...
TimesOut ==
    /\ flight # 0 /\ ~storing /\ tries < MaxRefreshTries
    /\ tries' = tries + 1
    /\ wire' = [wire EXCEPT ![flight] = @ + 1]
    /\ UNCHANGED <<access, stored, flight, storing, request, leaving, expelled, excused,
                   bearer, serverVars>>

\* ... and after the last one _networkFailure: the tokens stay.
GivesUp ==
    /\ flight # 0 /\ ~storing /\ tries = MaxRefreshTries
    /\ Lands
    /\ Excused(TRUE)
    /\ UNCHANGED <<access, stored, leaving, expelled, netVars, serverVars>>

\* The new access token is stored, then the new refresh token.
Answered ==
    /\ flight # 0 /\ ~storing /\ server[flight] = "answered"
    /\ access' = "fresh"
    /\ storing' = TRUE
    /\ UNCHANGED <<stored, flight, tries, request, leaving, expelled, excused, netVars, serverVars>>

Stored ==
    /\ storing
    /\ stored' = pair[flight]
    /\ Lands
    /\ UNCHANGED <<access, leaving, expelled, excused, netVars, serverVars>>

\* The server refuses.
Refused ==
    /\ flight # 0 /\ ~storing /\ server[flight] = "refused"
    /\ ClearTokens
    /\ Lands
    /\ UNCHANGED <<leaving, excused, netVars, serverVars>>

\* Something between the two answers (502 while the server is being deployed): any
\* answer that is not a pair counts as a refusal.
BadGateway ==
    /\ flight # 0 /\ ~storing
    /\ ClearTokens
    /\ Lands
    /\ Excused(TRUE)
    /\ UNCHANGED <<leaving, netVars, serverVars>>

\* The app is killed: what is stored stays.
Killed ==
    /\ access # "none" \/ flight # 0 \/ leaving
    /\ flight' = 0 /\ tries' = 0 /\ storing' = FALSE
    /\ request' = [r \in Requests |-> "idle"]
    /\ leaving' = FALSE
    /\ Excused(flight # 0)
    /\ UNCHANGED <<access, stored, expelled, netVars, serverVars>>

\* endSession: the server is told, and after its answer or five seconds the tokens go.
SignOut ==
    /\ ~leaving /\ stored # 0
    /\ ~entering                 \* the login page has no such button
    /\ leaving' = TRUE
    /\ byes' = byes \cup {stored}
    /\ Excused(TRUE)
    /\ UNCHANGED <<access, stored, flight, tries, storing, request, expelled, netVars,
                   server, pair, row, active, entering, restarts>>

SignedOut ==
    /\ leaving
    /\ leaving' = FALSE
    /\ access' = "none" /\ stored' = 0
    /\ UNCHANGED <<flight, tries, storing, request, expelled, excused, netVars, serverVars>>

\* The login page: employeeLogin looks the employee up, then issues a pair.
SignIn ==
    /\ access = "none" /\ stored = 0 /\ ~leaving /\ ~entering
    /\ active
    /\ entering' = TRUE
    /\ UNCHANGED <<phoneVars, netVars, server, pair, byes, row, active, restarts>>

SignedIn ==
    /\ entering
    /\ entering' = FALSE
    /\ \E t \in Tokens :
          /\ NewToken(t)
          /\ row' = [row EXCEPT ![t] = "valid"]
          /\ stored' = t
    /\ access' = "fresh"
    /\ expelled' = FALSE
    /\ excused' = (flight # 0)
    /\ UNCHANGED <<flight, tries, storing, request, leaving, netVars,
                   server, pair, byes, active, restarts>>
-----------------------------------------------------------------------------
(***************************************************************************)
(* The server.                                                             *)
(***************************************************************************)
\* An attempt arrives: it starts the execution of its key, or gets the answer of the
\* one there is or will be; refusals are not remembered.
Arrives(k) ==
    /\ wire[k] > 0
    /\ wire' = [wire EXCEPT ![k] = @ - 1]
    /\ server' = IF server[k] \in {"none", "refused"}
                 THEN [server EXCEPT ![k] = "finding"] ELSE server
    /\ UNCHANGED <<phoneVars, bearer, pair, byes, row, active, entering, restarts>>

\* AuthService.refresh: find the row, revoke it, issue a new pair.
Finds(k) ==
    /\ server[k] = "finding"
    /\ server' = [server EXCEPT ![k] = IF row[bearer[k]] = "valid" THEN "revoking" ELSE "refused"]
    /\ UNCHANGED <<phoneVars, netVars, pair, byes, row, active, entering, restarts>>

Revokes(k) ==
    /\ server[k] = "revoking"
    /\ server' = [server EXCEPT ![k] = "issuing"]
    /\ row' = [row EXCEPT ![bearer[k]] = "revoked"]
    /\ UNCHANGED <<phoneVars, netVars, pair, byes, active, entering, restarts>>

Issues(k) ==
    /\ server[k] = "issuing"
    /\ server' = [server EXCEPT ![k] = "answered"]
    /\ \E t \in Tokens :
          /\ NewToken(t)
          /\ row' = [row EXCEPT ![t] = "valid"]
          /\ pair' = [pair EXCEPT ![k] = t]
    /\ UNCHANGED <<phoneVars, netVars, byes, active, entering, restarts>>

Revoked(t) == [row EXCEPT ![t] = IF @ = "valid" THEN "revoked" ELSE @]

\* AuthService.logout.
Goodbye(t) ==
    /\ t \in byes
    /\ byes' = byes \ {t}
    /\ row' = Revoked(t)
    /\ UNCHANGED <<phoneVars, netVars, server, pair, active, entering, restarts>>

\* OversightService.archive, in one transaction, and restore.
Archive ==
    /\ active
    /\ active' = FALSE
    /\ row' = [t \in Tokens |-> IF row[t] = "valid" THEN "revoked" ELSE row[t]]
    /\ Excused(TRUE)
    /\ UNCHANGED <<access, stored, flight, tries, storing, request, leaving, expelled, netVars,
                   server, pair, byes, entering, restarts>>

Restore ==
    /\ ~active
    /\ active' = TRUE
    /\ UNCHANGED <<phoneVars, netVars, server, pair, byes, row, entering, restarts>>

\* A restart forgets the answers, and stops what is under way.
Restart ==
    /\ restarts < MaxRestarts
    /\ restarts' = restarts + 1
    /\ server' = [k \in Refreshes |-> "none"]
    /\ entering' = FALSE
    /\ Excused(flight # 0)
    /\ UNCHANGED <<access, stored, flight, tries, storing, request, leaving, expelled, netVars,
                   pair, byes, row, active>>
-----------------------------------------------------------------------------
Phone ==
    \/ \E r \in Requests : Sends(r) \/ Unauthorized(r)
    \/ AccessExpires \/ TimesOut \/ GivesUp \/ Answered \/ Stored \/ Refused \/ BadGateway
    \/ Killed \/ SignOut \/ SignedOut \/ SignIn \/ SignedIn

Server ==
    \/ \E k \in Refreshes : Arrives(k) \/ Finds(k) \/ Revokes(k) \/ Issues(k)
    \/ \E t \in Tokens : Goodbye(t)
    \/ Archive \/ Restore \/ Restart

Next == Phone \/ Server

Spec == Init /\ [][Next]_vars
-----------------------------------------------------------------------------
\* "A lost answer does not break the session": however attempts and answers are
\* lost, delayed and crossed by other calls of the app, nobody is sent to the login
\* page unless they signed out, were archived, the app or the server died in the
\* middle of a refresh, or all the attempts of one were lost.
SessionKept == expelled => excused

\* ... because what the phone stores can be refreshed, or is just being.
Refreshable ==
    ~excused /\ stored # 0 =>
        \/ row[stored] = "valid"
        \/ flight # 0 /\ bearer[flight] = stored /\ server[flight] \in {"issuing", "answered"}
-----------------------------------------------------------------------------
(***************************************************************************)
(* What the repository says and the code does not keep.                    *)
(***************************************************************************)
\* "The server refused the session (refresh 401/400)": only that sends the app to
\* the login page.
ExpelledByServer == [][expelled' /\ ~expelled => flight # 0 /\ server[flight] = "refused"]_vars

\* "Network failure: the session is STILL valid", so the tokens are kept.
KeptIsValid ==
    [][GivesUp /\ ~excused => server[flight] \notin {"issuing", "answered"}]_vars

\* "Logout removes the tokens": nothing puts them back but a login.
SignedOutStaysOut == [][access = "none" /\ access' # "none" => entering]_vars

\* "Ishdan bo'shatish: login yopiladi, sessiyalar bekor": nobody archived can refresh.
ArchivedIsOut == ~active => \A t \in Tokens : row[t] # "valid"
=============================================================================
