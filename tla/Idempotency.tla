----------------------------- MODULE Idempotency -----------------------------
(***************************************************************************)
(* Writes over a flaky network: the retrying client (RetryInterceptor and  *)
(* IdempotencyInterceptor of app_core) and the server's memory of answers  *)
(* (IdempotencyInterceptor of the backend).                                *)
(*                                                                         *)
(* A call of the client is a key, sent in up to MaxTries attempts, one     *)
(* after another; an attempt the client no longer waits for may still be   *)
(* under way, or lost: what is sent need not arrive.  An execution of the  *)
(* write carries the number of the attempt that started it.                *)
(***************************************************************************)
EXTENDS Integers, Sequences, Functions, Subsequences

CONSTANTS
    Keys,           \* writes, each with its Idempotency-Key, principal and path
    MaxTries,       \* 1 + maxRetries
    MaxEntries,     \* MAX_ENTRIES
    Large,          \* the writes whose answer exceeds MAX_BODY_CHARS
    MaxCrashes      \* bound: restarts of the server

ASSUME IdempotencyAssumption ==
    /\ MaxTries \in Nat \ {0}
    /\ MaxEntries \in Nat \ {0}
    /\ Large \subseteq Keys
    /\ MaxCrashes \in Nat

VARIABLES
    client,         \* per key: where the call is
    attempt,        \* per key: where each attempt is
    waits,          \* per key: the execution each attempt waits for, or 0
    exec,           \* per key: the executions of the write
    order,          \* the keys of the map, oldest first
    entry,          \* per key: its entry in the map
    forgotten,      \* per key: an entry of it was dropped, or is past its TTL
    crashes         \* restarts so far

vars == <<client, attempt, waits, exec, order, entry, forgotten, crashes>>
serverVars == <<waits, exec, order, entry, forgotten, crashes>>
-----------------------------------------------------------------------------
Tries == 1..MaxTries
Entry == [exec : Tries, pending : BOOLEAN, expired : BOOLEAN]
NoEntry == [exec |-> 0, pending |-> FALSE, expired |-> TRUE]

TypeOK ==
    /\ client \in [Keys -> {"ready", "waiting", "resolved", "failed"}]
    /\ attempt \in [Keys -> [Tries -> {"unsent", "sent", "served", "ok", "failed", "lost"}]]
    /\ waits \in [Keys -> [Tries -> 0..MaxTries]]
    /\ exec \in [Keys -> [Tries -> {"none", "running", "ok", "failed"}]]
    /\ order \in Seq(Keys) /\ Len(order) <= MaxEntries /\ IsInjective(order)
    /\ entry \in [Keys -> Entry \cup {NoEntry}]
    /\ \A k \in Keys : k \in Range(order) <=> entry[k] # NoEntry
    /\ forgotten \in [Keys -> BOOLEAN]
    /\ crashes \in 0..MaxCrashes

Init ==
    /\ client = [k \in Keys |-> "ready"]
    /\ attempt = [k \in Keys |-> [n \in Tries |-> "unsent"]]
    /\ waits = [k \in Keys |-> [n \in Tries |-> 0]]
    /\ exec = [k \in Keys |-> [n \in Tries |-> "none"]]
    /\ order = <<>>
    /\ entry = [k \in Keys |-> NoEntry]
    /\ forgotten = [k \in Keys |-> FALSE]
    /\ crashes = 0
-----------------------------------------------------------------------------
(***************************************************************************)
(* The client.                                                             *)
(***************************************************************************)
IsNext(k, n) == attempt[k][n] = "unsent" /\ \A m \in 1..(n - 1) : attempt[k][m] # "unsent"
IsLast(k, n) == attempt[k][n] # "unsent" /\ \A m \in (n + 1)..MaxTries : attempt[k][m] = "unsent"

Send(k, n) ==
    /\ client[k] = "ready" /\ IsNext(k, n)
    /\ client' = [client EXCEPT ![k] = "waiting"]
    /\ attempt' = [attempt EXCEPT ![k][n] = "sent"]
    /\ UNCHANGED serverVars

\* A timeout, a broken connection, 408, 429, 502, 503 or 504: what became of the
\* attempt is not known.
GivesUp(k, n) ==
    /\ client[k] = "waiting" /\ IsLast(k, n)
    /\ client' = [client EXCEPT ![k] = IF n = MaxTries THEN "failed" ELSE "ready"]
    /\ UNCHANGED <<attempt, serverVars>>

\* An answer to the attempt it waits for.  Any other error is not retried.
Receives(k, n) ==
    /\ client[k] = "waiting" /\ IsLast(k, n) /\ attempt[k][n] \in {"ok", "failed"}
    /\ client' = [client EXCEPT ![k] = IF attempt[k][n] = "ok" THEN "resolved" ELSE "failed"]
    /\ UNCHANGED <<attempt, serverVars>>
-----------------------------------------------------------------------------
(***************************************************************************)
(* The server.  A definition whose name ends in Bug is a plausible mistake *)
(* in the one after it; PROJECT.json says which property finds it.         *)
(***************************************************************************)
Stale(k) == entry[k].expired /\ ~entry[k].pending
Clean == Subsequence(order, {k \in Keys : ~Stale(k)})

\* Oldest first until there is room for one more.
Youngest(s) ==
    IF Len(s) < MaxEntries THEN s
    ELSE SubSeq(s, Len(s) - MaxEntries + 2, Len(s))

\* What sweep leaves: below the limit it looks for stale entries now and then.
Sweeps == IF Len(order) < MaxEntries THEN {order, Clean} ELSE {Youngest(Clean)}

WithKeyBug(s, k) == Append(s, k)          \* makes the key the youngest, and leaves it where it was

\* Map.set keeps the place of a key that is there.
WithKey(s, k) == IF k \in Range(s) THEN s ELSE Append(s, k)

HitBug(k, s) == k \in Range(s) /\ ~entry[k].expired /\ ~entry[k].pending

\* An entry within its TTL, whether its request still runs or not.
Hit(k, s) == k \in Range(s) /\ ~entry[k].expired

Swept(s) == [x \in Keys |-> IF x \in Range(s) THEN entry[x] ELSE NoEntry]
Dropped(s) == {x \in Keys : entry[x] # NoEntry /\ x \notin Range(s)}
Forget(who) == forgotten' = [x \in Keys |-> forgotten[x] \/ x \in who]

\* The attempt gets the stored answer, or waits for the one under way ...
Replay(k, n, s) ==
    /\ Hit(k, s)
    /\ IF entry[k].pending
       THEN /\ attempt' = [attempt EXCEPT ![k][n] = "served"]
            /\ waits' = [waits EXCEPT ![k][n] = entry[k].exec]
       ELSE attempt' = [attempt EXCEPT ![k][n] = "ok"] /\ UNCHANGED waits
    /\ entry' = Swept(s)
    /\ order' = s
    /\ UNCHANGED exec

\* ... or starts an execution of its own.
Execute(k, n, s) ==
    /\ ~Hit(k, s)
    /\ attempt' = [attempt EXCEPT ![k][n] = "served"]
    /\ waits' = [waits EXCEPT ![k][n] = n]
    /\ exec' = [exec EXCEPT ![k][n] = "running"]
    /\ entry' = [Swept(s) EXCEPT ![k] = [exec |-> n, pending |-> TRUE, expired |-> FALSE]]
    /\ order' = WithKey(s, k)

Arrives(k, n) ==
    /\ attempt[k][n] = "sent"
    /\ \E s \in Sweeps : (Replay(k, n, s) \/ Execute(k, n, s)) /\ Forget(Dropped(s))
    /\ UNCHANGED <<client, crashes>>

\* The promise settles for everybody who waits for it.
Settles(k, n, how) ==
    /\ exec[k][n] = "running"
    /\ exec' = [exec EXCEPT ![k][n] = how]
    /\ attempt' = [attempt EXCEPT ![k] = [m \in Tries |-> IF waits[k][m] = n THEN how ELSE @[m]]]
    /\ waits' = [waits EXCEPT ![k] = [m \in Tries |-> IF @[m] = n THEN 0 ELSE @[m]]]
    /\ UNCHANGED <<client, crashes>>

Delete(k) ==
    /\ entry' = [entry EXCEPT ![k] = NoEntry]
    /\ order' = Subsequence(order, Keys \ {k})

\* The answer goes into the entry, if the map still has it; one too large to keep
\* deletes whatever entry there is.
Succeeds(k, n) ==
    /\ Settles(k, n, "ok")
    /\ IF k \in Large
       THEN Delete(k) /\ Forget({k})
       ELSE /\ entry' = IF entry[k].exec = n THEN [entry EXCEPT ![k].pending = FALSE] ELSE entry
            /\ UNCHANGED <<order, forgotten>>

FailsBug(k, n) ==                         \* remembers failures
    /\ Settles(k, n, "failed")
    /\ entry' = IF entry[k].exec = n THEN [entry EXCEPT ![k].pending = FALSE] ELSE entry
    /\ UNCHANGED <<order, forgotten>>

\* "Failed writes are not remembered": whatever entry there is goes.
Fails(k, n) ==
    /\ Settles(k, n, "failed")
    /\ Delete(k)
    /\ UNCHANGED forgotten

\* TTL_MS after the first attempt arrived.
Expires(k) ==
    /\ entry[k] # NoEntry /\ ~entry[k].expired
    /\ entry' = [entry EXCEPT ![k].expired = TRUE]
    /\ Forget({k})
    /\ UNCHANGED <<client, attempt, waits, exec, order, crashes>>

\* The memory is gone, and with it the promises; a write under way has happened
\* or not.
Crash ==
    /\ crashes < MaxCrashes
    /\ crashes' = crashes + 1
    /\ \E done \in SUBSET {kn \in Keys \X Tries : exec[kn[1]][kn[2]] = "running"} :
          exec' = [k \in Keys |-> [n \in Tries |->
                      IF exec[k][n] # "running" THEN exec[k][n]
                      ELSE IF <<k, n>> \in done THEN "ok" ELSE "failed"]]
    /\ attempt' = [k \in Keys |-> [n \in Tries |->
                      IF attempt[k][n] = "served" THEN "lost" ELSE attempt[k][n]]]
    /\ entry' = [k \in Keys |-> NoEntry]
    /\ order' = <<>>
    /\ Forget({k \in Keys : entry[k] # NoEntry})
    /\ waits' = [k \in Keys |-> [n \in Tries |-> 0]]
    /\ UNCHANGED client

Next ==
    \/ \E k \in Keys, n \in Tries :
          \/ Send(k, n) \/ GivesUp(k, n) \/ Receives(k, n)
          \/ Arrives(k, n) \/ Succeeds(k, n) \/ Fails(k, n)
    \/ \E k \in Keys : Expires(k)
    \/ Crash

Spec == Init /\ [][Next]_vars
-----------------------------------------------------------------------------
\* "A murojaat, message or check-in is not created twice": however the attempts
\* of a write overlap, at most one execution of it runs or has succeeded, unless
\* the server has forgotten the key: its TTL, the limit, the size of the answer,
\* a restart.
ExecutedOnce ==
    \A k \in Keys : \A m, n \in Tries :
        ~forgotten[k] /\ exec[k][m] \in {"running", "ok"} /\ exec[k][n] \in {"running", "ok"}
        => m = n

\* What the memory holds is true, also after executions of a forgotten key crossed:
\* an attempt never waits for an execution that is over, and is never answered
\* from one that failed ("nothing is stored, the retry executes anew").
EntryIsTrue ==
    \A k \in Keys :
        entry[k] # NoEntry => exec[k][entry[k].exec] = IF entry[k].pending THEN "running" ELSE "ok"
=============================================================================
