--------------------------- MODULE NetworkProofs ---------------------------
(***************************************************************************)
(* Proofs about the phone on an unreliable network: the retried writes,    *)
(* the session and the messages waiting to be sent, for any number of      *)
(* keys, attempts, tokens, refreshes, messages and restarts.               *)
(***************************************************************************)
EXTENDS MCNetwork, FiniteSetTheorems, TLAPS, WellFoundedInduction
-----------------------------------------------------------------------------
(***************************************************************************)
(* Subsequences.                                                           *)
(***************************************************************************)
LEMMA Interval ==
    ASSUME NEW n \in Nat
    PROVE  IsFiniteSet(1..n) /\ Cardinality(1..n) = n
  <1>1. 1 \in Int /\ n \in Int
    OBVIOUS
  <1>2. /\ IsFiniteSet(1..n)
        /\ Cardinality(1..n) = IF 1 > n THEN 0 ELSE n - 1 + 1
    BY <1>1, FS_Interval, Zenon
  <1> QED
    BY <1>2

\* The rank of a place among finitely many tells it from the others, and every rank up
\* to their number is taken.
LEMMA Ranks ==
    ASSUME NEW I \in SUBSET Nat, IsFiniteSet(I)
    PROVE  /\ \A i \in I : Rank(i, I) \in 1..Cardinality(I)
           /\ \A i, h \in I : i < h => Rank(i, I) < Rank(h, I)
           /\ \A j \in 1..Cardinality(I) : \E i \in I : Rank(i, I) = j
  <1> DEFINE Below(i) == {h \in I : h <= i}
             f == [i \in I |-> Rank(i, I)]
  <1>1. Cardinality(I) \in Nat
    BY FS_CardinalityType
  <1>2. ASSUME NEW i \in I
        PROVE  /\ IsFiniteSet(Below(i)) /\ Cardinality(Below(i)) \in Nat
               /\ Cardinality(Below(i)) <= Cardinality(I)
               /\ Cardinality(Below(i)) # 0
    <2>1. IsFiniteSet(Below(i)) /\ Cardinality(Below(i)) <= Cardinality(I)
      BY FS_Subset
    <2>2. i \in Below(i)
      OBVIOUS
    <2> QED
      BY <2>1, <2>2, FS_CardinalityType, FS_EmptySet
  <1>3. ASSUME NEW i \in I, NEW h \in I, i < h
        PROVE  Cardinality(Below(i)) < Cardinality(Below(h))
    <2>1. Below(i) \in SUBSET Below(h)
      <3>1. \A g \in I : g \in Nat /\ i \in Nat /\ h \in Nat
        OBVIOUS
      <3>2. \A g \in I : g <= i => g <= h
        BY <1>3, <3>1
      <3> QED
        BY <3>2
    <2>2. h \in Below(h) /\ h \notin Below(i)
      BY <1>3
    <2>3. Cardinality(Below(i)) <= Cardinality(Below(h))
          /\ Cardinality(Below(i)) # Cardinality(Below(h))
      BY <1>2, <2>1, <2>2, FS_Subset
    <2> QED
      BY <1>2, <2>3
  <1>4. \A i \in I : Rank(i, I) \in 1..Cardinality(I)
    BY <1>1, <1>2 DEF Rank
  <1>5. \A i, h \in I : i < h => Rank(i, I) < Rank(h, I)
    BY <1>3 DEF Rank
  <1>6. f \in Injection(I, 1..Cardinality(I))
    <2>1. f \in [I -> 1..Cardinality(I)]
      BY <1>4
    <2>2. ASSUME NEW i \in I, NEW h \in I, f[i] = f[h] PROVE i = h
      <3>1. Rank(i, I) = Rank(h, I) /\ Rank(i, I) \in Nat /\ Rank(h, I) \in Nat
        BY <1>1, <1>4, <2>2
      <3>2. ~(i < h) /\ ~(h < i) /\ i \in Nat /\ h \in Nat
        BY <1>5, <3>1
      <3> QED
        BY <3>2
    <2> QED
      BY <2>1, <2>2 DEF Injection, IsInjective
  <1>7. /\ IsFiniteSet(1..Cardinality(I))
        /\ Cardinality(1..Cardinality(I)) = Cardinality(I)
    BY <1>1, Interval
  <1>8. f \in Surjection(I, 1..Cardinality(I))
    BY <1>6, <1>7, FS_Injection
  <1>9. \A j \in 1..Cardinality(I) : \E i \in I : f[i] = j
    BY <1>8 DEF Surjection
  <1> QED
    BY <1>4, <1>5, <1>9

\* A subsequence has the members that are wanted and no others, each as often.
LEMMA SubsequenceFacts ==
    ASSUME NEW T, NEW s \in Seq(T), NEW Wanted
    PROVE  LET u == Subsequence(s, Wanted)
           IN  /\ u \in Seq(T) /\ Len(u) <= Len(s)
               /\ Range(u) = Range(s) \cap Wanted
               /\ IsInjective(s) => IsInjective(u)
  <1> DEFINE I == Places(s, Wanted)
             n == Cardinality(I)
             at(j) == CHOOSE i \in I : Rank(i, I) = j
             u == Subsequence(s, Wanted)
  <1> HIDE DEF I
  <1>1. /\ Len(s) \in Nat /\ DOMAIN s = 1..Len(s) /\ \A i \in 1..Len(s) : s[i] \in T
    OBVIOUS
  <1>2. /\ IsFiniteSet(1..Len(s)) /\ Cardinality(1..Len(s)) = Len(s)
    BY <1>1, Interval
  <1>3. I \in SUBSET (1..Len(s)) /\ I \in SUBSET Nat
    <2>1. I \in SUBSET (1..Len(s))
      BY <1>1 DEF Places, I
    <2>2. 1..Len(s) \in SUBSET Nat
      BY <1>1
    <2> QED
      BY <2>1, <2>2
  <1>4. IsFiniteSet(I) /\ n \in Nat /\ n <= Len(s)
    BY <1>2, <1>3, FS_Subset, FS_CardinalityType
  <1>5. \A j \in 1..n : at(j) \in I /\ Rank(at(j), I) = j
    BY <1>3, <1>4, Ranks
  <1>6. \A i \in I : Rank(i, I) \in 1..n /\ at(Rank(i, I)) = i
    <2> SUFFICES ASSUME NEW i \in I
                 PROVE  Rank(i, I) \in 1..n /\ at(Rank(i, I)) = i
      OBVIOUS
    <2>1. Rank(i, I) \in 1..n
      BY <1>3, <1>4, Ranks
    <2>2. at(Rank(i, I)) \in I /\ Rank(at(Rank(i, I)), I) = Rank(i, I)
      BY <1>5, <2>1
    <2>3. \A h \in I : Rank(h, I) = Rank(i, I) => h = i
      <3> SUFFICES ASSUME NEW h \in I, Rank(h, I) = Rank(i, I) PROVE h = i
        OBVIOUS
      <3>1. ~(h < i) /\ ~(i < h)
        BY <1>3, <1>4, <2>1, Ranks
      <3> QED
        BY <1>3, <3>1
    <2> QED
      BY <2>1, <2>2, <2>3
  <1>7. u = [j \in 1..n |-> s[at(j)]]
    BY DEF Subsequence, I
  <1> HIDE DEF at, u
  <1>8. \A j \in 1..n : s[at(j)] \in T /\ s[at(j)] \in Wanted /\ at(j) \in 1..Len(s)
    BY <1>1, <1>3, <1>5 DEF Places, I
  <1>9. u \in Seq(T) /\ Len(u) = n /\ DOMAIN u = 1..n
    BY <1>4, <1>7, <1>8
  <1>10. Range(u) = Range(s) \cap Wanted
    <2>1. ASSUME NEW x \in Range(u) PROVE x \in Range(s) \cap Wanted
      BY <1>1, <1>7, <1>8, <1>9, <2>1 DEF Range
    <2>2. ASSUME NEW x \in Range(s) \cap Wanted PROVE x \in Range(u)
      <3>1. PICK i \in 1..Len(s) : s[i] = x
        BY <1>1 DEF Range
      <3>2. i \in I
        BY <1>1, <3>1 DEF Places, I
      <3>3. Rank(i, I) \in 1..n /\ u[Rank(i, I)] = x
        BY <1>6, <1>7, <3>1, <3>2
      <3> QED
        BY <1>9, <3>3 DEF Range
    <2> QED
      BY <2>1, <2>2
  <1>11. ASSUME IsInjective(s) PROVE IsInjective(u)
    <2> SUFFICES ASSUME NEW j \in 1..n, NEW k \in 1..n, u[j] = u[k] PROVE j = k
      BY <1>9 DEF IsInjective
    <2>1. s[at(j)] = s[at(k)]
      BY <1>7
    <2>2. at(j) = at(k)
      BY <1>1, <1>8, <1>11, <2>1 DEF IsInjective
    <2> QED
      BY <1>5, <2>2
  <1> QED
    BY <1>4, <1>9, <1>10, <1>11 DEF u
-----------------------------------------------------------------------------
(***************************************************************************)
(* A write is executed once unless the server has forgotten its key.       *)
(*                                                                         *)
(* ExecutedOnce is not inductive: that a second execution does not start   *)
(* depends on what the map holds.  Known closes it: while a key is not     *)
(* forgotten, the map has an unexpired entry for whatever execution of it  *)
(* runs or has succeeded.  Nothing of this depends on the order of the     *)
(* map, which has a section of its own below.                              *)
(***************************************************************************)
Kept ==
    /\ attempt \in [Keys -> [Tries -> {"unsent", "sent", "served", "ok", "failed", "lost"}]]
    /\ waits \in [Keys -> [Tries -> 0..MaxTries]]
    /\ exec \in [Keys -> [Tries -> {"none", "running", "ok", "failed"}]]
    /\ entry \in [Keys -> Entry \cup {NoEntry}]
    /\ forgotten \in [Keys -> BOOLEAN]

Active(k, n) == exec[k][n] \in {"running", "ok"}

Known ==
    \A k \in Keys, n \in Tries :
        ~forgotten[k] /\ Active(k, n)
        => entry[k] # NoEntry /\ entry[k].exec = n /\ ~entry[k].expired

WritesInv == Kept /\ EntryIsTrue /\ Known

\* The record that stands for no entry is not one: no attempt has the number 0.
LEMMA EntryFacts ==
    /\ NoEntry \notin Entry
    /\ \A e \in Entry : e # NoEntry /\ e.exec \in Tries /\ e.pending \in BOOLEAN /\ e.expired \in BOOLEAN
<1>1. NoEntry.exec = 0
  BY DEF NoEntry
<1>2. \A e \in Entry : e.exec \in Tries /\ e.pending \in BOOLEAN /\ e.expired \in BOOLEAN
  BY DEF Entry
<1>3. 0 \notin Tries
  BY IdempotencyAssumption DEF Tries
<1>. QED
  BY <1>1, <1>2, <1>3

\* Under Known the two executions of ExecutedOnce are the one the entry names.
LEMMA KnownOnce == WritesInv => ExecutedOnce
BY DEF WritesInv, Known, Active, ExecutedOnce

LEMMA InitWritesInv == Init => WritesInv
<1>. SUFFICES ASSUME Init PROVE WritesInv
  OBVIOUS
<1>1. Kept
  BY IdempotencyAssumption DEF Init, Kept, Tries
<1>2. EntryIsTrue
  BY DEF Init, EntryIsTrue
<1>3. Known
  BY DEF Init, Known, Active
<1>. QED
  BY <1>1, <1>2, <1>3 DEF WritesInv

\* A step of the client does not touch the server's memory.
LEMMA ClientStep ==
    ASSUME WritesInv, NEW k \in Keys, NEW n \in Tries,
           Send(k, n) \/ GivesUp(k, n) \/ Receives(k, n)
    PROVE  WritesInv'
<1>1. UNCHANGED serverVars
  BY DEF Send, GivesUp, Receives
<1>2. attempt' \in [Keys -> [Tries -> {"unsent", "sent", "served", "ok", "failed", "lost"}]]
  <2>1. CASE Send(k, n)
    BY <2>1 DEF WritesInv, Kept, Send
  <2>2. CASE GivesUp(k, n) \/ Receives(k, n)
    BY <2>2 DEF WritesInv, Kept, GivesUp, Receives
  <2>. QED
    BY <2>1, <2>2
<1>3. Kept'
  BY <1>1, <1>2 DEF WritesInv, Kept, serverVars
<1>4. EntryIsTrue'
  BY <1>1 DEF WritesInv, EntryIsTrue, serverVars
<1>5. Known'
  BY <1>1 DEF WritesInv, Known, Active, serverVars
<1>. QED
  BY <1>3, <1>4, <1>5 DEF WritesInv

\* An attempt that finds an entry changes neither the executions nor, but for
\* the entries the sweep drops, the map.
LEMMA ReplayStep ==
    ASSUME WritesInv, NEW k \in Keys, NEW n \in Tries, NEW s,
           Replay(k, n, s), Forget(Dropped(s))
    PROVE  WritesInv'
<1>. USE EntryFacts
<1>1. Kept'
  <2>1. entry[k] \in Entry => entry[k].exec \in 0..MaxTries
    BY IdempotencyAssumption DEF Tries
  <2>2. entry[k] \in Entry \cup {NoEntry} /\ NoEntry.exec \in 0..MaxTries
    BY IdempotencyAssumption DEF WritesInv, Kept, NoEntry
  <2>3. \/ /\ attempt' = [attempt EXCEPT ![k][n] = "served"]
           /\ waits' = [waits EXCEPT ![k][n] = entry[k].exec]
        \/ /\ attempt' = [attempt EXCEPT ![k][n] = "ok"]
           /\ waits' = waits
    BY Zenon DEF Replay
  <2>4. /\ waits' \in [Keys -> [Tries -> 0..MaxTries]]
        /\ attempt' \in [Keys -> [Tries -> {"unsent", "sent", "served", "ok", "failed", "lost"}]]
    <3>1. PICK e \in 0..MaxTries : \/ /\ attempt' = [attempt EXCEPT ![k][n] = "served"]
                                      /\ waits' = [waits EXCEPT ![k][n] = e]
                                   \/ /\ attempt' = [attempt EXCEPT ![k][n] = "ok"]
                                      /\ waits' = waits
      BY <2>1, <2>2, <2>3
    <3>2. waits \in [Keys -> [Tries -> 0..MaxTries]]
      BY DEF WritesInv, Kept
    <3>3. attempt \in [Keys -> [Tries -> {"unsent", "sent", "served", "ok", "failed", "lost"}]]
      BY DEF WritesInv, Kept
    <3>4. waits' \in [Keys -> [Tries -> 0..MaxTries]]
      BY <3>1, <3>2
    <3>5. attempt' \in [Keys -> [Tries -> {"unsent", "sent", "served", "ok", "failed", "lost"}]]
      BY <3>1, <3>3
    <3>. QED
      BY <3>4, <3>5
  <2>5. entry' \in [Keys -> Entry \cup {NoEntry}]
    BY DEF WritesInv, Kept, Replay, Swept
  <2>. QED
    BY <2>4, <2>5 DEF WritesInv, Kept, Replay, Forget
<1>2. EntryIsTrue'
  BY DEF WritesInv, EntryIsTrue, Replay, Swept
<1>3. Known'
  BY DEF WritesInv, Kept, Known, Active, Replay, Swept, Forget, Dropped
<1>. QED
  BY <1>1, <1>2, <1>3 DEF WritesInv

\* An attempt that finds none starts an execution: if another one was active, its
\* entry is past its TTL or has just been dropped, and the key is forgotten.
LEMMA ExecuteStep ==
    ASSUME WritesInv, NEW k \in Keys, NEW n \in Tries, NEW s,
           Execute(k, n, s), Forget(Dropped(s))
    PROVE  WritesInv'
<1>. USE EntryFacts
<1>. DEFINE fresh == [exec |-> n, pending |-> TRUE, expired |-> FALSE]
<1>1. fresh \in Entry /\ fresh.exec = n /\ fresh.pending /\ ~fresh.expired
  BY DEF Entry
<1>2. entry'[k] = fresh /\ exec'[k][n] = "running"
  BY DEF Execute, Swept, WritesInv, Kept
<1>3. \A x \in Keys \ {k} : entry'[x] = Swept(s)[x] /\ exec'[x] = exec[x]
  BY DEF Execute, Swept, WritesInv, Kept
<1>4. \A m \in Tries \ {n} : exec'[k][m] = exec[k][m]
  BY DEF Execute, WritesInv, Kept
<1>5. Kept'
  <2>1. waits' \in [Keys -> [Tries -> 0..MaxTries]]
    BY IdempotencyAssumption DEF WritesInv, Kept, Execute, Tries
  <2>2. attempt' \in [Keys -> [Tries -> {"unsent", "sent", "served", "ok", "failed", "lost"}]]
    BY DEF WritesInv, Kept, Execute
  <2>3. exec' \in [Keys -> [Tries -> {"none", "running", "ok", "failed"}]]
    BY DEF WritesInv, Kept, Execute
  <2>4. entry' \in [Keys -> Entry \cup {NoEntry}]
    BY <1>1 DEF WritesInv, Kept, Execute, Swept
  <2>. QED
    BY <2>1, <2>2, <2>3, <2>4 DEF WritesInv, Kept, Forget
<1>6. EntryIsTrue'
  <2>. SUFFICES ASSUME NEW x \in Keys, entry'[x] # NoEntry
                PROVE  exec'[x][entry'[x].exec] = IF entry'[x].pending THEN "running" ELSE "ok"
    BY DEF EntryIsTrue
  <2>1. CASE x = k
    BY <2>1, <1>1, <1>2
  <2>2. CASE x # k
    BY <2>2, <1>3 DEF Swept, WritesInv, EntryIsTrue
  <2>. QED
    BY <2>1, <2>2
<1>7. Known'
  <2>. SUFFICES ASSUME NEW x \in Keys, NEW m \in Tries,
                       ~forgotten'[x], exec'[x][m] \in {"running", "ok"}
                PROVE  entry'[x] # NoEntry /\ entry'[x].exec = m /\ ~entry'[x].expired
    BY DEF Known, Active
  <2>1. ~forgotten[x] /\ x \notin Dropped(s)
    BY DEF Forget, WritesInv, Kept
  <2>2. CASE x # k
    <3>1. entry[x] # NoEntry /\ entry[x].exec = m /\ ~entry[x].expired
      BY <2>1, <2>2, <1>3 DEF WritesInv, Known, Active
    <3>2. x \in Range(s)
      BY <2>1, <3>1 DEF Dropped
    <3>. QED
      BY <2>2, <3>1, <3>2, <1>3 DEF Swept
  <2>3. CASE x = k /\ m = n
    BY <2>3, <1>1, <1>2
  <2>4. CASE x = k /\ m # n
    <3>1. entry[k] # NoEntry /\ ~entry[k].expired
      BY <2>1, <2>4, <1>4 DEF WritesInv, Known, Active
    <3>2. k \in Range(s)
      BY <2>1, <2>4, <3>1 DEF Dropped
    <3>. QED
      BY <3>1, <3>2 DEF Execute, Hit
  <2>. QED
    BY <2>2, <2>3, <2>4
<1>. QED
  BY <1>5, <1>6, <1>7 DEF WritesInv

\* What a settled promise changes.
LEMMA SettleFacts ==
    ASSUME WritesInv, NEW k \in Keys, NEW n \in Tries, NEW how \in {"ok", "failed"}, Settles(k, n, how)
    PROVE  /\ exec[k][n] = "running" /\ exec'[k][n] = how
           /\ \A m \in Tries \ {n} : exec'[k][m] = exec[k][m]
           /\ \A x \in Keys \ {k} : exec'[x] = exec[x]
           /\ attempt' \in [Keys -> [Tries -> {"unsent", "sent", "served", "ok", "failed", "lost"}]]
           /\ waits' \in [Keys -> [Tries -> 0..MaxTries]]
           /\ exec' \in [Keys -> [Tries -> {"none", "running", "ok", "failed"}]]
<1>1. attempt' \in [Keys -> [Tries -> {"unsent", "sent", "served", "ok", "failed", "lost"}]]
  BY DEF WritesInv, Kept, Settles
<1>2. waits' \in [Keys -> [Tries -> 0..MaxTries]]
  BY IdempotencyAssumption DEF WritesInv, Kept, Settles
<1>3. exec' \in [Keys -> [Tries -> {"none", "running", "ok", "failed"}]]
  BY DEF WritesInv, Kept, Settles
<1>. QED
  BY <1>1, <1>2, <1>3 DEF WritesInv, Kept, Settles

LEMMA SucceedsStep ==
    ASSUME WritesInv, NEW k \in Keys, NEW n \in Tries, Succeeds(k, n)
    PROVE  WritesInv'
<1>. USE EntryFacts
<1>1. Settles(k, n, "ok")
  BY DEF Succeeds
<1>2. /\ exec[k][n] = "running" /\ exec'[k][n] = "ok"
      /\ \A m \in Tries \ {n} : exec'[k][m] = exec[k][m]
      /\ \A x \in Keys \ {k} : exec'[x] = exec[x]
  BY <1>1, SettleFacts
<1>3. CASE k \in Large
  <2>1. entry' = [entry EXCEPT ![k] = NoEntry] /\ Forget({k})
    BY <1>3 DEF Succeeds, Delete
  <2>2. Kept'
    BY <1>1, SettleFacts, <2>1 DEF WritesInv, Kept, Forget
  <2>3. EntryIsTrue'
    BY <1>2, <2>1 DEF WritesInv, Kept, EntryIsTrue
  <2>4. Known'
    BY <1>2, <2>1 DEF WritesInv, Kept, Known, Active, Forget
  <2>. QED
    BY <2>2, <2>3, <2>4 DEF WritesInv
<1>4. CASE k \notin Large
  <2>1. /\ entry' = IF entry[k].exec = n THEN [entry EXCEPT ![k].pending = FALSE] ELSE entry
        /\ forgotten' = forgotten
    BY <1>4 DEF Succeeds
  <2>2. entry[k].exec = n => entry[k] \in Entry
    BY DEF WritesInv, Kept, NoEntry, Tries
  <2>3. entry[k].exec = n =>
            /\ entry'[k] = [entry[k] EXCEPT !.pending = FALSE]
            /\ entry'[k] \in Entry
            /\ entry'[k].exec = n /\ ~entry'[k].pending /\ entry'[k].expired = entry[k].expired
    BY <2>1, <2>2 DEF WritesInv, Kept, Entry
  <2>4. \A x \in Keys : x # k \/ entry[k].exec # n => entry'[x] = entry[x]
    BY <2>1 DEF WritesInv, Kept
  <2>5. Kept'
    <3>1. entry' \in [Keys -> Entry \cup {NoEntry}]
      BY <2>1, <2>3 DEF WritesInv, Kept
    <3>. QED
      BY <3>1, <2>1, <1>1, SettleFacts DEF WritesInv, Kept
  <2>6. EntryIsTrue'
    <3>. SUFFICES ASSUME NEW x \in Keys, entry'[x] # NoEntry
                  PROVE  exec'[x][entry'[x].exec] = IF entry'[x].pending THEN "running" ELSE "ok"
      BY DEF EntryIsTrue
    <3>1. CASE x = k /\ entry[k].exec = n
      BY <3>1, <1>2, <2>3
    <3>2. CASE x # k \/ entry[k].exec # n
      <4>1. entry'[x] = entry[x] /\ entry[x].exec \in Tries
        BY <3>2, <2>4 DEF WritesInv, Kept
      <4>. QED
        BY <3>2, <4>1, <1>2 DEF WritesInv, EntryIsTrue
    <3>. QED
      BY <3>1, <3>2
  <2>7. Known'
    <3>. SUFFICES ASSUME NEW x \in Keys, NEW m \in Tries,
                         ~forgotten'[x], exec'[x][m] \in {"running", "ok"}
                  PROVE  entry'[x] # NoEntry /\ entry'[x].exec = m /\ ~entry'[x].expired
      BY DEF Known, Active
    <3>1. exec[x][m] \in {"running", "ok"} /\ ~forgotten[x]
      BY <1>2, <2>1
    <3>2. entry[x] # NoEntry /\ entry[x].exec = m /\ ~entry[x].expired
      BY <3>1 DEF WritesInv, Known, Active
    <3>. QED
      BY <3>2, <2>3, <2>4
  <2>. QED
    BY <2>5, <2>6, <2>7 DEF WritesInv
<1>. QED
  BY <1>3, <1>4

\* No other execution of a known key is active when one fails, so that the entry
\* deleted is its own.
LEMMA FailsStep ==
    ASSUME WritesInv, NEW k \in Keys, NEW n \in Tries, Fails(k, n)
    PROVE  WritesInv'
<1>. USE EntryFacts
<1>1. Settles(k, n, "failed")
  BY DEF Fails
<1>2. /\ exec[k][n] = "running" /\ exec'[k][n] = "failed"
      /\ \A m \in Tries \ {n} : exec'[k][m] = exec[k][m]
      /\ \A x \in Keys \ {k} : exec'[x] = exec[x]
  BY <1>1, SettleFacts
<1>3. entry' = [entry EXCEPT ![k] = NoEntry] /\ forgotten' = forgotten
  BY DEF Fails, Delete
<1>4. Kept'
  BY <1>1, SettleFacts, <1>3 DEF WritesInv, Kept
<1>5. EntryIsTrue'
  BY <1>2, <1>3 DEF WritesInv, Kept, EntryIsTrue
<1>6. Known'
  <2>. SUFFICES ASSUME NEW x \in Keys, NEW m \in Tries,
                       ~forgotten'[x], exec'[x][m] \in {"running", "ok"}
                PROVE  entry'[x] # NoEntry /\ entry'[x].exec = m /\ ~entry'[x].expired
    BY DEF Known, Active
  <2>1. exec[x][m] \in {"running", "ok"} /\ (x = k => m # n)
    BY <1>2
  <2>2. entry[x] # NoEntry /\ entry[x].exec = m /\ ~entry[x].expired
    BY <2>1, <1>3 DEF WritesInv, Known, Active
  <2>3. x # k
    BY <2>1, <2>2, <1>2, <1>3 DEF WritesInv, Known, Active
  <2>. QED
    BY <2>2, <2>3, <1>3
<1>. QED
  BY <1>4, <1>5, <1>6 DEF WritesInv

LEMMA ExpiresStep ==
    ASSUME WritesInv, NEW k \in Keys, Expires(k)
    PROVE  WritesInv'
<1>. USE EntryFacts
<1>1. entry[k] \in Entry
  BY DEF Expires, WritesInv, Kept
<1>2. /\ entry'[k] \in Entry
      /\ entry'[k].exec = entry[k].exec /\ entry'[k].pending = entry[k].pending
  BY <1>1 DEF Expires, WritesInv, Kept, Entry
<1>3. \A x \in Keys \ {k} : entry'[x] = entry[x]
  BY DEF Expires, WritesInv, Kept
<1>4. Kept'
  BY <1>2 DEF Expires, WritesInv, Kept, Forget
<1>5. EntryIsTrue'
  BY <1>1, <1>2, <1>3 DEF Expires, WritesInv, EntryIsTrue
<1>6. Known'
  BY <1>3 DEF Expires, WritesInv, Kept, Known, Active, Forget
<1>. QED
  BY <1>4, <1>5, <1>6 DEF WritesInv

\* A restart forgets every key that has an entry: the others had nothing active.
LEMMA CrashStep ==
    ASSUME WritesInv, Crash
    PROVE  WritesInv'
<1>. USE EntryFacts
<1>1. \A k \in Keys : entry'[k] = NoEntry
  BY DEF Crash
<1>2. Forget({k \in Keys : entry[k] # NoEntry})
  BY DEF Crash
<1>3. \A k \in Keys, n \in Tries : exec'[k][n] \in {"running", "ok"} => exec[k][n] \in {"running", "ok"}
  BY DEF Crash
<1>4. Kept'
  <2>1. attempt' \in [Keys -> [Tries -> {"unsent", "sent", "served", "ok", "failed", "lost"}]]
    BY DEF Crash, WritesInv, Kept
  <2>2. waits' \in [Keys -> [Tries -> 0..MaxTries]]
    BY IdempotencyAssumption DEF Crash, WritesInv, Kept
  <2>3. exec' \in [Keys -> [Tries -> {"none", "running", "ok", "failed"}]]
    BY DEF Crash, WritesInv, Kept
  <2>4. entry' \in [Keys -> Entry \cup {NoEntry}]
    BY DEF Crash
  <2>. QED
    BY <2>1, <2>2, <2>3, <2>4, <1>2 DEF WritesInv, Kept, Forget
<1>5. EntryIsTrue'
  BY <1>1 DEF EntryIsTrue
<1>6. Known'
  BY <1>2, <1>3 DEF WritesInv, Kept, Known, Active, Forget
<1>. QED
  BY <1>4, <1>5, <1>6 DEF WritesInv

LEMMA NextWritesInv == WritesInv /\ [Next]_vars => WritesInv'
<1>. SUFFICES ASSUME WritesInv, [Next]_vars PROVE WritesInv'
  OBVIOUS
<1>1. ASSUME NEW k \in Keys, NEW n \in Tries, Send(k, n) \/ GivesUp(k, n) \/ Receives(k, n)
      PROVE  WritesInv'
  BY <1>1, ClientStep
<1>2. ASSUME NEW k \in Keys, NEW n \in Tries, Arrives(k, n)
      PROVE  WritesInv'
  <2>1. PICK s \in Sweeps : (Replay(k, n, s) \/ Execute(k, n, s)) /\ Forget(Dropped(s))
    BY <1>2 DEF Arrives
  <2>. QED
    BY <2>1, ReplayStep, ExecuteStep
<1>3. ASSUME NEW k \in Keys, NEW n \in Tries, Succeeds(k, n) \/ Fails(k, n)
      PROVE  WritesInv'
  BY <1>3, SucceedsStep, FailsStep
<1>4. ASSUME NEW k \in Keys, Expires(k)
      PROVE  WritesInv'
  BY <1>4, ExpiresStep
<1>5. CASE Crash
  BY <1>5, CrashStep
<1>6. CASE UNCHANGED vars
  <2>1. Kept'
    BY <1>6 DEF WritesInv, Kept, vars
  <2>2. EntryIsTrue'
    BY <1>6 DEF WritesInv, EntryIsTrue, vars
  <2>3. Known'
    BY <1>6 DEF WritesInv, Known, Active, vars
  <2>. QED
    BY <2>1, <2>2, <2>3 DEF WritesInv
<1>. QED
  BY <1>1, <1>2, <1>3, <1>4, <1>5, <1>6 DEF Next

\* The inductive invariant holds of every behaviour.
LEMMA Invariance == Spec => []WritesInv
<1>. QED
  BY InitWritesInv, NextWritesInv, PTL DEF Spec

\* A retried write is executed once, unless the server has forgotten its key: the
\* promise of IdempotencyInterceptor for any number of attempts that overlap.
THEOREM OnceForAll == Spec => []ExecutedOnce
<1>. QED
  BY Invariance, KnownOnce, PTL

\* What the map holds is true: no attempt is answered from a failure or waits for
\* an execution that is over.
THEOREM EntriesTrue == Spec => []EntryIsTrue
<1>1. WritesInv => EntryIsTrue
  BY DEF WritesInv
<1>. QED
  BY Invariance, <1>1, PTL
-----------------------------------------------------------------------------
(***************************************************************************)
(* The order of the map: what has an entry has one place in it, and the    *)
(* sweep makes room for one more before an attempt is looked up.           *)
(***************************************************************************)
\* What is in the map has a place in its order, once, and there is room.
Ordered(s) ==
    /\ s \in Seq(Keys) /\ Len(s) <= MaxEntries /\ IsInjective(s)

InOrder == Ordered(order) /\ \A k \in Keys : k \in Range(order) <=> entry[k] # NoEntry

Calling == client \in [Keys -> {"ready", "waiting", "resolved", "failed"}]

LEMMA TypesSplit == TypeOK <=> Calling /\ Kept /\ InOrder /\ crashes \in 0..MaxCrashes
  BY DEF TypeOK, Calling, Kept, InOrder, Ordered

LEMMA SubsequenceOrdered ==
    ASSUME NEW s, Ordered(s), NEW P
    PROVE  /\ Ordered(Subsequence(s, P))
           /\ Len(Subsequence(s, P)) <= Len(s)
           /\ Range(Subsequence(s, P)) = Range(s) \cap P
  <1> DEFINE u == Subsequence(s, P)
  <1>1. s \in Seq(Keys)
    BY DEF Ordered
  <1>2. /\ u \in Seq(Keys) /\ Len(u) <= Len(s)
        /\ Range(u) = Range(s) \cap P
        /\ IsInjective(s) => IsInjective(u)
    BY <1>1, SubsequenceFacts
  <1> HIDE DEF u
  <1>3. Len(u) \in Nat /\ Len(s) \in Nat /\ Len(s) <= MaxEntries /\ MaxEntries \in Nat
    BY <1>1, <1>2, IdempotencyAssumption DEF Ordered
  <1>4. Len(u) <= MaxEntries
    BY <1>2, <1>3
  <1>5. Ordered(u)
    BY <1>2, <1>4 DEF Ordered
  <1> QED
    BY <1>2, <1>5 DEF u

LEMMA YoungestOrdered ==
    ASSUME NEW s, Ordered(s)
    PROVE  /\ Ordered(Youngest(s)) /\ Len(Youngest(s)) < MaxEntries
           /\ Range(Youngest(s)) \subseteq Range(s)
  <1>1. /\ s \in Seq(Keys) /\ Len(s) \in Nat /\ Len(s) <= MaxEntries /\ IsInjective(s)
        /\ MaxEntries \in Nat \ {0}
    BY IdempotencyAssumption DEF Ordered
  <1>2. CASE Len(s) < MaxEntries
    BY <1>2 DEF Youngest
  <1>3. CASE ~(Len(s) < MaxEntries)
    <2> DEFINE m == Len(s) - MaxEntries + 2
               y == SubSeq(s, m, Len(s))
    <2>1. m = 2 /\ Len(s) = MaxEntries
      BY <1>1, <1>3
    <2>2. y = SubSeq(s, 2, Len(s)) /\ Youngest(s) = y
      BY <1>3, <2>1 DEF Youngest
    <2> HIDE DEF y
    <2>3. /\ y \in Seq(Keys) /\ Len(y) = Len(s) - 1
          /\ \A i \in 1..Len(y) : y[i] = s[i + 1]
      BY <1>1, <2>1, <2>2
    <2>4. /\ DOMAIN s = 1..Len(s) /\ DOMAIN y = 1..Len(y)
          /\ \A i \in 1..Len(y) : i + 1 \in 1..Len(s)
      BY <1>1, <2>3
    <2>5. Range(y) \subseteq Range(s)
      BY <2>3, <2>4 DEF Range
    <2>6. IsInjective(y)
      <3> SUFFICES ASSUME NEW i \in 1..Len(y), NEW j \in 1..Len(y), y[i] = y[j] PROVE i = j
        BY <2>4 DEF IsInjective
      <3>1. i + 1 = j + 1
        BY <1>1, <2>3, <2>4 DEF IsInjective
      <3> QED
        BY <3>1
    <2>7. Len(y) < MaxEntries
      BY <1>1, <2>1, <2>3
    <2>8. Ordered(y)
      BY <1>1, <2>1, <2>3, <2>6 DEF Ordered
    <2> QED
      BY <2>2, <2>5, <2>7, <2>8
  <1> QED
    BY <1>2, <1>3

LEMMA SweptOrder ==
    ASSUME Ordered(order), NEW s \in Sweeps
    PROVE  Ordered(s) /\ Len(s) < MaxEntries /\ Range(s) \subseteq Range(order)
  <1>1. Ordered(Clean) /\ Range(Clean) \subseteq Range(order) /\ Len(Clean) <= Len(order)
    BY SubsequenceOrdered DEF Clean
  <1>2. Len(order) \in Nat /\ Len(Clean) \in Nat /\ MaxEntries \in Nat
    BY <1>1, IdempotencyAssumption DEF Ordered
  <1>3. CASE Len(order) < MaxEntries
    BY <1>1, <1>2, <1>3 DEF Sweeps
  <1>4. CASE ~(Len(order) < MaxEntries)
    <2>1. s = Youngest(Clean)
      BY <1>4 DEF Sweeps
    <2> QED
      BY <1>1, <2>1, YoungestOrdered
  <1> QED
    BY <1>3, <1>4

LEMMA WithKeyOrdered ==
    ASSUME NEW s, Ordered(s), Len(s) < MaxEntries, NEW k \in Keys
    PROVE  Ordered(WithKey(s, k)) /\ Range(WithKey(s, k)) = Range(s) \cup {k}
  <1>1. CASE k \in Range(s)
    BY <1>1 DEF WithKey
  <1>2. CASE k \notin Range(s)
    <2> DEFINE u == Append(s, k)
    <2>1. /\ s \in Seq(Keys) /\ Len(s) \in Nat /\ IsInjective(s) /\ MaxEntries \in Nat
      BY IdempotencyAssumption DEF Ordered
    <2>2. /\ u \in Seq(Keys) /\ Len(u) = Len(s) + 1 /\ u[Len(s) + 1] = k
          /\ \A i \in 1..Len(s) : u[i] = s[i]
      BY <2>1
    <2>3. DOMAIN s = 1..Len(s) /\ DOMAIN u = 1..Len(u)
      BY <2>1, <2>2
    <2>4. WithKey(s, k) = u
      BY <1>2 DEF WithKey
    <2> HIDE DEF u
    <2>5. \A i \in 1..Len(u) : i \in 1..Len(s) \/ i = Len(s) + 1
      BY <2>1, <2>2
    <2>6. 1..Len(s) \subseteq 1..Len(u) /\ Len(s) + 1 \in 1..Len(u)
      BY <2>1, <2>2
    <2>7. Range(u) = Range(s) \cup {k}
      <3>1. Range(u) \subseteq Range(s) \cup {k}
        BY <2>2, <2>3, <2>5 DEF Range
      <3>2. k \in Range(u)
        BY <2>2, <2>3, <2>6 DEF Range
      <3>3. Range(s) \subseteq Range(u)
        BY <2>2, <2>3, <2>6 DEF Range
      <3> QED
        BY <3>1, <3>2, <3>3
    <2>8. IsInjective(u)
      <3> SUFFICES ASSUME NEW i \in 1..Len(u), NEW j \in 1..Len(u), u[i] = u[j] PROVE i = j
        BY <2>3 DEF IsInjective
      <3>1. \A h \in 1..Len(s) : s[h] \in Range(s) /\ s[h] # k
        BY <1>2, <2>3 DEF Range
      <3>2. CASE i \in 1..Len(s) /\ j \in 1..Len(s)
        BY <2>1, <2>2, <2>3, <3>2 DEF IsInjective
      <3>3. CASE i \notin 1..Len(s) \/ j \notin 1..Len(s)
        BY <2>2, <2>5, <3>1, <3>3
      <3> QED
        BY <3>2, <3>3
    <2>9. Len(u) <= MaxEntries
      BY <2>1, <2>2
    <2> QED
      BY <2>2, <2>4, <2>7, <2>8, <2>9 DEF Ordered
  <1> QED
    BY <1>1, <1>2

\* The map without a key.
LEMMA DeletedOrder ==
    ASSUME Kept, InOrder, NEW k \in Keys, Delete(k)
    PROVE  InOrder'
  <1>1. order' = Subsequence(order, Keys \ {k}) /\ entry' = [entry EXCEPT ![k] = NoEntry]
    BY DEF Delete
  <1>2. Ordered(order') /\ Range(order') = Range(order) \cap (Keys \ {k})
    BY <1>1, SubsequenceOrdered DEF InOrder
  <1>3. \A x \in Keys : x \in Range(order') <=> entry'[x] # NoEntry
    BY <1>1, <1>2 DEF InOrder, Kept
  <1> QED
    BY <1>2, <1>3 DEF InOrder, Ordered

\* The entry of a key changes, and remains one.
LEMMA SameOrder ==
    ASSUME InOrder, order' = order,
           \A x \in Keys : entry'[x] # NoEntry <=> entry[x] # NoEntry
    PROVE  InOrder'
  BY DEF InOrder, Ordered

LEMMA StillAnEntry ==
    ASSUME Kept, NEW k \in Keys, entry[k] # NoEntry,
           \/ entry' = [entry EXCEPT ![k].pending = FALSE]
           \/ entry' = [entry EXCEPT ![k].expired = TRUE]
    PROVE  \A x \in Keys : entry'[x] # NoEntry <=> entry[x] # NoEntry
  <1>1. entry[k] \in Entry /\ entry \in [Keys -> Entry \cup {NoEntry}]
    BY DEF Kept
  <1>2. entry[k].exec \in Tries /\ NoEntry.exec \notin Tries
    BY <1>1, IdempotencyAssumption DEF Entry, NoEntry, Tries
  <1>3. entry'[k].exec = entry[k].exec /\ \A x \in Keys : x # k => entry'[x] = entry[x]
    BY <1>1 DEF Entry
  <1> QED
    BY <1>2, <1>3

LEMMA ArrivesOrder ==
    ASSUME Kept, InOrder, NEW k \in Keys, NEW n \in Tries, Arrives(k, n)
    PROVE  InOrder'
  <1>1. PICK s \in Sweeps : Replay(k, n, s) \/ Execute(k, n, s)
    BY DEF Arrives
  <1>2. Ordered(s) /\ Len(s) < MaxEntries /\ Range(s) \subseteq Range(order)
    BY SweptOrder DEF InOrder
  <1>3. \A x \in Keys : x \in Range(s) <=> Swept(s)[x] # NoEntry
    BY <1>2 DEF Swept, InOrder
  <1>4. CASE Replay(k, n, s)
    <2>1. order' = s /\ entry' = Swept(s)
      BY <1>4 DEF Replay
    <2> QED
      BY <1>2, <1>3, <2>1 DEF InOrder, Ordered
  <1>5. CASE Execute(k, n, s)
    <2> DEFINE fresh == [exec |-> n, pending |-> TRUE, expired |-> FALSE]
    <2>1. order' = WithKey(s, k) /\ entry' = [Swept(s) EXCEPT ![k] = fresh]
      BY <1>5 DEF Execute
    <2>2. fresh # NoEntry
      BY IdempotencyAssumption DEF NoEntry
    <2>3. Ordered(order') /\ Range(order') = Range(s) \cup {k}
      BY <1>2, <2>1, WithKeyOrdered
    <2> HIDE DEF fresh
    <2>4. \A x \in Keys : entry'[x] = IF x = k THEN fresh ELSE Swept(s)[x]
      BY <2>1 DEF Swept
    <2>5. \A x \in Keys : x \in Range(order') <=> entry'[x] # NoEntry
      BY <1>3, <2>2, <2>3, <2>4
    <2> QED
      BY <2>3, <2>5 DEF InOrder, Ordered
  <1> QED
    BY <1>1, <1>4, <1>5

MapInv == WritesInv /\ Calling /\ InOrder /\ crashes \in 0..MaxCrashes

LEMMA MapStep == MapInv /\ [Next]_vars => MapInv'
  <1> SUFFICES ASSUME MapInv, [Next]_vars PROVE MapInv'
    OBVIOUS
  <1>1. WritesInv'
    BY NextWritesInv DEF MapInv
  <1>2. Kept /\ Calling /\ InOrder /\ crashes \in 0..MaxCrashes
    BY DEF MapInv, WritesInv
  <1>3. CASE UNCHANGED vars
    BY <1>1, <1>2, <1>3 DEF MapInv, vars, Calling, InOrder, Ordered
  <1>4. ASSUME NEW k \in Keys, NEW n \in Tries, Send(k, n) \/ GivesUp(k, n) \/ Receives(k, n)
        PROVE  MapInv'
    <2>1. Calling'
      BY <1>2, <1>4 DEF Calling, Send, GivesUp, Receives
    <2>2. UNCHANGED serverVars
      BY <1>4 DEF Send, GivesUp, Receives
    <2> QED
      BY <1>1, <1>2, <2>1, <2>2 DEF MapInv, serverVars, InOrder, Ordered
  <1>5. ASSUME NEW k \in Keys, NEW n \in Tries, Arrives(k, n)
        PROVE  MapInv'
    <2>1. InOrder'
      BY <1>2, <1>5, ArrivesOrder
    <2> QED
      BY <1>1, <1>2, <1>5, <2>1 DEF MapInv, Arrives, Calling
  <1>6. ASSUME NEW k \in Keys, NEW n \in Tries, Succeeds(k, n) \/ Fails(k, n)
        PROVE  MapInv'
    <2>1. UNCHANGED <<client, crashes>>
      BY <1>6 DEF Succeeds, Fails, Settles
    <2>2. CASE Delete(k)
      BY <1>1, <1>2, <2>1, <2>2, DeletedOrder DEF MapInv, Calling
    <2>3. CASE Succeeds(k, n) /\ k \notin Large
      <3>1. /\ entry' = IF entry[k].exec = n THEN [entry EXCEPT ![k].pending = FALSE] ELSE entry
            /\ order' = order
        BY <2>3 DEF Succeeds
      <3>2. entry[k].exec = n => entry[k] # NoEntry
        BY IdempotencyAssumption DEF NoEntry, Tries
      <3>3. InOrder'
        BY <1>2, <3>1, <3>2, SameOrder, StillAnEntry
      <3> QED
        BY <1>1, <1>2, <2>1, <3>3 DEF MapInv, Calling
    <2> QED
      BY <1>6, <2>2, <2>3 DEF Succeeds, Fails
  <1>7. ASSUME NEW k \in Keys, Expires(k)
        PROVE  MapInv'
    <2>1. /\ UNCHANGED <<client, order, crashes>> /\ entry[k] # NoEntry
          /\ entry' = [entry EXCEPT ![k].expired = TRUE]
      BY <1>7 DEF Expires
    <2>2. InOrder'
      BY <1>2, <2>1, SameOrder, StillAnEntry
    <2> QED
      BY <1>1, <1>2, <2>1, <2>2 DEF MapInv, Calling
  <1>8. CASE Crash
    <2>1. order' = <<>> /\ entry' = [k \in Keys |-> NoEntry] /\ client' = client
      BY <1>8 DEF Crash
    <2>2. crashes' \in 0..MaxCrashes
      BY <1>2, <1>8, IdempotencyAssumption DEF Crash
    <2>3. InOrder'
      BY <2>1, IdempotencyAssumption DEF InOrder, Ordered, Range, IsInjective
    <2> QED
      BY <1>1, <1>2, <2>1, <2>2, <2>3 DEF MapInv, Calling
  <1> QED
    BY <1>3, <1>4, <1>5, <1>6, <1>7, <1>8 DEF Next

LEMMA MapBegins == Init => MapInv
  <1> SUFFICES ASSUME Init PROVE MapInv
    OBVIOUS
  <1>1. Calling /\ crashes \in 0..MaxCrashes
    BY IdempotencyAssumption DEF Init, Calling
  <1>2. InOrder
    BY IdempotencyAssumption DEF Init, InOrder, Ordered, Range, IsInjective
  <1> QED
    BY <1>1, <1>2, InitWritesInv DEF MapInv

LEMMA WritesTypes == Spec => []TypeOK
  <1>1. MapInv => TypeOK
    BY TypesSplit DEF MapInv, WritesInv
  <1> QED
    BY <1>1, MapBegins, MapStep, PTL DEF Spec
-----------------------------------------------------------------------------
(***************************************************************************)
(* The session is kept: nobody is sent to the login page unless something  *)
(* other than the app and the server intervened.                           *)
(*                                                                         *)
(* SessionKept says nothing of the tokens, so the invariant says what the  *)
(* phone holds: a token that is valid and that no other refresh presents,  *)
(* or that the refresh in flight exchanges for one that nobody has seen.   *)
(* That a new token is seen by nobody needs Minted: whatever is stored,    *)
(* presented, answered or taken back was issued.                           *)
(***************************************************************************)
\* A key that has not been used is nowhere; one that is in flight has been used.
Keyed ==
    /\ \A k \in Refreshes : bearer[k] = 0 => wire[k] = 0 /\ server[k] = "none"
    /\ flight # 0 => bearer[flight] # 0 /\ wire[flight] <= tries
    /\ flight = 0 => ~storing
    /\ leaving => excused /\ ~entering

\* A token that is presented, stored, answered with or taken back was issued.
Issued(t) == t # 0 => row[t] # "none"
Minted ==
    /\ Issued(stored)
    /\ \A k \in Refreshes : Issued(bearer[k]) /\ Issued(pair[k])
    /\ \A t \in byes : Issued(t)

\* No other refresh presents this token, and no logout takes it back.
Untouched(t) == t \notin byes /\ \A k \in Refreshes : k # flight => bearer[k] # t

\* While nothing intervened, the phone holds a token that is valid, or being exchanged by
\* the refresh in flight for one that nobody has seen.
Holding ==
    /\ ~expelled
    /\ stored = 0 => access = "none" /\ flight = 0
    /\ stored # 0 => Untouched(stored)
    /\ stored # 0 /\ flight = 0 => row[stored] = "valid"
    /\ flight # 0 =>
         /\ bearer[flight] = stored
         /\ server[flight] # "refused"
         /\ server[flight] \in {"none", "finding", "revoking"} => row[stored] = "valid"
         /\ storing => server[flight] = "answered"
         /\ server[flight] = "answered" =>
              LET t == pair[flight] IN
              t # 0 /\ t # stored /\ row[t] = "valid" /\ Untouched(t)

SessionInv == S!TypeOK /\ Keyed /\ Minted /\ (~excused => Holding)

\* Every action of the phone and of the server keeps it.
LEMMA SessionStep == SessionInv /\ [S!Next]_(S!vars) => SessionInv'
  <1> SUFFICES ASSUME SessionInv, [S!Next]_(S!vars) PROVE SessionInv'
    OBVIOUS
  <1> USE SessionBoundsAssumption DEF SessionInv, S!phoneVars, S!netVars, S!serverVars
  <1>a. 0 \in 0..MaxRefreshTries /\ 1 \in 0..MaxRefreshTries
    OBVIOUS
  <1>b. ASSUME S!Lands
        PROVE  /\ flight' \in Refreshes \cup {0} /\ tries' \in 0..MaxRefreshTries /\ storing' \in BOOLEAN
               /\ request' \in [Requests -> {"idle", "sent", "joined"}]
    BY <1>a, <1>b DEF S!Lands, S!TypeOK
  <1>0. CASE UNCHANGED S!vars
    BY <1>0 DEF S!vars, S!TypeOK, Keyed, Minted, Issued, Holding, Untouched
  <1>1. ASSUME NEW r \in Requests, S!Sends(r) PROVE SessionInv'
    <2>1. S!TypeOK'
      BY <1>1 DEF S!Sends, S!TypeOK, Keyed
    <2>2. Keyed'
      BY <1>1 DEF S!Sends, S!TypeOK, Keyed
    <2>3. Minted'
      BY <1>1 DEF S!Sends, S!TypeOK, Keyed, Minted, Issued
    <2>4. ~excused' => Holding'
      BY <1>1 DEF S!Sends, S!TypeOK, Keyed, Minted, Issued, Holding, Untouched
    <2>5. QED
      BY <2>1, <2>2, <2>3, <2>4
  <1>2. ASSUME S!AccessExpires PROVE SessionInv'
    <2>1. S!TypeOK'
      BY <1>2 DEF S!AccessExpires, S!TypeOK, Keyed
    <2>2. Keyed'
      BY <1>2 DEF S!AccessExpires, S!TypeOK, Keyed
    <2>3. Minted'
      BY <1>2 DEF S!AccessExpires, S!TypeOK, Keyed, Minted, Issued
    <2>4. ~excused' => Holding'
      BY <1>2 DEF S!AccessExpires, S!TypeOK, Keyed, Minted, Issued, Holding, Untouched
    <2>5. QED
      BY <2>1, <2>2, <2>3, <2>4
  <1>3. ASSUME NEW r \in Requests, S!Unauthorized(r) PROVE SessionInv'
    <2>1. S!TypeOK'
      <3>1. request' \in [Requests -> {"idle", "sent", "joined"}]
        BY <1>3 DEF S!Unauthorized, S!TypeOK
      <3>2. /\ access' \in {"none", "fresh", "expired"} /\ stored' \in Tokens \cup {0} /\ expelled' \in BOOLEAN
        BY <1>3 DEF S!Unauthorized, S!ClearTokens, S!TypeOK
      <3>3. /\ flight' \in Refreshes \cup {0} /\ tries' \in 0..MaxRefreshTries
            /\ bearer' \in [Refreshes -> Tokens \cup {0}] /\ wire' \in [Refreshes -> 0..MaxRefreshTries]
        BY <1>a, <1>3 DEF S!Unauthorized, S!TypeOK
      <3>4. QED
        BY <1>3, <3>1, <3>2, <3>3 DEF S!Unauthorized, S!TypeOK
    <2>2. Keyed'
      BY <1>3 DEF S!Unauthorized, S!ClearTokens, S!NewKey, S!TypeOK, Keyed
    <2>3. Minted'
      BY <1>3 DEF S!Unauthorized, S!ClearTokens, S!NewKey, S!TypeOK, Keyed, Minted, Issued
    <2>4. ~excused' => Holding'
      BY <1>3 DEF S!Unauthorized, S!ClearTokens, S!NewKey, S!TypeOK, Keyed, Minted, Issued, Holding, Untouched
    <2>5. QED
      BY <2>1, <2>2, <2>3, <2>4
  <1>4. ASSUME S!TimesOut PROVE SessionInv'
    <2>1. S!TypeOK'
      BY <1>4 DEF S!TimesOut, S!TypeOK, Keyed
    <2>2. Keyed'
      BY <1>4 DEF S!TimesOut, S!TypeOK, Keyed
    <2>3. Minted'
      BY <1>4 DEF S!TimesOut, S!TypeOK, Keyed, Minted, Issued
    <2>4. ~excused' => Holding'
      BY <1>4 DEF S!TimesOut, S!TypeOK, Keyed, Minted, Issued, Holding, Untouched
    <2>5. QED
      BY <2>1, <2>2, <2>3, <2>4
  <1>5. ASSUME S!GivesUp PROVE SessionInv'
    <2>1. S!TypeOK'
      BY <1>b, <1>5 DEF S!GivesUp, S!Excused, S!TypeOK
    <2>2. Keyed'
      BY <1>5 DEF S!GivesUp, S!Lands, S!Excused, S!TypeOK, Keyed
    <2>3. Minted'
      BY <1>5 DEF S!GivesUp, S!Lands, S!Excused, S!TypeOK, Keyed, Minted, Issued
    <2>4. ~excused' => Holding'
      BY <1>5 DEF S!GivesUp, S!Lands, S!Excused, S!TypeOK, Keyed, Minted, Issued, Holding, Untouched
    <2>5. QED
      BY <2>1, <2>2, <2>3, <2>4
  <1>6. ASSUME S!Answered PROVE SessionInv'
    <2>1. S!TypeOK'
      BY <1>6 DEF S!Answered, S!TypeOK, Keyed
    <2>2. Keyed'
      BY <1>6 DEF S!Answered, S!TypeOK, Keyed
    <2>3. Minted'
      BY <1>6 DEF S!Answered, S!TypeOK, Keyed, Minted, Issued
    <2>4. ~excused' => Holding'
      BY <1>6 DEF S!Answered, S!TypeOK, Keyed, Minted, Issued, Holding, Untouched
    <2>5. QED
      BY <2>1, <2>2, <2>3, <2>4
  <1>7. ASSUME S!Stored PROVE SessionInv'
    <2>1. S!TypeOK'
      <3>1. stored' \in Tokens \cup {0}
        BY <1>7 DEF S!Stored, S!TypeOK, Keyed
      <3>2. QED
        BY <1>b, <1>7, <3>1 DEF S!Stored, S!TypeOK
    <2>2. Keyed'
      BY <1>7 DEF S!Stored, S!Lands, S!TypeOK, Keyed
    <2>3. Minted'
      BY <1>7 DEF S!Stored, S!Lands, S!TypeOK, Keyed, Minted, Issued
    <2>4. ~excused' => Holding'
      BY <1>7 DEF S!Stored, S!Lands, S!TypeOK, Keyed, Minted, Issued, Holding, Untouched
    <2>5. QED
      BY <2>1, <2>2, <2>3, <2>4
  <1>8. ASSUME S!Refused PROVE SessionInv'
    <2>1. S!TypeOK'
      BY <1>b, <1>8 DEF S!Refused, S!ClearTokens, S!TypeOK
    <2>2. Keyed'
      BY <1>8 DEF S!Refused, S!Lands, S!ClearTokens, S!TypeOK, Keyed
    <2>3. Minted'
      BY <1>8 DEF S!Refused, S!Lands, S!ClearTokens, S!TypeOK, Keyed, Minted, Issued
    <2>4. ~excused' => Holding'
      BY <1>8 DEF S!Refused, S!Lands, S!ClearTokens, S!TypeOK, Keyed, Minted, Issued, Holding, Untouched
    <2>5. QED
      BY <2>1, <2>2, <2>3, <2>4
  <1>9. ASSUME S!BadGateway PROVE SessionInv'
    <2>1. S!TypeOK'
      BY <1>b, <1>9 DEF S!BadGateway, S!ClearTokens, S!Excused, S!TypeOK
    <2>2. Keyed'
      BY <1>9 DEF S!BadGateway, S!Lands, S!ClearTokens, S!Excused, S!TypeOK, Keyed
    <2>3. Minted'
      BY <1>9 DEF S!BadGateway, S!Lands, S!ClearTokens, S!Excused, S!TypeOK, Keyed, Minted, Issued
    <2>4. ~excused' => Holding'
      BY <1>9 DEF S!BadGateway, S!Lands, S!ClearTokens, S!Excused, S!TypeOK, Keyed, Minted, Issued, Holding, Untouched
    <2>5. QED
      BY <2>1, <2>2, <2>3, <2>4
  <1>10. ASSUME S!Killed PROVE SessionInv'
    <2>1. S!TypeOK'
      <3>1. request' \in [Requests -> {"idle", "sent", "joined"}]
        BY <1>10 DEF S!Killed, S!TypeOK
      <3>2. QED
        BY <1>a, <1>10, <3>1 DEF S!Killed, S!Excused, S!TypeOK
    <2>2. Keyed'
      BY <1>10 DEF S!Killed, S!Excused, S!TypeOK, Keyed
    <2>3. Minted'
      BY <1>10 DEF S!Killed, S!Excused, S!TypeOK, Keyed, Minted, Issued
    <2>4. ~excused' => Holding'
      BY <1>10 DEF S!Killed, S!Excused, S!TypeOK, Keyed, Minted, Issued, Holding, Untouched
    <2>5. QED
      BY <2>1, <2>2, <2>3, <2>4
  <1>11. ASSUME S!SignOut PROVE SessionInv'
    <2>1. S!TypeOK'
      BY <1>11 DEF S!SignOut, S!Excused, S!TypeOK, Keyed
    <2>2. Keyed'
      BY <1>11 DEF S!SignOut, S!Excused, S!TypeOK, Keyed
    <2>3. Minted'
      BY <1>11 DEF S!SignOut, S!Excused, S!TypeOK, Keyed, Minted, Issued
    <2>4. ~excused' => Holding'
      BY <1>11 DEF S!SignOut, S!Excused, S!TypeOK, Keyed, Minted, Issued, Holding, Untouched
    <2>5. QED
      BY <2>1, <2>2, <2>3, <2>4
  <1>12. ASSUME S!SignedOut PROVE SessionInv'
    <2>1. S!TypeOK'
      BY <1>12 DEF S!SignedOut, S!TypeOK, Keyed
    <2>2. Keyed'
      BY <1>12 DEF S!SignedOut, S!TypeOK, Keyed
    <2>3. Minted'
      BY <1>12 DEF S!SignedOut, S!TypeOK, Keyed, Minted, Issued
    <2>4. ~excused' => Holding'
      BY <1>12 DEF S!SignedOut, S!TypeOK, Keyed, Minted, Issued, Holding, Untouched
    <2>5. QED
      BY <2>1, <2>2, <2>3, <2>4
  <1>13. ASSUME S!SignIn PROVE SessionInv'
    <2>1. S!TypeOK'
      BY <1>13 DEF S!SignIn, S!TypeOK, Keyed
    <2>2. Keyed'
      BY <1>13 DEF S!SignIn, S!TypeOK, Keyed
    <2>3. Minted'
      BY <1>13 DEF S!SignIn, S!TypeOK, Keyed, Minted, Issued
    <2>4. ~excused' => Holding'
      BY <1>13 DEF S!SignIn, S!TypeOK, Keyed, Minted, Issued, Holding, Untouched
    <2>5. QED
      BY <2>1, <2>2, <2>3, <2>4
  <1>14. ASSUME S!SignedIn PROVE SessionInv'
    <2>1. S!TypeOK'
      BY <1>14 DEF S!SignedIn, S!NewToken, S!TypeOK, Keyed
    <2>2. Keyed'
      BY <1>14 DEF S!SignedIn, S!NewToken, S!TypeOK, Keyed
    <2>3. Minted'
      BY <1>14 DEF S!SignedIn, S!NewToken, S!TypeOK, Keyed, Minted, Issued
    <2>4. ~excused' => Holding'
      <3> SUFFICES ASSUME ~excused' PROVE Holding'
        OBVIOUS
      <3>1. flight = 0
        BY <1>14 DEF S!SignedIn
      <3>2. PICK t \in Tokens : S!NewToken(t) /\ row' = [row EXCEPT ![t] = "valid"] /\ stored' = t
        BY <1>14 DEF S!SignedIn
      <3>3. t # 0 /\ row[t] = "none" /\ row'[t] = "valid"
        BY <3>2 DEF S!NewToken, S!TypeOK
      <3>4. t \notin byes /\ \A k \in Refreshes : bearer[k] # t
        BY <3>3 DEF Minted, Issued
      <3>5. expelled' = FALSE /\ UNCHANGED <<flight, byes, bearer>>
        BY <1>14 DEF S!SignedIn
      <3>6. QED
        BY <3>1, <3>2, <3>3, <3>4, <3>5 DEF Holding, Untouched
    <2>5. QED
      BY <2>1, <2>2, <2>3, <2>4
  <1>15. ASSUME NEW k \in Refreshes, S!Arrives(k) PROVE SessionInv'
    <2>1. S!TypeOK'
      BY <1>15 DEF S!Arrives, S!TypeOK, Keyed
    <2>2. Keyed'
      BY <1>15 DEF S!Arrives, S!TypeOK, Keyed
    <2>3. Minted'
      BY <1>15 DEF S!Arrives, S!TypeOK, Keyed, Minted, Issued
    <2>4. ~excused' => Holding'
      BY <1>15 DEF S!Arrives, S!TypeOK, Keyed, Minted, Issued, Holding, Untouched
    <2>5. QED
      BY <2>1, <2>2, <2>3, <2>4
  <1>16. ASSUME NEW k \in Refreshes, S!Finds(k) PROVE SessionInv'
    <2>1. S!TypeOK'
      BY <1>16 DEF S!Finds, S!TypeOK, Keyed
    <2>2. Keyed'
      BY <1>16 DEF S!Finds, S!TypeOK, Keyed
    <2>3. Minted'
      BY <1>16 DEF S!Finds, S!TypeOK, Keyed, Minted, Issued
    <2>4. ~excused' => Holding'
      BY <1>16 DEF S!Finds, S!TypeOK, Keyed, Minted, Issued, Holding, Untouched
    <2>5. QED
      BY <2>1, <2>2, <2>3, <2>4
  <1>17. ASSUME NEW k \in Refreshes, S!Revokes(k) PROVE SessionInv'
    <2>1. S!TypeOK'
      BY <1>17 DEF S!Revokes, S!TypeOK, Keyed
    <2>2. Keyed'
      BY <1>17 DEF S!Revokes, S!TypeOK, Keyed
    <2>3. Minted'
      BY <1>17 DEF S!Revokes, S!TypeOK, Keyed, Minted, Issued
    <2>4. ~excused' => Holding'
      BY <1>17 DEF S!Revokes, S!TypeOK, Keyed, Minted, Issued, Holding, Untouched
    <2>5. QED
      BY <2>1, <2>2, <2>3, <2>4
  <1>18. ASSUME NEW k \in Refreshes, S!Issues(k) PROVE SessionInv'
    <2>1. S!TypeOK'
      BY <1>18 DEF S!Issues, S!NewToken, S!TypeOK, Keyed
    <2>2. Keyed'
      BY <1>18 DEF S!Issues, S!NewToken, S!TypeOK, Keyed
    <2>3. Minted'
      BY <1>18 DEF S!Issues, S!NewToken, S!TypeOK, Keyed, Minted, Issued
    <2>4. ~excused' => Holding'
      BY <1>18 DEF S!Issues, S!NewToken, S!TypeOK, Keyed, Minted, Issued, Holding, Untouched
    <2>5. QED
      BY <2>1, <2>2, <2>3, <2>4
  <1>19. ASSUME NEW t \in Tokens, S!Goodbye(t) PROVE SessionInv'
    <2>1. S!TypeOK'
      BY <1>19 DEF S!Goodbye, S!Revoked, S!TypeOK, Keyed
    <2>2. Keyed'
      BY <1>19 DEF S!Goodbye, S!Revoked, S!TypeOK, Keyed
    <2>3. Minted'
      BY <1>19 DEF S!Goodbye, S!Revoked, S!TypeOK, Keyed, Minted, Issued
    <2>4. ~excused' => Holding'
      BY <1>19 DEF S!Goodbye, S!Revoked, S!TypeOK, Keyed, Minted, Issued, Holding, Untouched
    <2>5. QED
      BY <2>1, <2>2, <2>3, <2>4
  <1>20. ASSUME S!Archive PROVE SessionInv'
    <2>1. S!TypeOK'
      BY <1>20 DEF S!Archive, S!Excused, S!TypeOK, Keyed
    <2>2. Keyed'
      BY <1>20 DEF S!Archive, S!Excused, S!TypeOK, Keyed
    <2>3. Minted'
      BY <1>20 DEF S!Archive, S!Excused, S!TypeOK, Keyed, Minted, Issued
    <2>4. ~excused' => Holding'
      BY <1>20 DEF S!Archive, S!Excused, S!TypeOK, Keyed, Minted, Issued, Holding, Untouched
    <2>5. QED
      BY <2>1, <2>2, <2>3, <2>4
  <1>21. ASSUME S!Restore PROVE SessionInv'
    <2>1. S!TypeOK'
      BY <1>21 DEF S!Restore, S!TypeOK, Keyed
    <2>2. Keyed'
      BY <1>21 DEF S!Restore, S!TypeOK, Keyed
    <2>3. Minted'
      BY <1>21 DEF S!Restore, S!TypeOK, Keyed, Minted, Issued
    <2>4. ~excused' => Holding'
      BY <1>21 DEF S!Restore, S!TypeOK, Keyed, Minted, Issued, Holding, Untouched
    <2>5. QED
      BY <2>1, <2>2, <2>3, <2>4
  <1>22. ASSUME S!Restart PROVE SessionInv'
    <2>1. S!TypeOK'
      <3>1. server' \in [Refreshes -> {"none", "finding", "revoking", "issuing", "answered", "refused"}]
        BY <1>22 DEF S!Restart, S!TypeOK
      <3>2. restarts' \in 0..MaxRestarts
        BY <1>22 DEF S!Restart, S!TypeOK
      <3>3. QED
        BY <1>22, <3>1, <3>2 DEF S!Restart, S!Excused, S!TypeOK
    <2>2. Keyed'
      BY <1>22 DEF S!Restart, S!Excused, S!TypeOK, Keyed
    <2>3. Minted'
      BY <1>22 DEF S!Restart, S!Excused, S!TypeOK, Keyed, Minted, Issued
    <2>4. ~excused' => Holding'
      BY <1>22 DEF S!Restart, S!Excused, S!TypeOK, Keyed, Minted, Issued, Holding, Untouched
    <2>5. QED
      BY <2>1, <2>2, <2>3, <2>4
  <1>23. QED
    BY <1>0, <1>1, <1>2, <1>3, <1>4, <1>5, <1>6, <1>7, <1>8, <1>9, <1>10, <1>11, <1>12,
       <1>13, <1>14, <1>15, <1>16, <1>17, <1>18, <1>19, <1>20, <1>21, <1>22
       DEF S!Next, S!Phone, S!Server

LEMMA SessionBegins == S!Init => SessionInv
  <1> SUFFICES ASSUME S!Init PROVE SessionInv
    OBVIOUS
  <1>1. S!TypeOK
    <2>1. 0 \in 0..MaxRefreshTries /\ 0 \in 0..MaxRestarts
      BY SessionBoundsAssumption
    <2>2. QED
      BY <2>1 DEF S!Init, S!TypeOK
  <1>2. Keyed /\ Minted
    BY DEF S!Init, Keyed, Minted, Issued
  <1>3. Holding
    BY DEF S!Init, Holding
  <1>4. QED
    BY <1>1, <1>2, <1>3 DEF SessionInv

\* The phone, the wire and the table of tokens stay in their types: there is always
\* room for an attempt that is late.
THEOREM SessionsTypeCorrect == S!Spec => []S!TypeOK
  <1>1. SessionInv => S!TypeOK
    BY DEF SessionInv
  <1>2. QED
    BY <1>1, SessionBegins, SessionStep, PTL DEF S!Spec

\* AuthInterceptor._refresh and AuthService.refresh: a lost answer does not break the
\* session, however attempts, answers and other calls cross.
THEOREM SessionIsKept == S!Spec => []SessionKept
  <1>1. SessionInv => SessionKept
    BY DEF SessionInv, Holding, SessionKept, S!SessionKept
  <1>2. QED
    BY <1>1, SessionBegins, SessionStep, PTL DEF S!Spec

\* What the phone stores can be exchanged, or its exchange is past the check of the row.
THEOREM TokenIsRefreshable == S!Spec => []S!Refreshable
  <1>1. SessionInv => S!Refreshable
    BY DEF SessionInv, Holding, S!Refreshable, S!TypeOK
  <1>2. QED
    BY <1>1, SessionBegins, SessionStep, PTL DEF S!Spec
-----------------------------------------------------------------------------
(***************************************************************************)
(* The outbox keeps what it has written down, and the screen shows no      *)
(* message of the server twice, nor a bubble of the phone that it has no   *)
(* more need of.                                                           *)
(*                                                                         *)
(* A bubble is added when a message is written, so what must not happen is *)
(* that a message that was written is shown, kept or delivered as one that *)
(* was not (Written); and a message leaves the disk by the answer to a     *)
(* request, which has to be its own (OwnRequest).                          *)
(***************************************************************************)
\* The sequence of the bubbles that wait is left to Waiting, below.
OutboxTyped ==
    /\ saved \subseteq Messages
    /\ trying \in [Messages -> {"no", "started", "uploading", "sending"}]
    /\ current \in [Messages -> O!Posts \cup {None}]
    /\ queue \subseteq Messages
    /\ page \subseteq O!Posts
    /\ shown \in [O!Bubbles -> {0, 1}]
    /\ user \in O!Users
    /\ author \in [Messages -> O!Users \cup {0}]
    /\ posted \subseteq O!Posts /\ created \subseteq O!Posts
    /\ echoes \in Seq(O!Posts)

\* A message that somebody wrote is the only kind that is kept, delivered or shown.
Written ==
    \A m \in Messages :
        m \in saved \/ m \in queue \/ trying[m] # "no" \/ shown[m] = 1 => author[m] # 0

\* A delivery waits for a request of its own message.
OwnRequest == \A m \in Messages : current[m] # None => current[m][1] = m

OutboxInv == OutboxTyped /\ Written /\ OwnRequest

\* What a step does with the bubbles, the list on disk and the deliveries.
LEMMA OutboxStep == OutboxInv /\ [O!Next]_(O!vars) => OutboxInv'
  <1> SUFFICES ASSUME OutboxInv, [O!Next]_(O!vars) PROVE OutboxInv'
    OBVIOUS
  <1> USE OutboxAssumption DEF OutboxInv, O!diskVars, O!screenVars, O!userVars, O!serverVars, O!Users
  <1>0. CASE UNCHANGED O!vars
    BY <1>0 DEF O!vars, OutboxTyped, Written, OwnRequest
  <1>1. ASSUME O!Open PROVE OutboxInv'
    <2>1. OutboxTyped'
      BY <1>1 DEF O!Open, OutboxTyped
    <2>2. Written'
      BY <1>1 DEF O!Open, OutboxTyped, Written
    <2>3. OwnRequest'
      BY <1>1 DEF O!Open, OutboxTyped, OwnRequest
    <2> QED
      BY <2>1, <2>2, <2>3
  <1>2. ASSUME O!PageRead PROVE OutboxInv'
    <2>1. OutboxTyped'
      BY <1>2 DEF O!PageRead, OutboxTyped
    <2>2. Written'
      BY <1>2 DEF O!PageRead, OutboxTyped, Written
    <2>3. OwnRequest'
      BY <1>2 DEF O!PageRead, OutboxTyped, OwnRequest
    <2> QED
      BY <2>1, <2>2, <2>3
  <1>3. ASSUME O!Loaded PROVE OutboxInv'
    <2>1. OutboxTyped'
      BY <1>3 DEF O!Loaded, O!Starts, O!Bubbles, OutboxTyped
    <2>2. Written'
      BY <1>3 DEF O!Loaded, O!Starts, O!Bubbles, OutboxTyped, Written
    <2>3. OwnRequest'
      BY <1>3 DEF O!Loaded, O!Starts, O!Bubbles, OutboxTyped, OwnRequest
    <2> QED
      BY <2>1, <2>2, <2>3
  <1>4. ASSUME O!Close PROVE OutboxInv'
    <2>1. OutboxTyped'
      BY <1>4 DEF O!Close, O!Closed, O!NoBubbles, O!Bubbles, OutboxTyped
    <2>2. Written'
      BY <1>4 DEF O!Close, O!Closed, O!NoBubbles, O!Bubbles, OutboxTyped, Written
    <2>3. OwnRequest'
      BY <1>4 DEF O!Close, O!Closed, O!NoBubbles, O!Bubbles, OutboxTyped, OwnRequest
    <2> QED
      BY <2>1, <2>2, <2>3
  <1>5. ASSUME O!Echo PROVE OutboxInv'
    <2> DEFINE p == Head(echoes)
               local == Head(pending)
    <2>a. p \in O!Posts /\ Tail(echoes) \in Seq(O!Posts)
      BY <1>5 DEF O!Echo, OutboxTyped
    <2>b. \/ shown' = shown
          \/ shown[local] > 0 /\ shown' = [shown EXCEPT ![local] = @ - 1, ![p] = 1]
          \/ shown' = [shown EXCEPT ![p] = 1]
      BY <1>5 DEF O!Echo, O!MergeInbound
    <2>c. p \notin Messages
      BY <2>a
    <2>d. echoes' = Tail(echoes)
      BY <1>5 DEF O!Echo
    <2> HIDE DEF p, local
    <2>e. shown' \in [O!Bubbles -> {0, 1}] /\ \A m \in Messages : shown'[m] = 1 => shown[m] = 1
      <3>1. shown \in [O!Bubbles -> {0, 1}] /\ Messages \subseteq O!Bubbles
        BY DEF OutboxTyped, O!Bubbles
      <3>2. CASE local \in O!Bubbles
        BY <2>b, <2>c, <3>1, <3>2
      <3>3. CASE local \notin O!Bubbles
        BY <2>b, <2>c, <3>1, <3>3
      <3> QED
        BY <3>2, <3>3
    <2>1. OutboxTyped'
      BY <1>5, <2>a, <2>d, <2>e DEF O!Echo, OutboxTyped
    <2>2. Written'
      BY <1>5, <2>e DEF O!Echo, Written
    <2>3. OwnRequest'
      BY <1>5 DEF O!Echo, O!MergeInbound, O!Bubbles, OutboxTyped, OwnRequest
    <2> QED
      BY <2>1, <2>2, <2>3
  <1>6. ASSUME NEW m \in Messages, O!Write(m) PROVE OutboxInv'
    <2>1. OutboxTyped'
      <3>1. m \in O!Bubbles /\ shown[m] = 0
        BY <1>6 DEF O!Write, O!Bubbles, OutboxTyped, Written
      <3>2. shown' \in [O!Bubbles -> {0, 1}]
        BY <1>6, <3>1 DEF O!Write, OutboxTyped
      <3>3. author' \in [Messages -> O!Users \cup {0}] /\ user \in O!Users
        BY <1>6 DEF O!Write, OutboxTyped
      <3>4. trying' \in [Messages -> {"no", "started", "uploading", "sending"}]
        BY <1>6 DEF O!Write, O!Starts, OutboxTyped
      <3> QED
        BY <1>6, <3>2, <3>3, <3>4 DEF O!Write, OutboxTyped
    <2>2. Written'
      BY <1>6 DEF O!Write, O!Starts, O!Bubbles, OutboxTyped, Written
    <2>3. OwnRequest'
      BY <1>6 DEF O!Write, O!Starts, O!Bubbles, OutboxTyped, OwnRequest
    <2> QED
      BY <2>1, <2>2, <2>3
  <1>7. ASSUME NEW m \in Messages, O!Tap(m) PROVE OutboxInv'
    <2>1. OutboxTyped'
      BY <1>7 DEF O!Tap, O!Starts, O!Bubbles, OutboxTyped
    <2>2. Written'
      BY <1>7 DEF O!Tap, O!Starts, O!Bubbles, OutboxTyped, Written
    <2>3. OwnRequest'
      BY <1>7 DEF O!Tap, O!Starts, O!Bubbles, OutboxTyped, OwnRequest
    <2> QED
      BY <2>1, <2>2, <2>3
  <1>8. ASSUME NEW m \in Messages, O!FileMissing(m) PROVE OutboxInv'
    <2>1. OutboxTyped'
      BY <1>8 DEF O!FileMissing, O!Ends, O!Told, O!Bubbles, OutboxTyped
    <2>2. Written'
      BY <1>8 DEF O!FileMissing, O!Ends, O!Told, O!Bubbles, OutboxTyped, Written
    <2>3. OwnRequest'
      BY <1>8 DEF O!FileMissing, O!Ends, O!Told, O!Bubbles, OutboxTyped, OwnRequest
    <2> QED
      BY <2>1, <2>2, <2>3
  <1>9. ASSUME NEW m \in Messages, O!Uploads(m) PROVE OutboxInv'
    <2>1. OutboxTyped'
      BY <1>9 DEF O!Uploads, OutboxTyped
    <2>2. Written'
      BY <1>9 DEF O!Uploads, OutboxTyped, Written
    <2>3. OwnRequest'
      BY <1>9 DEF O!Uploads, OutboxTyped, OwnRequest
    <2> QED
      BY <2>1, <2>2, <2>3
  <1>10. ASSUME NEW m \in Messages, O!Sends(m) PROVE OutboxInv'
    <2>1. OutboxTyped'
      <3>1. trying' \in [Messages -> {"no", "started", "uploading", "sending"}]
        BY <1>10 DEF O!Sends, O!Asks, OutboxTyped
      <3>2. \A n \in 1..MaxSends : <<m, n, user>> \in O!Posts
        BY DEF O!Posts, OutboxTyped
      <3>3. current' \in [Messages -> O!Posts \cup {None}] /\ posted' \subseteq O!Posts
        BY <1>10, <3>2 DEF O!Sends, O!Asks, OutboxTyped
      <3> QED
        BY <1>10, <3>1, <3>3 DEF O!Sends, OutboxTyped
    <2>2. Written'
      BY <1>10 DEF O!Sends, O!Asks, O!Posts, OutboxTyped, Written
    <2>3. OwnRequest'
      BY <1>10 DEF O!Sends, O!Asks, O!Posts, OutboxTyped, OwnRequest
    <2> QED
      BY <2>1, <2>2, <2>3
  <1>11. ASSUME NEW m \in Messages, O!Answered(m) PROVE OutboxInv'
    <2>1. OutboxTyped'
      BY <1>11 DEF O!Answered, O!Ends, O!Told, O!ReplaceLocal, O!Bubbles, OutboxTyped
    <2>2. Written'
      BY <1>11 DEF O!Answered, O!Ends, O!Told, O!ReplaceLocal, O!Bubbles, OutboxTyped, Written
    <2>3. OwnRequest'
      BY <1>11 DEF O!Answered, O!Ends, O!Told, O!ReplaceLocal, O!Bubbles, OutboxTyped, OwnRequest
    <2> QED
      BY <2>1, <2>2, <2>3
  <1>12. ASSUME NEW m \in Messages, NEW now \in BOOLEAN, O!Fails(m, now) PROVE OutboxInv'
    <2>1. OutboxTyped'
      BY <1>12 DEF O!Fails, O!Ends, O!Told, O!Bubbles, OutboxTyped
    <2>2. Written'
      BY <1>12 DEF O!Fails, O!Ends, O!Told, O!Bubbles, OutboxTyped, Written
    <2>3. OwnRequest'
      BY <1>12 DEF O!Fails, O!Ends, O!Told, O!Bubbles, OutboxTyped, OwnRequest
    <2> QED
      BY <2>1, <2>2, <2>3
  <1>13. ASSUME NEW m \in Messages, O!FlushTakes(m) PROVE OutboxInv'
    <2>1. OutboxTyped'
      BY <1>13 DEF O!FlushTakes, O!Starts, OutboxTyped
    <2>2. Written'
      BY <1>13 DEF O!FlushTakes, O!Starts, OutboxTyped, Written
    <2>3. OwnRequest'
      BY <1>13 DEF O!FlushTakes, O!Starts, OutboxTyped, OwnRequest
    <2> QED
      BY <2>1, <2>2, <2>3
  <1>14. ASSUME NEW m \in Messages, O!FileDeleted(m) PROVE OutboxInv'
    <2>1. OutboxTyped'
      BY <1>14 DEF O!FileDeleted, OutboxTyped
    <2>2. Written'
      BY <1>14 DEF O!FileDeleted, OutboxTyped, Written
    <2>3. OwnRequest'
      BY <1>14 DEF O!FileDeleted, OutboxTyped, OwnRequest
    <2> QED
      BY <2>1, <2>2, <2>3
  <1>15. ASSUME NEW m \in Messages, NEW those \in SUBSET Messages, O!FailTogether(those, m) PROVE OutboxInv'
    <2>1. OutboxTyped'
      BY <1>15 DEF O!FailTogether, O!Ends, OutboxTyped
    <2>2. Written'
      BY <1>15 DEF O!FailTogether, O!Ends, OutboxTyped, Written
    <2>3. OwnRequest'
      BY <1>15 DEF O!FailTogether, O!Ends, OutboxTyped, OwnRequest
    <2> QED
      BY <2>1, <2>2, <2>3
  <1>16. ASSUME O!NetworkLost PROVE OutboxInv'
    <2>1. OutboxTyped'
      BY <1>16 DEF O!NetworkLost, OutboxTyped
    <2>2. Written'
      BY <1>16 DEF O!NetworkLost, OutboxTyped, Written
    <2>3. OwnRequest'
      BY <1>16 DEF O!NetworkLost, OutboxTyped, OwnRequest
    <2> QED
      BY <2>1, <2>2, <2>3
  <1>17. ASSUME O!Reconnects PROVE OutboxInv'
    <2>1. OutboxTyped'
      BY <1>17 DEF O!Reconnects, OutboxTyped
    <2>2. Written'
      BY <1>17 DEF O!Reconnects, OutboxTyped, Written
    <2>3. OwnRequest'
      BY <1>17 DEF O!Reconnects, OutboxTyped, OwnRequest
    <2> QED
      BY <2>1, <2>2, <2>3
  <1>18. ASSUME O!Killed PROVE OutboxInv'
    <2>1. OutboxTyped'
      BY <1>18 DEF O!Killed, O!Closed, O!NoBubbles, O!Bubbles, OutboxTyped
    <2>2. Written'
      BY <1>18 DEF O!Killed, O!Closed, O!NoBubbles, O!Bubbles, OutboxTyped, Written
    <2>3. OwnRequest'
      BY <1>18 DEF O!Killed, O!Closed, O!NoBubbles, O!Bubbles, OutboxTyped, OwnRequest
    <2> QED
      BY <2>1, <2>2, <2>3
  <1>19. ASSUME O!SignsOut PROVE OutboxInv'
    <2>1. OutboxTyped'
      BY <1>19 DEF O!SignsOut, O!Closed, O!NoBubbles, O!Bubbles, OutboxTyped
    <2>2. Written'
      BY <1>19 DEF O!SignsOut, O!Closed, O!NoBubbles, O!Bubbles, OutboxTyped, Written
    <2>3. OwnRequest'
      BY <1>19 DEF O!SignsOut, O!Closed, O!NoBubbles, O!Bubbles, OutboxTyped, OwnRequest
    <2> QED
      BY <2>1, <2>2, <2>3
  <1>20. ASSUME O!OutboxCleared PROVE OutboxInv'
    <2>1. OutboxTyped'
      BY <1>20 DEF O!OutboxCleared, OutboxTyped
    <2>2. Written'
      BY <1>20 DEF O!OutboxCleared, OutboxTyped, Written
    <2>3. OwnRequest'
      BY <1>20 DEF O!OutboxCleared, OutboxTyped, OwnRequest
    <2> QED
      BY <2>1, <2>2, <2>3
  <1>21. ASSUME O!SignsIn PROVE OutboxInv'
    <2>1. OutboxTyped'
      BY <1>21 DEF O!SignsIn, OutboxTyped
    <2>2. Written'
      BY <1>21 DEF O!SignsIn, OutboxTyped, Written
    <2>3. OwnRequest'
      BY <1>21 DEF O!SignsIn, OutboxTyped, OwnRequest
    <2> QED
      BY <2>1, <2>2, <2>3
  <1>22. ASSUME NEW p \in posted, O!Creates(p) PROVE OutboxInv'
    <2>1. OutboxTyped'
      <3>1. p \in O!Posts /\ echoes \in Seq(O!Posts)
        BY DEF OutboxTyped
      <3>2. Append(echoes, p) \in Seq(O!Posts)
        BY <3>1
      <3>3. echoes' \in Seq(O!Posts)
        BY <1>22, <3>1, <3>2 DEF O!Creates
      <3> QED
        BY <1>22, <3>1, <3>3 DEF O!Creates, OutboxTyped
    <2>2. Written'
      BY <1>22 DEF O!Creates, OutboxTyped, Written
    <2>3. OwnRequest'
      BY <1>22 DEF O!Creates, OutboxTyped, OwnRequest
    <2> QED
      BY <2>1, <2>2, <2>3
  <1> QED
    BY <1>0, <1>1, <1>2, <1>3, <1>4, <1>5, <1>6, <1>7, <1>8, <1>9, <1>10, <1>11, <1>12, <1>13, <1>14, <1>15, <1>16, <1>17, <1>18, <1>19, <1>20, <1>21, <1>22
       DEF O!Next

LEMMA OutboxBegins == O!Init => OutboxInv
  <1> SUFFICES ASSUME O!Init PROVE OutboxInv
    OBVIOUS
  <1>1. <<>> \in Seq(O!Posts) /\ 1 \in O!Users
    BY OutboxAssumption DEF O!Users
  <1>2. OutboxTyped
    BY <1>1 DEF O!Init, O!NoBubbles, OutboxTyped
  <1>3. Written /\ OwnRequest
    BY DEF O!Init, O!NoBubbles, O!Bubbles, Written, OwnRequest
  <1> QED
    BY <1>2, <1>3 DEF OutboxInv

LEMMA OutboxInvariance == O!Spec => []OutboxInv
  BY OutboxBegins, OutboxStep, PTL DEF O!Spec

\* A bubble with a local id is there only on an open screen, for a message under way or
\* marked "xato".
Local ==
    /\ screen # "open" => \A m \in Messages : shown[m] = 0
    /\ \A m \in Messages : shown[m] = 1 => trying[m] # "no" \/ m \in failed

\* So it stays when no such bubble is added and no delivery ends.
LEMMA LocalKept ==
    ASSUME OutboxInv', Local, \A m \in Messages : shown'[m] = 1 => shown[m] = 1,
           screen = "open" => screen' = "open", failed' = failed,
           \A m \in Messages : trying[m] # "no" => trying'[m] # "no"
    PROVE  Local'
  <1>1. \A m \in Messages : shown'[m] \in {0, 1}
    BY DEF OutboxInv, OutboxTyped, O!Bubbles
  <1>2. \A m \in Messages : shown[m] = 0 => shown'[m] = 0
    BY <1>1
  <1> QED
    BY <1>1, <1>2 DEF Local

LEMMA LocalStep == OutboxInv /\ OutboxInv' /\ Local /\ [O!Next]_(O!vars) => Local'
  <1> SUFFICES ASSUME OutboxInv, OutboxInv', Local, [O!Next]_(O!vars) PROVE Local'
    OBVIOUS
  <1> USE OutboxAssumption DEF O!diskVars, O!screenVars, O!userVars, O!serverVars
  <1>a. /\ trying \in [Messages -> {"no", "started", "uploading", "sending"}]
        /\ \A m \in Messages : shown[m] \in {0, 1}
    BY DEF OutboxInv, OutboxTyped, O!Bubbles
  <1>1. CASE UNCHANGED O!vars \/ O!Open \/ O!PageRead \/ O!NetworkLost \/ O!Reconnects
             \/ O!OutboxCleared \/ O!SignsIn \/ \E p \in posted : O!Creates(p)
    BY <1>1, LocalKept DEF O!vars, O!Open, O!PageRead, O!NetworkLost, O!Reconnects, O!OutboxCleared,
                           O!SignsIn, O!Creates
  <1>2. CASE O!Close \/ O!Killed \/ O!SignsOut
    <2>1. shown' = O!NoBubbles
      BY <1>2 DEF O!Close, O!Killed, O!SignsOut, O!Closed
    <2>2. \A m \in Messages : shown'[m] = 0
      BY <2>1 DEF O!NoBubbles, O!Bubbles
    <2> QED
      BY <2>2 DEF Local
  <1>3. CASE O!Loaded
    <2>1. \A m \in Messages : shown'[m] = 1 => m \in saved
      BY <1>3 DEF O!Loaded, O!Bubbles, OutboxInv, OutboxTyped
    <2>2. \A m \in saved : trying'[m] # "no"
      BY <1>3, <1>a DEF O!Loaded, O!Starts, OutboxInv, OutboxTyped
    <2> QED
      BY <1>3, <2>1, <2>2 DEF O!Loaded, Local
  <1>4. CASE O!Echo
    <2>1. PICK p, local :
             /\ p \in O!Posts
             /\ \/ shown' = shown
                \/ shown[local] > 0 /\ shown' = [shown EXCEPT ![local] = @ - 1, ![p] = 1]
                \/ shown' = [shown EXCEPT ![p] = 1]
      <3>1. Head(echoes) \in O!Posts
        BY <1>4 DEF O!Echo, OutboxInv, OutboxTyped
      <3> QED
        BY <1>4, <3>1 DEF O!Echo, O!MergeInbound
    <2>2. \A m \in Messages : shown'[m] = 1 => shown[m] = 1
      <3> SUFFICES ASSUME NEW m \in Messages, shown'[m] = 1 PROVE shown[m] = 1
        OBVIOUS
      <3>1. m # p /\ m \in DOMAIN shown /\ shown[m] \in {0, 1}
        BY <1>a, <2>1 DEF OutboxInv, OutboxTyped, O!Bubbles
      <3>2. CASE m = local
        BY <2>1, <3>1, <3>2
      <3>3. CASE m # local
        BY <2>1, <3>1, <3>3
      <3> QED
        BY <3>2, <3>3
    <2> QED
      BY <1>4, <2>2, LocalKept DEF O!Echo
  <1>5. ASSUME NEW m \in Messages, O!Write(m) PROVE Local'
    <2>1. trying'[m] # "no" /\ \A n \in Messages : trying[n] # "no" => trying'[n] # "no"
      BY <1>5, <1>a DEF O!Write, O!Starts
    <2>2. \A n \in Messages : n # m => shown'[n] = shown[n]
      BY <1>5 DEF O!Write, OutboxInv, OutboxTyped, O!Bubbles
    <2> QED
      BY <1>5, <2>1, <2>2 DEF O!Write, Local
  <1>6. ASSUME NEW m \in Messages, O!Tap(m) PROVE Local'
    <2>1. trying'[m] # "no" /\ \A n \in Messages : trying[n] # "no" => trying'[n] # "no"
      BY <1>6, <1>a DEF O!Tap, O!Starts
    <2> QED
      BY <1>6, <2>1 DEF O!Tap, Local
  <1>7. ASSUME NEW m \in Messages,
               O!FileMissing(m) \/ \E now \in BOOLEAN : O!Fails(m, now)
        PROVE  Local'
    <2>1. O!Told(m, None) /\ \A n \in Messages : n # m => trying'[n] = trying[n]
      BY <1>7, <1>a DEF O!FileMissing, O!Fails, O!Ends
    <2>2. CASE screen # "open"
      BY <2>1, <2>2 DEF O!Told, Local
    <2>3. CASE screen = "open"
      BY <1>a, <2>1, <2>3 DEF O!Told, Local
    <2> QED
      BY <2>2, <2>3
  <1>8. ASSUME NEW m \in Messages, NEW those \in SUBSET Messages, O!FailTogether(those, m)
        PROVE  Local'
    <2>1. \A n \in Messages : n \notin those => trying'[n] = trying[n]
      BY <1>8 DEF O!FailTogether, O!Ends
    <2>2. CASE screen # "open"
      BY <1>8, <2>2 DEF O!FailTogether, Local
    <2>3. CASE screen = "open"
      BY <1>8, <1>a, <2>1, <2>3 DEF O!FailTogether, Local
    <2> QED
      BY <2>2, <2>3
  <1>9. ASSUME NEW m \in Messages, O!Answered(m) PROVE Local'
    <2>1. PICK p \in O!Posts :
             O!Told(m, p) /\ \A n \in Messages : n # m => trying'[n] = trying[n]
      BY <1>9 DEF O!Answered, O!Ends, OutboxInv, OutboxTyped
    <2>2. CASE screen # "open"
      BY <2>1, <2>2 DEF O!Told, Local
    <2>3. CASE screen = "open"
      <3>1. /\ shown' = O!ReplaceLocal(m, p) /\ screen' = screen
            /\ failed \ {m} \subseteq failed' 
        BY <2>1, <2>3 DEF O!Told
      <3>2. \A n \in Messages : n # p /\ n \in DOMAIN shown
        BY <2>1 DEF OutboxInv, OutboxTyped, O!Bubbles
      <3>3. shown'[m] = 0 /\ \A n \in Messages : n # m => shown'[n] = shown[n]
        BY <3>1, <3>2 DEF O!ReplaceLocal
      <3> QED
        BY <2>1, <2>3, <3>1, <3>3 DEF Local
    <2> QED
      BY <2>2, <2>3
  <1>10. ASSUME NEW m \in Messages,
                O!Uploads(m) \/ O!Sends(m) \/ O!FlushTakes(m) \/ O!FileDeleted(m)
         PROVE  Local'
    <2>1. UNCHANGED <<screen, shown, failed>>
      BY <1>10 DEF O!Uploads, O!Sends, O!FlushTakes, O!FileDeleted
    <2>2. \A n \in Messages : trying[n] # "no" => trying'[n] # "no"
      BY <1>10, <1>a DEF O!Uploads, O!Sends, O!Asks, O!FlushTakes, O!Starts, O!FileDeleted
    <2> QED
      BY <2>1, <2>2, LocalKept
  <1> QED
    BY <1>1, <1>2, <1>3, <1>4, <1>5, <1>6, <1>7, <1>8, <1>9, <1>10 DEF O!Next

LEMMA LocalBegins == O!Init => Local
  BY OutboxAssumption DEF O!Init, O!NoBubbles, O!Bubbles, Local

\* ConversationCubit: the answer and the echo of a message, in either order and of any
\* number of messages, leave at most one bubble of what the server has made of it, and
\* the bubble it was written in is gone when the answer has come.
THEOREM BubblesAreShownOnce == O!Spec => []ShownOnce
  <1>1. OutboxInv /\ Local => ShownOnce
    <2> SUFFICES ASSUME OutboxInv, Local PROVE ShownOnce
      OBVIOUS
    <2>1. \A b \in O!Bubbles : shown[b] \in {0, 1}
      BY DEF OutboxInv, OutboxTyped
    <2>2. \A b \in O!Bubbles : shown[b] <= 1
      BY <2>1
    <2>3. \A m \in Messages : shown[m] > 0 => shown[m] = 1
      BY <2>1 DEF O!Bubbles
    <2> QED
      BY <2>2, <2>3 DEF ShownOnce, O!ShownOnce, Local
  <1>2. O!Spec => []Local
    BY OutboxInvariance, LocalBegins, LocalStep, PTL DEF O!Spec
  <1> QED
    BY <1>1, <1>2, OutboxInvariance, PTL

\* Only the answer to its own request, a missing file and a logout take a message off
\* the disk.
LEMMA NothingIsDropped ==
    OutboxInv /\ [O!Next]_(O!vars) =>
        (\A m \in saved \ saved' : loggingOut \/ m \in gone \/ \E p \in created : p[1] = m)
  <1> SUFFICES ASSUME OutboxInv, [O!Next]_(O!vars), NEW m \in saved \ saved'
               PROVE  loggingOut \/ m \in gone \/ \E p \in created : p[1] = m
    OBVIOUS
  <1> USE OutboxAssumption DEF OutboxInv, O!diskVars, O!screenVars, O!userVars, O!serverVars
  <1>1. ASSUME NEW n \in Messages, O!Answered(n) PROVE n # m \/ \E p \in created : p[1] = m
    BY <1>1 DEF O!Answered, OutboxTyped, OwnRequest
  <1>2. ASSUME NEW n \in Messages,
               \/ O!Write(n) \/ O!Tap(n) \/ O!Uploads(n) \/ O!Sends(n) \/ O!FlushTakes(n)
               \/ O!FileDeleted(n) \/ (\E now \in BOOLEAN : O!Fails(n, now))
               \/ (\E those \in SUBSET Messages : O!FailTogether(those, n))
        PROVE  saved \subseteq saved'
    BY <1>2 DEF O!Write, O!Tap, O!Uploads, O!Sends, O!FlushTakes, O!FileDeleted, O!Fails, O!FailTogether
  <1>3. ASSUME \/ O!Open \/ O!PageRead \/ O!Loaded \/ O!Close \/ O!Echo \/ O!NetworkLost
               \/ O!Reconnects \/ O!Killed \/ O!SignsOut \/ O!SignsIn
               \/ (\E p \in posted : O!Creates(p))
        PROVE  saved' = saved
    BY <1>3 DEF O!Open, O!PageRead, O!Loaded, O!Close, O!Echo, O!NetworkLost, O!Reconnects,
                O!Killed, O!SignsOut, O!SignsIn, O!Creates
  <1>4. ASSUME NEW n \in Messages, O!FileMissing(n) PROVE n # m \/ m \in gone
    BY <1>4 DEF O!FileMissing
  <1>5. ASSUME NEW n \in Messages, O!Answered(n) \/ O!FileMissing(n) PROVE n = m
    BY <1>5 DEF O!Answered, O!FileMissing
  <1>6. ASSUME O!OutboxCleared PROVE loggingOut
    BY <1>6 DEF O!OutboxCleared
  <1>7. ASSUME UNCHANGED O!vars PROVE saved' = saved
    BY <1>7 DEF O!vars
  <1> QED
    BY <1>1, <1>2, <1>3, <1>4, <1>5, <1>6, <1>7 DEF O!Next

\* ChatOutbox: what is on disk stays there until the server has it, its file is gone or
\* the user logs out.
THEOREM OutboxLosesNothing == O!Spec => OutboxKeeps
  <1>1. OutboxInv /\ [O!Next]_(O!vars)
          => [\A m \in saved \ saved' :
                  loggingOut \/ m \in gone \/ \E p \in created : p[1] = m]_(O!vars)
    BY NothingIsDropped
  <1> QED
    BY <1>1, OutboxInvariance, PTL DEF O!Spec, OutboxKeeps, O!OutboxKeeps
-----------------------------------------------------------------------------
(***************************************************************************)
(* The bubbles that wait on the screen for their echo, and the rest of the *)
(* types of the outbox.                                                    *)
(***************************************************************************)
LEMMA LeastPlace ==
    ASSUME NEW I \in SUBSET Nat, I # {}
    PROVE  O!Min(I) \in I
  <1>1. PICK n \in I : \A k \in I : ~(<<k, n>> \in OpToRel(<, Nat))
    BY NatLessThanWellFounded, WFMin
  <1>2. \A k \in I : ~(k < n)
    BY <1>1 DEF OpToRel
  <1>3. \A k \in I : k \in Nat /\ n \in Nat
    OBVIOUS
  <1>4. \A k \in I : n <= k
    BY <1>2, <1>3
  <1> QED
    BY <1>4 DEF O!Min

LEMMA RemovedFirst ==
    ASSUME NEW T, NEW s \in Seq(T), NEW e
    PROVE  O!RemoveFirst(s, e) \in Seq(T)
  <1>1. CASE ~\E i \in 1..Len(s) : s[i] = e
    BY <1>1 DEF O!RemoveFirst
  <1>2. CASE \E i \in 1..Len(s) : s[i] = e
    <2> DEFINE I == {i \in 1..Len(s) : s[i] = e}
               n == O!Min(I)
    <2>1. I \in SUBSET (1..Len(s)) /\ I \in SUBSET Nat /\ I # {}
      BY <1>2
    <2>2. n \in 1..Len(s)
      BY <2>1, LeastPlace
    <2>3. O!RemoveFirst(s, e) = SubSeq(s, 1, n - 1) \o SubSeq(s, n + 1, Len(s))
      BY <1>2, <2>1 DEF O!RemoveFirst, O!RemoveAt, O!SelectInSeq
    <2> HIDE DEF n
    <2>4. SubSeq(s, 1, n - 1) \in Seq(T)
      BY <2>2
    <2>5. SubSeq(s, n + 1, Len(s)) \in Seq(T)
      BY <2>2
    <2> QED
      BY <2>3, <2>4, <2>5
  <1> QED
    BY <1>1, <1>2

LEMMA SameSubsequence == \A s, P : O!Subsequence(s, P) = Subsequence(s, P)
  BY DEF O!Subsequence, Subsequence, O!Places, Places, O!Rank, Rank,
         O!Cardinality, Cardinality

LEMMA PermutedSet ==
    ASSUME NEW P, IsFiniteSet(P), NEW s \in O!SetToAllKPermutations(P)
    PROVE  s \in Seq(P)
  <1>1. PICK Q \in SUBSET P : s \in O!SetToSeqs(Q)
    BY DEF O!SetToAllKPermutations
  <1>2. Cardinality(Q) \in Nat
    BY FS_Subset, FS_CardinalityType
  <1>3. O!Cardinality(Q) = Cardinality(Q)
    BY DEF O!Cardinality, Cardinality
  <1>4. s \in [1..Cardinality(Q) -> Q]
    BY <1>1, <1>3 DEF O!SetToSeqs
  <1> QED
    BY <1>2, <1>4

\* The disk holds finitely many messages, because a step adds one at most; so there is
\* an order to show them in.
Waiting == pending \in Seq(Messages) /\ IsFiniteSet(saved)

LEMMA ToldWaiting ==
    ASSUME Waiting, NEW m, NEW p, O!Told(m, p)
    PROVE  pending' \in Seq(Messages)
  BY RemovedFirst DEF Waiting, O!Told, O!screenVars

LEMMA WaitingStep == OutboxInv /\ Waiting /\ [O!Next]_(O!vars) => Waiting'
  <1> SUFFICES ASSUME OutboxInv, Waiting, [O!Next]_(O!vars) PROVE Waiting'
    OBVIOUS
  <1> USE DEF O!diskVars, O!screenVars, O!userVars, O!serverVars
  <1>1. ASSUME saved' = saved \/ saved' = {} \/ \E m : saved' \in {saved \cup {m}, saved \ {m}}
        PROVE  IsFiniteSet(saved')
    <2>1. CASE saved' = saved \/ saved' = {}
      BY <2>1, FS_EmptySet DEF Waiting
    <2>2. CASE \E m : saved' \in {saved \cup {m}, saved \ {m}}
      BY <2>2, FS_AddElement, FS_RemoveElement DEF Waiting
    <2> QED
      BY <1>1, <2>1, <2>2
  <1>2. CASE UNCHANGED O!vars
    BY <1>2 DEF O!vars, Waiting
  <1>3. CASE O!Open \/ O!PageRead \/ O!NetworkLost \/ O!Reconnects \/ O!SignsIn
             \/ (\E p \in posted : O!Creates(p))
             \/ (\E m \in Messages : O!Uploads(m) \/ O!Sends(m) \/ O!FlushTakes(m)
                                     \/ O!FileDeleted(m))
    <2>1. saved' = saved /\ pending' = pending
      BY <1>3 DEF O!Open, O!PageRead, O!NetworkLost, O!Reconnects, O!SignsIn, O!Creates,
                  O!Uploads, O!Sends, O!FlushTakes, O!FileDeleted
    <2> QED
      BY <2>1 DEF Waiting
  <1>4. CASE O!OutboxCleared
    <2>1. saved' = {} /\ pending' = pending
      BY <1>4 DEF O!OutboxCleared
    <2> QED
      BY <1>1, <2>1 DEF Waiting
  <1>5. CASE O!Close \/ O!Killed \/ O!SignsOut
    <2>1. saved' = saved /\ pending' = <<>>
      BY <1>5 DEF O!Close, O!Killed, O!SignsOut, O!Closed
    <2> QED
      BY <2>1 DEF Waiting
  <1>6. CASE O!Loaded
    <2>1. saved' = saved /\ pending' \in O!SetToAllKPermutations(saved)
      BY <1>6 DEF O!Loaded
    <2>2. pending' \in Seq(saved) /\ saved \subseteq Messages
      BY <2>1, PermutedSet DEF Waiting, OutboxInv, OutboxTyped
    <2>3. pending' \in Seq(Messages)
      BY <2>2
    <2> QED
      BY <2>1, <2>3 DEF Waiting
  <1>7. CASE O!Echo
    <2>1. saved' = saved
      BY <1>7 DEF O!Echo
    <2>2. pending' = pending \/ (pending # <<>> /\ pending' = Tail(pending))
      BY <1>7 DEF O!Echo, O!MergeInbound
    <2>3. pending \in Seq(Messages)
      BY DEF Waiting
    <2>4. pending' \in Seq(Messages)
      BY <2>2, <2>3
    <2> QED
      BY <2>1, <2>4 DEF Waiting
  <1>8. ASSUME NEW m \in Messages, O!Write(m) \/ O!Tap(m) PROVE Waiting'
    <2>1. saved' = saved /\ pending' = Append(pending, m)
      BY <1>8 DEF O!Write, O!Tap
    <2>2. pending \in Seq(Messages)
      BY DEF Waiting
    <2>3. pending' \in Seq(Messages)
      BY <2>1, <2>2
    <2> QED
      BY <2>1, <2>3 DEF Waiting
  <1>9. ASSUME NEW m \in Messages,
               O!FileMissing(m) \/ O!Answered(m) \/ (\E now \in BOOLEAN : O!Fails(m, now))
        PROVE  Waiting'
    <2>1. saved' \in {saved \cup {m}, saved \ {m}} /\ \E p : O!Told(m, p)
      BY <1>9 DEF O!FileMissing, O!Answered, O!Fails
    <2> QED
      BY <1>1, <2>1, ToldWaiting DEF Waiting
  <1>10. ASSUME NEW m \in Messages, NEW those \in SUBSET Messages, O!FailTogether(those, m)
         PROVE  Waiting'
    <2>1. /\ saved' = saved \cup {m}
          /\ pending' = pending \/ pending' = Subsequence(pending, Messages \ those)
      BY <1>10, SameSubsequence DEF O!FailTogether
    <2>2. pending \in Seq(Messages)
      BY DEF Waiting
    <2>3. pending' \in Seq(Messages)
      BY <2>1, <2>2, SubsequenceFacts
    <2> QED
      BY <1>1, <2>1, <2>3 DEF Waiting
  <1> QED
    BY <1>2, <1>3, <1>4, <1>5, <1>6, <1>7, <1>8, <1>9, <1>10 DEF O!Next

OutboxRest ==
    /\ head \in Messages \cup {None} /\ offline \in BOOLEAN
    /\ screen \in {"closed", "asked", "answered", "open"}
    /\ failed \subseteq Messages /\ gone \subseteq Files
    /\ signedIn \in BOOLEAN /\ loggingOut \in BOOLEAN

LEMMA OutboxRestStep == OutboxRest /\ [O!Next]_(O!vars) => OutboxRest'
  <1> SUFFICES ASSUME OutboxRest, [O!Next]_(O!vars) PROVE OutboxRest'
    OBVIOUS
  <1> USE DEF O!diskVars, O!screenVars, O!userVars, O!serverVars, OutboxRest
  <1>1. CASE UNCHANGED O!vars
    BY <1>1 DEF O!vars
  <1>2. CASE O!Open \/ O!PageRead \/ O!Loaded \/ O!Echo
    BY <1>2 DEF O!Open, O!PageRead, O!Loaded, O!Echo
  <1>3. CASE O!Close \/ O!Killed \/ O!SignsOut
    BY <1>3 DEF O!Close, O!Killed, O!SignsOut, O!Closed
  <1>4. CASE O!NetworkLost \/ O!Reconnects \/ O!OutboxCleared \/ O!SignsIn
             \/ (\E p \in posted : O!Creates(p))
    BY <1>4 DEF O!NetworkLost, O!Reconnects, O!OutboxCleared, O!SignsIn, O!Creates
  <1>5. ASSUME NEW m \in Messages,
               O!Write(m) \/ O!Tap(m) \/ O!Uploads(m) \/ O!Sends(m) \/ O!FlushTakes(m)
               \/ O!FileDeleted(m)
        PROVE  OutboxRest'
    BY <1>5 DEF O!Write, O!Tap, O!Uploads, O!Sends, O!FlushTakes, O!FileDeleted
  <1>6. ASSUME NEW m \in Messages,
               O!FileMissing(m) \/ O!Answered(m) \/ (\E now \in BOOLEAN : O!Fails(m, now))
        PROVE  OutboxRest'
    BY <1>6 DEF O!FileMissing, O!Answered, O!Fails, O!Ends, O!Told
  <1>7. ASSUME NEW m \in Messages, NEW those \in SUBSET Messages, O!FailTogether(those, m)
        PROVE  OutboxRest'
    BY <1>7 DEF O!FailTogether, O!Ends
  <1> QED
    BY <1>1, <1>2, <1>3, <1>4, <1>5, <1>6, <1>7 DEF O!Next

LEMMA OutboxTypes == O!Spec => []O!TypeOK
  <1>1. OutboxInv /\ Waiting /\ OutboxRest => O!TypeOK
    <2>1. OutboxTyped => shown \in [O!Bubbles -> Nat]
      BY DEF OutboxTyped
    <2> QED
      BY <2>1 DEF OutboxInv, OutboxTyped, Waiting, OutboxRest, O!TypeOK
  <1>2. O!Init => Waiting /\ OutboxRest
    <2> SUFFICES ASSUME O!Init PROVE Waiting /\ OutboxRest
      OBVIOUS
    <2>1. Waiting
      BY FS_EmptySet DEF O!Init, Waiting
    <2>2. OutboxRest
      BY DEF O!Init, OutboxRest
    <2> QED
      BY <2>1, <2>2
  <1> QED
    BY <1>1, <1>2, OutboxBegins, OutboxStep, WaitingStep, OutboxRestStep, PTL DEF O!Spec
-----------------------------------------------------------------------------
(***************************************************************************)
(* The three side by side.                                                 *)
(***************************************************************************)
\* No step of one part moves another: a behaviour of the network is one of each part.
THEOREM NetworkIsItsParts == NetworkSpec => Spec /\ S!Spec /\ O!Spec
  <1>1. NetworkInit => Init /\ S!Init /\ O!Init
    BY DEF NetworkInit
  <1> USE DEF NetworkNext, allVars, sessionVars, outboxVars
  <1>2. [NetworkNext]_allVars => [Next]_vars
    BY DEF vars
  <1>3. [NetworkNext]_allVars => [S!Next]_(S!vars)
    BY DEF S!vars, S!phoneVars, S!netVars, S!serverVars
  <1>4. [NetworkNext]_allVars => [O!Next]_(O!vars)
    BY DEF O!vars, O!diskVars, O!screenVars, O!userVars, O!serverVars
  <1> QED
    BY <1>1, <1>2, <1>3, <1>4, PTL DEF NetworkSpec, Spec, S!Spec, O!Spec

\* The phone and the server keep their types: the map of the interceptor among them,
\* which never has more than MAX_ENTRIES keys, none twice, and an entry for each.
THEOREM NetworkTypes == NetworkSpec => []TypesOK
  BY WritesTypes, SessionsTypeCorrect, OutboxTypes, NetworkIsItsParts, PTL DEF TypesOK

\* All of it holds of the phone as a whole, whichever part moves.
COROLLARY NetworkHolds ==
    NetworkSpec =>
        /\ [](TypesOK /\ ExecutedOnce /\ EntryIsTrue /\ SessionKept /\ ShownOnce)
        /\ OutboxKeeps
  BY NetworkIsItsParts, OnceForAll, EntriesTrue, SessionIsKept, BubblesAreShownOnce,
     OutboxLosesNothing, NetworkTypes, PTL
=============================================================================
