------------------------- MODULE CallClientsProofs -------------------------
(***************************************************************************)
(* Proofs about the two clients of a call, pages and phones in any         *)
(* combination and for any number of calls: no end of a call is kept from  *)
(* a page that shows it, and no connection is about a call nobody took.    *)
(***************************************************************************)
EXTENDS CallClients, TLAPS

(***************************************************************************)
(* Which calls an event, a connection or a function can be about.  These   *)
(* are relations between the values of the variables, given as parameters. *)
(***************************************************************************)
Made(calls, c) == c \in Ids /\ calls[c].status # "none"
Answered(calls, c) == c \in Ids /\ calls[c].answered
Mine(u, calls, c) == Made(calls, c) /\ calls[c].caller = u
Rung(u, calls, c) == Made(calls, c) /\ calls[c].caller # u

\* A call that somebody still dials: startCall has not returned, or the id is known
\* and nobody took it yet, as far as the screen knows.
Loose(k, c) == k.dial[c] # "none" \/ (k.phase = "outgoing" /\ k.call = c)
Settled(clients, c) == \A v \in Clients : ~Loose(clients[v], c)

\* What may be said about a call: talk once it was answered, descriptions once nobody
\* dials it any more.
Talk == {"accepted", "offer", "answer"}
Spoken(m, calls, clients) ==
    /\ m.type \in Talk => Answered(calls, m.call)
    /\ m.type \in {"offer", "answer"} => Settled(clients, m.call)

\* Events on their way to a client, and from it.
Heards(u, calls, clients) ==
    {m \in Msg : m.call # None /\ Spoken(m, calls, clients) /\ (m.type = "incoming" => Rung(u, calls, m.call))}
Sents(u, calls, clients) ==
    {m \in Msg : m.call # None /\ Spoken(m, calls, clients) /\ (m.type = "invite" => Mine(u, calls, m.call))}

\* A client whose connections, negotiations and screen are about answered calls.
Sound(k, calls) ==
    /\ k \in Client
    /\ k.call # None => Busy(k)
    /\ \A c \in Ids : k.nego[c].at # "none" => Answered(calls, c) /\ (k.nego[c].pc = "kept" => k.call = c)
    /\ k.pc = "stable" => Answered(calls, k.call)
    /\ \A c \in k.stray : Answered(calls, c)
    /\ k.phase = "active" /\ k.stray = {} => Answered(calls, k.call)

\* It dials calls of its own, which it does not show, and while it waits for an answer
\* it has no description of anybody.
Asks(u, k, calls) ==
    /\ \A c \in Ids : k.dial[c] # "none" => Mine(u, calls, c) /\ k.call # c
    /\ k.phase = "outgoing" =>
          /\ k.call # None => Mine(u, calls, k.call)
          /\ k.pc # "stable" /\ \A c \in Ids : k.nego[c].at # "none" => k.nego[c].pc # "kept"
    /\ u \in Webs => \A c \in Ids : k.dial[c] = "ack" =>
          /\ k.call = None /\ k.phase \in {"outgoing", "active"}
          /\ \A d \in Ids : k.dial[d] = "ack" => d = c

TalkInv ==
    /\ TypeOK
    /\ \A u \in Clients :
          /\ Sound(client[u], call) /\ Asks(u, client[u], call)
          /\ \A c \in Ids : client[u].nego[c].at # "none" => Settled(client, c)
          /\ inbox[u] \in Seq(Heards(u, call, client))
          /\ outbox[u] \in Seq(Sents(u, call, client))
          /\ notified[u] # None => Rung(u, call, notified[u])
    /\ \A c \in Ids : /\ call[c].status = "accepted" => call[c].answered
                      /\ call[c].answered => call[c].status # "none"
-----------------------------------------------------------------------------
(***************************************************************************)
(* How a page learns of a call and of its end.                             *)
(***************************************************************************)
Learns == {"incoming", "ack"}
Overs == {"rejected", "cancelled", "busy", "missed", "ended"}
HangUps == {"reject", "cancel", "end"}

\* The i-th event of q is about c and of one of these types.
Says(q, i, types, c) == q[i].type \in types /\ q[i].call = c
Holds(q, types, c) == \E i \in 1..Len(q) : Says(q, i, types, c)

Dialling(k, c) == k.dial[c] \in {"ack", "stale", "cancelled"}

\* A page learns of a call once; what it shows, or has hung up, it has learnt of
\* already, and what it has hung up it does not show.
Once(in, c) ==
    \A i \in 1..Len(in), j \in 1..Len(in) : Says(in, i, Learns, c) /\ Says(in, j, Learns, c) => i = j

Learnt(k, in, out, c) ==
    /\ Once(in, c)
    /\ Holds(in, Learns, c) => k.call # c /\ ~Holds(out, HangUps, c)
    /\ Holds(out, HangUps, c) => k.call # c
    /\ Holds(in, {"ack"}, c) => Dialling(k, c)

\* Nobody knows of a call that was not invited to, but the page that is about to.
Fresh(k, in, out, c) ==
    /\ k.call # c /\ ~Holds(in, Learns, c) /\ ~Holds(out, HangUps, c)
    /\ Holds(out, {"invite"}, c) => Dialling(k, c)

\* Of a call that is over the page is told after it learns of it, or has been told
\* before the ack that the line is busy.
Later(in, i, c) == \E j \in 1..Len(in) : j > i /\ Says(in, j, Overs, c)
Before(in, i, c) == \E j \in 1..Len(in) : j < i /\ Says(in, j, {"busy"}, c)

After(in, c) == \A i \in 1..Len(in) : Says(in, i, {"incoming"}, c) => Later(in, i, c)
AckTold(in, c) == \A i \in 1..Len(in) : Says(in, i, {"ack"}, c) => Later(in, i, c) \/ Before(in, i, c)

Told(k, in, c) ==
    /\ k.call = c => Holds(in, Overs, c)
    /\ After(in, c)
    /\ k.dial[c] = "ack" => AckTold(in, c)

PageInv(k, in, out, calls) ==
    \A c \in Ids :
       /\ Learnt(k, in, out, c)
       /\ calls[c].status \in {"none", "dialled"} => Fresh(k, in, out, c)
       /\ calls[c].status = "over" => Told(k, in, c)

EndInv == \A u \in Webs : online[u] /\ PageInv(client[u], inbox[u], outbox[u], call)
-----------------------------------------------------------------------------
(***************************************************************************)
(* Sequences of events.                                                    *)
(***************************************************************************)
LEMMA Tails ==
    ASSUME NEW S, NEW q \in Seq(S), q # <<>>
    PROVE  /\ Len(q) \in Nat \ {0} /\ Head(q) = q[1] /\ Head(q) \in S
           /\ Tail(q) \in Seq(S) /\ Len(Tail(q)) = Len(q) - 1
           /\ \A i \in 1..Len(Tail(q)) : i + 1 \in 1..Len(q) /\ Tail(q)[i] = q[i + 1]
  OBVIOUS

LEMMA Concats ==
    ASSUME NEW S, NEW p \in Seq(S), NEW q \in Seq(S)
    PROVE  /\ p \o q \in Seq(S) /\ Len(p \o q) = Len(p) + Len(q)
           /\ \A i \in 1..Len(p) : (p \o q)[i] = p[i]
           /\ \A i \in 1..Len(q) : (p \o q)[Len(p) + i] = q[i]
  OBVIOUS

LEMMA Widened ==
    ASSUME NEW S, NEW T, S \subseteq T, NEW q \in Seq(S)
    PROVE  q \in Seq(T)
  OBVIOUS

\* An event about no call is not sent.
LEMMA Events ==
    ASSUME NEW S, NEW type, NEW c, c # None => [type |-> type, call |-> c] \in S
    PROVE  Event(type, c) \in Seq(S)
  BY DEF Event
-----------------------------------------------------------------------------
(***************************************************************************)
(* Calls grow older, and a call that is settled stays so.                  *)
(***************************************************************************)
LEMMA Numbers ==
    /\ Ids \subseteq Nat \ {0} /\ None \notin Ids /\ None = 0
    /\ MaxCalls \in Nat \ {0} /\ MaxDrops \in Nat
  BY CallSignalsAssumption DEF Ids, None

LEMMA OfTwo ==
    ASSUME NEW u \in Clients
    PROVE  /\ Other(u) \in Clients /\ Other(u) # u /\ Other(Other(u)) = u
           /\ \A v \in Clients : v = u \/ v = Other(u)
  <1>1. ASSUME NEW w \in Clients
        PROVE  /\ Other(w) \in Clients /\ Other(w) # w
               /\ \A v \in Clients : v = w \/ v = Other(w)
    <2>1. PICK v \in Clients : Clients = {w, v} /\ w # v
      <3>1. PICK x \in Clients, y \in Clients : Clients = {x, y} /\ x # y
        BY CallSignalsAssumption
      <3>2. QED
        BY <3>1
    <2>2. Other(w) = v
      BY <2>1 DEF Other
    <2>3. QED
      BY <2>1, <2>2
  <1>2. Other(u) \in Clients /\ Other(u) # u
    BY <1>1
  <1>3. Other(Other(u)) \in Clients /\ Other(Other(u)) # Other(u)
    BY <1>1, <1>2
  <1>4. QED
    BY <1>1, <1>2, <1>3

CallType ==
    [Ids -> [caller : Clients, status : {"none", "dialled", "ringing", "accepted", "over"}, answered : BOOLEAN]]

\* A call that was answered was accepted, and made.
Taken(calls) ==
    \A c \in Ids : /\ calls[c].status = "accepted" => calls[c].answered
                   /\ calls[c].answered => calls[c].status # "none"

\* A call stays made, by the same caller, and answered.
Grows(calls, then) ==
    /\ then \in CallType /\ Taken(then)
    /\ \A c \in Ids : /\ calls[c].answered => then[c].answered
                      /\ Made(calls, c) => Made(then, c) /\ then[c].caller = calls[c].caller

\* Nobody begins to dial a call that was made.
Steady(k, x, calls) == \A c \in Ids : Made(calls, c) /\ Loose(x, c) => Loose(k, c)

LEMMA Growing ==
    ASSUME NEW calls, NEW then, Taken(calls), Grows(calls, then),
           NEW clients, NEW news, \A v \in Clients : Steady(clients[v], news[v], calls), NEW u
    PROVE  /\ \A c \in Ids : Made(calls, c) /\ Settled(clients, c) => Settled(news, c)
           /\ Heards(u, calls, clients) \subseteq Heards(u, then, news)
           /\ Sents(u, calls, clients) \subseteq Sents(u, then, news)
           /\ \A k : Sound(k, calls) => Sound(k, then)
           /\ \A k : Asks(u, k, calls) => Asks(u, k, then)
  <1>1. \A c : Answered(calls, c) => Answered(then, c) /\ Made(calls, c)
    BY DEF Answered, Made, Taken, Grows
  <1>2. \A c : /\ Mine(u, calls, c) => Mine(u, then, c)
               /\ Rung(u, calls, c) => Rung(u, then, c)
    BY DEF Mine, Rung, Made, Grows
  <1>3. \A c \in Ids : Made(calls, c) /\ Settled(clients, c) => Settled(news, c)
    BY DEF Settled, Steady
  <1>4. \A c : Made(calls, c) => c \in Ids
    BY DEF Made
  <1>5. \A m : Spoken(m, calls, clients) => Spoken(m, then, news)
    BY <1>1, <1>3, <1>4 DEF Spoken, Talk
  <1>6. \A k : Sound(k, calls) => Sound(k, then)
    BY <1>1 DEF Sound
  <1>7. \A k : Asks(u, k, calls) => Asks(u, k, then)
    BY <1>2 DEF Asks
  <1>8. Heards(u, calls, clients) \subseteq Heards(u, then, news)
    BY <1>2, <1>5 DEF Heards
  <1>9. Sents(u, calls, clients) \subseteq Sents(u, then, news)
    BY <1>2, <1>5 DEF Sents
  <1>10. QED
    BY <1>3, <1>6, <1>7, <1>8, <1>9

LEMMA Typed ==
    ASSUME TalkInv
    PROVE  /\ client \in [Clients -> Client] /\ call \in CallType /\ Taken(call)
           /\ inbox \in [Clients -> Seq(Msg)] /\ outbox \in [Clients -> Seq(Msg)]
           /\ online \in [Clients -> BOOLEAN] /\ notified \in [Clients -> Ids \cup {None}]
           /\ drops \in 0..MaxDrops
  BY DEF TalkInv, TypeOK, CallType, Taken

LEMMA Ages ==
    ASSUME TalkInv
    PROVE  Grows(call, call) /\ \A k : Steady(k, k, call)
  BY Typed DEF Grows, Steady

\* What is to be shown of a step.
LEMMA Keeps ==
    ASSUME TalkInv, Grows(call, call'), client' \in [Clients -> Client],
           inbox' \in [Clients -> Seq(Msg)], outbox' \in [Clients -> Seq(Msg)],
           online' \in [Clients -> BOOLEAN], notified' \in [Clients -> Ids \cup {None}], drops' \in 0..MaxDrops,
           \A v \in Clients :
              /\ Sound(client'[v], call') /\ Asks(v, client'[v], call')
              /\ \A c \in Ids : client'[v].nego[c].at # "none" => Settled(client', c)
              /\ inbox'[v] \in Seq(Heards(v, call', client'))
              /\ outbox'[v] \in Seq(Sents(v, call', client'))
              /\ notified'[v] # None => Rung(v, call', notified'[v])
    PROVE  TalkInv'
  <1>1. \A v \in Clients : client'[v].call # None => Busy(client'[v])
    BY DEF Sound
  <1>2. TypeOK'
    BY <1>1 DEF TypeOK, Grows, CallType
  <1>3. \A c \in Ids : /\ call'[c].status = "accepted" => call'[c].answered
                       /\ call'[c].answered => call'[c].status # "none"
    BY DEF Grows, Taken
  <1>4. QED
    BY <1>2, <1>3 DEF TalkInv
-----------------------------------------------------------------------------
(***************************************************************************)
(* What a step of one client comes to.                                     *)
(***************************************************************************)
Moves(u, k, es) ==
    /\ client' = [client EXCEPT ![u] = k]
    /\ outbox' = [outbox EXCEPT ![u] = @ \o es]
    /\ \/ inbox' = inbox
       \/ inbox[u] # <<>> /\ inbox' = [inbox EXCEPT ![u] = Tail(@)]
    /\ UNCHANGED online

\* A client as it should be after a step: what it negotiates is settled, or it was the
\* last to dial it.
Fits(u, x, calls, then, clients) ==
    /\ Sound(x, calls) /\ Asks(u, x, then) /\ Steady(clients[u], x, calls)
    /\ \A c \in Ids : x.nego[c].at # "none" =>
          Settled(clients, c) \/ (~Loose(x, c) /\ ~Loose(clients[Other(u)], c))

LEMMA MovesKeep ==
    ASSUME TalkInv, NEW u \in Clients, NEW k, NEW es, Moves(u, k, es),
           Grows(call, call'), Fits(u, k, call, call', client), es \in Seq(Sents(u, call, client)),
           notified' \in [Clients -> Ids \cup {None}],
           \A v \in Clients : notified'[v] # None => Rung(v, call, notified'[v]),
           UNCHANGED drops
    PROVE  TalkInv'
  <1>1. k \in Client /\ client'[u] = k /\ \A v \in Clients : v # u => client'[v] = client[v]
    BY Typed DEF Moves, Fits, Sound
  <1>2. client' \in [Clients -> Client]
    BY <1>1, Typed DEF Moves
  <1>3. \A v \in Clients : Steady(client[v], client'[v], call)
    BY <1>1 DEF Fits, Steady
  <1>4. ASSUME NEW v \in Clients
        PROVE  /\ \A c \in Ids : Made(call, c) /\ Settled(client, c) => Settled(client', c)
               /\ Heards(v, call, client) \subseteq Heards(v, call', client')
               /\ Sents(v, call, client) \subseteq Sents(v, call', client')
               /\ \A x : Sound(x, call) => Sound(x, call')
               /\ \A x : Asks(v, x, call) => Asks(v, x, call')
    <2>1. Taken(call) /\ Grows(call, call')
      BY Typed
    <2>2. QED
      BY ONLY <1>3, <2>1, Growing
  <1>5. ASSUME NEW v \in Clients PROVE inbox'[v] \in Seq(Heards(v, call', client')) /\ inbox'[v] \in Seq(Msg)
    <2>1. inbox[v] \in Seq(Heards(v, call, client)) /\ inbox \in [Clients -> Seq(Msg)]
      BY Typed DEF TalkInv
    <2>2. inbox[v] # <<>> => Tail(inbox[v]) \in Seq(Heards(v, call, client))
      BY <2>1, Tails
    <2>3. inbox'[v] \in Seq(Heards(v, call, client))
      BY <2>1, <2>2 DEF Moves
    <2>4. Heards(v, call', client') \subseteq Msg
      BY DEF Heards
    <2>5. inbox'[v] \in Seq(Heards(v, call', client'))
      BY <1>4, <2>3, Widened
    <2>6. QED
      BY <2>4, <2>5, Widened
  <1>6. ASSUME NEW v \in Clients PROVE outbox'[v] \in Seq(Sents(v, call', client')) /\ outbox'[v] \in Seq(Msg)
    <2>1. outbox[v] \in Seq(Sents(v, call, client)) /\ outbox \in [Clients -> Seq(Msg)]
      BY Typed DEF TalkInv
    <2>2. v = u => outbox[v] \o es \in Seq(Sents(v, call, client))
      BY <2>1, Concats
    <2>3. outbox'[v] \in Seq(Sents(v, call, client))
      BY <2>1, <2>2 DEF Moves
    <2>4. Sents(v, call', client') \subseteq Msg
      BY DEF Sents
    <2>5. outbox'[v] \in Seq(Sents(v, call', client'))
      BY <1>4, <2>3, Widened
    <2>6. QED
      BY <2>4, <2>5, Widened
  <1>7. ASSUME NEW v \in Clients
        PROVE  /\ Sound(client'[v], call') /\ Asks(v, client'[v], call')
               /\ \A c \in Ids : client'[v].nego[c].at # "none" => Settled(client', c)
    <2>1. CASE v # u
      <3>1. Sound(client[v], call) /\ Asks(v, client[v], call) /\ client'[v] = client[v]
        BY <1>1, <2>1 DEF TalkInv
      <3>2. \A c \in Ids : client[v].nego[c].at # "none" => Settled(client, c) /\ Made(call, c)
        BY <3>1, Typed DEF TalkInv, Sound, Answered, Made, Taken
      <3>3. QED
        BY <1>4, <3>1, <3>2
    <2>2. CASE v = u
      <3>1. Sound(k, call) /\ Sound(k, call') /\ Asks(u, k, call')
        BY <1>4 DEF Fits
      <3>2. ASSUME NEW c \in Ids, k.nego[c].at # "none" PROVE Settled(client', c)
        <4>1. CASE ~Loose(k, c) /\ ~Loose(client[Other(u)], c)
          BY <1>1, <4>1, OfTwo DEF Settled
        <4>2. CASE Settled(client, c)
          <5>1. Made(call, c)
            BY <3>1, <3>2, Typed DEF Sound, Answered, Made, Taken
          <5>2. QED
            BY <1>4, <2>2, <4>2, <5>1
        <4>3. QED
          BY <3>2, <4>1, <4>2 DEF Fits
      <3>3. QED
        BY <1>1, <2>2, <3>1, <3>2
    <2>3. QED
      BY <2>1, <2>2
  <1>8. \A v \in Clients : notified'[v] # None => Rung(v, call', notified'[v])
    BY DEF Rung, Made, Grows
  <1>9. /\ inbox' \in [Clients -> Seq(Msg)] /\ outbox' \in [Clients -> Seq(Msg)]
        /\ online' \in [Clients -> BOOLEAN] /\ drops' \in 0..MaxDrops
    BY <1>5, <1>6, Typed DEF Moves
  <1>10. QED
    BY <1>2, <1>5, <1>6, <1>7, <1>8, <1>9, Keeps

LEMMA Silent ==
    ASSUME TalkInv, UNCHANGED outbox, NEW u \in Clients
    PROVE  /\ outbox' = [outbox EXCEPT ![u] = @ \o <<>>]
           /\ <<>> \in Seq(Sents(u, call, client))
  <1>1. outbox \in [Clients -> Seq(Msg)]
    BY Typed
  <1>2. outbox[u] \o <<>> = outbox[u]
    BY <1>1
  <1>3. QED
    BY <1>1, <1>2

\* The events a client sends of its own accord.
LEMMA Sendable ==
    ASSUME NEW u, NEW type, NEW c \in Ids \cup {None}
    PROVE  /\ type \in {"accept", "reject", "cancel", "end"} => Event(type, c) \in Seq(Sents(u, call, client))
           /\ type \in {"offer", "answer"} /\ Answered(call, c) /\ Settled(client, c) =>
                 Event(type, c) \in Seq(Sents(u, call, client))
           /\ Mine(u, call, c) => <<[type |-> "invite", call |-> c]>> \in Seq(Sents(u, call, client))
  <1>1. ASSUME type \in {"accept", "reject", "cancel", "end"}, c # None
        PROVE  [type |-> type, call |-> c] \in Sents(u, call, client)
    BY <1>1 DEF Sents, Msg, Spoken, Talk
  <1>2. ASSUME type \in {"offer", "answer"}, Answered(call, c), Settled(client, c), c # None
        PROVE [type |-> type, call |-> c] \in Sents(u, call, client)
    BY <1>2 DEF Sents, Msg, Spoken, Talk
  <1>3. ASSUME Mine(u, call, c) PROVE [type |-> "invite", call |-> c] \in Sents(u, call, client)
    BY <1>3, Numbers DEF Sents, Msg, Spoken, Talk, Mine, Made
  <1>4. QED
    BY <1>1, <1>2, <1>3, Events

LEMMA Hearing ==
    ASSUME TalkInv, NEW u \in Clients, NEW type, Hears(u, type)
    PROVE  /\ inbox[u] # <<>> /\ inbox' = [inbox EXCEPT ![u] = Tail(@)] /\ Head(inbox[u]).type = type
           /\ Heard(u) \in Ids /\ Heard(u) # None
           /\ type \in Talk => Answered(call, Heard(u))
           /\ type \in {"offer", "answer"} => Settled(client, Heard(u))
           /\ type = "incoming" => Rung(u, call, Heard(u))
  <1>1. inbox[u] \in Seq(Heards(u, call, client)) /\ inbox[u] # <<>> /\ Head(inbox[u]).type = type
    BY DEF Hears, TalkInv
  <1>2. Head(inbox[u]) \in Heards(u, call, client)
    BY <1>1, Tails
  <1>3. QED
    BY <1>1, <1>2 DEF Hears, Heard, Heards, Spoken, Msg

\* The facts about a client that the steps below start from.
LEMMA Begins ==
    ASSUME TalkInv, NEW u \in Clients
    PROVE  /\ client[u] \in Client /\ Sound(client[u], call) /\ Asks(u, client[u], call)
           /\ \A c \in Ids : client[u].nego[c].at # "none" => Settled(client, c) /\ Answered(call, c)
  <1>1. client[u] \in Client /\ Sound(client[u], call) /\ Asks(u, client[u], call)
    BY Typed DEF TalkInv
  <1>2. QED
    BY <1>1 DEF TalkInv, Sound

\* A step that changes nothing of what a client shows, dials and negotiates.
LEMMA Alike ==
    ASSUME TalkInv, NEW u \in Clients, NEW x \in Client,
           x.phase = client[u].phase, x.call = client[u].call, x.dial = client[u].dial,
           x.stray = client[u].stray, x.pc \in {client[u].pc, "none", "new", "offered"},
           \/ x.nego = client[u].nego
           \/ \E c \in Ids : x.nego = [client[u].nego EXCEPT ![c] = Quiet]
    PROVE  Fits(u, x, call, call, client)
  <1>1. /\ client[u] \in Client /\ Sound(client[u], call) /\ Asks(u, client[u], call)
        /\ \A c \in Ids : client[u].nego[c].at # "none" => Settled(client, c) /\ Answered(call, c)
    BY Begins
  <1>2. \A c \in Ids : x.nego[c] = client[u].nego[c] \/ x.nego[c].at = "none"
    BY <1>1 DEF Client, Quiet
  <1>3. Sound(x, call)
    BY <1>1, <1>2 DEF Sound, Busy
  <1>4. Asks(u, x, call)
    BY <1>1, <1>2 DEF Asks
  <1>5. QED
    BY <1>1, <1>2, <1>3, <1>4 DEF Fits, Steady, Loose

\* A client that has left its call, whatever its functions still await.
Less(y, k) ==
    /\ y \in Client /\ y.stray \subseteq k.stray
    /\ \A c \in Ids : /\ y.nego[c].at # "none" => k.nego[c].at # "none"
                      /\ y.dial[c] # "none" => k.dial[c] # "none"

LEMMA Apart ==
    ASSUME TalkInv, NEW u \in Clients, NEW x, Less(x, client[u]),
           x.phase \in {"idle", "ended"}, x.call = None, x.pc = "none",
           \A c \in Ids : x.nego[c].at # "none" => x.nego[c].pc # "kept",
           u \in Webs => \A c \in Ids : x.dial[c] # "ack"
    PROVE  Fits(u, x, call, call, client)
  <1>1. /\ client[u] \in Client /\ Sound(client[u], call) /\ Asks(u, client[u], call)
        /\ \A c \in Ids : client[u].nego[c].at # "none" => Settled(client, c) /\ Answered(call, c)
    BY Begins
  <1>2. Sound(x, call)
    BY <1>1 DEF Less, Sound
  <1>3. \A c \in Ids : x.dial[c] # "none" => Mine(u, call, c) /\ x.call # c
    BY <1>1, Numbers DEF Asks, Less
  <1>4. Asks(u, x, call)
    BY <1>3 DEF Asks
  <1>5. Steady(client[u], x, call)
    BY DEF Steady, Loose, Less
  <1>6. QED
    BY <1>1, <1>2, <1>4, <1>5 DEF Fits, Less

LEMMA Leaving ==
    ASSUME NEW nego \in [Ids -> Negotiation], NEW fate \in {"closed", "lost"}
    PROVE  /\ Left(nego, fate) \in [Ids -> Negotiation]
           /\ \A c \in Ids : /\ Left(nego, fate)[c].at = nego[c].at
                             /\ nego[c].at # "none" => Left(nego, fate)[c].pc # "kept"
  <1> DEFINE m == Left(nego, fate)
  <1>1. \A c \in Ids : m[c] = IF nego[c].at # "none" /\ nego[c].pc = "kept" THEN [nego[c] EXCEPT !.pc = fate]
                              ELSE nego[c]
    BY DEF Left
  <1>2. m = [c \in Ids |-> m[c]]
    BY DEF Left
  <1> HIDE DEF m
  <1>3. ASSUME NEW c \in Ids
        PROVE  /\ m[c] \in Negotiation /\ m[c].at = nego[c].at
               /\ nego[c].at # "none" => m[c].pc # "kept"
    <2>1. nego[c] \in Negotiation
      OBVIOUS
    <2>2. CASE nego[c].at # "none" /\ nego[c].pc = "kept"
      BY <1>1, <2>1, <2>2 DEF Negotiation
    <2>3. CASE ~(nego[c].at # "none" /\ nego[c].pc = "kept")
      BY <1>1, <2>1, <2>3 DEF Negotiation
    <2>4. QED
      BY <2>2, <2>3
  <1>4. m \in [Ids -> Negotiation]
    BY <1>2, <1>3
  <1>5. QED
    BY <1>3, <1>4 DEF m
-----------------------------------------------------------------------------
(***************************************************************************)
(* The steps of a page.                                                    *)
(***************************************************************************)
LEMMA Torn ==
    ASSUME NEW k \in Client
    PROVE  \A x \in {WebIdle(k), WebFinished(k)} :
              /\ x \in Client /\ x.phase \in {"idle", "ended"} /\ x.call = None /\ x.pc = "none"
              /\ x.stray = k.stray
              /\ \A c \in Ids : /\ x.nego[c].at = k.nego[c].at
                                /\ x.nego[c].at # "none" => x.nego[c].pc # "kept"
                                /\ x.dial[c] = IF k.dial[c] = "ack" THEN "stale" ELSE k.dial[c]
  <1> DEFINE d == WebDown(k)
             e == Superseded(k.dial)
             m == Left(k.nego, "closed")
             a == [c \in Ids |-> "none"]
  <1>1. /\ k.nego \in [Ids -> Negotiation]
        /\ k.dial \in [Ids -> {"none", "media", "peer", "ack", "stale", "cancelled"}]
    BY DEF Client
  <1>2. /\ e \in [Ids -> {"none", "media", "peer", "ack", "stale", "cancelled"}]
        /\ \A c \in Ids : e[c] = IF k.dial[c] = "ack" THEN "stale" ELSE k.dial[c]
    BY <1>1 DEF Superseded
  <1>3. /\ m \in [Ids -> Negotiation]
        /\ \A c \in Ids : m[c].at = k.nego[c].at /\ (m[c].at # "none" => m[c].pc # "kept")
    BY <1>1, Leaving
  <1>4. d = [k EXCEPT !.cam = FALSE, !.pc = "none", !.watch = FALSE, !.call = None,
                      !.dial = e, !.ans = a, !.nego = m]
    BY DEF WebDown
  <1>5. a \in [Ids -> {"none", "media", "peer"}]
    OBVIOUS
  <1> HIDE DEF d, e, m, a
  <1>6. d \in Client /\ d.call = None /\ d.pc = "none" /\ d.stray = k.stray /\ d.dial = e /\ d.nego = m
    <2>1. d.call = None /\ d.pc = "none" /\ d.stray = k.stray /\ d.dial = e /\ d.nego = m
      BY <1>4 DEF Client
    <2>2. d \in Client
      BY <1>2, <1>3, <1>4, <1>5 DEF Client
    <2>3. QED
      BY <2>1, <2>2
  <1>7. ASSUME NEW x \in {WebIdle(k), WebFinished(k)}
        PROVE  /\ x \in Client /\ x.phase \in {"idle", "ended"}
               /\ x.call = None /\ x.pc = "none" /\ x.stray = k.stray /\ x.dial = e /\ x.nego = m
    <2>1. CASE x = WebIdle(k)
      <3>1. x = [d EXCEPT !.phase = "idle", !.close = FALSE]
        BY <2>1 DEF d, WebIdle
      <3>2. QED
        BY <1>6, <3>1 DEF Client
    <2>2. CASE x = WebFinished(k)
      <3>1. x = [d EXCEPT !.phase = "ended", !.close = TRUE]
        BY <2>2 DEF d, WebFinished
      <3>2. QED
        BY <1>6, <3>1 DEF Client
    <2>3. QED
      BY <2>1, <2>2
  <1>8. QED
    BY <1>2, <1>3, <1>7

LEMMA PageDown ==
    ASSUME TalkInv, NEW u \in Clients, NEW y, Less(y, client[u]), NEW x \in {WebIdle(y), WebFinished(y)}
    PROVE  Fits(u, x, call, call, client)
  <1>1. y \in Client
    BY DEF Less
  <1>2. /\ x \in Client /\ x.phase \in {"idle", "ended"} /\ x.call = None /\ x.pc = "none" /\ x.stray = y.stray
        /\ \A c \in Ids : /\ x.nego[c].at = y.nego[c].at
                          /\ x.nego[c].at # "none" => x.nego[c].pc # "kept"
                          /\ x.dial[c] = IF y.dial[c] = "ack" THEN "stale" ELSE y.dial[c]
    BY <1>1, Torn
  <1>3. Less(x, client[u]) /\ \A c \in Ids : x.dial[c] # "ack"
    BY <1>2 DEF Less
  <1>4. QED
    BY <1>2, <1>3, Apart

\* What a client does apart from dialling.
LEMMA Steps ==
    ASSUME TalkInv, NEW u \in Clients, NEW x, NEW es, Moves(u, x, es), Fits(u, x, call, call, client),
           es \in Seq(Sents(u, call, client)), UNCHANGED <<call, drops>>,
           UNCHANGED notified \/ notified' = [notified EXCEPT ![u] = None]
    PROVE  TalkInv'
  <1>1. Grows(call, call') /\ Fits(u, x, call, call', client)
    BY Ages DEF Fits
  <1>2. /\ notified' \in [Clients -> Ids \cup {None}]
        /\ \A v \in Clients : notified'[v] # None => Rung(v, call, notified'[v])
    <2>1. notified \in [Clients -> Ids \cup {None}] /\ \A v \in Clients : notified[v] # None => Rung(v, call, notified[v])
      BY Typed DEF TalkInv
    <2>2. QED
      BY <2>1
  <1>3. QED
    BY <1>1, <1>2, MovesKeep

LEMMA DoesTalk ==
    ASSUME TalkInv, NEW u \in Clients, NEW x, NEW es, Become(u, x), Sends(u, es), UNCHANGED <<inbox, netVars>>,
           Fits(u, x, call, call, client), es \in Seq(Sents(u, call, client)),
           UNCHANGED notified \/ notified' = [notified EXCEPT ![u] = None]
    PROVE  TalkInv'
  <1>1. Moves(u, x, es) /\ UNCHANGED <<call, drops>>
    BY DEF Moves, Become, Sends, netVars
  <1>2. QED
    BY <1>1, Steps

LEMMA DoesSilently ==
    ASSUME TalkInv, NEW u \in Clients, NEW x, Become(u, x), UNCHANGED <<inbox, outbox, netVars>>,
           Fits(u, x, call, call, client),
           UNCHANGED notified \/ notified' = [notified EXCEPT ![u] = None]
    PROVE  TalkInv'
  <1>1. /\ Moves(u, x, <<>>) /\ <<>> \in Seq(Sents(u, call, client))
        /\ UNCHANGED <<call, drops>>
    BY Silent DEF Moves, Become, netVars
  <1>2. QED
    BY <1>1, Steps

LEMMA HearsTalk ==
    ASSUME TalkInv, NEW u \in Clients, NEW x, NEW type, NEW es, Hears(u, type), Become(u, x),
           Sends(u, es) \/ (UNCHANGED outbox /\ es = <<>>), UNCHANGED netVars,
           Fits(u, x, call, call, client), es \in Seq(Sents(u, call, client)),
           UNCHANGED notified \/ notified' = [notified EXCEPT ![u] = None]
    PROVE  TalkInv'
  <1>1. outbox' = [outbox EXCEPT ![u] = @ \o es]
    BY Silent DEF Sends
  <1>2. Moves(u, x, es) /\ UNCHANGED <<call, drops>>
    BY <1>1, Hearing DEF Moves, Become, netVars
  <1>3. QED
    BY <1>2, Steps

LEMMA Dialing ==
    ASSUME TalkInv, NEW u \in Clients, NEW c \in Ids, Dials(u, c)
    PROVE  /\ Grows(call, call') /\ ~Made(call, c) /\ Mine(u, call', c)
           /\ \A k : Asks(u, k, call) => Asks(u, k, call')
  <1>1. call \in CallType /\ Taken(call)
    BY Typed
  <1>2. /\ call' = [call EXCEPT ![c].caller = u, ![c].status = "dialled"]
        /\ call[c].status = "none" /\ ~call[c].answered
    BY <1>1 DEF Dials, Taken
  <1>3. call' \in CallType
    BY <1>1, <1>2 DEF CallType
  <1>4. /\ call'[c].caller = u /\ call'[c].status = "dialled" /\ ~call'[c].answered
        /\ \A d \in Ids : d # c => call'[d] = call[d]
    BY <1>1, <1>2 DEF CallType
  <1>5. Grows(call, call') /\ ~Made(call, c) /\ Mine(u, call', c)
    BY <1>1, <1>2, <1>3, <1>4 DEF Grows, Taken, Made, Mine
  <1>6. \A k : Asks(u, k, call) => Asks(u, k, call')
    BY <1>5 DEF Asks, Mine, Made, Grows
  <1>7. QED
    BY <1>5, <1>6

LEMMA PageTalks ==
    ASSUME TalkInv, NEW u \in Webs,
           \/ WebUser(u) \/ WebHears(u) \/ WebResumes(u)
           \/ WebGivesUp(u) \/ WebCloses(u)
           \/ WebConnects(u) /\ Held(client[u]) # {}
           \/ \E c \in Ids : WebLosesMedia(u, c)
    PROVE  TalkInv'
  <1> DEFINE k == client[u]
             Right(x) == Fits(u, x, call, call, client)
             Said == Seq(Sents(u, call, client))
  <1>0. u \in Clients /\ u \notin Phones
    BY CallSignalsAssumption DEF Clients
  <1>1. /\ k \in Client /\ Sound(k, call) /\ Asks(u, k, call) /\ k.call \in Ids \cup {None}
        /\ \A c \in Ids : k.nego[c].at # "none" => Settled(client, c) /\ Answered(call, c)
        /\ \A c \in Ids : ~Made(call, c) => ~Answered(call, c)
        /\ ~Answered(call, None)
    BY <1>0, Begins, Typed, Numbers DEF Client, Taken, Answered, Made
  <1>2. k.dial \in [Ids -> {"none", "media", "peer", "ack", "stale", "cancelled"}]
        /\ k.ans \in [Ids -> {"none", "media", "peer"}] /\ k.nego \in [Ids -> Negotiation]
        /\ k.stray \in SUBSET Ids
    BY <1>1 DEF Client
  <1>3. Less(k, k)
    BY <1>1 DEF Less
  <1>4. Right(k)
    BY <1>0, <1>1, Alike
  <1>5. ASSUME NEW x, Less(x, k) PROVE Right(WebIdle(x)) /\ Right(WebFinished(x))
    BY <1>0, <1>5, PageDown
  <1>6. ASSUME NEW c \in Ids \cup {None}, NEW type \in {"accept", "reject", "cancel", "end"}
        PROVE  Event(type, c) \in Said
    BY Sendable
  <1>7. <<>> \in Said
    OBVIOUS
  <1>8. ASSUME NEW c \in Ids
        PROVE  LET done == [k EXCEPT !.nego[c] = Quiet] IN
               /\ done \in Client /\ Less(done, k) /\ Right(done)
               /\ done.nego = [k.nego EXCEPT ![c] = Quiet]
               /\ done.phase = k.phase /\ done.call = k.call /\ done.dial = k.dial
               /\ done.stray = k.stray /\ done.pc = k.pc
    <2> DEFINE done == [k EXCEPT !.nego[c] = Quiet]
    <2>1. Quiet \in Negotiation /\ Quiet.at = "none"
      BY DEF Quiet, Negotiation
    <2>2. /\ done.nego = [k.nego EXCEPT ![c] = Quiet] /\ done.nego \in [Ids -> Negotiation]
          /\ done.phase = k.phase /\ done.call = k.call /\ done.dial = k.dial
          /\ done.stray = k.stray /\ done.pc = k.pc /\ done \in Client
      BY <1>1, <1>2, <2>1 DEF Client
    <2> HIDE DEF done
    <2>3. Less(done, k)
      BY <1>2, <2>1, <2>2 DEF Less
    <2>4. Right(done)
      BY <1>0, <2>2, Alike
    <2>5. QED
      BY <2>2, <2>3, <2>4 DEF done
  <1>9. ASSUME NEW c \in Ids, NEW d \in {"none", "media", "ack"}
        PROVE  /\ [k EXCEPT !.dial[c] = d] \in Client
               /\ d = "none" => Less([k EXCEPT !.dial[c] = d], k)
    BY <1>1, <1>2 DEF Less, Client
  <1>10. ASSUME WebDial(u) PROVE TalkInv'
    <2>1. PICK c \in Ids : Dials(u, c) /\ Become(u, [k EXCEPT !.dial[c] = "media", !.close = FALSE])
      BY <1>10 DEF WebDial
    <2> DEFINE x == [k EXCEPT !.dial[c] = "media", !.close = FALSE]
    <2>2. /\ x \in Client /\ x.phase = k.phase /\ x.call = k.call /\ x.stray = k.stray
          /\ x.pc = k.pc /\ x.nego = k.nego /\ x.dial = [k.dial EXCEPT ![c] = "media"]
      BY <1>1, <1>2 DEF Client
    <2> HIDE DEF x
    <2>3. /\ Grows(call, call') /\ ~Made(call, c) /\ Mine(u, call', c)
          /\ Asks(u, k, call')
      BY <1>0, <1>1, <2>1, Dialing
    <2>4. k.call = None /\ ~Busy(k)
      BY <1>1, <1>10 DEF WebDial, Sound
    <2>5. Sound(x, call)
      BY <1>1, <2>2 DEF Sound, Busy
    <2>6. Asks(u, x, call')
      BY <1>2, <2>2, <2>3, <2>4, Numbers DEF Asks, Busy
    <2>7. Fits(u, x, call, call', client)
      BY <1>1, <1>2, <1>4, <2>2, <2>3, <2>5, <2>6 DEF Fits, Steady, Loose
    <2>8. Moves(u, x, <<>>) /\ UNCHANGED <<notified, drops>>
      BY <1>0, <1>10, <2>1, Silent DEF WebDial, Moves, Become, x
    <2>9. /\ notified' \in [Clients -> Ids \cup {None}]
          /\ \A v \in Clients : notified'[v] # None => Rung(v, call, notified'[v])
      BY <2>8, Typed DEF TalkInv
    <2>10. QED
      BY <1>0, <1>7, <2>3, <2>7, <2>8, <2>9, MovesKeep
  <1>11. ASSUME NEW c \in Ids, WebDialMedia(u, c) PROVE TalkInv'
    <2>0. k.dial[c] = "media" /\ Mine(u, call, c) /\ UNCHANGED <<inbox, notified, netVars>>
      BY <1>1, <1>11 DEF WebDialMedia, Asks
    <2>1. CASE Become(u, WebFinished([k EXCEPT !.dial[c] = "none"])) /\ UNCHANGED outbox
      BY <1>0, <1>5, <1>9, <2>0, <2>1, DoesSilently
    <2>2. CASE /\ Become(u, [WithCamera(Replaced(k, "none")) EXCEPT
                                !.phase = "outgoing", !.call = None, !.ans = [d \in Ids |-> "none"],
                                !.dial = [Superseded(@) EXCEPT ![c] = "ack"]])
               /\ Invites(u, c)
      <3> DEFINE a == [d \in Ids |-> "none"]
                 m == Left(k.nego, "lost")
                 e == [Superseded(k.dial) EXCEPT ![c] = "ack"]
                 x == [k EXCEPT !.cam = TRUE, !.pc = "none", !.stray = Held(k), !.nego = m,
                                !.phase = "outgoing", !.call = None, !.ans = a, !.dial = e]
      <3>1. /\ m \in [Ids -> Negotiation] /\ a \in [Ids -> {"none", "media", "peer"}]
            /\ \A d \in Ids : m[d].at = k.nego[d].at /\ (m[d].at # "none" => m[d].pc # "kept")
        BY <1>2, Leaving
      <3>2. /\ e \in [Ids -> {"none", "media", "peer", "ack", "stale", "cancelled"}]
            /\ \A d \in Ids : /\ e[d] = "ack" => d = c
                              /\ e[d] # "none" => k.dial[d] # "none"
        BY <1>2, <2>0 DEF Superseded
      <3>3. Become(u, x)
        <4>1. [WithCamera(Replaced(k, "none")) EXCEPT
                    !.phase = "outgoing", !.call = None, !.ans = [d \in Ids |-> "none"],
                    !.dial = [Superseded(@) EXCEPT ![c] = "ack"]] = x
          BY <1>1 DEF Client, WithCamera, Replaced
        <4>2. QED
          BY <2>2, <4>1
      <3>4. Held(k) \in SUBSET Ids /\ \A d \in Held(k) : Answered(call, d)
        BY <1>1, <1>2 DEF Held, Sound, Answered
      <3> HIDE DEF m, a, e
      <3>5. /\ x \in Client /\ x.phase = "outgoing" /\ x.call = None /\ x.pc = "none" /\ x.stray = Held(k)
            /\ x.nego = m /\ x.dial = e
        BY <1>1, <3>1, <3>2, <3>4 DEF Client
      <3> HIDE DEF x
      <3>6. Sound(x, call)
        BY <1>1, <3>1, <3>4, <3>5 DEF Sound
      <3>7. Asks(u, x, call)
        BY <1>0, <1>1, <3>1, <3>2, <3>5, Numbers DEF Asks
      <3>8. Right(x)
        BY <1>1, <3>1, <3>2, <3>5, <3>6, <3>7, Numbers DEF Fits, Steady, Loose
      <3>9. <<[type |-> "invite", call |-> c]>> \in Said
        BY <2>0, Sendable
      <3>10. Sends(u, <<[type |-> "invite", call |-> c]>>)
        BY <2>2 DEF Invites
      <3>11. QED
        BY <1>0, <2>0, <3>3, <3>8, <3>9, <3>10, DoesTalk
    <2>3. QED
      BY <1>11, <2>1, <2>2 DEF WebDialMedia
  <1>12. ASSUME WebAck(u) PROVE TalkInv'
    <2> DEFINE c == Heard(u)
               x == [k EXCEPT !.dial[c] = "none", !.call = IF k.dial[c] = "ack" THEN c ELSE @]
               es == IF k.dial[c] = "cancelled" THEN Event("cancel", c) ELSE <<>>
    <2>1. /\ c \in Ids /\ c # None /\ Hears(u, "ack") /\ Become(u, x) /\ Sends(u, es)
          /\ k.dial[c] # "none" /\ UNCHANGED <<notified, netVars>>
      BY <1>0, <1>12, Hearing DEF WebAck
    <2>2. es \in Said
      BY <1>6, <2>1
    <2> HIDE DEF c
    <2>3. /\ x \in Client /\ x.phase = k.phase /\ x.stray = k.stray /\ x.pc = k.pc /\ x.nego = k.nego
          /\ x.call = IF k.dial[c] = "ack" THEN c ELSE k.call
          /\ x.dial = [k.dial EXCEPT ![c] = "none"]
      BY <1>1, <1>2, <2>1 DEF Client
    <2> HIDE DEF x, es
    <2>4. Mine(u, call, c) /\ Made(call, c)
      BY <1>1, <2>1 DEF Asks, Mine
    <2>5. CASE k.dial[c] = "ack"
      <3>1. /\ k.call = None /\ k.phase \in {"outgoing", "active"}
            /\ \A d \in Ids : k.dial[d] = "ack" => d = c
        BY <1>0, <1>1, <2>1, <2>5 DEF Asks
      <3>2. /\ k.pc # "stable" /\ \A d \in Ids : k.nego[d].at # "none" => k.nego[d].pc # "kept"
            /\ k.phase = "active" => k.stray # {}
        BY <1>1, <3>1, Numbers DEF Sound
      <3>3. Sound(x, call)
        BY <1>1, <2>3, <2>5, <3>1, <3>2 DEF Sound, Busy
      <3>4. Asks(u, x, call)
        BY <1>0, <1>1, <1>2, <2>1, <2>3, <2>4, <2>5, <3>1, <3>2 DEF Asks
      <3>5. Steady(k, x, call)
        BY <2>3, <2>5 DEF Steady, Loose
      <3>6. Right(x)
        <4>1. ASSUME NEW d \in Ids, x.nego[d].at # "none" PROVE Settled(client, d)
          BY <1>1, <2>3, <4>1
        <4>2. QED
          BY <3>3, <3>4, <3>5, <4>1 DEF Fits
      <3>7. QED
        BY <1>0, <2>1, <2>2, <3>6, HearsTalk
    <2>6. CASE k.dial[c] # "ack"
      <3>1. Sound(x, call)
        BY <1>1, <2>3, <2>6 DEF Sound, Busy
      <3>2. Asks(u, x, call)
        BY <1>0, <1>1, <1>2, <2>1, <2>3, <2>6 DEF Asks
      <3>3. Right(x)
        BY <1>1, <1>2, <2>1, <2>3, <2>6, <3>1, <3>2 DEF Fits, Steady, Loose
      <3>4. QED
        BY <1>0, <2>1, <2>2, <3>3, HearsTalk
    <2>7. QED
      BY <2>5, <2>6
  <1>13. ASSUME WebAccept(u) PROVE TalkInv'
    <2> DEFINE x == [k EXCEPT !.ans[k.call] = "media"]
    <2>1. /\ x \in Client /\ x.phase = k.phase /\ x.call = k.call /\ x.dial = k.dial
          /\ x.stray = k.stray /\ x.pc = k.pc /\ x.nego = k.nego
      BY <1>1, <1>2 DEF Client
    <2>2. Right(x)
      BY <1>0, <2>1, Alike
    <2>3. QED
      BY <1>0, <1>13, <2>2, DoesSilently DEF WebAccept
  <1>14. ASSUME WebAcceptFails(u) PROVE TalkInv'
    BY <1>0, <1>1, <1>3, <1>5, <1>6, <1>14, DoesTalk DEF WebAcceptFails
  <1>15. ASSUME WebAcceptMedia(u) PROVE TalkInv'
    <2> DEFINE x == [WithCamera(k) EXCEPT !.phase = "connecting", !.ans[k.call] = "peer"]
               y == [k EXCEPT !.ans[k.call] = "none"]
    <2>1. /\ x \in Client /\ x.phase = "connecting" /\ x.call = k.call /\ x.dial = k.dial
          /\ x.stray = k.stray /\ x.pc = k.pc /\ x.nego = k.nego
          /\ y \in Client /\ y.phase = k.phase /\ y.call = k.call /\ y.dial = k.dial
          /\ y.stray = k.stray /\ y.pc = k.pc /\ y.nego = k.nego
      BY <1>1, <1>2 DEF Client, WithCamera
    <2> HIDE DEF x, y
    <2>2. Right(y)
      BY <1>0, <2>1, Alike
    <2>3. ASSUME k.phase = "incoming" PROVE Right(x)
      <3>1. Sound(x, call)
        BY <1>1, <2>1 DEF Sound, Busy
      <3>2. Asks(u, x, call)
        BY <1>0, <1>1, <2>1, <2>3 DEF Asks
      <3>3. QED
        BY <1>1, <2>1, <3>1, <3>2 DEF Fits, Steady, Loose
    <2>4. QED
      BY <1>0, <1>15, <2>2, <2>3, DoesSilently DEF WebAcceptMedia, x, y
  <1>16. ASSUME WebAcceptPeer(u) PROVE TalkInv'
    <2> DEFINE x == [k EXCEPT !.pc = "new", !.watch = TRUE, !.ans[k.call] = "none"]
    <2>1. /\ x \in Client /\ x.phase = k.phase /\ x.call = k.call /\ x.dial = k.dial
          /\ x.stray = k.stray /\ x.pc = "new" /\ x.nego = k.nego
      BY <1>1, <1>2 DEF Client
    <2>2. Right(x)
      BY <1>0, <2>1, Alike
    <2>3. Event("accept", k.call) \in Said
      BY <1>1, <1>6
    <2>4. QED
      BY <1>0, <1>16, <2>2, <2>3, DoesTalk DEF WebAcceptPeer
  <1>17. ASSUME WebHangsUp(u) PROVE TalkInv'
    <2> DEFINE e == IF k.phase = "outgoing" THEN Cancelled(k.dial) ELSE k.dial
               x == [k EXCEPT !.dial = e]
               type == CASE k.phase = "incoming" -> "reject" [] k.phase = "outgoing" -> "cancel"
                         [] OTHER -> "end"
    <2>1. /\ e \in [Ids -> {"none", "media", "peer", "ack", "stale", "cancelled"}]
          /\ \A c \in Ids : e[c] # "none" => k.dial[c] # "none"
      BY <1>2 DEF Cancelled
    <2>2. [k EXCEPT !.dial = IF k.phase = "outgoing" THEN Cancelled(@) ELSE @] = x
      BY <1>1 DEF Client
    <2> HIDE DEF e
    <2>3. Less(x, k)
      BY <1>1, <1>2, <2>1 DEF Client, Less
    <2> HIDE DEF x
    <2>4. Right(WebIdle(x))
      BY <1>5, <2>3
    <2>5. type \in {"reject", "cancel", "end"}
      OBVIOUS
    <2>6. Event(type, k.call) \in Said
      BY <1>1, <1>6, <2>5
    <2>7. Become(u, WebIdle(x)) /\ Sends(u, Event(type, k.call)) /\ UNCHANGED <<inbox, notified, netVars>>
      BY <1>17, <2>2 DEF WebHangsUp
    <2>8. QED
      BY <1>0, <2>4, <2>6, <2>7, DoesTalk
  <1>18. ASSUME WebCloses(u) PROVE TalkInv'
    BY <1>0, <1>3, <1>5, <1>18, DoesSilently DEF WebCloses
  <1>19. ASSUME WebIncoming(u) PROVE TalkInv'
    <2> DEFINE c == Heard(u)
    <2>1. c \in Ids /\ c # None /\ Rung(u, call, c) /\ Hears(u, "incoming") /\ UNCHANGED <<notified, netVars>>
      BY <1>0, <1>19, Hearing DEF WebIncoming
    <2>2. CASE Busy(k)
      <3>1. Event("reject", c) \in Said
        BY <1>6, <2>1
      <3>2. Become(u, k) /\ Sends(u, Event("reject", c))
        BY <1>0, <1>19, <2>2, Typed DEF WebIncoming, Become
      <3>3. QED
        BY <1>0, <1>4, <2>1, <3>1, <3>2, HearsTalk
    <2>3. CASE ~Busy(k)
      <3> DEFINE x == [k EXCEPT !.phase = "incoming", !.call = c, !.close = FALSE]
      <3>1. Become(u, x) /\ UNCHANGED outbox
        BY <1>19, <2>3 DEF WebIncoming
      <3> HIDE DEF c
      <3>2. /\ x \in Client /\ x.phase = "incoming" /\ x.call = c /\ x.dial = k.dial
            /\ x.stray = k.stray /\ x.pc = k.pc /\ x.nego = k.nego
        BY <1>1, <2>1 DEF Client
      <3> HIDE DEF x
      <3>3. k.call = None /\ \A d \in Ids : k.dial[d] # "ack"
        BY <1>0, <1>1, <2>3 DEF Sound, Asks, Busy
      <3>4. k.pc # "stable" /\ \A d \in Ids : k.nego[d].at # "none" => k.nego[d].pc # "kept"
        BY <1>1, <3>3, Numbers DEF Sound
      <3>5. Sound(x, call)
        BY <1>1, <3>2, <3>4 DEF Sound, Busy
      <3>6. Asks(u, x, call)
        BY <1>0, <1>1, <2>1, <3>2, <3>3 DEF Asks, Mine, Rung
      <3>7. Right(x)
        BY <1>1, <3>2, <3>5, <3>6 DEF Fits, Steady, Loose
      <3>8. QED
        BY <1>0, <1>7, <2>1, <3>1, <3>7, HearsTalk
    <2>4. QED
      BY <2>2, <2>3
  <1>20. ASSUME NEW c \in Ids, NEW stage \in {"offer", "answer", "apply"}
         PROVE  LET x == Negotiates(k, stage) IN k.call = c =>
                /\ x \in Client /\ x.phase = k.phase /\ x.call = k.call /\ x.dial = k.dial
                /\ x.stray = k.stray /\ x.pc = k.pc
                /\ \A d \in Ids : x.nego[d] = IF d = c THEN [at |-> stage, pc |-> "kept"] ELSE k.nego[d]
                /\ x.nego \in [Ids -> Negotiation]
    BY <1>1, <1>2 DEF Client, Negotiates, Negotiation
  <1>21. ASSUME WebAccepted(u) PROVE TalkInv'
    <2> DEFINE c == Heard(u)
    <2>1. c \in Ids /\ c # None /\ Answered(call, c) /\ Hears(u, "accepted") /\ UNCHANGED <<outbox, notified, netVars>>
      BY <1>0, <1>21, Hearing DEF WebAccepted, Talk
    <2>2. CASE k.call = c /\ Dialled(u, k.call)
      <3> DEFINE n == Negotiates(k, "offer")
                 x == [n EXCEPT !.phase = "connecting", !.watch = TRUE]
      <3>1. Become(u, x)
        BY <1>21, <2>2 DEF WebAccepted
      <3> HIDE DEF c
      <3>2. /\ n \in Client /\ n.call = k.call /\ n.dial = k.dial
            /\ n.stray = k.stray /\ n.pc = k.pc
            /\ \A d \in Ids : n.nego[d] = IF d = c THEN [at |-> "offer", pc |-> "kept"] ELSE k.nego[d]
        BY <1>20, <2>1, <2>2
      <3> HIDE DEF n
      <3>3. /\ x \in Client /\ x.phase = "connecting" /\ x.call = c /\ x.dial = k.dial
            /\ x.stray = k.stray /\ x.pc = k.pc
            /\ \A d \in Ids : x.nego[d] = IF d = c THEN [at |-> "offer", pc |-> "kept"] ELSE k.nego[d]
        BY <2>2, <3>2 DEF Client
      <3> HIDE DEF x
      <3>4. \A d \in Ids : k.dial[d] # "none" => d # c /\ (k.dial[d] # "ack")
        BY <1>0, <1>1, <2>1, <2>2 DEF Asks
      <3>5. ~Loose(client[Other(u)], c)
        <4>1. Asks(Other(u), client[Other(u)], call) /\ Other(u) # u
          BY <1>0, Begins, OfTwo
        <4>2. ~Mine(Other(u), call, c)
          BY <2>2, <4>1 DEF Mine, Dialled
        <4>3. QED
          BY <2>1, <4>1, <4>2 DEF Loose, Asks
      <3>6. Sound(x, call)
        BY <1>1, <2>1, <2>2, <3>3 DEF Sound, Busy
      <3>7. Asks(u, x, call)
        BY <1>0, <1>1, <2>2, <3>3, <3>4 DEF Asks
      <3>8. ~Loose(x, c) /\ Steady(k, x, call)
        BY <2>1, <3>3, <3>4 DEF Loose, Steady
      <3>9. Right(x)
        BY <1>1, <3>3, <3>5, <3>6, <3>7, <3>8 DEF Fits
      <3>10. QED
        BY <1>0, <1>7, <2>1, <3>1, <3>9, HearsTalk
    <2>3. CASE ~(k.call = c /\ Dialled(u, k.call))
      BY <1>0, <1>4, <1>7, <1>21, <2>1, <2>3, HearsTalk DEF WebAccepted
    <2>4. QED
      BY <2>2, <2>3
  <1>22. ASSUME NEW type \in {"offer", "answer"}, WebSdp(u, type) PROVE TalkInv'
    <2> DEFINE c == Heard(u)
               stage == IF type = "offer" THEN "answer" ELSE "apply"
    <2>1. /\ c \in Ids /\ c # None /\ Answered(call, c) /\ Settled(client, c)
          /\ Hears(u, type) /\ UNCHANGED <<outbox, notified, netVars>>
      BY <1>0, <1>22, Hearing DEF WebSdp, Talk
    <2>2. CASE k.call = c /\ k.pc # "none"
      <3> DEFINE x == Negotiates(k, stage)
      <3>1. Become(u, x)
        BY <1>22, <2>2 DEF WebSdp
      <3> HIDE DEF c
      <3>2. /\ x \in Client /\ x.phase = k.phase /\ x.call = c /\ x.dial = k.dial
            /\ x.stray = k.stray /\ x.pc = k.pc
            /\ \A d \in Ids : x.nego[d] = IF d = c THEN [at |-> stage, pc |-> "kept"] ELSE k.nego[d]
        BY <1>20, <2>1, <2>2
      <3> HIDE DEF x
      <3>3. k.phase # "outgoing"
        BY <1>0, <2>1, <2>2 DEF Settled, Loose
      <3>4. Sound(x, call)
        BY <1>1, <2>1, <2>2, <3>2 DEF Sound, Busy
      <3>5. Asks(u, x, call)
        BY <1>0, <1>1, <2>2, <3>2, <3>3 DEF Asks
      <3>6. Steady(k, x, call)
        BY <2>2, <3>2 DEF Loose, Steady
      <3>7. Right(x)
        BY <1>1, <2>1, <3>2, <3>4, <3>5, <3>6 DEF Fits
      <3>8. QED
        BY <1>0, <1>7, <2>1, <3>1, <3>7, HearsTalk
    <2>3. CASE ~(k.call = c /\ k.pc # "none")
      BY <1>0, <1>4, <1>7, <1>22, <2>1, <2>3, HearsTalk DEF WebSdp
    <2>4. QED
      BY <2>2, <2>3
  <1>23. ASSUME NEW c \in Ids, WebOffers(u, c) PROVE TalkInv'
    <2> DEFINE done == [k EXCEPT !.nego[c] = Quiet]
               x == [done EXCEPT !.pc = "offered"]
    <2>1. k.nego[c].at = "offer" /\ UNCHANGED <<inbox, notified, netVars>>
      BY <1>23 DEF WebOffers
    <2>2. Event("offer", c) \in Said /\ Event("end", c) \in Said
      BY <1>1, <2>1, Sendable
    <2>3. Right(x)
      <3>1. /\ done \in Client /\ done.nego = [k.nego EXCEPT ![c] = Quiet]
            /\ done.phase = k.phase /\ done.call = k.call /\ done.dial = k.dial /\ done.stray = k.stray
        BY <1>8
      <3> HIDE DEF done
      <3>2. /\ x \in Client /\ x.nego = [k.nego EXCEPT ![c] = Quiet] /\ x.pc = "offered"
            /\ x.phase = k.phase /\ x.call = k.call /\ x.dial = k.dial /\ x.stray = k.stray
        BY <3>1 DEF Client
      <3>3. QED
        BY <1>0, <3>2, Alike
    <2>4. Right(done) /\ Right(WebIdle(done))
      BY <1>5, <1>8
    <2>5. CASE Become(u, done) /\ UNCHANGED outbox
      BY <1>0, <2>1, <2>4, <2>5, DoesSilently
    <2>6. CASE Become(u, x) /\ Sends(u, Event("offer", c))
      BY <1>0, <2>1, <2>2, <2>3, <2>6, DoesTalk
    <2>7. CASE Become(u, WebIdle(done)) /\ Sends(u, Event("end", c))
      BY <1>0, <2>1, <2>2, <2>4, <2>7, DoesTalk
    <2>8. QED
      BY <1>23, <2>5, <2>6, <2>7 DEF WebOffers
  <1>24. ASSUME NEW c \in Ids, WebNegotiated(u, c) PROVE TalkInv'
    <2> DEFINE done == [k EXCEPT !.nego[c] = Quiet]
               x == [done EXCEPT !.pc = "stable"]
               y == [done EXCEPT !.stray = @ \cup {c}]
               es == IF k.nego[c].at = "answer" THEN Event("answer", c) ELSE <<>>
    <2>1. /\ k.nego[c].at # "none" /\ UNCHANGED <<inbox, notified, netVars>>
          /\ Settled(client, c) /\ Answered(call, c)
      BY <1>1, <1>24 DEF WebNegotiated
    <2>2. es \in Said
      BY <1>7, <2>1, Sendable
    <2>3. /\ done \in Client /\ done.nego = [k.nego EXCEPT ![c] = Quiet] /\ Less(done, k)
          /\ done.phase = k.phase /\ done.call = k.call /\ done.dial = k.dial
          /\ done.stray = k.stray /\ done.pc = k.pc
      BY <1>8
    <2>4. Right(WebFinished(done))
      BY <1>5, <2>3
    <2>5. CASE k.nego[c].pc = "closed"
      BY <1>0, <1>24, <2>1, <2>4, <2>5, DoesSilently DEF WebNegotiated
    <2>6. CASE k.nego[c].pc = "kept"
      <3>1. Become(u, x) /\ Sends(u, es)
        BY <1>24, <2>6 DEF WebNegotiated
      <3> HIDE DEF done, es
      <3>2. /\ x \in Client /\ x.nego = [k.nego EXCEPT ![c] = Quiet] /\ x.pc = "stable"
            /\ x.phase = k.phase /\ x.call = k.call /\ x.dial = k.dial /\ x.stray = k.stray
        BY <2>3 DEF Client
      <3> HIDE DEF x
      <3>3. \A d \in Ids : x.nego[d] = k.nego[d] \/ x.nego[d].at = "none"
        BY <1>2, <3>2 DEF Quiet
      <3>4. k.call = c /\ k.phase # "outgoing"
        BY <1>1, <2>1, <2>6 DEF Sound, Asks
      <3>5. Sound(x, call)
        BY <1>1, <2>1, <3>2, <3>3, <3>4 DEF Sound, Busy
      <3>6. Asks(u, x, call)
        BY <1>1, <3>2, <3>3, <3>4 DEF Asks
      <3>7. Right(x)
        BY <1>1, <3>2, <3>3, <3>5, <3>6 DEF Fits, Steady, Loose
      <3>8. QED
        BY <1>0, <2>1, <2>2, <3>1, <3>7, DoesTalk
    <2>7. CASE k.nego[c].pc \notin {"closed", "kept"}
      <3>1. Become(u, y) /\ Sends(u, es)
        BY <1>24, <2>7 DEF WebNegotiated
      <3> HIDE DEF done, es
      <3>2. /\ y \in Client /\ y.nego = [k.nego EXCEPT ![c] = Quiet] /\ y.pc = k.pc
            /\ y.phase = k.phase /\ y.call = k.call /\ y.dial = k.dial /\ y.stray = k.stray \cup {c}
        BY <1>2, <2>3 DEF Client
      <3> HIDE DEF y
      <3>3. \A d \in Ids : y.nego[d] = k.nego[d] \/ y.nego[d].at = "none"
        BY <1>2, <3>2 DEF Quiet
      <3>4. Sound(y, call)
        BY <1>1, <2>1, <3>2, <3>3 DEF Sound, Busy
      <3>5. Asks(u, y, call)
        BY <1>1, <3>2, <3>3 DEF Asks
      <3>6. Right(y)
        BY <1>1, <3>2, <3>3, <3>4, <3>5 DEF Fits, Steady, Loose
      <3>7. QED
        BY <1>0, <2>1, <2>2, <3>1, <3>6, DoesTalk
    <2>8. QED
      BY <2>5, <2>6, <2>7
  <1>25. ASSUME WebTold(u) \/ WebBusy(u) PROVE TalkInv'
    <2>1. PICK x \in {k, WebIdle(k), WebFinished(k)} : \E type : Hears(u, type) /\ Become(u, x)
      BY <1>25 DEF WebTold, WebBusy
    <2>2. UNCHANGED <<outbox, notified, netVars>>
      BY <1>25 DEF WebTold, WebBusy
    <2>3. Right(x)
      BY <1>3, <1>4, <1>5, <2>1
    <2>4. QED
      BY <1>0, <1>7, <2>1, <2>2, <2>3, HearsTalk
  <1>26. ASSUME WebGivesUp(u) PROVE TalkInv'
    <2> DEFINE x == [k EXCEPT !.watch = FALSE]
    <2>1. Event("end", k.call) \in Said
      BY <1>1, <1>6
    <2>2. /\ x \in Client /\ x.nego = k.nego /\ x.pc = k.pc
          /\ x.phase = k.phase /\ x.call = k.call /\ x.dial = k.dial /\ x.stray = k.stray
      BY <1>1 DEF Client
    <2>3. Right(x)
      BY <1>0, <2>2, Alike
    <2>4. CASE k.phase = "connecting"
      BY <1>0, <1>3, <1>5, <1>26, <2>1, <2>4, DoesTalk DEF WebGivesUp
    <2>5. CASE k.phase # "connecting"
      BY <1>0, <1>26, <2>3, <2>5, DoesSilently DEF WebGivesUp
    <2>6. QED
      BY <2>4, <2>5
  <1>27. ASSUME WebConnects(u), Held(k) # {} PROVE TalkInv'
    <2> DEFINE x == [k EXCEPT !.phase = "active", !.watch = FALSE]
    <2>1. /\ x \in Client /\ x.nego = k.nego /\ x.pc = k.pc
          /\ x.phase = "active" /\ x.call = k.call /\ x.dial = k.dial /\ x.stray = k.stray
      BY <1>1 DEF Client
    <2>2. k.stray = {} => Answered(call, k.call)
      BY <1>1, <1>27 DEF Held, Sound
    <2>3. Become(u, x) /\ UNCHANGED <<inbox, outbox, notified, netVars>>
      BY <1>27 DEF WebConnects
    <2> HIDE DEF x
    <2>4. Sound(x, call)
      BY <1>1, <2>1, <2>2 DEF Sound, Busy
    <2>5. Asks(u, x, call)
      BY <1>1, <2>1 DEF Asks
    <2>6. Right(x)
      BY <1>1, <2>1, <2>4, <2>5 DEF Fits, Steady, Loose
    <2>7. QED
      BY <1>0, <2>3, <2>6, DoesSilently
  <1>28. ASSUME NEW c \in Ids, WebLosesMedia(u, c) PROVE TalkInv'
    <2>1. Less([k EXCEPT !.stray = @ \ {c}], k)
      BY <1>1, <1>2 DEF Client, Less
    <2>2. QED
      BY <1>0, <1>5, <1>28, <2>1, DoesSilently DEF WebLosesMedia
  <1>29. QED
    BY <1>10, <1>11, <1>12, <1>13, <1>14, <1>15, <1>16, <1>17, <1>18, <1>19, <1>21, <1>22,
       <1>23, <1>24, <1>25, <1>26, <1>27, <1>28 DEF WebUser, WebHears, WebResumes
-----------------------------------------------------------------------------
(***************************************************************************)
(* The steps of a phone.                                                   *)
(***************************************************************************)
LEMMA PhoneDowns ==
    ASSUME NEW k \in Client
    PROVE  LET d == PhoneDown(k) IN
           /\ d \in Client /\ d.phase = k.phase /\ d.call = k.call /\ d.pc = "none"
           /\ d.stray = k.stray /\ d.dial = k.dial
           /\ \A c \in Ids : /\ d.nego[c].at = k.nego[c].at
                             /\ d.nego[c].at # "none" => d.nego[c].pc # "kept"
  <1> DEFINE d == PhoneDown(k)
             m == Left(k.nego, "closed")
  <1>1. k.nego \in [Ids -> Negotiation]
    BY DEF Client
  <1>2. /\ m \in [Ids -> Negotiation]
        /\ \A c \in Ids : m[c].at = k.nego[c].at /\ (m[c].at # "none" => m[c].pc # "kept")
    BY <1>1, Leaving
  <1>3. d = [k EXCEPT !.cam = FALSE, !.pc = "none", !.watch = FALSE, !.nego = m]
    BY DEF PhoneDown
  <1> HIDE DEF m, d
  <1>4. d \in Client /\ d.phase = k.phase /\ d.call = k.call /\ d.pc = "none" /\ d.stray = k.stray
        /\ d.dial = k.dial /\ d.nego = m
    BY <1>2, <1>3 DEF Client
  <1>5. QED
    BY <1>2, <1>4 DEF d

\* A phone whose call has ended, whatever its functions still await.
LEMMA PhoneIsDown ==
    ASSUME TalkInv, NEW u \in Phones, NEW y, Less(y, client[u])
    PROVE  /\ Fits(u, PhoneEnded(y), call, call, client)
           /\ y.phase \in {"idle", "ended"} /\ y.call = None => Fits(u, PhoneDown(y), call, call, client)
  <1>0. u \in Clients /\ u \notin Webs
    BY CallSignalsAssumption DEF Clients
  <1> DEFINE d == PhoneDown(y)
             e == [d EXCEPT !.phase = "ended", !.call = None]
  <1>1. /\ d \in Client /\ d.phase = y.phase /\ d.call = y.call /\ d.pc = "none"
        /\ d.stray = y.stray /\ d.dial = y.dial
        /\ \A c \in Ids : /\ d.nego[c].at = y.nego[c].at
                          /\ d.nego[c].at # "none" => d.nego[c].pc # "kept"
    BY PhoneDowns DEF Less
  <1>2. PhoneEnded(y) = e
    BY DEF PhoneEnded
  <1> HIDE DEF d
  <1>3. /\ e \in Client /\ e.phase = "ended" /\ e.call = None /\ e.pc = "none"
        /\ e.stray = y.stray /\ e.dial = y.dial /\ e.nego = d.nego
    BY <1>1 DEF Client
  <1>4. Less(d, client[u]) /\ Less(e, client[u])
    BY <1>1, <1>3 DEF Less
  <1>5. Fits(u, e, call, call, client)
    BY <1>0, <1>1, <1>3, <1>4, Apart
  <1>6. ASSUME y.phase \in {"idle", "ended"}, y.call = None PROVE Fits(u, d, call, call, client)
    BY <1>0, <1>1, <1>4, <1>6, Apart
  <1>7. QED
    BY <1>2, <1>5, <1>6 DEF d

LEMMA PhoneTalks ==
    ASSUME TalkInv, NEW u \in Phones,
           \/ PhoneUser(u) \/ PhoneHears(u) \/ PhoneResumes(u) \/ PhoneGivesUp(u)
           \/ PhoneConnects(u) /\ Held(client[u]) # {}
           \/ \E c \in Ids : PhoneLosesMedia(u, c)
    PROVE  TalkInv'
  <1> DEFINE k == client[u]
             Right(x) == Fits(u, x, call, call, client)
             Said == Seq(Sents(u, call, client))
  <1>0. u \in Clients /\ u \notin Webs
    BY CallSignalsAssumption DEF Clients
  <1>1. /\ k \in Client /\ Sound(k, call) /\ Asks(u, k, call) /\ k.call \in Ids \cup {None}
        /\ \A c \in Ids : k.nego[c].at # "none" => Settled(client, c) /\ Answered(call, c)
        /\ \A c \in Ids : ~Made(call, c) => ~Answered(call, c)
        /\ ~Answered(call, None)
    BY <1>0, Begins, Typed, Numbers DEF Client, Taken, Answered, Made
  <1>2. k.dial \in [Ids -> {"none", "media", "peer", "ack", "stale", "cancelled"}]
        /\ k.ans \in [Ids -> {"none", "media", "peer"}] /\ k.nego \in [Ids -> Negotiation]
        /\ k.stray \in SUBSET Ids
    BY <1>1 DEF Client
  <1>3. Less(k, k)
    BY <1>1 DEF Less
  <1>4. Right(k)
    BY <1>0, <1>1, Alike
  <1>5. Right(PhoneFinished(k))
    <2>1. k.phase \in {"idle", "ended"} => k.call = None
      BY <1>1 DEF Sound, Busy
    <2>2. QED
      BY <1>3, <2>1, PhoneIsDown DEF PhoneFinished
  <1>6. ASSUME NEW c \in Ids \cup {None}, NEW type \in {"accept", "reject", "cancel", "end"}
        PROVE  Event(type, c) \in Said
    BY Sendable
  <1>7. <<>> \in Said
    OBVIOUS
  <1>8. ASSUME NEW c \in Ids
        PROVE  LET done == [k EXCEPT !.nego[c] = Quiet] IN
               /\ done \in Client /\ Less(done, k) /\ Right(done)
               /\ done.nego = [k.nego EXCEPT ![c] = Quiet]
               /\ done.phase = k.phase /\ done.call = k.call /\ done.dial = k.dial
               /\ done.stray = k.stray /\ done.pc = k.pc
    <2> DEFINE done == [k EXCEPT !.nego[c] = Quiet]
    <2>1. Quiet \in Negotiation /\ Quiet.at = "none"
      BY DEF Quiet, Negotiation
    <2>2. /\ done.nego = [k.nego EXCEPT ![c] = Quiet] /\ done.nego \in [Ids -> Negotiation]
          /\ done.phase = k.phase /\ done.call = k.call /\ done.dial = k.dial
          /\ done.stray = k.stray /\ done.pc = k.pc /\ done \in Client
      BY <1>1, <1>2, <2>1 DEF Client
    <2> HIDE DEF done
    <2>3. Less(done, k)
      BY <1>2, <2>1, <2>2 DEF Less
    <2>4. Right(done)
      BY <1>0, <2>2, Alike
    <2>5. QED
      BY <2>2, <2>3, <2>4 DEF done
  <1>9. ASSUME NEW y, Less(y, k), NEW es \in Said, PhoneFails(u, y, es), UNCHANGED <<inbox, netVars>>
        PROVE  TalkInv'
    <2> DEFINE first == IF Negotiating(y) THEN Event("end", y.call) ELSE <<>>
    <2>1. y.call \in Ids \cup {None}
      BY <1>9 DEF Less, Client
    <2>2. first \in Said
      BY <1>6, <1>7, <2>1
    <2>3. first \o es \in Said
      BY <2>2, Concats
    <2>4. Right(PhoneEnded(y))
      BY <1>9, PhoneIsDown
    <2>5. QED
      BY <1>0, <1>9, <2>3, <2>4, DoesTalk DEF PhoneFails
  <1>10. ASSUME PhoneDial(u) PROVE TalkInv'
    <2>1. PICK c \in Ids : Dials(u, c) /\ Become(u, [k EXCEPT !.phase = "outgoing", !.call = None, !.dial[c] = "media"])
      BY <1>10 DEF PhoneDial
    <2> DEFINE x == [k EXCEPT !.phase = "outgoing", !.call = None, !.dial[c] = "media"]
    <2>2. /\ x \in Client /\ x.phase = "outgoing" /\ x.call = None /\ x.stray = k.stray
          /\ x.pc = k.pc /\ x.nego = k.nego /\ x.dial = [k.dial EXCEPT ![c] = "media"]
      BY <1>1, <1>2 DEF Client
    <2> HIDE DEF x
    <2>3. /\ Grows(call, call') /\ ~Made(call, c) /\ Mine(u, call', c)
          /\ Asks(u, k, call')
      BY <1>0, <1>1, <2>1, Dialing
    <2>4. /\ k.call = None /\ k.pc # "stable"
          /\ \A d \in Ids : k.nego[d].at # "none" => k.nego[d].pc # "kept"
      BY <1>1, <1>10, Numbers DEF PhoneDial, Sound
    <2>5. Sound(x, call)
      BY <1>1, <2>2, <2>4 DEF Sound, Busy
    <2>6. Asks(u, x, call')
      BY <1>0, <1>2, <2>2, <2>3, <2>4, Numbers DEF Asks
    <2>7. Fits(u, x, call, call', client)
      BY <1>1, <1>2, <2>2, <2>3, <2>5, <2>6, Numbers DEF Fits, Steady, Loose
    <2>8. Moves(u, x, <<>>) /\ UNCHANGED <<notified, drops>>
      BY <1>0, <1>10, <2>1, Silent DEF PhoneDial, Moves, Become, x
    <2>9. /\ notified' \in [Clients -> Ids \cup {None}]
          /\ \A v \in Clients : notified'[v] # None => Rung(v, call, notified'[v])
      BY <2>8, Typed DEF TalkInv
    <2>10. QED
      BY <1>0, <1>7, <2>3, <2>7, <2>8, <2>9, MovesKeep
  <1>11. ASSUME PhoneAccept(u) PROVE TalkInv'
    <2> DEFINE x == PhoneAnswering(k, k.call)
    <2>1. /\ x \in Client /\ x.phase = k.phase /\ x.call = k.call /\ x.stray = k.stray
          /\ x.pc = k.pc /\ x.nego = k.nego /\ x.dial = k.dial
      BY <1>1, <1>2 DEF Client, PhoneAnswering
    <2>2. Right(x)
      BY <1>0, <2>1, Alike
    <2>3. QED
      BY <1>0, <1>11, <2>2, DoesSilently DEF PhoneAccept, netVars
  \* A phone that shows nothing takes a call that rings here.
  <1>12. ASSUME NEW x, NEW c \in Ids, x \in Client, x.phase = "incoming", x.call = c, x.dial = k.dial,
                x.stray = k.stray, x.pc = k.pc, x.nego = k.nego, ~Busy(k), Rung(u, call, c)
         PROVE  Right(x)
    <2>1. k.call = None
      BY <1>1, <1>12 DEF Sound
    <2>2. k.pc # "stable" /\ \A d \in Ids : k.nego[d].at # "none" => k.nego[d].pc # "kept"
      BY <1>1, <2>1, Numbers DEF Sound
    <2>3. Sound(x, call)
      BY <1>1, <1>12, <2>2 DEF Sound, Busy
    <2>4. Asks(u, x, call)
      BY <1>0, <1>1, <1>12 DEF Asks, Mine, Rung
    <2>5. QED
      BY <1>1, <1>12, <2>3, <2>4 DEF Fits, Steady, Loose
  <1>13. ASSUME PhoneAcceptPush(u) PROVE TalkInv'
    <2> DEFINE c == notified[u]
               y == [k EXCEPT !.phase = "incoming", !.call = c]
               x == PhoneAnswering(y, c)
    <2>1. /\ c \in Ids /\ Rung(u, call, c) /\ ~Busy(k) /\ Become(u, x)
          /\ UNCHANGED <<inbox, outbox, netVars>> /\ notified' = [notified EXCEPT ![u] = None]
      BY <1>0, <1>13, Typed DEF PhoneAcceptPush, TalkInv, netVars
    <2> HIDE DEF c
    <2>2. /\ x \in Client /\ x.phase = "incoming" /\ x.call = c /\ x.stray = k.stray
          /\ x.pc = k.pc /\ x.nego = k.nego /\ x.dial = k.dial
      BY <1>1, <1>2, <2>1 DEF Client, PhoneAnswering
    <2> HIDE DEF x
    <2>3. QED
      BY <1>0, <1>12, <2>1, <2>2, DoesSilently
  <1>14. ASSUME NEW c \in Ids, PhoneDialMedia(u, c) PROVE TalkInv'
    <2> DEFINE x == [WithCamera(k) EXCEPT !.dial[c] = "peer"]
               y == [k EXCEPT !.dial[c] = "none"]
    <2>1. k.dial[c] = "media" /\ UNCHANGED <<inbox, netVars>>
      BY <1>14 DEF PhoneDialMedia
    <2>2. /\ x \in Client /\ x.phase = k.phase /\ x.call = k.call /\ x.stray = k.stray
          /\ x.pc = k.pc /\ x.nego = k.nego /\ x.dial = [k.dial EXCEPT ![c] = "peer"]
          /\ Less(y, k)
      BY <1>1, <1>2 DEF Client, WithCamera, Less
    <2>3. CASE Become(u, x) /\ UNCHANGED <<outbox, notified>>
      <3> HIDE DEF x
      <3>1. \A d \in Ids : x.dial[d] # "none" => k.dial[d] # "none"
        BY <1>2, <2>1, <2>2
      <3>2. Sound(x, call)
        BY <1>1, <2>2 DEF Sound, Busy
      <3>3. Asks(u, x, call)
        BY <1>0, <1>1, <2>2, <3>1 DEF Asks
      <3>4. Right(x)
        BY <1>1, <2>2, <3>1, <3>2, <3>3 DEF Fits, Steady, Loose
      <3>5. QED
        BY <1>0, <2>1, <2>3, <3>4, DoesSilently
    <2>4. CASE PhoneFails(u, y, <<>>)
      BY <1>7, <1>9, <2>1, <2>2, <2>4
    <2>5. QED
      BY <1>14, <2>3, <2>4 DEF PhoneDialMedia
  <1>15. ASSUME NEW c \in Ids, PhoneAcceptMedia(u, c) PROVE TalkInv'
    <2> DEFINE x == [WithCamera(k) EXCEPT !.ans[c] = "peer"]
               y == [k EXCEPT !.ans[c] = "none"]
    <2>1. /\ x \in Client /\ x.phase = k.phase /\ x.call = k.call /\ x.stray = k.stray
          /\ x.pc = k.pc /\ x.nego = k.nego /\ x.dial = k.dial
          /\ Less(y, k)
      BY <1>1, <1>2 DEF Client, WithCamera, Less
    <2>2. Right(x)
      BY <1>0, <2>1, Alike
    <2>3. Event("reject", c) \in Said
      BY <1>6
    <2>4. QED
      BY <1>0, <1>9, <1>15, <2>1, <2>2, <2>3, DoesSilently DEF PhoneAcceptMedia
  \* Another connection takes the place of the one it has.
  <1>16. LET y == Replaced(k, "new") IN
         /\ y \in Client /\ y.phase = k.phase /\ y.call = k.call /\ y.dial = k.dial /\ y.pc = "new"
         /\ y.ans = k.ans
         /\ \A c \in y.stray : Answered(call, c)
         /\ y.phase = "active" /\ y.stray = {} => Answered(call, y.call)
         /\ \A c \in Ids : /\ y.nego[c].at = k.nego[c].at
                           /\ y.nego[c].at # "none" => y.nego[c].pc # "kept"
    <2> DEFINE m == Left(k.nego, "lost")
               y == [k EXCEPT !.pc = "new", !.stray = Held(k), !.nego = m]
    <2>1. /\ m \in [Ids -> Negotiation]
          /\ \A c \in Ids : m[c].at = k.nego[c].at /\ (m[c].at # "none" => m[c].pc # "kept")
      BY <1>2, Leaving
    <2>2. Held(k) \in SUBSET Ids /\ k.stray \subseteq Held(k) /\ \A c \in Held(k) : Answered(call, c)
      BY <1>1, <1>2 DEF Held, Sound, Answered
    <2>3. Replaced(k, "new") = y
      BY <1>1 DEF Replaced, Client
    <2> HIDE DEF m
    <2>4. /\ y \in Client /\ y.phase = k.phase /\ y.call = k.call /\ y.dial = k.dial /\ y.pc = "new"
          /\ y.ans = k.ans /\ y.stray = Held(k) /\ y.nego = m
      BY <1>1, <2>1, <2>2 DEF Client
    <2>5. k.phase = "active" /\ Held(k) = {} => Answered(call, k.call)
      BY <1>1, <2>2 DEF Sound
    <2> HIDE DEF y
    <2>6. QED
      BY <2>1, <2>2, <2>3, <2>4, <2>5
  <1>17. ASSUME NEW c \in Ids, PhoneDialPeer(u, c) PROVE TalkInv'
    <2> DEFINE y == Replaced(k, "new")
               x == [y EXCEPT !.dial[c] = "ack"]
    <2>1. k.dial[c] = "peer" /\ Mine(u, call, c) /\ Become(u, x) /\ UNCHANGED <<inbox, notified, netVars>>
      BY <1>1, <1>17 DEF PhoneDialPeer, Asks
    <2>2. /\ y \in Client /\ y.phase = k.phase /\ y.call = k.call /\ y.dial = k.dial /\ y.pc = "new"
          /\ \A d \in y.stray : Answered(call, d)
          /\ y.phase = "active" /\ y.stray = {} => Answered(call, y.call)
          /\ \A d \in Ids : /\ y.nego[d].at = k.nego[d].at
                            /\ y.nego[d].at # "none" => y.nego[d].pc # "kept"
      BY <1>16
    <2> HIDE DEF y
    <2>3. /\ x \in Client /\ x.phase = k.phase /\ x.call = k.call /\ x.pc = "new"
          /\ x.stray = y.stray /\ x.nego = y.nego /\ x.dial = [k.dial EXCEPT ![c] = "ack"]
      BY <1>2, <2>2 DEF Client
    <2> HIDE DEF x
    <2>4. \A d \in Ids : x.dial[d] # "none" => k.dial[d] # "none"
      BY <1>2, <2>1, <2>3
    <2>5. Sound(x, call)
      BY <1>1, <2>2, <2>3 DEF Sound, Busy
    <2>6. Asks(u, x, call)
      BY <1>0, <1>1, <2>2, <2>3, <2>4 DEF Asks
    <2>7. Right(x)
      BY <1>1, <2>2, <2>3, <2>4, <2>5, <2>6 DEF Fits, Steady, Loose
    <2>8. <<[type |-> "invite", call |-> c]>> \in Said /\ Sends(u, <<[type |-> "invite", call |-> c]>>)
      BY <1>17, <2>1, Sendable DEF PhoneDialPeer, Invites
    <2>9. QED
      BY <1>0, <2>1, <2>7, <2>8, DoesTalk
  <1>18. ASSUME NEW c \in Ids, PhoneAcceptPeer(u, c) PROVE TalkInv'
    <2> DEFINE y == Replaced(k, "new")
               x == [y EXCEPT !.phase = "connecting", !.watch = TRUE, !.ans[c] = "none"]
    <2>1. /\ Become(u, x) /\ Sends(u, Event("accept", c)) /\ UNCHANGED <<inbox, notified, netVars>>
      BY <1>18 DEF PhoneAcceptPeer
    <2>2. /\ y \in Client /\ y.phase = k.phase /\ y.call = k.call /\ y.dial = k.dial /\ y.pc = "new"
          /\ y.ans = k.ans
          /\ \A d \in y.stray : Answered(call, d)
          /\ \A d \in Ids : /\ y.nego[d].at = k.nego[d].at
                            /\ y.nego[d].at # "none" => y.nego[d].pc # "kept"
      BY <1>16
    <2> HIDE DEF y
    <2>3. /\ x \in Client /\ x.phase = "connecting" /\ x.call = k.call /\ x.pc = "new"
          /\ x.stray = y.stray /\ x.nego = y.nego /\ x.dial = k.dial
      BY <1>2, <2>2 DEF Client
    <2> HIDE DEF x
    <2>4. Sound(x, call)
      BY <1>1, <2>2, <2>3 DEF Sound, Busy
    <2>5. Asks(u, x, call)
      BY <1>0, <1>1, <2>2, <2>3 DEF Asks
    <2>6. Right(x)
      BY <1>1, <2>2, <2>3, <2>4, <2>5 DEF Fits, Steady, Loose
    <2>7. Event("accept", c) \in Said
      BY <1>6
    <2>8. QED
      BY <1>0, <2>1, <2>6, <2>7, DoesTalk
  <1>19. ASSUME PhoneHangsUp(u) PROVE TalkInv'
    <2> DEFINE type == CASE k.phase = "incoming" -> "reject" [] k.phase = "outgoing" -> "cancel"
                         [] OTHER -> "end"
    <2>1. type \in {"reject", "cancel", "end"}
      OBVIOUS
    <2>2. Event(type, k.call) \in Said
      BY <1>1, <1>6, <2>1
    <2>3. QED
      BY <1>0, <1>5, <1>19, <2>2, DoesTalk DEF PhoneHangsUp, netVars
  <1>20. ASSUME PhoneIncoming(u) PROVE TalkInv'
    <2> DEFINE c == Heard(u)
    <2>1. c \in Ids /\ c # None /\ Rung(u, call, c) /\ Hears(u, "incoming") /\ UNCHANGED <<notified, netVars>>
      BY <1>0, <1>20, Hearing DEF PhoneIncoming
    <2>2. CASE Busy(k)
      <3>1. Event("reject", c) \in Said
        BY <1>6, <2>1
      <3>2. Become(u, k) /\ Sends(u, Event("reject", c))
        BY <1>0, <1>20, <2>2, Typed DEF PhoneIncoming, Become
      <3>3. QED
        BY <1>0, <1>4, <2>1, <3>1, <3>2, HearsTalk
    <2>3. CASE ~Busy(k)
      <3> DEFINE x == [k EXCEPT !.phase = "incoming", !.call = c]
      <3>1. Become(u, x) /\ UNCHANGED outbox
        BY <1>20, <2>3 DEF PhoneIncoming
      <3> HIDE DEF c
      <3>2. /\ x \in Client /\ x.phase = "incoming" /\ x.call = c /\ x.dial = k.dial
            /\ x.stray = k.stray /\ x.pc = k.pc /\ x.nego = k.nego
        BY <1>1, <2>1 DEF Client
      <3> HIDE DEF x
      <3>3. Right(x)
        BY <1>12, <2>1, <2>3, <3>2
      <3>4. QED
        BY <1>0, <1>7, <2>1, <3>1, <3>3, HearsTalk
    <2>4. QED
      BY <2>2, <2>3
  <1>21. ASSUME PhoneAck(u) PROVE TalkInv'
    <2> DEFINE c == Heard(u)
               x == [k EXCEPT !.dial[c] = "none", !.call = c]
               y == [k EXCEPT !.dial[c] = "none"]
    <2>1. /\ c \in Ids /\ c # None /\ Hears(u, "ack") /\ k.dial[c] = "ack" /\ Mine(u, call, c)
          /\ UNCHANGED <<outbox, notified, netVars>>
      BY <1>0, <1>1, <1>21, Hearing DEF PhoneAck, Asks
    <2>2. Become(u, IF k.phase = "outgoing" THEN x ELSE y)
      BY <1>21 DEF PhoneAck
    <2> HIDE DEF c
    <2>3. /\ x \in Client /\ x.phase = k.phase /\ x.call = c /\ x.stray = k.stray /\ x.pc = k.pc
          /\ x.nego = k.nego /\ x.dial = [k.dial EXCEPT ![c] = "none"]
          /\ y \in Client /\ y.phase = k.phase /\ y.call = k.call /\ y.stray = k.stray /\ y.pc = k.pc
          /\ y.nego = k.nego /\ y.dial = [k.dial EXCEPT ![c] = "none"]
      BY <1>1, <1>2, <2>1 DEF Client
    <2> HIDE DEF x, y
    <2>4. ASSUME k.phase = "outgoing" PROVE Right(x)
      <3>1. k.pc # "stable" /\ \A d \in Ids : k.nego[d].at # "none" => k.nego[d].pc # "kept"
        BY <1>1, <2>4 DEF Asks
      <3>2. Sound(x, call)
        BY <1>1, <2>3, <2>4, <3>1 DEF Sound, Busy
      <3>3. Asks(u, x, call)
        BY <1>0, <1>1, <1>2, <2>1, <2>3, <2>4, <3>1 DEF Asks
      <3>4. QED
        BY <1>1, <1>2, <2>1, <2>3, <2>4, <3>2, <3>3 DEF Fits, Steady, Loose
    <2>5. Right(y)
      <3>1. Sound(y, call)
        BY <1>1, <2>3 DEF Sound, Busy
      <3>2. Asks(u, y, call)
        BY <1>0, <1>1, <1>2, <2>1, <2>3 DEF Asks
      <3>3. QED
        BY <1>1, <1>2, <2>1, <2>3, <3>1, <3>2 DEF Fits, Steady, Loose
    <2>6. QED
      BY <1>0, <1>7, <2>1, <2>2, <2>4, <2>5, HearsTalk
  <1>22. ASSUME NEW c \in Ids, NEW stage \in {"offer", "answer", "apply", "fail"}
         PROVE  LET x == Negotiates(k, stage) IN k.call = c =>
                /\ x \in Client /\ x.phase = k.phase /\ x.call = k.call /\ x.dial = k.dial
                /\ x.stray = k.stray /\ x.pc = k.pc
                /\ \A d \in Ids : x.nego[d] = IF d = c THEN [at |-> stage, pc |-> "kept"] ELSE k.nego[d]
                /\ x.nego \in [Ids -> Negotiation]
    BY <1>1, <1>2 DEF Client, Negotiates, Negotiation
  <1>23. ASSUME PhoneAccepted(u) PROVE TalkInv'
    <2> DEFINE c == Heard(u)
    <2>1. c \in Ids /\ c # None /\ Answered(call, c) /\ Hears(u, "accepted") /\ UNCHANGED <<outbox, notified, netVars>>
      BY <1>0, <1>23, Hearing DEF PhoneAccepted, Talk
    <2>2. CASE k.call = c /\ Dialled(u, k.call) /\ k.pc # "none"
      <3> DEFINE n == Negotiates(k, "offer")
                 x == [n EXCEPT !.phase = "connecting", !.watch = TRUE]
      <3>1. Become(u, x)
        BY <1>23, <2>2 DEF PhoneAccepted
      <3> HIDE DEF c
      <3>2. /\ n \in Client /\ n.call = k.call /\ n.dial = k.dial
            /\ n.stray = k.stray /\ n.pc = k.pc
            /\ \A d \in Ids : n.nego[d] = IF d = c THEN [at |-> "offer", pc |-> "kept"] ELSE k.nego[d]
        BY <1>22, <2>1, <2>2
      <3> HIDE DEF n
      <3>3. /\ x \in Client /\ x.phase = "connecting" /\ x.call = c /\ x.dial = k.dial
            /\ x.stray = k.stray /\ x.pc = k.pc
            /\ \A d \in Ids : x.nego[d] = IF d = c THEN [at |-> "offer", pc |-> "kept"] ELSE k.nego[d]
        BY <2>2, <3>2 DEF Client
      <3> HIDE DEF x
      <3>4. \A d \in Ids : k.dial[d] # "none" => d # c
        BY <1>1, <2>2 DEF Asks
      <3>5. ~Loose(client[Other(u)], c)
        <4>1. Asks(Other(u), client[Other(u)], call) /\ Other(u) # u
          BY <1>0, Begins, OfTwo
        <4>2. ~Mine(Other(u), call, c)
          BY <2>2, <4>1 DEF Mine, Dialled
        <4>3. QED
          BY <2>1, <4>1, <4>2 DEF Loose, Asks
      <3>6. Sound(x, call)
        BY <1>1, <2>1, <2>2, <3>3 DEF Sound, Busy
      <3>7. Asks(u, x, call)
        BY <1>0, <1>1, <2>2, <3>3, <3>4 DEF Asks
      <3>8. ~Loose(x, c) /\ Steady(k, x, call)
        BY <2>1, <3>3, <3>4 DEF Loose, Steady
      <3>9. Right(x)
        BY <1>1, <3>3, <3>5, <3>6, <3>7, <3>8 DEF Fits
      <3>10. QED
        BY <1>0, <1>7, <2>1, <3>1, <3>9, HearsTalk
    <2>3. CASE ~(k.call = c /\ Dialled(u, k.call) /\ k.pc # "none")
      BY <1>0, <1>4, <1>7, <1>23, <2>1, <2>3, HearsTalk DEF PhoneAccepted
    <2>4. QED
      BY <2>2, <2>3
  <1>24. ASSUME NEW type \in {"offer", "answer"}, PhoneSdp(u, type) PROVE TalkInv'
    <2> DEFINE c == Heard(u)
               stage == IF type = "offer" THEN "answer" ELSE IF k.pc = "offered" THEN "apply" ELSE "fail"
    <2>1. /\ c \in Ids /\ c # None /\ Answered(call, c) /\ Settled(client, c)
          /\ Hears(u, type) /\ UNCHANGED <<outbox, notified, netVars>>
      BY <1>0, <1>24, Hearing DEF PhoneSdp, Talk
    <2>2. CASE k.call = c /\ k.pc # "none"
      <3> DEFINE x == Negotiates(k, stage)
      <3>1. Become(u, x)
        BY <1>24, <2>2 DEF PhoneSdp
      <3> HIDE DEF c
      <3>2. /\ x \in Client /\ x.phase = k.phase /\ x.call = c /\ x.dial = k.dial
            /\ x.stray = k.stray /\ x.pc = k.pc
            /\ \A d \in Ids : x.nego[d] = IF d = c THEN [at |-> stage, pc |-> "kept"] ELSE k.nego[d]
        BY <1>22, <2>1, <2>2
      <3> HIDE DEF x
      <3>3. k.phase # "outgoing"
        BY <1>0, <2>1, <2>2 DEF Settled, Loose
      <3>4. Sound(x, call)
        BY <1>1, <2>1, <2>2, <3>2 DEF Sound, Busy
      <3>5. Asks(u, x, call)
        BY <1>0, <1>1, <2>2, <3>2, <3>3 DEF Asks
      <3>6. Steady(k, x, call)
        BY <2>2, <3>2 DEF Loose, Steady
      <3>7. Right(x)
        BY <1>1, <2>1, <3>2, <3>4, <3>5, <3>6 DEF Fits
      <3>8. QED
        BY <1>0, <1>7, <2>1, <3>1, <3>7, HearsTalk
    <2>3. CASE ~(k.call = c /\ k.pc # "none")
      BY <1>0, <1>4, <1>7, <1>24, <2>1, <2>3, HearsTalk DEF PhoneSdp
    <2>4. QED
      BY <2>2, <2>3
  <1>25. ASSUME NEW c \in Ids, PhoneNegotiated(u, c) PROVE TalkInv'
    <2> DEFINE n == k.nego[c]
               done == [k EXCEPT !.nego[c] = Quiet]
               x == [done EXCEPT !.pc = IF n.at = "offer" THEN "offered" ELSE "stable"]
               y == [done EXCEPT !.stray = IF n.at = "offer" THEN @ ELSE @ \cup {c}]
               es == IF n.at = "apply" THEN <<>> ELSE Event(n.at, c)
    <2>1. n.at # "none" /\ Settled(client, c) /\ Answered(call, c) /\ UNCHANGED <<inbox, netVars>>
      BY <1>1, <1>25 DEF PhoneNegotiated
    <2>2. /\ done \in Client /\ done.nego = [k.nego EXCEPT ![c] = Quiet] /\ Less(done, k)
          /\ done.phase = k.phase /\ done.call = k.call /\ done.dial = k.dial
          /\ done.stray = k.stray /\ done.pc = k.pc
      BY <1>8
    <2>3. CASE n.pc = "closed" \/ n.at = "fail"
      BY <1>7, <1>9, <1>25, <2>1, <2>2, <2>3 DEF PhoneNegotiated
    <2>4. CASE ~(n.pc = "closed" \/ n.at = "fail")
      <3>1. n \in Negotiation
        BY <1>2
      <3>2. n.at \in {"offer", "answer", "apply"} /\ n.pc \in {"kept", "lost"}
        BY <2>1, <2>4, <3>1 DEF Negotiation
      <3>3. es \in Said
        BY <1>7, <2>1, <3>2, Sendable
      <3>4. /\ n.pc = "kept" => Become(u, x)
            /\ n.pc = "lost" => Become(u, y)
            /\ Sends(u, es) /\ UNCHANGED notified
        BY <1>25, <2>4 DEF PhoneNegotiated
      <3>5. /\ x \in Client /\ x.nego = [k.nego EXCEPT ![c] = Quiet] /\ x.pc \in {"offered", "stable"}
            /\ x.phase = k.phase /\ x.call = k.call /\ x.dial = k.dial /\ x.stray = k.stray
            /\ y \in Client /\ y.nego = [k.nego EXCEPT ![c] = Quiet] /\ y.pc = k.pc
            /\ y.phase = k.phase /\ y.call = k.call /\ y.dial = k.dial
            /\ k.stray \subseteq y.stray /\ y.stray \subseteq k.stray \cup {c}
        <4> HIDE DEF done
        <4>1. QED
          BY <1>2, <2>2 DEF Client
      <3> HIDE DEF x, y, es
      <3>6. \A d \in Ids : /\ x.nego[d] = k.nego[d] \/ x.nego[d].at = "none"
                           /\ y.nego[d] = k.nego[d] \/ y.nego[d].at = "none"
        BY <1>2, <3>5 DEF Quiet
      <3>7. ASSUME n.pc = "kept" PROVE Right(x)
        <4>1. k.call = c /\ k.phase # "outgoing"
          BY <1>1, <2>1, <3>7 DEF Sound, Asks
        <4>2. Sound(x, call)
          BY <1>1, <2>1, <3>5, <3>6, <4>1 DEF Sound, Busy
        <4>3. Asks(u, x, call)
          BY <1>0, <1>1, <3>5, <3>6, <4>1 DEF Asks
        <4>4. QED
          BY <1>1, <3>5, <3>6, <4>2, <4>3 DEF Fits, Steady, Loose
      <3>8. Right(y)
        <4>1. Sound(y, call)
          BY <1>1, <2>1, <3>5, <3>6 DEF Sound, Busy
        <4>2. Asks(u, y, call)
          BY <1>0, <1>1, <3>5, <3>6 DEF Asks
        <4>3. QED
          BY <1>1, <3>5, <3>6, <4>1, <4>2 DEF Fits, Steady, Loose
      <3>9. QED
        BY <1>0, <2>1, <3>2, <3>3, <3>4, <3>7, <3>8, DoesTalk
    <2>5. QED
      BY <2>3, <2>4
  <1>26. ASSUME PhoneTold(u) PROVE TalkInv'
    <2>1. PICK type : Hears(u, type)
      BY <1>26 DEF PhoneTold
    <2>2. CASE Heard(u) = k.call
      BY <1>0, <1>5, <1>7, <1>26, <2>1, <2>2, HearsTalk DEF PhoneTold, netVars
    <2>3. CASE Heard(u) # k.call
      <3>1. Become(u, k)
        BY <1>0, <1>26, <2>3, Typed DEF PhoneTold, Become
      <3>2. QED
        BY <1>0, <1>4, <1>7, <1>26, <2>1, <2>3, <3>1, HearsTalk DEF PhoneTold, netVars
    <2>4. QED
      BY <2>2, <2>3
  <1>27. ASSUME PhoneGivesUp(u) PROVE TalkInv'
    <2> DEFINE x == [k EXCEPT !.watch = FALSE]
    <2>1. /\ x \in Client /\ x.nego = k.nego /\ x.pc = k.pc
          /\ x.phase = k.phase /\ x.call = k.call /\ x.dial = k.dial /\ x.stray = k.stray
      BY <1>1 DEF Client
    <2>2. Right(x)
      BY <1>0, <2>1, Alike
    <2>3. CASE k.phase = "connecting"
      BY <1>3, <1>7, <1>9, <1>27, <2>3 DEF PhoneGivesUp
    <2>4. CASE k.phase # "connecting"
      BY <1>0, <1>27, <2>2, <2>4, DoesSilently DEF PhoneGivesUp
    <2>5. QED
      BY <2>3, <2>4
  <1>28. ASSUME PhoneConnects(u), Held(k) # {} PROVE TalkInv'
    <2> DEFINE x == [k EXCEPT !.phase = "active", !.watch = FALSE]
    <2>1. /\ x \in Client /\ x.nego = k.nego /\ x.pc = k.pc
          /\ x.phase = "active" /\ x.call = k.call /\ x.dial = k.dial /\ x.stray = k.stray
      BY <1>1 DEF Client
    <2>2. k.stray = {} => Answered(call, k.call)
      BY <1>1, <1>28 DEF Held, Sound
    <2>3. Become(u, x) /\ UNCHANGED <<inbox, outbox, notified, netVars>>
      BY <1>28 DEF PhoneConnects
    <2> HIDE DEF x
    <2>4. Sound(x, call)
      BY <1>1, <2>1, <2>2 DEF Sound, Busy
    <2>5. Asks(u, x, call)
      BY <1>0, <1>1, <2>1 DEF Asks
    <2>6. Right(x)
      BY <1>1, <2>1, <2>4, <2>5 DEF Fits, Steady, Loose
    <2>7. QED
      BY <1>0, <2>3, <2>6, DoesSilently
  <1>29. ASSUME NEW c \in Ids, PhoneLosesMedia(u, c) PROVE TalkInv'
    <2>1. Less([k EXCEPT !.stray = @ \ {c}], k)
      BY <1>1, <1>2 DEF Client, Less
    <2>2. QED
      BY <1>7, <1>9, <1>29, <2>1 DEF PhoneLosesMedia
  <1>30. QED
    BY <1>10, <1>11, <1>13, <1>14, <1>15, <1>17, <1>18, <1>19, <1>20, <1>21, <1>23, <1>24, <1>25,
       <1>26, <1>27, <1>28, <1>29 DEF PhoneUser, PhoneHears, PhoneResumes
-----------------------------------------------------------------------------
(***************************************************************************)
(* What a step of the gateway comes to.                                    *)
(***************************************************************************)
LEMMA GatewayKeeps ==
    ASSUME TalkInv, Grows(call, call'), UNCHANGED <<client, online, drops>>,
           notified' \in [Clients -> Ids \cup {None}],
           \A v \in Clients : notified'[v] # None => Rung(v, call', notified'[v]),
           \/ UNCHANGED inbox
           \/ \E sent : Emit(sent) /\ \A v \in Clients : sent[v] \in Seq(Heards(v, call', client)),
           \/ UNCHANGED outbox
           \/ \E u \in Clients : outbox[u] # <<>> /\ outbox' = [outbox EXCEPT ![u] = Tail(@)]
    PROVE  TalkInv'
  <1>1. ASSUME NEW v \in Clients
        PROVE  /\ Heards(v, call, client) \subseteq Heards(v, call', client')
               /\ Sents(v, call, client) \subseteq Sents(v, call', client')
               /\ \A x : Sound(x, call) => Sound(x, call')
               /\ \A x : Asks(v, x, call) => Asks(v, x, call')
    <2>1. Taken(call) /\ Grows(call, call') /\ \A w \in Clients : Steady(client[w], client'[w], call)
      BY Typed, Ages
    <2>2. QED
      BY ONLY <2>1, Growing
  <1>2. ASSUME NEW v \in Clients PROVE inbox'[v] \in Seq(Heards(v, call', client')) /\ inbox'[v] \in Seq(Msg)
    <2>1. inbox[v] \in Seq(Heards(v, call, client)) /\ inbox \in [Clients -> Seq(Msg)]
      BY Typed DEF TalkInv
    <2>2. inbox[v] \in Seq(Heards(v, call', client'))
      BY <1>1, <2>1, Widened
    <2>3. CASE UNCHANGED inbox
      BY <2>1, <2>2, <2>3
    <2>4. ASSUME NEW sent, Emit(sent), \A w \in Clients : sent[w] \in Seq(Heards(w, call', client))
          PROVE  inbox'[v] \in Seq(Heards(v, call', client'))
      <3>1. inbox[v] \o sent[v] \in Seq(Heards(v, call', client'))
        BY <2>2, <2>4, Concats
      <3>2. QED
        BY <2>2, <2>4, <3>1 DEF Emit
    <2>5. inbox'[v] \in Seq(Heards(v, call', client'))
      BY <2>2, <2>3, <2>4
    <2>6. Heards(v, call', client') \subseteq Msg
      BY DEF Heards
    <2>7. QED
      BY <2>5, <2>6, Widened
  <1>3. ASSUME NEW v \in Clients PROVE outbox'[v] \in Seq(Sents(v, call', client')) /\ outbox'[v] \in Seq(Msg)
    <2>1. outbox[v] \in Seq(Sents(v, call, client)) /\ outbox \in [Clients -> Seq(Msg)]
      BY Typed DEF TalkInv
    <2>2. outbox[v] # <<>> => Tail(outbox[v]) \in Seq(Sents(v, call, client))
      BY <2>1, Tails
    <2>3. outbox'[v] \in {outbox[v], Tail(outbox[v])} /\ (outbox'[v] # outbox[v] => outbox[v] # <<>>)
      BY <2>1
    <2>4. outbox'[v] \in Seq(Sents(v, call, client))
      BY <2>1, <2>2, <2>3
    <2>5. Sents(v, call', client') \subseteq Msg
      BY DEF Sents
    <2>6. outbox'[v] \in Seq(Sents(v, call', client'))
      BY <1>1, <2>4, Widened
    <2>7. QED
      BY <2>5, <2>6, Widened
  <1>4. inbox' \in [Clients -> Seq(Msg)] /\ outbox' \in [Clients -> Seq(Msg)]
    <2>1. inbox \in [Clients -> Seq(Msg)] /\ outbox \in [Clients -> Seq(Msg)]
      BY Typed
    <2>2. \E f : inbox' = [v \in Clients |-> f[v]]
      BY <2>1 DEF Emit
    <2>3. \E f : outbox' = [v \in Clients |-> f[v]]
      BY <2>1
    <2>4. QED
      BY <1>2, <1>3, <2>2, <2>3
  <1>5. ASSUME NEW v \in Clients
        PROVE  /\ Sound(client'[v], call') /\ Asks(v, client'[v], call')
               /\ \A c \in Ids : client'[v].nego[c].at # "none" => Settled(client', c)
    BY <1>1 DEF TalkInv
  <1>6. client' \in [Clients -> Client] /\ online' \in [Clients -> BOOLEAN] /\ drops' \in 0..MaxDrops
    BY Typed
  <1>7. QED
    BY <1>2, <1>3, <1>4, <1>5, <1>6, Keeps

\* What the gateway takes from a client.
LEMMA Asking ==
    ASSUME TalkInv, NEW u \in Clients, NEW type, Took(u, type)
    PROVE  /\ outbox[u] # <<>> /\ outbox' = [outbox EXCEPT ![u] = Tail(@)]
           /\ Head(outbox[u]).type = type /\ Asked(u) \in Ids
           /\ type = "invite" => Mine(u, call, Asked(u))
           /\ type \in {"offer", "answer"} => Answered(call, Asked(u)) /\ Settled(client, Asked(u))
  <1>1. outbox[u] \in Seq(Sents(u, call, client)) /\ outbox[u] # <<>> /\ Head(outbox[u]).type = type
    BY DEF Took, TalkInv
  <1>2. Head(outbox[u]) \in Sents(u, call, client)
    BY <1>1, Tails
  <1>3. QED
    BY <1>1, <1>2 DEF Took, Asked, Sents, Spoken, Msg, Talk

\* What it says: anything but talk, or talk about a call that was answered.
LEMMA Sayable ==
    ASSUME NEW v, NEW type, NEW c \in Ids,
           \/ type \in {"ack", "rejected", "cancelled", "busy", "missed", "ended"}
           \/ type = "incoming" /\ Rung(v, call', c)
           \/ type = "accepted" /\ Answered(call', c)
           \/ type \in {"offer", "answer"} /\ Answered(call', c) /\ Settled(client, c)
    PROVE  Event(type, c) \in Seq(Heards(v, call', client)) /\ <<>> \in Seq(Heards(v, call', client))
  <1>1. [type |-> type, call |-> c] \in Heards(v, call', client)
    BY Numbers DEF Heards, Msg, Talk, Spoken
  <1>2. QED
    BY <1>1, Events

\* A push is about a call the phone is rung for.
LEMMA Pushing ==
    ASSUME TalkInv, Grows(call, call'), NEW u \in Clients, NEW c \in Ids \cup {None},
           Push(u, c) \/ UNCHANGED notified, c # None => Rung(u, call', c)
    PROVE  /\ notified' \in [Clients -> Ids \cup {None}]
           /\ \A v \in Clients : notified'[v] # None => Rung(v, call', notified'[v])
  <1>1. notified \in [Clients -> Ids \cup {None}] /\ \A v \in Clients : notified[v] # None => Rung(v, call, notified[v])
    BY Typed DEF TalkInv
  <1>2. \A v \in Clients : notified[v] # None => Rung(v, call', notified[v])
    BY <1>1 DEF Rung, Made, Grows
  <1>3. UNCHANGED notified \/ notified' = [notified EXCEPT ![u] = c]
    BY DEF Push
  <1>4. QED
    BY <1>1, <1>2, <1>3

\* A call goes on, and who dialled it stays.
LEMMA Goes ==
    ASSUME TalkInv, NEW c \in Ids, Made(call, c), NEW status \in {"ringing", "over"},
           call' = [call EXCEPT ![c].status = status]
    PROVE  Grows(call, call') /\ call'[c].caller = call[c].caller /\ Made(call', c)
  <1>1. call \in CallType /\ Taken(call)
    BY Typed
  <1>2. call' \in CallType
    BY <1>1 DEF CallType
  <1>3. /\ call'[c].status = status /\ call'[c].caller = call[c].caller /\ call'[c].answered = call[c].answered
        /\ \A d \in Ids : d # c => call'[d] = call[d]
    BY <1>1 DEF CallType
  <1>4. QED
    BY <1>1, <1>2, <1>3 DEF Grows, Taken, Made

LEMMA GatewayTalks ==
    ASSUME TalkInv,
           \/ \E u \in Clients : Serve(u)
           \/ \E u \in Phones, c \in Ids : GraceExpires(u, c)
           \/ \E c \in Ids : RingTimeout(c)
    PROVE  TalkInv'
  <1>0. /\ call \in CallType /\ Taken(call) /\ Grows(call, call)
        /\ \A c \in Ids : Live(c) => Made(call, c)
    BY Typed, Ages DEF Live, Made
  <1>1. ASSUME NEW u \in Clients, NEW es,
               es \in Seq(Heards(u, call', client)), Emit(To(u, es))
        PROVE  \E sent : Emit(sent) /\ \A v \in Clients : sent[v] \in Seq(Heards(v, call', client))
    <2>1. \A v \in Clients : To(u, es)[v] \in Seq(Heards(v, call', client))
      BY <1>1 DEF To
    <2>2. QED
      BY <1>1, <2>1
  <1>2. ASSUME NEW u \in Clients, OnInvite(u) PROVE TalkInv'
    <2> DEFINE c == Asked(u)
               w == Other(u)
               both == [v \in Clients |-> Event(IF v = u THEN "ack" ELSE "incoming", c)]
    <2>1. /\ outbox[u] # <<>> /\ outbox' = [outbox EXCEPT ![u] = Tail(@)]
          /\ c \in Ids /\ Made(call, c) /\ call[c].caller = u
          /\ UNCHANGED <<client, online, drops>>
      BY <1>2, Asking DEF OnInvite, Mine
    <2>2. \/ /\ call' = [call EXCEPT ![c].status = "over"]
             /\ Emit(To(u, Event("busy", c) \o Event("ack", c)))
             /\ UNCHANGED notified
          \/ /\ call' = [call EXCEPT ![c].status = "ringing"]
             /\ Emit(both)
             /\ Push(w, c)
      BY <1>2 DEF OnInvite
    <2>3. w \in Clients /\ w # u /\ \A v \in Clients : v = u \/ v = w
      BY OfTwo
    <2> HIDE DEF c, w, both
    <2>4. Grows(call, call') /\ call'[c].caller = u /\ Made(call', c) /\ Rung(w, call', c)
      BY <2>1, <2>2, <2>3, Goes DEF Rung
    <2>5. /\ notified' \in [Clients -> Ids \cup {None}]
          /\ \A v \in Clients : notified'[v] # None => Rung(v, call', notified'[v])
      BY <2>1, <2>2, <2>3, <2>4, Pushing
    <2>6. \E sent : Emit(sent) /\ \A v \in Clients : sent[v] \in Seq(Heards(v, call', client))
      <3>1. /\ Event("busy", c) \in Seq(Heards(u, call', client)) /\ Event("ack", c) \in Seq(Heards(u, call', client))
            /\ Event("incoming", c) \in Seq(Heards(w, call', client))
        BY <2>1, <2>4, Sayable
      <3>2. Event("busy", c) \o Event("ack", c) \in Seq(Heards(u, call', client))
        BY <3>1, Concats
      <3>3. \A v \in Clients : both[v] \in Seq(Heards(v, call', client))
        BY <2>3, <3>1 DEF both
      <3>4. QED
        BY <1>1, <2>2, <3>2, <3>3
    <2>7. QED
      BY <2>1, <2>4, <2>5, <2>6, GatewayKeeps
  <1>3. ASSUME NEW u \in Clients, OnAccept(u) PROVE TalkInv'
    <2> DEFINE c == Asked(u)
    <2>1. /\ outbox[u] # <<>> /\ outbox' = [outbox EXCEPT ![u] = Tail(@)]
          /\ c \in Ids /\ UNCHANGED <<client, online, notified, drops>>
      BY <1>3, Asking DEF OnAccept
    <2>2. CASE /\ call' = [call EXCEPT ![c].status = "accepted", ![c].answered = TRUE]
               /\ Emit(To(Other(u), Event("accepted", c))) /\ Live(c)
      <3> HIDE DEF c
      <3>1. /\ call' \in CallType /\ call'[c].status = "accepted" /\ call'[c].answered
            /\ call'[c].caller = call[c].caller /\ \A d \in Ids : d # c => call'[d] = call[d]
        BY <1>0, <2>1, <2>2 DEF CallType
      <3>2. Grows(call, call') /\ Answered(call', c)
        BY <1>0, <2>1, <3>1 DEF Grows, Taken, Made, Answered
      <3>3. Event("accepted", c) \in Seq(Heards(Other(u), call', client)) /\ Other(u) \in Clients
        BY <2>1, <3>2, Sayable, OfTwo
      <3>4. \E sent : Emit(sent) /\ \A v \in Clients : sent[v] \in Seq(Heards(v, call', client))
        BY <1>1, <2>2, <3>3
      <3>5. /\ notified' \in [Clients -> Ids \cup {None}]
            /\ \A v \in Clients : notified'[v] # None => Rung(v, call', notified'[v])
        BY <2>1, <3>2, Pushing
      <3>6. QED
        BY <2>1, <3>2, <3>4, <3>5, GatewayKeeps
    <2>3. CASE UNCHANGED <<call, inbox>>
      <3>1. Grows(call, call')
        BY <1>0, <2>3
      <3>2. /\ notified' \in [Clients -> Ids \cup {None}]
            /\ \A v \in Clients : notified'[v] # None => Rung(v, call', notified'[v])
        BY <2>1, <3>1, Pushing
      <3>3. QED
        BY <2>1, <2>3, <3>1, <3>2, GatewayKeeps
    <2>4. QED
      BY <1>3, <2>2, <2>3 DEF OnAccept
  <1>4. ASSUME NEW u \in Clients, NEW type \in {"reject", "cancel", "end"}, OnHangUp(u, type)
        PROVE  TalkInv'
    <2> DEFINE c == Asked(u)
               told == CASE type = "reject" -> "rejected"
                         [] type = "cancel" -> "cancelled"
                         [] type = "end"    -> "ended"
    <2>1. /\ outbox[u] # <<>> /\ outbox' = [outbox EXCEPT ![u] = Tail(@)] /\ c \in Ids
          /\ UNCHANGED <<client, online, drops>>
      BY <1>4, Asking DEF OnHangUp
    <2>2. CASE /\ Ends(c) /\ Live(c)
               /\ Emit(To(Other(u), Event(told, c)))
               /\ IF type = "reject" THEN UNCHANGED notified ELSE Push(Other(u), None)
      <3>1. told \in {"rejected", "cancelled", "ended"}
        OBVIOUS
      <3> HIDE DEF told, c
      <3>2. Event(told, c) \in Seq(Heards(Other(u), call', client)) /\ Other(u) \in Clients
        BY <2>1, <3>1, Sayable, OfTwo
      <3>3. \E sent : Emit(sent) /\ \A v \in Clients : sent[v] \in Seq(Heards(v, call', client))
        BY <1>1, <2>2, <3>2
      <3>4. Grows(call, call')
        BY <1>0, <2>1, <2>2, Goes DEF Ends
      <3>5. /\ notified' \in [Clients -> Ids \cup {None}]
            /\ \A v \in Clients : notified'[v] # None => Rung(v, call', notified'[v])
        BY <2>2, <3>2, <3>4, Pushing
      <3>6. QED
        BY <2>1, <3>3, <3>4, <3>5, GatewayKeeps
    <2>3. CASE UNCHANGED <<call, inbox, notified>>
      <3>1. Grows(call, call')
        BY <1>0, <2>3
      <3>2. /\ notified' \in [Clients -> Ids \cup {None}]
            /\ \A v \in Clients : notified'[v] # None => Rung(v, call', notified'[v])
        BY <2>1, <2>3, <3>1, Pushing
      <3>3. QED
        BY <2>1, <2>3, <3>1, <3>2, GatewayKeeps
    <2>4. QED
      BY <1>4, <2>2, <2>3 DEF OnHangUp
  <1>5. ASSUME NEW u \in Clients, NEW type \in {"offer", "answer"}, OnSdp(u, type) PROVE TalkInv'
    <2> DEFINE c == Asked(u)
    <2>1. /\ outbox[u] # <<>> /\ outbox' = [outbox EXCEPT ![u] = Tail(@)]
          /\ c \in Ids /\ Answered(call, c) /\ Settled(client, c)
          /\ UNCHANGED <<client, notified, call, online, drops>>
      BY <1>5, Asking DEF OnSdp, netVars
    <2> HIDE DEF c
    <2>2. Grows(call, call')
      BY <1>0, <2>1
    <2>3. /\ notified' \in [Clients -> Ids \cup {None}]
          /\ \A v \in Clients : notified'[v] # None => Rung(v, call', notified'[v])
      BY <2>1, <2>2, Pushing
    <2>4. Event(type, c) \in Seq(Heards(Other(u), call', client)) /\ Other(u) \in Clients
      BY <2>1, Sayable, OfTwo
    <2>5. UNCHANGED inbox \/ Emit(To(Other(u), Event(type, c)))
      BY <1>5 DEF OnSdp, c
    <2>6. UNCHANGED inbox \/ \E sent : Emit(sent) /\ \A v \in Clients : sent[v] \in Seq(Heards(v, call', client))
      BY <1>1, <2>4, <2>5
    <2>7. QED
      BY <2>1, <2>2, <2>3, <2>6, GatewayKeeps
  <1>6. ASSUME NEW c \in Ids, Live(c), Ends(c), UNCHANGED <<client, outbox, online, drops>>,
               NEW v \in Clients, Push(v, None) \/ UNCHANGED notified,
               \E sent : Emit(sent) /\ \A x \in Clients : sent[x] \in Seq(Heards(x, call', client))
        PROVE  TalkInv'
    <2>1. Grows(call, call')
      BY <1>0, <1>6, Goes DEF Ends
    <2>2. /\ notified' \in [Clients -> Ids \cup {None}]
          /\ \A x \in Clients : notified'[x] # None => Rung(x, call', notified'[x])
      BY <1>6, <2>1, Pushing
    <2>3. QED
      BY <1>6, <2>1, <2>2, GatewayKeeps
  <1>7. ASSUME NEW u \in Phones, NEW c \in Ids, GraceExpires(u, c) PROVE TalkInv'
    <2>1. u \in Clients /\ Other(u) \in Clients
      BY OfTwo DEF Clients
    <2>2. Event("ended", c) \in Seq(Heards(Other(u), call', client))
      BY Sayable
    <2>3. \E sent : Emit(sent) /\ \A v \in Clients : sent[v] \in Seq(Heards(v, call', client))
      BY <1>1, <1>7, <2>1, <2>2 DEF GraceExpires
    <2>4. QED
      BY <1>6, <1>7, <2>1, <2>3 DEF GraceExpires
  <1>8. ASSUME NEW c \in Ids, RingTimeout(c) PROVE TalkInv'
    <2>1. Other(call[c].caller) \in Clients /\ Live(c)
      BY <1>0, <1>8, OfTwo DEF CallType, RingTimeout, Live
    <2>2. \A v \in Clients : Event("missed", c) \in Seq(Heards(v, call', client))
      BY Sayable
    <2> DEFINE sent == [w \in Clients |-> Event("missed", c)]
    <2>3. Emit(sent) /\ \A v \in Clients : sent[v] \in Seq(Heards(v, call', client))
      BY <1>8, <2>2 DEF RingTimeout
    <2>4. QED
      BY <1>6, <1>8, <2>1, <2>3 DEF RingTimeout
  <1>9. QED
    BY <1>2, <1>3, <1>4, <1>5, <1>7, <1>8 DEF Serve

\* A phone comes and goes; what it would have been told of its invitations is lost.
LEMMA DropTalks ==
    ASSUME TalkInv, NEW u \in Phones, Drop(u) \/ Reconnect(u)
    PROVE  TalkInv'
  <1>0. u \in Clients /\ u \notin Webs
    BY CallSignalsAssumption DEF Clients
  <1>1. UNCHANGED <<call, notified>> /\ Grows(call, call') /\ Grows(call, call)
    BY Ages DEF Drop, Reconnect
  <1> DEFINE e == [c \in Ids |-> IF client[u].dial[c] = "ack" THEN "none" ELSE client[u].dial[c]]
             x == [client[u] EXCEPT !.dial = e]
  <1>2. client' = client \/ client' = [client EXCEPT ![u] = x]
    <2>1. CASE Drop(u)
      <3>1. client \in [Clients -> Client] /\ client[u] \in Client
        BY <1>0, Typed
      <3>2. client' = [client EXCEPT ![u].dial = [c \in Ids |-> IF @[c] = "ack" THEN "none" ELSE @[c]]]
        BY <2>1 DEF Drop
      <3>3. QED
        BY <3>1, <3>2 DEF Client
    <2>2. CASE Reconnect(u)
      BY <2>2 DEF Reconnect
    <2>3. QED
      BY <2>1, <2>2
  <1>3. /\ client[u] \in Client /\ Sound(client[u], call) /\ Asks(u, client[u], call)
    BY <1>0, Begins
  <1>4. /\ e \in [Ids -> {"none", "media", "peer", "ack", "stale", "cancelled"}]
        /\ \A c \in Ids : e[c] # "none" => client[u].dial[c] # "none"
    BY <1>3 DEF Client
  <1> HIDE DEF e
  <1>5. /\ x \in Client /\ x.phase = client[u].phase /\ x.call = client[u].call /\ x.pc = client[u].pc
        /\ x.stray = client[u].stray /\ x.nego = client[u].nego /\ x.dial = e
    BY <1>3, <1>4 DEF Client
  <1> HIDE DEF x
  <1>6. Sound(x, call) /\ Asks(u, x, call) /\ Steady(client[u], x, call)
    BY <1>0, <1>3, <1>4, <1>5 DEF Sound, Asks, Steady, Loose, Busy
  <1>7. /\ client' \in [Clients -> Client]
        /\ \A v \in Clients : client'[v] = client[v] \/ (v = u /\ client'[v] = x)
    BY <1>2, <1>5, Typed
  <1>8. \A v \in Clients : Steady(client[v], client'[v], call)
    BY <1>6, <1>7, Ages
  <1>9. ASSUME NEW v \in Clients
        PROVE  /\ \A c \in Ids : Made(call, c) /\ Settled(client, c) => Settled(client', c)
               /\ Heards(v, call, client) \subseteq Heards(v, call', client')
               /\ Sents(v, call, client) \subseteq Sents(v, call', client')
               /\ \A y : Sound(y, call) => Sound(y, call')
               /\ \A y : Asks(v, y, call) => Asks(v, y, call')
    <2>1. Taken(call)
      BY Typed
    <2>2. QED
      BY ONLY <1>1, <1>8, <2>1, Growing
  <1>10. ASSUME NEW v \in Clients
         PROVE  /\ Sound(client'[v], call') /\ Asks(v, client'[v], call')
                /\ \A c \in Ids : client'[v].nego[c].at # "none" => Settled(client', c)
    <2>1. client'[v].nego = client[v].nego /\ Sound(client'[v], call) /\ Asks(v, client'[v], call)
      BY <1>5, <1>6, <1>7, Begins
    <2>2. \A c \in Ids : client[v].nego[c].at # "none" => Settled(client, c) /\ Made(call, c)
      BY Begins, Typed DEF Taken, Answered, Made
    <2>3. QED
      BY <1>9, <2>1, <2>2
  <1>11. ASSUME NEW v \in Clients
         PROVE  /\ inbox'[v] \in Seq(Heards(v, call', client')) /\ inbox'[v] \in Seq(Msg)
                /\ outbox'[v] \in Seq(Sents(v, call', client')) /\ outbox'[v] \in Seq(Msg)
    <2>1. /\ inbox[v] \in Seq(Heards(v, call, client)) /\ inbox \in [Clients -> Seq(Msg)]
          /\ outbox[v] \in Seq(Sents(v, call, client)) /\ outbox \in [Clients -> Seq(Msg)]
      BY Typed DEF TalkInv
    <2>2. inbox'[v] \in {inbox[v], <<>>} /\ outbox'[v] \in {outbox[v], <<>>}
      BY <2>1 DEF Drop, Reconnect
    <2>3. inbox'[v] \in Seq(Heards(v, call, client)) /\ outbox'[v] \in Seq(Sents(v, call, client))
      <3>1. <<>> \in Seq(Heards(v, call, client)) /\ <<>> \in Seq(Sents(v, call, client))
        OBVIOUS
      <3>2. inbox[v] \in Seq(Heards(v, call, client)) /\ outbox[v] \in Seq(Sents(v, call, client))
        BY <2>1
      <3>3. QED
        BY ONLY <2>2, <3>1, <3>2
    <2>4. Heards(v, call', client') \subseteq Msg /\ Sents(v, call', client') \subseteq Msg
      BY DEF Heards, Sents
    <2>5. inbox'[v] \in Seq(Heards(v, call', client')) /\ outbox'[v] \in Seq(Sents(v, call', client'))
      BY <1>9, <2>3, Widened
    <2>6. QED
      BY <2>4, <2>5, Widened
  <1>12. /\ inbox' \in [Clients -> Seq(Msg)] /\ outbox' \in [Clients -> Seq(Msg)]
         /\ online' \in [Clients -> BOOLEAN] /\ drops' \in 0..MaxDrops
    <2>1. /\ inbox \in [Clients -> Seq(Msg)] /\ outbox \in [Clients -> Seq(Msg)]
          /\ online \in [Clients -> BOOLEAN] /\ drops \in 0..MaxDrops /\ <<>> \in Seq(Msg)
      BY Typed
    <2>2. CASE Drop(u)
      <3>1. drops < MaxDrops /\ drops' = drops + 1
        BY <2>2 DEF Drop
      <3>2. drops' \in 0..MaxDrops
        BY <2>1, <3>1, Numbers
      <3>3. QED
        BY <2>1, <2>2, <3>2 DEF Drop
    <2>3. CASE Reconnect(u)
      BY <2>1, <2>3 DEF Reconnect
    <2>4. QED
      BY <2>2, <2>3
  <1>13. /\ notified' \in [Clients -> Ids \cup {None}]
         /\ \A v \in Clients : notified'[v] # None => Rung(v, call', notified'[v])
    BY <1>1, Typed DEF TalkInv
  <1>14. QED
    BY <1>1, <1>7, <1>10, <1>11, <1>12, <1>13, Keeps

LEMMA TalkStep == TalkInv /\ [Next]_vars => TalkInv'
  <1> SUFFICES ASSUME TalkInv, [Next]_vars PROVE TalkInv'
    OBVIOUS
  <1>1. CASE UNCHANGED vars
    <2>1. /\ call' = call /\ client' = client /\ inbox' = inbox /\ outbox' = outbox
          /\ online' = online /\ notified' = notified /\ drops' = drops
      BY <1>1 DEF vars
    <2>2. \A v \in Clients :
              /\ Sound(client'[v], call') /\ Asks(v, client'[v], call')
              /\ \A c \in Ids : client'[v].nego[c].at # "none" => Settled(client', c)
              /\ inbox'[v] \in Seq(Heards(v, call', client'))
              /\ outbox'[v] \in Seq(Sents(v, call', client'))
              /\ notified'[v] # None => Rung(v, call', notified'[v])
      BY <2>1 DEF TalkInv
    <2>3. QED
      BY <2>1, <2>2, Typed, Ages, Keeps
  <1>2. ASSUME NEW u \in Clients,
               \/ User(u) \/ Receive(u) \/ Resume(u) \/ GivesUp(u) \/ Closes(u)
               \/ Connects(u) \/ \E c \in Ids : LosesMedia(u, c)
        PROVE  TalkInv'
    <2>1. Connects(u) => Held(client[u]) # {}
      BY DEF Connects
    <2>2. CASE u \in Webs
      BY <1>2, <2>1, <2>2, PageTalks DEF User, Receive, Resume, GivesUp, Closes, Connects, LosesMedia
    <2>3. CASE u \notin Webs
      <3>1. u \in Phones
        BY <2>3 DEF Clients
      <3>2. QED
        BY <1>2, <2>1, <2>3, <3>1, PhoneTalks DEF User, Receive, Resume, GivesUp, Closes, Connects, LosesMedia
    <2>4. QED
      BY <2>2, <2>3
  <1>3. QED
    BY <1>1, <1>2, GatewayTalks, DropTalks DEF Next

LEMMA TalkBegins == Init => TalkInv
  <1> SUFFICES ASSUME Init PROVE TalkInv
    OBVIOUS
  <1> DEFINE d == [c \in Ids |-> "none"]
             n == [c \in Ids |-> Quiet]
             k == [phase |-> "idle", call |-> None, cam |-> FALSE, pc |-> "none", stray |-> {},
                   watch |-> FALSE, close |-> FALSE, dial |-> d, ans |-> d, nego |-> n]
  <1>1. /\ d \in [Ids -> {"none", "media", "peer", "ack", "stale", "cancelled"}]
        /\ d \in [Ids -> {"none", "media", "peer"}] /\ n \in [Ids -> Negotiation]
        /\ \A c \in Ids : d[c] = "none" /\ n[c].at = "none"
    BY DEF Quiet, Negotiation
  <1>2. client = [u \in Clients |-> k]
    BY DEF Init
  <1> HIDE DEF d, n
  <1>3. k \in Client
    BY <1>1 DEF Client
  <1>4. Sound(k, call) /\ (\A u \in Clients : Asks(u, k, call)) /\ \A c \in Ids : ~Loose(k, c)
    BY <1>1, <1>3 DEF Sound, Asks, Loose
  <1> HIDE DEF k
  <1>5. call = [c \in Ids |-> [caller |-> CHOOSE u \in Clients : TRUE, status |-> "none", answered |-> FALSE]]
    BY DEF Init
  <1>6. call \in CallType /\ Taken(call)
    <2>1. (CHOOSE u \in Clients : TRUE) \in Clients
      BY CallSignalsAssumption
    <2>2. QED
      BY <1>5, <2>1 DEF CallType, Taken
  <1>7. inbox \in [Clients -> Seq(Msg)] /\ outbox \in [Clients -> Seq(Msg)]
    <2>1. <<>> \in Seq(Msg)
      OBVIOUS
    <2>2. QED
      BY <2>1 DEF Init
  <1>8. /\ online \in [Clients -> BOOLEAN] /\ notified \in [Clients -> Ids \cup {None}] /\ drops \in 0..MaxDrops
    BY Numbers DEF Init
  <1>9. TypeOK
    BY <1>2, <1>3, <1>4, <1>6, <1>7, <1>8 DEF TypeOK, CallType, Sound
  <1>10. \A u \in Clients : inbox[u] \in Seq(Heards(u, call, client)) /\ outbox[u] \in Seq(Sents(u, call, client))
    BY DEF Init
  <1>11. \A c \in Ids : Settled(client, c)
    BY <1>2, <1>4 DEF Settled
  <1>12. \A u \in Clients : notified[u] = None
    BY DEF Init
  <1>13. QED
    BY <1>2, <1>4, <1>6, <1>9, <1>10, <1>11, <1>12 DEF TalkInv, Taken
-----------------------------------------------------------------------------
(***************************************************************************)
(* What a page is told, step by step of the page ...                       *)
(***************************************************************************)
LEMMA Joined ==
    ASSUME NEW p \in Seq(Msg), NEW q \in Seq(Msg)
    PROVE  /\ \A i \in 1..Len(p) : i \in 1..Len(p \o q) /\ (p \o q)[i] = p[i]
           /\ \A j \in 1..Len(q) : Len(p) + j \in 1..Len(p \o q) /\ (p \o q)[Len(p) + j] = q[j]
           /\ \A i \in 1..Len(p \o q) :
                 \/ i \in 1..Len(p)
                 \/ i > Len(p) /\ i - Len(p) \in 1..Len(q) /\ (p \o q)[i] = q[i - Len(p)]
  <1>1. Len(p) \in Nat /\ Len(q) \in Nat /\ Len(p \o q) = Len(p) + Len(q)
    OBVIOUS
  <1>2. \A i \in 1..Len(p) : i \in 1..Len(p \o q) /\ (p \o q)[i] = p[i]
    BY <1>1
  <1>3. \A j \in 1..Len(q) : Len(p) + j \in 1..Len(p \o q) /\ (p \o q)[Len(p) + j] = q[j]
    BY <1>1
  <1>4. ASSUME NEW i \in 1..Len(p \o q), i \notin 1..Len(p)
        PROVE  i > Len(p) /\ i - Len(p) \in 1..Len(q) /\ (p \o q)[i] = q[i - Len(p)]
    <2>1. i > Len(p) /\ i - Len(p) \in 1..Len(q)
      BY <1>1, <1>4
    <2>2. QED
      BY <1>1, <2>1
  <1>5. QED
    BY <1>2, <1>3, <1>4

LEMMA HoldsJoined ==
    ASSUME NEW p \in Seq(Msg), NEW q \in Seq(Msg), NEW types, NEW c
    PROVE  Holds(p \o q, types, c) <=> Holds(p, types, c) \/ Holds(q, types, c)
  <1>1. ASSUME NEW i \in 1..Len(p \o q), Says(p \o q, i, types, c)
        PROVE  Holds(p, types, c) \/ Holds(q, types, c)
    <2>1. CASE i \in 1..Len(p)
      BY <1>1, <2>1, Joined DEF Holds, Says
    <2>2. CASE i - Len(p) \in 1..Len(q) /\ (p \o q)[i] = q[i - Len(p)]
      BY <1>1, <2>2 DEF Holds, Says
    <2>3. QED
      BY <2>1, <2>2, Joined
  <1>2. ASSUME NEW i \in 1..Len(p), Says(p, i, types, c) PROVE Holds(p \o q, types, c)
    BY <1>2, Joined DEF Holds, Says
  <1>3. ASSUME NEW i \in 1..Len(q), Says(q, i, types, c) PROVE Holds(p \o q, types, c)
    <2>1. Len(p) + i \in 1..Len(p \o q) /\ (p \o q)[Len(p) + i] = q[i]
      BY Joined
    <2>2. QED
      BY <1>3, <2>1 DEF Holds, Says
  <1>4. QED
    BY <1>1, <1>2, <1>3 DEF Holds

LEMMA Behind ==
    ASSUME NEW q \in Seq(Msg), q # <<>>
    PROVE  /\ Len(q) \in Nat /\ 1 \in 1..Len(q) /\ Head(q) = q[1] /\ Tail(q) \in Seq(Msg)
           /\ \A i \in 1..Len(Tail(q)) : i + 1 \in 1..Len(q) /\ Tail(q)[i] = q[i + 1]
           /\ \A i \in 1..Len(q) :
                 i = 1 \/ (i > 1 /\ i - 1 \in 1..Len(Tail(q)) /\ q[i] = Tail(q)[i - 1])
  <1>1. Len(q) \in Nat \ {0} /\ Len(Tail(q)) = Len(q) - 1 /\ Head(q) = q[1] /\ Tail(q) \in Seq(Msg)
    BY Tails
  <1>2. \A i \in 1..Len(Tail(q)) : i + 1 \in 1..Len(q) /\ Tail(q)[i] = q[i + 1]
    BY Tails
  <1>3. ASSUME NEW i \in 1..Len(q), i # 1
        PROVE  i > 1 /\ i - 1 \in 1..Len(Tail(q)) /\ q[i] = Tail(q)[i - 1]
    <2>1. i > 1 /\ i - 1 \in 1..Len(Tail(q)) /\ (i - 1) + 1 = i
      BY <1>1, <1>3
    <2>2. QED
      BY <1>2, <2>1
  <1>4. QED
    BY <1>1, <1>2, <1>3

LEMMA HoldsTail ==
    ASSUME NEW q \in Seq(Msg), q # <<>>, NEW types, NEW c
    PROVE  Holds(q, types, c) <=> Says(q, 1, types, c) \/ Holds(Tail(q), types, c)
  BY Behind DEF Holds, Says

LEMMA HoldsEvent ==
    ASSUME NEW type, NEW d, NEW types, NEW c
    PROVE  Holds(Event(type, d), types, c) => type \in types /\ c = d
  <1>1. CASE d = None
    BY <1>1 DEF Event, Holds
  <1>2. CASE d # None
    <2>1. Len(Event(type, d)) = 1 /\ Event(type, d)[1] = [type |-> type, call |-> d]
      BY <1>2 DEF Event
    <2>2. QED
      BY <2>1 DEF Holds, Says
  <1>3. QED
    BY <1>1, <1>2

LEMMA OneEvent ==
    ASSUME NEW c \in Ids \cup {None},
           NEW type \in {"ack", "incoming", "accept", "accepted", "reject", "rejected", "cancel",
                         "cancelled", "busy", "missed", "end", "ended", "offer", "answer"}
    PROVE  /\ Event(type, c) \in Seq(Msg)
           /\ \A i \in 1..Len(Event(type, c)) : Event(type, c)[i].type = type
           /\ \A d : ~Holds(Event(type, c), {"invite"}, d)
           /\ c # None => Event(type, c) = <<[type |-> type, call |-> c]>>
  <1>1. [type |-> type, call |-> c] \in Msg
    BY DEF Msg
  <1>2. \A d : ~Holds(Event(type, c), {"invite"}, d)
    BY HoldsEvent
  <1>3. CASE c = None
    BY <1>2, <1>3 DEF Event
  <1>4. CASE c # None
    <2>1. Event(type, c) = <<[type |-> type, call |-> c]>>
      BY <1>4 DEF Event
    <2>2. QED
      BY <1>1, <1>2, <2>1
  <1>5. QED
    BY <1>3, <1>4

LEMMA Shifted ==
    ASSUME NEW in \in Seq(Msg), in # <<>>, NEW c
    PROVE  /\ Once(in, c) => Once(Tail(in), c) /\ (Says(in, 1, Learns, c) => ~Holds(Tail(in), Learns, c))
           /\ After(in, c) => After(Tail(in), c) /\ (Says(in, 1, {"incoming"}, c) => Holds(Tail(in), Overs, c))
           /\ AckTold(in, c) /\ ~Says(in, 1, {"busy"}, c) => AckTold(Tail(in), c)
           /\ AckTold(in, c) /\ Says(in, 1, {"ack"}, c) => Holds(Tail(in), Overs, c)
  <1>1. ASSUME NEW types, NEW i \in 1..Len(Tail(in)), Says(Tail(in), i, types, c)
        PROVE  i + 1 \in 1..Len(in) /\ Says(in, i + 1, types, c) /\ i + 1 > 1
    BY <1>1, Behind DEF Says
  <1>2. ASSUME NEW types, NEW i \in 1..Len(in), Says(in, i, types, c), i > 1
        PROVE  i - 1 \in 1..Len(Tail(in)) /\ Says(Tail(in), i - 1, types, c)
    BY <1>2, Behind DEF Says
  <1>3. 1 \in 1..Len(in)
    BY Behind
  <1>4. ASSUME Once(in, c)
        PROVE  Once(Tail(in), c) /\ (Says(in, 1, Learns, c) => ~Holds(Tail(in), Learns, c))
    <2>1. ASSUME NEW i \in 1..Len(Tail(in)), NEW j \in 1..Len(Tail(in)),
                 Says(Tail(in), i, Learns, c), Says(Tail(in), j, Learns, c)
          PROVE  i = j
      <3>1. i + 1 = j + 1
        BY <1>1, <1>4, <2>1 DEF Once
      <3>2. QED
        BY <3>1
    <2>2. ASSUME NEW i \in 1..Len(Tail(in)), Says(Tail(in), i, Learns, c), Says(in, 1, Learns, c)
          PROVE  FALSE
      <3>1. i + 1 = 1
        BY <1>1, <1>3, <1>4, <2>2 DEF Once
      <3>2. QED
        BY <3>1
    <2>3. QED
      BY <2>1, <2>2 DEF Once, Holds
  <1>5. ASSUME NEW i \in 1..Len(Tail(in)), Later(in, i + 1, c) PROVE Later(Tail(in), i, c)
    <2>1. PICK j \in 1..Len(in) : j > i + 1 /\ Says(in, j, Overs, c)
      BY <1>5 DEF Later
    <2>2. j > 1 /\ j - 1 > i
      BY <2>1
    <2>3. QED
      BY <1>2, <2>1, <2>2 DEF Later
  <1>6. ASSUME Later(in, 1, c) PROVE Holds(Tail(in), Overs, c)
    BY <1>2, <1>6 DEF Later, Holds
  <1>7. ASSUME After(in, c)
        PROVE  After(Tail(in), c) /\ (Says(in, 1, {"incoming"}, c) => Holds(Tail(in), Overs, c))
    BY <1>1, <1>3, <1>5, <1>6, <1>7 DEF After
  <1>8. ASSUME NEW i \in 1..Len(Tail(in)), Before(in, i + 1, c), ~Says(in, 1, {"busy"}, c)
        PROVE  Before(Tail(in), i, c)
    <2>1. PICK j \in 1..Len(in) : j < i + 1 /\ Says(in, j, {"busy"}, c)
      BY <1>8 DEF Before
    <2>2. j > 1 /\ j - 1 < i
      BY <1>8, <2>1
    <2>3. QED
      BY <1>2, <2>1, <2>2 DEF Before
  <1>9. ASSUME AckTold(in, c), ~Says(in, 1, {"busy"}, c) PROVE AckTold(Tail(in), c)
    BY <1>1, <1>5, <1>8, <1>9 DEF AckTold
  <1>10. ~Before(in, 1, c)
    BY DEF Before
  <1>11. ASSUME AckTold(in, c), Says(in, 1, {"ack"}, c) PROVE Holds(Tail(in), Overs, c)
    BY <1>3, <1>6, <1>10, <1>11 DEF AckTold
  <1>12. QED
    BY <1>4, <1>7, <1>9, <1>11

\* The ack is what tells the caller.
LEMMA AckLearns ==
    ASSUME NEW q, NEW c
    PROVE  Holds(q, {"ack"}, c) => Holds(q, Learns, c)
  BY DEF Holds, Says, Learns

\* It still waits for each ack, as the one who shows the call or not.
Awaits(k, x) == \A c \in Ids : /\ Dialling(k, c) => Dialling(x, c)
                               /\ x.dial[c] = "ack" => k.dial[c] = "ack"

\* A page does something of its own: it shows no other call than before, invites
\* nobody, and hangs up no other call than the one it showed, which it leaves.
LEMMA Acts ==
    ASSUME NEW k, NEW x, NEW in \in Seq(Msg), NEW out \in Seq(Msg), NEW es \in Seq(Msg), NEW calls,
           PageInv(k, in, out, calls), x.call \in {k.call, None}, Awaits(k, x),
           \A c \in Ids : ~Holds(es, {"invite"}, c),
           \A c \in Ids : Holds(es, HangUps, c) => k.call = c /\ x.call # c
    PROVE  PageInv(x, in, out \o es, calls)
  <1>1. ASSUME NEW c \in Ids
        PROVE  /\ Learnt(x, in, out \o es, c)
               /\ Fresh(k, in, out, c) => Fresh(x, in, out \o es, c)
               /\ Told(k, in, c) => Told(x, in, c)
    <2>1. x.call = c => k.call = c
      BY Numbers
    <2>2. Holds(out \o es, HangUps, c) => Holds(out, HangUps, c) \/ (k.call = c /\ x.call # c)
      BY HoldsJoined
    <2>3. Holds(out \o es, {"invite"}, c) => Holds(out, {"invite"}, c)
      BY HoldsJoined
    <2>4. (Dialling(k, c) => Dialling(x, c)) /\ (x.dial[c] = "ack" => k.dial[c] = "ack")
      BY DEF Awaits
    <2>5. Learnt(k, in, out, c)
      BY DEF PageInv
    <2>6. Learnt(x, in, out \o es, c)
      BY <2>1, <2>2, <2>4, <2>5 DEF Learnt
    <2>7. Fresh(k, in, out, c) => Fresh(x, in, out \o es, c)
      BY <2>1, <2>2, <2>3, <2>4 DEF Fresh
    <2>8. Told(k, in, c) => Told(x, in, c)
      BY <2>1, <2>4 DEF Told
    <2>9. QED
      BY <2>6, <2>7, <2>8
  <1>2. QED
    BY <1>1 DEF PageInv

\* A page hears something other than of a new call, and leaves a call it hears the
\* end of; the busy line ends an invitation that waits for its ack.
LEMMA Listens ==
    ASSUME NEW k, NEW x, NEW in \in Seq(Msg), NEW out \in Seq(Msg), NEW calls,
           PageInv(k, in, out, calls), in # <<>>, Head(in).type \notin Learns,
           x.call \in {k.call, None}, Awaits(k, x),
           Head(in).type \in Overs => x.call # Head(in).call,
           Head(in).type = "busy" => x.dial[Head(in).call] # "ack"
    PROVE  PageInv(x, Tail(in), out, calls)
  <1>1. ASSUME NEW c \in Ids
        PROVE  /\ Learnt(x, Tail(in), out, c)
               /\ Fresh(k, in, out, c) => Fresh(x, Tail(in), out, c)
               /\ Told(k, in, c) => Told(x, Tail(in), c)
    <2>1. x.call = c => k.call = c
      BY Numbers
    <2>2. Learnt(k, in, out, c)
      BY DEF PageInv
    <2>3. /\ Holds(Tail(in), Learns, c) => Holds(in, Learns, c)
          /\ Holds(Tail(in), {"ack"}, c) => Holds(in, {"ack"}, c)
      BY HoldsTail
    <2>4. (Dialling(k, c) => Dialling(x, c)) /\ (x.dial[c] = "ack" => k.dial[c] = "ack")
      BY DEF Awaits
    <2>5. Learnt(x, Tail(in), out, c)
      BY <2>1, <2>2, <2>3, <2>4, Shifted DEF Learnt
    <2>6. Fresh(k, in, out, c) => Fresh(x, Tail(in), out, c)
      BY <2>1, <2>3, <2>4 DEF Fresh
    <2>7. ASSUME Told(k, in, c) PROVE Told(x, Tail(in), c)
      <3>1. ASSUME x.call = c PROVE Holds(Tail(in), Overs, c)
        <4>1. Holds(in, Overs, c) /\ ~Says(in, 1, Overs, c)
          BY <2>1, <2>7, <3>1, Behind DEF Told, Says
        <4>2. QED
          BY <4>1, HoldsTail
      <3>2. x.dial[c] = "ack" => ~Says(in, 1, {"busy"}, c)
        BY Behind DEF Says
      <3>3. QED
        BY <2>4, <2>7, <3>1, <3>2, Shifted DEF Told
    <2>8. QED
      BY <2>5, <2>6, <2>7
  <1>2. QED
    BY <1>1 DEF PageInv

\* A page that shows nothing and does not dial is called.
LEMMA Rings ==
    ASSUME NEW k, NEW x, NEW in \in Seq(Msg), NEW out \in Seq(Msg), NEW calls,
           PageInv(k, in, out, calls), in # <<>>, Head(in).type = "incoming", Head(in).call \in Ids,
           x.call = Head(in).call, x.dial = k.dial, k.call = None, \A c \in Ids : k.dial[c] # "ack"
    PROVE  PageInv(x, Tail(in), out, calls)
  <1> DEFINE d == Head(in).call
  <1>1. Says(in, 1, {"incoming"}, d) /\ Says(in, 1, Learns, d)
    BY Behind DEF Says, Learns
  <1>2. Holds(in, Learns, d)
    BY <1>1, Behind DEF Holds
  <1>3. ASSUME NEW c \in Ids
        PROVE  /\ Learnt(x, Tail(in), out, c)
               /\ Fresh(k, in, out, c) => Fresh(x, Tail(in), out, c)
               /\ Told(k, in, c) => Told(x, Tail(in), c)
    <2>1. Learnt(k, in, out, c)
      BY DEF PageInv
    <2>2. /\ Holds(Tail(in), Learns, c) => Holds(in, Learns, c)
          /\ Holds(Tail(in), {"ack"}, c) => Holds(in, {"ack"}, c)
      BY HoldsTail
    <2>3. c = d => ~Holds(Tail(in), Learns, c)
      BY <1>1, <2>1, Shifted DEF Learnt
    <2>4. Dialling(x, c) <=> Dialling(k, c)
      BY DEF Dialling
    <2>5. Learnt(x, Tail(in), out, c)
      BY <1>2, <2>1, <2>2, <2>3, <2>4, Shifted DEF Learnt
    <2>6. Fresh(k, in, out, c) => Fresh(x, Tail(in), out, c)
      BY <1>2, <2>2, <2>4 DEF Fresh
    <2>7. Told(k, in, c) => Told(x, Tail(in), c)
      BY <1>1, Shifted DEF Told
    <2>8. QED
      BY <2>5, <2>6, <2>7
  <1>4. QED
    BY <1>3 DEF PageInv

\* A page that is busy turns a call down.
LEMMA TurnsDown ==
    ASSUME NEW k, NEW in \in Seq(Msg), NEW out \in Seq(Msg), NEW calls,
           PageInv(k, in, out, calls), in # <<>>, Head(in).type = "incoming", Head(in).call \in Ids
    PROVE  PageInv(k, Tail(in), out \o Event("reject", Head(in).call), calls)
  <1> DEFINE d == Head(in).call
             es == Event("reject", d)
  <1>1. es \in Seq(Msg) /\ \A c \in Ids : ~Holds(es, {"invite"}, c)
    BY OneEvent
  <1>2. Says(in, 1, {"incoming"}, d) /\ Says(in, 1, Learns, d)
    BY Behind DEF Says, Learns
  <1>3. Holds(in, Learns, d)
    BY <1>2, Behind DEF Holds
  <1>4. ASSUME NEW c \in Ids
        PROVE  /\ Learnt(k, Tail(in), out \o es, c)
               /\ Fresh(k, in, out, c) => Fresh(k, Tail(in), out \o es, c)
               /\ Told(k, in, c) => Told(k, Tail(in), c)
    <2>1. Learnt(k, in, out, c)
      BY DEF PageInv
    <2>2. /\ Holds(Tail(in), Learns, c) => Holds(in, Learns, c)
          /\ Holds(Tail(in), {"ack"}, c) => Holds(in, {"ack"}, c)
      BY HoldsTail
    <2>3. c = d => ~Holds(Tail(in), Learns, c)
      BY <1>2, <2>1, Shifted DEF Learnt
    <2>4. /\ Holds(out \o es, HangUps, c) => Holds(out, HangUps, c) \/ c = d
          /\ Holds(out \o es, {"invite"}, c) => Holds(out, {"invite"}, c)
      BY <1>1, HoldsJoined, HoldsEvent
    <2>5. Learnt(k, Tail(in), out \o es, c)
      BY <1>3, <2>1, <2>2, <2>3, <2>4, Shifted DEF Learnt
    <2>6. Fresh(k, in, out, c) => Fresh(k, Tail(in), out \o es, c)
      BY <1>3, <2>2, <2>4 DEF Fresh
    <2>7. Told(k, in, c) => Told(k, Tail(in), c)
      <3>1. ~Says(in, 1, Overs, c) /\ ~Says(in, 1, {"busy"}, c)
        BY <1>2 DEF Says, Overs
      <3>2. QED
        BY <3>1, HoldsTail, Shifted DEF Told
    <2>8. QED
      BY <2>5, <2>6, <2>7
  <1>5. QED
    BY <1>4 DEF PageInv

\* The ack tells a page the call it dialled, to show, to cancel or to forget.
LEMMA Acked ==
    ASSUME NEW k, NEW x, NEW in \in Seq(Msg), NEW out \in Seq(Msg), NEW calls, NEW es \in Seq(Msg), NEW d \in Ids,
           PageInv(k, in, out, calls), in # <<>>, Head(in).type = "ack", Head(in).call = d,
           k.dial \in [Ids -> {"none", "media", "peer", "ack", "stale", "cancelled"}],
           x.dial = [k.dial EXCEPT ![d] = "none"], x.call = IF k.dial[d] = "ack" THEN d ELSE k.call,
           k.dial[d] = "ack" => k.call = None,
           es = IF k.dial[d] = "cancelled" THEN Event("cancel", d) ELSE <<>>
    PROVE  PageInv(x, Tail(in), out \o es, calls)
  <1>1. Says(in, 1, {"ack"}, d) /\ Says(in, 1, Learns, d)
    BY Behind DEF Says, Learns
  <1>2. Holds(in, Learns, d)
    BY <1>1, Behind DEF Holds
  <1>3. ASSUME NEW c \in Ids
        PROVE  /\ Learnt(x, Tail(in), out \o es, c)
               /\ Fresh(k, in, out, c) => Fresh(x, Tail(in), out \o es, c)
               /\ Told(k, in, c) => Told(x, Tail(in), c)
    <2>1. Learnt(k, in, out, c)
      BY DEF PageInv
    <2>2. /\ Holds(Tail(in), Learns, c) => Holds(in, Learns, c)
          /\ Holds(Tail(in), {"ack"}, c) => Holds(in, {"ack"}, c)
      BY HoldsTail
    <2>3. c = d => ~Holds(Tail(in), Learns, c) /\ k.call # c /\ ~Holds(out, HangUps, c)
      BY <1>1, <1>2, <2>1, Shifted DEF Learnt
    <2>4. /\ Holds(es, HangUps, c) => k.dial[d] = "cancelled" /\ c = d
          /\ ~Holds(es, {"invite"}, c)
      BY HoldsEvent DEF Holds
    <2>5. /\ Holds(out \o es, HangUps, c) => Holds(out, HangUps, c) \/ (k.dial[d] = "cancelled" /\ c = d)
          /\ Holds(out \o es, {"invite"}, c) => Holds(out, {"invite"}, c)
      BY <2>4, HoldsJoined
    <2>6. x.call = c => (k.dial[d] = "ack" /\ c = d) \/ (k.dial[d] # "ack" /\ k.call = c)
      BY DEF None
    <2>7. x.dial[c] = IF c = d THEN "none" ELSE k.dial[c]
      OBVIOUS
    <2>8. Learnt(x, Tail(in), out \o es, c)
      <3>1. Once(Tail(in), c)
        BY <2>1, Shifted DEF Learnt
      <3>2. Holds(Tail(in), Learns, c) => x.call # c /\ ~Holds(out \o es, HangUps, c)
        BY <2>1, <2>2, <2>3, <2>5, <2>6 DEF Learnt
      <3>3. Holds(out \o es, HangUps, c) => x.call # c
        BY <2>1, <2>3, <2>5, <2>6 DEF Learnt
      <3>4. Holds(Tail(in), {"ack"}, c) => c # d
        BY <2>3, AckLearns
      <3>5. Holds(Tail(in), {"ack"}, c) => Dialling(x, c)
        BY <2>1, <2>2, <2>7, <3>4 DEF Learnt, Dialling
      <3>6. QED
        BY <3>1, <3>2, <3>3, <3>5 DEF Learnt
    <2>9. Fresh(k, in, out, c) => Fresh(x, Tail(in), out \o es, c)
      <3>1. Fresh(k, in, out, c) => c # d
        BY <1>2 DEF Fresh
      <3>2. QED
        BY <2>2, <2>5, <2>6, <2>7, <3>1 DEF Fresh, Dialling
    <2>10. ASSUME Told(k, in, c) PROVE Told(x, Tail(in), c)
      <3>1. ~Says(in, 1, Overs, c) /\ ~Says(in, 1, {"busy"}, c)
        BY <1>1 DEF Says, Overs
      <3>2. ASSUME x.call = c PROVE Holds(Tail(in), Overs, c)
        <4>1. CASE k.dial[d] = "ack" /\ c = d
          BY <1>1, <2>10, <4>1, Shifted DEF Told
        <4>2. CASE k.call = c
          BY <2>10, <3>1, <4>2, HoldsTail DEF Told
        <4>3. QED
          BY <2>6, <3>2, <4>1, <4>2
      <3>3. QED
        BY <2>7, <2>10, <3>1, <3>2, Shifted DEF Told
    <2>11. QED
      BY <2>8, <2>9, <2>10
  <1>4. QED
    BY <1>3 DEF PageInv

\* A page whose camera is there invites: nobody has heard of the call.
LEMMA Invited ==
    ASSUME NEW k, NEW x, NEW in \in Seq(Msg), NEW out \in Seq(Msg), NEW calls, NEW d \in Ids,
           PageInv(k, in, out, calls), ~Dialling(k, d), x.dial[d] = "ack", x.call = None,
           \A c \in Ids : c # d => (Dialling(k, c) => Dialling(x, c)) /\ x.dial[c] # "ack"
    PROVE  PageInv(x, in, out \o <<[type |-> "invite", call |-> d]>>, calls)
  <1> DEFINE es == <<[type |-> "invite", call |-> d]>>
  <1>1. es \in Seq(Msg) /\ Len(es) = 1
    BY DEF Msg
  <1>2. ASSUME NEW c \in Ids
        PROVE  /\ Learnt(x, in, out \o es, c)
               /\ Fresh(k, in, out, c) => Fresh(x, in, out \o es, c)
               /\ Told(k, in, c) => Told(x, in, c)
    <2>1. x.call # c
      BY Numbers
    <2>2. Holds(out \o es, HangUps, c) => Holds(out, HangUps, c)
      <3>1. ~Holds(es, HangUps, c)
        BY <1>1 DEF Holds, Says, HangUps
      <3>2. QED
        BY <1>1, <3>1, HoldsJoined
    <2>3. Holds(out \o es, {"invite"}, c) => Holds(out, {"invite"}, c) \/ c = d
      <3>1. Holds(es, {"invite"}, c) => c = d
        BY <1>1 DEF Holds, Says
      <3>2. QED
        BY <1>1, <3>1, HoldsJoined
    <2>4. Dialling(x, d)
      BY DEF Dialling
    <2>5. c = d => ~Holds(in, {"ack"}, c)
      BY DEF PageInv, Learnt
    <2>6. c = d => AckTold(in, c)
      BY <2>5 DEF AckTold, Holds
    <2>7. QED
      BY <2>1, <2>2, <2>3, <2>4, <2>5, <2>6 DEF PageInv, Learnt, Fresh, Told
  <1>3. QED
    BY <1>2 DEF PageInv

\* To page and server nothing has happened to a call somebody begins to dial.
Begun(calls, then) ==
    \A c \in Ids : then[c].status = calls[c].status
                   \/ (calls[c].status = "none" /\ then[c].status = "dialled")

LEMMA BegunLearns ==
    ASSUME NEW k, NEW in, NEW out, NEW calls, NEW then, PageInv(k, in, out, calls), Begun(calls, then)
    PROVE  PageInv(k, in, out, then)
  BY DEF PageInv, Begun

\* Each step of a page is one of these.
LEMMA PageLearns ==
    ASSUME TalkInv, EndInv, NEW u \in Webs,
           \/ WebUser(u) \/ WebHears(u) \/ WebResumes(u)
           \/ WebGivesUp(u) \/ WebCloses(u) \/ WebConnects(u)
           \/ \E c \in Ids : WebLosesMedia(u, c)
    PROVE  EndInv'
  <1> DEFINE k == client[u]
             in == inbox[u]
             out == outbox[u]
             \* It is left, and nothing else is awaited.
             Gone(x) == x.call = None /\ Awaits(k, x)
             Same(x) == x.call = k.call /\ x.dial = k.dial
             NoInvite(es) == es \in Seq(Msg) /\ \A c \in Ids : ~Holds(es, {"invite"}, c)
  <1>0. /\ u \in Clients /\ client \in [Clients -> Client] /\ inbox \in [Clients -> Seq(Msg)]
        /\ outbox \in [Clients -> Seq(Msg)] /\ in \in Seq(Msg) /\ out \in Seq(Msg)
    BY Typed DEF Clients
  <1>1. /\ k \in Client /\ Sound(k, call) /\ Asks(u, k, call) /\ k.call \in Ids \cup {None}
        /\ k.dial \in [Ids -> {"none", "media", "peer", "ack", "stale", "cancelled"}]
        /\ k.ans \in [Ids -> {"none", "media", "peer"}] /\ k.nego \in [Ids -> Negotiation]
    BY <1>0, Begins DEF Client
  <1>2. PageInv(k, in, out, call)
    BY DEF EndInv
  <1>3. ASSUME NEW x, NEW p, NEW q, client' = [client EXCEPT ![u] = x],
               inbox' = [inbox EXCEPT ![u] = p], outbox' = [outbox EXCEPT ![u] = q],
               Begun(call, call'), UNCHANGED online, PageInv(x, p, q, call)
        PROVE  EndInv'
    <2>1. client'[u] = x /\ inbox'[u] = p /\ outbox'[u] = q
      BY <1>0, <1>3
    <2>2. ASSUME NEW v \in Webs, v # u
          PROVE  client'[v] = client[v] /\ inbox'[v] = inbox[v] /\ outbox'[v] = outbox[v]
      BY <1>0, <1>3, <2>2
    <2>3. ASSUME NEW v \in Webs PROVE online'[v] /\ PageInv(client'[v], inbox'[v], outbox'[v], call')
      <3>1. online[v] /\ PageInv(client[v], inbox[v], outbox[v], call)
        BY DEF EndInv
      <3>2. PageInv(client'[v], inbox'[v], outbox'[v], call)
        BY <1>3, <2>1, <2>2, <3>1
      <3>3. PageInv(client'[v], inbox'[v], outbox'[v], call')
        BY ONLY <1>3, <3>2, BegunLearns
      <3>4. QED
        BY <1>3, <3>1, <3>3
    <2>4. QED
      BY <2>3 DEF EndInv
  <1>4. ASSUME NEW x, NEW es, NoInvite(es), Become(u, x), Sends(u, es), UNCHANGED <<inbox, call, online>>,
               Gone(x) \/ (Same(x) /\ \A c \in Ids : ~Holds(es, HangUps, c)),
               \A c \in Ids : Holds(es, HangUps, c) => k.call = c
        PROVE  EndInv'
    <2>1. PageInv(x, in, out \o es, call)
      <3>1. Awaits(k, x)
        BY <1>4 DEF Awaits, Dialling
      <3>2. /\ x.call \in {k.call, None}
            /\ \A c \in Ids : Holds(es, HangUps, c) => k.call = c /\ x.call # c
        BY <1>4, Numbers
      <3>3. QED
        BY <1>0, <1>2, <1>4, <3>1, <3>2, Acts
    <2>2. /\ client' = [client EXCEPT ![u] = x] /\ inbox' = [inbox EXCEPT ![u] = in]
          /\ outbox' = [outbox EXCEPT ![u] = out \o es]
      BY <1>0, <1>4 DEF Become, Sends
    <2>3. QED
      BY <1>3, <1>4, <2>1, <2>2 DEF Begun
  <1>5. ASSUME NEW x, Become(u, x), UNCHANGED <<inbox, outbox, call, online>>, Gone(x) \/ Same(x)
        PROVE  EndInv'
    <2>1. Sends(u, <<>>) /\ NoInvite(<<>>)
      BY <1>0, <1>5 DEF Sends, Holds
    <2>2. \A c \in Ids : ~Holds(<<>>, HangUps, c)
      BY DEF Holds
    <2>3. QED
      BY <1>4, <1>5, <2>1, <2>2
  <1>6. ASSUME NEW x, NEW type, type \notin Learns, Hears(u, type), Become(u, x), UNCHANGED <<outbox, call, online>>,
               Gone(x) \/ Same(x),
               type \in Overs => x.call # Heard(u), type = "busy" => x.dial[Heard(u)] # "ack"
        PROVE  EndInv'
    <2>1. in # <<>> /\ Head(in).type = type /\ inbox' = [inbox EXCEPT ![u] = Tail(in)]
      BY <1>0, <1>6 DEF Hears
    <2>2. x.call \in {k.call, None} /\ Awaits(k, x)
      BY <1>6 DEF Awaits, Dialling
    <2>3. PageInv(x, Tail(in), out, call)
      BY <1>0, <1>2, <1>6, <2>1, <2>2, Listens DEF Heard
    <2>4. client' = [client EXCEPT ![u] = x] /\ outbox' = [outbox EXCEPT ![u] = out]
      BY <1>0, <1>6 DEF Become
    <2>5. QED
      BY <1>3, <1>6, <2>1, <2>3, <2>4 DEF Begun
  <1>7. ASSUME NEW y \in Client, Awaits(k, y)
        PROVE  /\ Gone(WebIdle(y)) /\ Gone(WebFinished(y))
               /\ \A c \in Ids : WebIdle(y).dial[c] # "ack" /\ WebFinished(y).dial[c] # "ack"
    <2>1. ASSUME NEW x \in {WebIdle(y), WebFinished(y)}
          PROVE  Gone(x) /\ \A c \in Ids : x.dial[c] # "ack"
      <3>1. x.call = None /\ \A c \in Ids : x.dial[c] = IF y.dial[c] = "ack" THEN "stale" ELSE y.dial[c]
        BY <1>7, Torn
      <3>2. QED
        BY <1>7, <3>1 DEF Awaits, Dialling
    <2>2. QED
      BY <2>1
  <1>8. Awaits(k, k)
    BY DEF Awaits
  <1>9. Gone(WebIdle(k)) /\ Gone(WebFinished(k))
        /\ \A c \in Ids : WebIdle(k).dial[c] # "ack" /\ WebFinished(k).dial[c] # "ack"
    BY <1>1, <1>7, <1>8
  <1>10. ASSUME NEW type \in {"accept", "reject", "cancel", "end", "offer", "answer"}, NEW c \in Ids \cup {None}
         PROVE  /\ NoInvite(Event(type, c))
                /\ \A d \in Ids : Holds(Event(type, c), HangUps, d) => c = d /\ type \in {"reject", "cancel", "end"}
    BY OneEvent, HoldsEvent DEF HangUps
  <1>11. ASSUME NEW c \in Ids
         PROVE  LET done == [k EXCEPT !.nego[c] = Quiet] IN
                /\ done \in Client /\ Same(done) /\ Gone(WebIdle(done)) /\ Gone(WebFinished(done))
    <2> DEFINE done == [k EXCEPT !.nego[c] = Quiet]
    <2>1. Quiet \in Negotiation
      BY DEF Quiet, Negotiation
    <2>2. done \in Client /\ Same(done)
      BY <1>1, <2>1 DEF Client
    <2> HIDE DEF done
    <2>3. Awaits(k, done)
      BY <2>2 DEF Awaits, Dialling
    <2>4. QED
      BY <1>7, <2>2, <2>3 DEF done
  <1>12. ASSUME WebDial(u) PROVE EndInv'
    <2>1. PICK c \in Ids : Dials(u, c) /\ Become(u, [k EXCEPT !.dial[c] = "media", !.close = FALSE])
      BY <1>12 DEF WebDial
    <2> DEFINE x == [k EXCEPT !.dial[c] = "media", !.close = FALSE]
    <2>2. call[c].status = "none" /\ Begun(call, call')
      BY <2>1, Typed DEF Dials, Begun, CallType
    <2>3. k.dial[c] = "none"
      BY <1>1, <2>2 DEF Asks, Mine, Made
    <2>4. x.call = k.call /\ x.dial = [k.dial EXCEPT ![c] = "media"]
      BY <1>1 DEF Client
    <2>5. /\ client' = [client EXCEPT ![u] = x] /\ inbox' = [inbox EXCEPT ![u] = in]
          /\ outbox' = [outbox EXCEPT ![u] = out \o <<>>] /\ UNCHANGED online
      <3>1. out \o <<>> = out
        BY <1>0
      <3>2. Become(u, x) /\ inbox' = inbox /\ outbox' = outbox /\ online' = online
        BY <1>12, <2>1 DEF WebDial
      <3>3. inbox = [inbox EXCEPT ![u] = in] /\ outbox = [outbox EXCEPT ![u] = out]
        BY <1>0
      <3> HIDE DEF x
      <3>4. client' = [client EXCEPT ![u] = x]
        BY <3>2 DEF Become
      <3>5. QED
        BY <3>1, <3>2, <3>3, <3>4
    <2> HIDE DEF x
    <2>6. Awaits(k, x)
      BY <1>1, <2>3, <2>4 DEF Awaits, Dialling
    <2>7. <<>> \in Seq(Msg) /\ \A types, d : ~Holds(<<>>, types, d)
      BY DEF Holds
    <2>8. PageInv(x, in, out \o <<>>, call)
      BY <1>0, <1>2, <2>4, <2>6, <2>7, Acts
    <2>9. QED
      BY <1>3, <2>2, <2>5, <2>8
  <1>13. ASSUME NEW c \in Ids, WebDialMedia(u, c) PROVE EndInv'
    <2>0. k.dial[c] = "media" /\ UNCHANGED <<inbox, call, online>>
      BY <1>13 DEF WebDialMedia, netVars
    <2>1. CASE Become(u, WebFinished([k EXCEPT !.dial[c] = "none"])) /\ UNCHANGED outbox
      <3> DEFINE y == [k EXCEPT !.dial[c] = "none"]
      <3>1. y \in Client /\ y.dial = [k.dial EXCEPT ![c] = "none"]
        BY <1>1 DEF Client
      <3> HIDE DEF y
      <3>2. Awaits(k, y)
        BY <1>1, <2>0, <3>1 DEF Awaits, Dialling
      <3>3. Gone(WebFinished(y))
        BY <1>7, <3>1, <3>2
      <3>4. QED
        BY <1>5, <2>0, <2>1, <3>3 DEF y
    <2>2. CASE /\ Become(u, [WithCamera(Replaced(k, "none")) EXCEPT
                                !.phase = "outgoing", !.call = None, !.ans = [d \in Ids |-> "none"],
                                !.dial = [Superseded(@) EXCEPT ![c] = "ack"]])
               /\ Invites(u, c)
      <3> DEFINE e == [Superseded(k.dial) EXCEPT ![c] = "ack"]
                 x == [WithCamera(Replaced(k, "none")) EXCEPT
                           !.phase = "outgoing", !.call = None, !.ans = [d \in Ids |-> "none"],
                           !.dial = [Superseded(@) EXCEPT ![c] = "ack"]]
                 es == <<[type |-> "invite", call |-> c]>>
      <3>1. \A d \in Ids : e[d] = IF d = c THEN "ack" ELSE IF k.dial[d] = "ack" THEN "stale" ELSE k.dial[d]
        BY <1>1 DEF Superseded
      <3>2. x.call = None /\ x.dial = e
        BY <1>1 DEF Client, WithCamera, Replaced
      <3>3. /\ client' = [client EXCEPT ![u] = x] /\ inbox' = [inbox EXCEPT ![u] = in]
            /\ outbox' = [outbox EXCEPT ![u] = out \o es]
        BY <1>0, <2>0, <2>2 DEF Become, Invites, Sends
      <3> HIDE DEF e, x
      <3>4. ~Dialling(k, c) /\ x.dial[c] = "ack"
        BY <2>0, <3>1, <3>2 DEF Dialling
      <3>5. \A d \in Ids : d # c => (Dialling(k, d) => Dialling(x, d)) /\ x.dial[d] # "ack"
        BY <3>1, <3>2 DEF Dialling
      <3>6. PageInv(x, in, out \o es, call)
        BY <1>0, <1>2, <3>2, <3>4, <3>5, Invited
      <3>7. QED
        BY <1>3, <2>0, <3>3, <3>6 DEF Begun
    <2>3. QED
      BY <1>13, <2>1, <2>2 DEF WebDialMedia
  <1>14. ASSUME WebAck(u) PROVE EndInv'
    <2> DEFINE c == Heard(u)
               x == [k EXCEPT !.dial[c] = "none", !.call = IF k.dial[c] = "ack" THEN c ELSE @]
               es == IF k.dial[c] = "cancelled" THEN Event("cancel", c) ELSE <<>>
    <2>1. /\ c \in Ids /\ in # <<>> /\ Head(in).type = "ack" /\ Head(in).call = c
          /\ inbox' = [inbox EXCEPT ![u] = Tail(in)]
      BY <1>0, <1>14, Hearing DEF WebAck, Hears, Heard
    <2>2. x.dial = [k.dial EXCEPT ![c] = "none"] /\ x.call = IF k.dial[c] = "ack" THEN c ELSE k.call
      BY <1>1, <2>1 DEF Client
    <2>3. k.dial[c] = "ack" => k.call = None
      BY <1>1, <2>1 DEF Asks
    <2>4. es \in Seq(Msg)
      BY <2>1, OneEvent
    <2>5. /\ client' = [client EXCEPT ![u] = x] /\ outbox' = [outbox EXCEPT ![u] = out \o es]
          /\ UNCHANGED <<call, online>>
      BY <1>0, <1>14 DEF WebAck, Become, Sends, netVars
    <2>6. es = IF k.dial[c] = "cancelled" THEN Event("cancel", c) ELSE <<>>
      OBVIOUS
    <2> HIDE DEF c, x, es
    <2>7. PageInv(x, Tail(in), out \o es, call)
      BY <1>0, <1>1, <1>2, <2>1, <2>2, <2>3, <2>4, <2>6, Acked
    <2>8. QED
      BY <1>3, <2>1, <2>5, <2>7 DEF Begun
  <1>15. ASSUME WebAccept(u) PROVE EndInv'
    <2> DEFINE x == [k EXCEPT !.ans[k.call] = "media"]
    <2>1. Same(x)
      BY <1>1 DEF Client
    <2>2. QED
      BY <1>5, <1>15, <2>1 DEF WebAccept, netVars
  <1>16. ASSUME WebAcceptFails(u) PROVE EndInv'
    <2>1. Become(u, WebFinished(k)) /\ Sends(u, Event("reject", k.call)) /\ UNCHANGED <<inbox, call, online>>
      BY <1>16 DEF WebAcceptFails, netVars
    <2>2. NoInvite(Event("reject", k.call)) /\ \A c \in Ids : Holds(Event("reject", k.call), HangUps, c) => k.call = c
      BY <1>1, <1>10
    <2>3. QED
      BY <1>4, <1>9, <2>1, <2>2
  <1>17. ASSUME WebAcceptMedia(u) PROVE EndInv'
    <2> DEFINE x == [WithCamera(k) EXCEPT !.phase = "connecting", !.ans[k.call] = "peer"]
               y == [k EXCEPT !.ans[k.call] = "none"]
    <2>1. Same(x) /\ Same(y)
      BY <1>1 DEF Client, WithCamera
    <2>2. QED
      BY <1>5, <1>17, <2>1 DEF WebAcceptMedia, netVars
  <1>18. ASSUME WebAcceptPeer(u) PROVE EndInv'
    <2> DEFINE x == [k EXCEPT !.pc = "new", !.watch = TRUE, !.ans[k.call] = "none"]
    <2>1. Same(x)
      BY <1>1 DEF Client
    <2>2. QED
      BY <1>1, <1>4, <1>10, <1>18, <2>1 DEF WebAcceptPeer, netVars
  <1>19. ASSUME WebHangsUp(u) PROVE EndInv'
    <2> DEFINE e == IF k.phase = "outgoing" THEN Cancelled(k.dial) ELSE k.dial
               y == [k EXCEPT !.dial = e]
               type == CASE k.phase = "incoming" -> "reject" [] k.phase = "outgoing" -> "cancel" [] OTHER -> "end"
    <2>1. /\ e \in [Ids -> {"none", "media", "peer", "ack", "stale", "cancelled"}]
          /\ \A c \in Ids : \/ e[c] = k.dial[c]
                            \/ e[c] = "cancelled" /\ k.dial[c] = "ack"
      BY <1>1 DEF Cancelled
    <2>2. [k EXCEPT !.dial = IF k.phase = "outgoing" THEN Cancelled(@) ELSE @] = y
      BY <1>1 DEF Client
    <2> HIDE DEF e
    <2>3. y \in Client /\ y.dial = e
      BY <1>1, <2>1 DEF Client
    <2> HIDE DEF y
    <2>4. Awaits(k, y)
      BY <2>1, <2>3 DEF Awaits, Dialling
    <2>5. Gone(WebIdle(y))
      BY <1>7, <2>3, <2>4
    <2>6. type \in {"reject", "cancel", "end"}
      OBVIOUS
    <2>7. Become(u, WebIdle(y)) /\ Sends(u, Event(type, k.call)) /\ UNCHANGED <<inbox, call, online>>
      BY <1>19, <2>2 DEF WebHangsUp, netVars
    <2> HIDE DEF type
    <2>8. QED
      BY <1>1, <1>4, <1>10, <2>5, <2>6, <2>7
  <1>20. ASSUME WebCloses(u) PROVE EndInv'
    BY <1>5, <1>9, <1>20 DEF WebCloses, netVars
  <1>21. ASSUME WebIncoming(u) PROVE EndInv'
    <2> DEFINE c == Heard(u)
    <2>1. /\ c \in Ids /\ in # <<>> /\ Head(in).type = "incoming" /\ Head(in).call = c
          /\ inbox' = [inbox EXCEPT ![u] = Tail(in)] /\ UNCHANGED <<call, online>>
      BY <1>0, <1>21, Hearing DEF WebIncoming, Hears, Heard, netVars
    <2>2. CASE Busy(k)
      <3>1. PageInv(k, Tail(in), out \o Event("reject", c), call)
        BY <1>0, <1>2, <2>1, TurnsDown
      <3>2. /\ client' = [client EXCEPT ![u] = k]
            /\ outbox' = [outbox EXCEPT ![u] = out \o Event("reject", c)]
        BY <1>0, <1>21, <2>2 DEF WebIncoming, Sends
      <3>3. QED
        BY <1>3, <2>1, <3>1, <3>2 DEF Begun
    <2>3. CASE ~Busy(k)
      <3> DEFINE x == [k EXCEPT !.phase = "incoming", !.call = c, !.close = FALSE]
      <3>1. x.call = c /\ x.dial = k.dial
        BY <1>1 DEF Client
      <3>2. k.call = None /\ \A d \in Ids : k.dial[d] # "ack"
        BY <1>1, <2>3 DEF Sound, Asks, Busy
      <3>3. client' = [client EXCEPT ![u] = x] /\ outbox' = [outbox EXCEPT ![u] = out]
        BY <1>0, <1>21, <2>3 DEF WebIncoming, Become
      <3> HIDE DEF x, c
      <3>4. PageInv(x, Tail(in), out, call)
        BY <1>0, <1>2, <2>1, <3>1, <3>2, Rings
      <3>5. QED
        BY <1>3, <2>1, <3>3, <3>4 DEF Begun
    <2>4. QED
      BY <2>2, <2>3
  <1>22. ASSUME NEW stage PROVE Same(Negotiates(k, stage)) /\ Same([Negotiates(k, stage) EXCEPT !.phase = "connecting", !.watch = TRUE])
    BY <1>1 DEF Client, Negotiates
  <1>23. ASSUME WebAccepted(u) PROVE EndInv'
    <2>1. PICK y : Become(u, y) /\ Same(y)
      BY <1>22, <1>23 DEF WebAccepted
    <2>2. QED
      BY <1>6, <1>23, <2>1 DEF WebAccepted, netVars, Learns, Overs
  <1>24. ASSUME NEW type \in {"offer", "answer"}, WebSdp(u, type) PROVE EndInv'
    <2>1. PICK y : Become(u, y) /\ Same(y)
      BY <1>22, <1>24 DEF WebSdp
    <2>2. QED
      BY <1>6, <1>24, <2>1 DEF WebSdp, netVars, Learns, Overs
  <1>25. ASSUME NEW c \in Ids, WebOffers(u, c) PROVE EndInv'
    <2> DEFINE done == [k EXCEPT !.nego[c] = Quiet]
               x == [done EXCEPT !.pc = "offered"]
    <2>1. done \in Client /\ Same(done) /\ Gone(WebIdle(done))
      BY <1>11
    <2>2. k.nego[c].pc = "kept" => k.call = c
      BY <1>1, <1>25 DEF Sound, WebOffers
    <2>3. \/ Become(u, done) /\ UNCHANGED outbox
          \/ Become(u, x) /\ Sends(u, Event("offer", c))
          \/ Become(u, WebIdle(done)) /\ Sends(u, Event("end", c)) /\ k.call = c
      BY <1>25, <2>2 DEF WebOffers
    <2>4. UNCHANGED <<inbox, call, online>>
      BY <1>25 DEF WebOffers, netVars
    <2> HIDE DEF done
    <2>5. Same(x)
      BY <2>1 DEF Client
    <2> HIDE DEF x
    <2>6. CASE Become(u, done) /\ UNCHANGED outbox
      BY <1>5, <2>1, <2>4, <2>6
    <2>7. CASE Become(u, x) /\ Sends(u, Event("offer", c))
      <3>1. NoInvite(Event("offer", c)) /\ \A d \in Ids : ~Holds(Event("offer", c), HangUps, d)
        BY <1>10
      <3>2. QED
        BY <1>4, <2>4, <2>5, <2>7, <3>1
    <2>8. CASE Become(u, WebIdle(done)) /\ Sends(u, Event("end", c)) /\ k.call = c
      <3>1. NoInvite(Event("end", c)) /\ \A d \in Ids : Holds(Event("end", c), HangUps, d) => k.call = d
        BY <1>10, <2>8
      <3>2. QED
        BY <1>4, <2>1, <2>4, <2>8, <3>1
    <2>9. QED
      BY <2>3, <2>6, <2>7, <2>8
  <1>26. ASSUME NEW c \in Ids, WebNegotiated(u, c) PROVE EndInv'
    <2> DEFINE done == [k EXCEPT !.nego[c] = Quiet]
               x == IF k.nego[c].pc = "kept" THEN [done EXCEPT !.pc = "stable"]
                    ELSE [done EXCEPT !.stray = @ \cup {c}]
               es == IF k.nego[c].at = "answer" THEN Event("answer", c) ELSE <<>>
    <2>1. done \in Client /\ Same(done) /\ Gone(WebFinished(done))
      BY <1>11
    <2>2. \/ Become(u, WebFinished(done)) /\ UNCHANGED outbox
          \/ Become(u, x) /\ Sends(u, es)
      BY <1>26 DEF WebNegotiated
    <2>3. UNCHANGED <<inbox, call, online>>
      BY <1>26 DEF WebNegotiated, netVars
    <2> HIDE DEF done
    <2>4. Same(x)
      BY <2>1 DEF Client
    <2>5. NoInvite(es) /\ \A d \in Ids : ~Holds(es, HangUps, d)
      <3>1. NoInvite(<<>>) /\ \A d \in Ids : ~Holds(<<>>, HangUps, d)
        BY DEF Holds
      <3>2. QED
        BY <1>10, <3>1
    <2> HIDE DEF x, es
    <2>6. QED
      BY <1>4, <1>5, <2>1, <2>2, <2>3, <2>4, <2>5
  <1>27. ASSUME WebTold(u) PROVE EndInv'
    <2>1. ASSUME NEW type \in {"rejected", "missed", "ended", "cancelled"}, Hears(u, type),
                 NEW y \in {WebFinished(k), WebIdle(k)}, Become(u, IF k.call = Heard(u) THEN y ELSE k)
          PROVE  EndInv'
      <3> DEFINE x == IF k.call = Heard(u) THEN y ELSE k
      <3>1. Heard(u) # None
        BY <1>0, <2>1, Hearing
      <3>2. x.call # Heard(u) /\ (Gone(x) \/ Same(x))
        BY <1>9, <2>1, <3>1
      <3>3. UNCHANGED <<outbox, call, online>>
        BY <1>27 DEF WebTold, netVars
      <3> HIDE DEF x
      <3>4. type \notin Learns /\ type # "busy" /\ Become(u, x)
        BY <2>1 DEF Learns, x
      <3>5. QED
        BY <1>6, <2>1, <3>2, <3>3, <3>4
    <2>2. QED
      BY <1>27, <2>1 DEF WebTold
  <1>28. ASSUME WebBusy(u) PROVE EndInv'
    <2> DEFINE x == IF k.call = Heard(u) \/ \E c \in Ids : k.dial[c] = "ack" THEN WebFinished(k) ELSE k
    <2>1. Heard(u) # None /\ Heard(u) \in Ids
      BY <1>0, <1>28, Hearing DEF WebBusy
    <2>2. x.call # Heard(u) /\ x.dial[Heard(u)] # "ack" /\ (Gone(x) \/ Same(x))
      BY <1>9, <2>1
    <2>3. Hears(u, "busy") /\ Become(u, x) /\ UNCHANGED <<outbox, call, online>>
      BY <1>28 DEF WebBusy, netVars
    <2> HIDE DEF x
    <2>4. QED
      BY <1>6, <2>2, <2>3 DEF Learns
  <1>29. ASSUME WebGivesUp(u) PROVE EndInv'
    <2> DEFINE x == [k EXCEPT !.watch = FALSE]
    <2>1. Same(x)
      BY <1>1 DEF Client
    <2>2. CASE k.phase = "connecting"
      BY <1>1, <1>4, <1>9, <1>10, <1>29, <2>2 DEF WebGivesUp, netVars
    <2>3. CASE k.phase # "connecting"
      BY <1>5, <1>29, <2>1, <2>3 DEF WebGivesUp, netVars
    <2>4. QED
      BY <2>2, <2>3
  <1>30. ASSUME WebConnects(u) PROVE EndInv'
    <2> DEFINE x == [k EXCEPT !.phase = "active", !.watch = FALSE]
    <2>1. Same(x)
      BY <1>1 DEF Client
    <2>2. QED
      BY <1>5, <1>30, <2>1 DEF WebConnects, netVars
  <1>31. ASSUME NEW c \in Ids, WebLosesMedia(u, c) PROVE EndInv'
    <2> DEFINE y == [k EXCEPT !.stray = @ \ {c}]
    <2>1. y \in Client /\ y.dial = k.dial
      BY <1>1 DEF Client
    <2>2. Become(u, WebFinished(y)) /\ UNCHANGED <<inbox, outbox, call, online>>
      BY <1>31 DEF WebLosesMedia, netVars
    <2> HIDE DEF y
    <2>3. Gone(WebFinished(y))
      BY <1>7, <2>1 DEF Awaits, Dialling
    <2>4. QED
      BY <1>5, <2>2, <2>3
  <1>32. QED
    BY <1>12, <1>13, <1>14, <1>15, <1>16, <1>17, <1>18, <1>19, <1>20, <1>21, <1>23, <1>24, <1>25,
       <1>26, <1>27, <1>28, <1>29, <1>30, <1>31 DEF WebUser, WebHears, WebResumes
-----------------------------------------------------------------------------
(***************************************************************************)
(* ... and of the gateway.                                                 *)
(***************************************************************************)
LEMMA Appended ==
    ASSUME NEW in \in Seq(Msg), NEW es \in Seq(Msg), NEW c,
           \A i \in 1..Len(es) : ~Says(es, i, Learns, c)
    PROVE  /\ Holds(in \o es, Learns, c) <=> Holds(in, Learns, c)
           /\ Holds(in \o es, {"ack"}, c) => Holds(in, {"ack"}, c)
           /\ Once(in, c) => Once(in \o es, c)
           /\ After(in, c) => After(in \o es, c)
           /\ AckTold(in, c) => AckTold(in \o es, c)
           /\ Holds(es, Overs, c) => After(in \o es, c) /\ AckTold(in \o es, c)
  <1>1. Len(in) \in Nat /\ Len(es) \in Nat
    OBVIOUS
  <1>2. ASSUME NEW i \in 1..Len(in \o es), Says(in \o es, i, Learns, c)
        PROVE  i \in 1..Len(in) /\ (in \o es)[i] = in[i] /\ Says(in, i, Learns, c)
    <2>1. CASE i \in 1..Len(in)
      BY <1>2, <2>1, Joined DEF Says
    <2>2. CASE i - Len(in) \in 1..Len(es) /\ (in \o es)[i] = es[i - Len(in)]
      BY <1>2, <2>2 DEF Says
    <2>3. QED
      BY <2>1, <2>2, Joined
  <1>3. ASSUME NEW i \in 1..Len(in), Later(in, i, c) PROVE Later(in \o es, i, c)
    <2>1. PICK j \in 1..Len(in) : j > i /\ Says(in, j, Overs, c)
      BY <1>3 DEF Later
    <2>2. j \in 1..Len(in \o es) /\ Says(in \o es, j, Overs, c)
      BY <2>1, Joined DEF Says
    <2>3. QED
      BY <2>1, <2>2 DEF Later
  <1>4. ASSUME NEW i \in 1..Len(in), Before(in, i, c) PROVE Before(in \o es, i, c)
    <2>1. PICK j \in 1..Len(in) : j < i /\ Says(in, j, {"busy"}, c)
      BY <1>4 DEF Before
    <2>2. j \in 1..Len(in \o es) /\ Says(in \o es, j, {"busy"}, c)
      BY <2>1, Joined DEF Says
    <2>3. QED
      BY <2>1, <2>2 DEF Before
  <1>5. ASSUME NEW i \in 1..Len(in), Holds(es, Overs, c) PROVE Later(in \o es, i, c)
    <2>1. PICK j \in 1..Len(es) : Says(es, j, Overs, c)
      BY <1>5 DEF Holds
    <2>2. Len(in) + j \in 1..Len(in \o es) /\ (in \o es)[Len(in) + j] = es[j]
      BY Joined
    <2>3. Len(in) + j > i
      BY <1>1
    <2>4. QED
      BY <2>1, <2>2, <2>3 DEF Later, Says
  <1>6. \A q, i : Says(q, i, {"incoming"}, c) => Says(q, i, Learns, c)
    BY DEF Says, Learns
  <1>7. \A q, i : Says(q, i, {"ack"}, c) => Says(q, i, Learns, c)
    BY DEF Says, Learns
  <1>8. Holds(in \o es, Learns, c) <=> Holds(in, Learns, c)
    BY <1>2, Joined DEF Holds, Says
  <1>9. ASSUME Once(in, c) PROVE Once(in \o es, c)
    BY <1>2, <1>9 DEF Once
  <1>10. \A i \in 1..Len(in \o es) :
            /\ Says(in \o es, i, {"incoming"}, c) => i \in 1..Len(in) /\ Says(in, i, {"incoming"}, c)
            /\ Says(in \o es, i, {"ack"}, c) => i \in 1..Len(in) /\ Says(in, i, {"ack"}, c)
    BY <1>2, <1>6, <1>7 DEF Says
  <1>11. ASSUME After(in, c) PROVE After(in \o es, c)
    BY <1>3, <1>10, <1>11 DEF After
  <1>12. ASSUME AckTold(in, c) PROVE AckTold(in \o es, c)
    BY <1>3, <1>4, <1>10, <1>12 DEF AckTold
  <1>13. ASSUME Holds(es, Overs, c) PROVE After(in \o es, c) /\ AckTold(in \o es, c)
    BY <1>5, <1>10, <1>13 DEF After, AckTold
  <1>14. Holds(in \o es, {"ack"}, c) => Holds(in, {"ack"}, c)
    BY <1>10 DEF Holds
  <1>15. QED
    BY <1>8, <1>9, <1>11, <1>12, <1>13, <1>14

\* What is left to send is part of what was there.
LEMMA Remains ==
    ASSUME NEW out \in Seq(Msg), NEW rest, rest = out \/ (out # <<>> /\ rest = Tail(out))
    PROVE  /\ rest \in Seq(Msg)
           /\ \A types, c : Holds(rest, types, c) => Holds(out, types, c)
  <1>1. CASE rest = out
    BY <1>1
  <1>2. CASE out # <<>> /\ rest = Tail(out)
    BY <1>2, HoldsTail, Behind
  <1>3. QED
    BY <1>1, <1>2

\* The gateway says something about calls, of which it introduces none: a call ends
\* only with the page being told, unless the page knows of it no more.
LEMMA Relayed ==
    ASSUME NEW k, NEW in \in Seq(Msg), NEW out \in Seq(Msg), NEW es \in Seq(Msg), NEW rest, NEW calls, NEW then,
           PageInv(k, in, out, calls), \A i \in 1..Len(es) : es[i].type \notin Learns,
           rest = out \/ (out # <<>> /\ rest = Tail(out)),
           \A c \in Ids : then[c].status \in {"none", "dialled"} => calls[c].status \in {"none", "dialled"},
           \A c \in Ids : then[c].status = "over" =>
              calls[c].status = "over" \/ Holds(es, Overs, c) \/ (~Holds(in, Learns, c) /\ k.call # c)
    PROVE  PageInv(k, in \o es, rest, then)
  <1>1. ASSUME NEW c \in Ids
        PROVE  /\ Learnt(k, in \o es, rest, c)
               /\ Fresh(k, in, out, c) => Fresh(k, in \o es, rest, c)
               /\ then[c].status = "over" => Told(k, in \o es, c)
    <2>1. Learnt(k, in, out, c)
      BY DEF PageInv
    <2>2. \A i \in 1..Len(es) : ~Says(es, i, Learns, c)
      BY DEF Says
    <2>3. \A types : Holds(rest, types, c) => Holds(out, types, c)
      BY Remains
    <2>4. Learnt(k, in \o es, rest, c)
      BY <2>1, <2>2, <2>3, Appended DEF Learnt
    <2>5. Fresh(k, in, out, c) => Fresh(k, in \o es, rest, c)
      BY <2>2, <2>3, Appended DEF Fresh
    <2>6. ASSUME calls[c].status = "over" PROVE Told(k, in \o es, c)
      <3>1. Told(k, in, c)
        BY <2>6 DEF PageInv
      <3>2. Holds(in, Overs, c) => Holds(in \o es, Overs, c)
        BY HoldsJoined
      <3>3. QED
        BY <2>2, <3>1, <3>2, Appended DEF Told
    <2>7. ASSUME Holds(es, Overs, c) PROVE Told(k, in \o es, c)
      <3>1. Holds(in \o es, Overs, c)
        BY <2>7, HoldsJoined
      <3>2. QED
        BY <2>2, <2>7, <3>1, Appended DEF Told
    <2>8. ASSUME ~Holds(in, Learns, c), k.call # c PROVE Told(k, in \o es, c)
      <3>1. ~Holds(in \o es, Learns, c)
        BY <2>2, <2>8, Appended
      <3>2. QED
        BY <2>8, <3>1 DEF Told, After, AckTold, Holds, Says, Learns
    <2>9. QED
      BY <2>4, <2>5, <2>6, <2>7, <2>8
  <1>2. QED
    BY <1>1 DEF PageInv

\* The gateway introduces a call, in the last of the events it sends: to the one who
\* is called, or to the caller in answer to its invitation.
Introduces(out, es, rest, calls, then, c) ==
    /\ calls[c].status = "dialled"
    /\ Len(es) > 0 /\ \A i \in 1..Len(es) : es[i].call = c /\ (es[i].type \in Learns <=> i = Len(es))
    /\ \/ es[Len(es)].type = "incoming" /\ rest = out
       \/ es[Len(es)].type = "ack" /\ out # <<>> /\ Head(out) = [type |-> "invite", call |-> c]
          /\ rest = Tail(out)
    /\ \A d \in Ids : d # c => then[d].status = calls[d].status
    /\ \/ then[c].status = "ringing"
       \/ then[c].status = "over" /\ es[Len(es)].type = "ack" /\ es[1].type = "busy" /\ Len(es) > 1

LEMMA Introduced ==
    ASSUME NEW k, NEW in \in Seq(Msg), NEW out \in Seq(Msg), NEW es \in Seq(Msg), NEW rest, NEW calls, NEW then,
           NEW c \in Ids, PageInv(k, in, out, calls), Introduces(out, es, rest, calls, then, c)
    PROVE  PageInv(k, in \o es, rest, then)
  <1> DEFINE all == in \o es
             n == Len(in) + Len(es)
  <1> USE DEF Introduces
  <1>0. /\ Len(in) \in Nat /\ Len(all) = n /\ n \in 1..n
        /\ all[n] = es[Len(es)] /\ all[Len(in) + 1] = es[1]
        /\ Len(in) + 1 \in 1..n /\ all \in Seq(Msg)
    BY Joined
  <1>1. \A i \in 1..Len(all) :
           \/ i \in 1..Len(in) /\ all[i] = in[i]
           \/ i > Len(in) /\ all[i].call = c /\ (all[i].type \in Learns <=> i = n)
    <2>1. ASSUME NEW i \in 1..Len(all), i \notin 1..Len(in)
          PROVE  i > Len(in) /\ all[i].call = c /\ (all[i].type \in Learns <=> i = n)
      <3>1. i > Len(in) /\ i - Len(in) \in 1..Len(es) /\ all[i] = es[i - Len(in)]
        BY <2>1, Joined
      <3>2. i - Len(in) = Len(es) <=> i = n
        <4>1. i \in Nat /\ Len(in) \in Nat /\ Len(es) \in Nat
          BY <1>0
        <4>2. QED
          BY ONLY <4>1
      <3>3. QED
        BY <3>1, <3>2
    <2>2. QED
      BY <2>1, Joined
  <1>2. Fresh(k, in, out, c)
    BY DEF PageInv
  <1>3. \A types, d : Holds(rest, types, d) => Holds(out, types, d)
    BY Remains
  <1>4. Holds(all, {"ack"}, c) => Dialling(k, c)
    <2>1. CASE es[Len(es)].type = "incoming"
      <3>1. \A i \in 1..Len(all) : ~Says(all, i, {"ack"}, c)
        <4>1. \A i \in 1..Len(in) : ~Says(in, i, {"ack"}, c)
          BY <1>2, AckLearns DEF Fresh, Holds
        <4>2. QED
          BY <1>0, <1>1, <2>1, <4>1 DEF Says, Learns
      <3>2. QED
        BY <3>1 DEF Holds
    <2>2. CASE es[Len(es)].type = "ack"
      <3>1. out # <<>> /\ out[1] = [type |-> "invite", call |-> c] /\ 1 \in 1..Len(out)
        BY <2>2, Behind
      <3>2. Holds(out, {"invite"}, c)
        BY <3>1 DEF Holds, Says
      <3>3. QED
        BY <1>2, <3>2 DEF Fresh
    <2>3. QED
      BY <2>1, <2>2
  <1>5. ASSUME NEW d \in Ids, d # c
        PROVE  /\ Learnt(k, all, rest, d)
               /\ Fresh(k, in, out, d) => Fresh(k, all, rest, d)
               /\ Told(k, in, d) => Told(k, all, d)
    <2>1. \A i \in 1..Len(es) : ~Says(es, i, Learns, d)
      BY <1>5 DEF Says
    <2>2. Learnt(k, in, out, d)
      BY DEF PageInv
    <2>3. Learnt(k, all, rest, d)
      BY <1>3, <2>1, <2>2, Appended DEF Learnt
    <2>4. Fresh(k, in, out, d) => Fresh(k, all, rest, d)
      BY <1>3, <2>1, Appended DEF Fresh
    <2>5. Told(k, in, d) => Told(k, all, d)
      BY <2>1, HoldsJoined, Appended DEF Told
    <2>6. QED
      BY <2>3, <2>4, <2>5
  <1>6. \A i \in 1..Len(all) : Says(all, i, Learns, c) => i = n
    BY <1>1, <1>2 DEF Fresh, Holds, Says
  <1>7. Learnt(k, all, rest, c)
    BY <1>2, <1>3, <1>4, <1>6 DEF Learnt, Fresh, Once
  <1>8. ASSUME then[c].status = "over" PROVE Told(k, all, c)
    <2>1. es[Len(es)].type = "ack" /\ es[1].type = "busy" /\ Len(es) > 1
      BY <1>8
    <2>2. \A i \in 1..Len(all) : ~Says(all, i, {"incoming"}, c)
      BY <1>0, <1>6, <2>1 DEF Says, Learns
    <2>3. Before(all, n, c)
      <3>1. Says(all, Len(in) + 1, {"busy"}, c) /\ Len(in) + 1 < n
        BY <1>0, <2>1 DEF Says
      <3>2. QED
        BY <1>0, <3>1 DEF Before
    <2>4. AckTold(all, c)
      BY <1>6, <2>3 DEF AckTold, Says, Learns
    <2>5. k.call # c
      BY <1>2 DEF Fresh
    <2>6. QED
      BY <2>2, <2>4, <2>5 DEF Told, After
  <1>9. ASSUME NEW d \in Ids
        PROVE  /\ Learnt(k, all, rest, d)
               /\ then[d].status \in {"none", "dialled"} => Fresh(k, all, rest, d)
               /\ then[d].status = "over" => Told(k, all, d)
    BY <1>5, <1>7, <1>8 DEF PageInv
  <1>10. QED
    BY <1>9 DEF PageInv

\* Every page gets what is sent to it, in the order it is sent.
LEMMA Delivered ==
    ASSUME TalkInv, EndInv, NEW sent, Emit(sent), UNCHANGED <<client, online>>,
           \A v \in Webs : PageInv(client[v], inbox[v] \o sent[v], outbox'[v], call')
    PROVE  EndInv'
  <1>1. \A v \in Webs : v \in Clients /\ online[v]
    BY DEF EndInv, Clients
  <1>2. \A v \in Webs : inbox'[v] = inbox[v] \o sent[v]
    BY <1>1 DEF Emit
  <1>3. QED
    BY <1>1, <1>2 DEF EndInv

LEMMA RelayLearns ==
    ASSUME TalkInv, EndInv, NEW sent, Emit(sent), UNCHANGED <<client, online>>,
           \A v \in Webs : sent[v] \in Seq(Msg) /\ \A i \in 1..Len(sent[v]) : sent[v][i].type \notin Learns,
           \A v \in Webs : outbox'[v] = outbox[v] \/ (outbox[v] # <<>> /\ outbox'[v] = Tail(outbox[v])),
           \A c \in Ids : call'[c].status \in {"none", "dialled"} => call[c].status \in {"none", "dialled"},
           \A v \in Webs, c \in Ids : call'[c].status = "over" =>
              \/ call[c].status = "over"
              \/ Holds(sent[v], Overs, c)
              \/ ~Holds(inbox[v], Learns, c) /\ client[v].call # c
    PROVE  EndInv'
  <1>1. ASSUME NEW v \in Webs PROVE PageInv(client[v], inbox[v] \o sent[v], outbox'[v], call')
    <2>1. inbox[v] \in Seq(Msg) /\ outbox[v] \in Seq(Msg) /\ PageInv(client[v], inbox[v], outbox[v], call)
      BY Typed DEF EndInv, Clients
    <2>2. sent[v] \in Seq(Msg) /\ \A i \in 1..Len(sent[v]) : sent[v][i].type \notin Learns
      OBVIOUS
    <2>3. outbox'[v] = outbox[v] \/ (outbox[v] # <<>> /\ outbox'[v] = Tail(outbox[v]))
      OBVIOUS
    <2>4. \A c \in Ids : call'[c].status = "over" =>
             call[c].status = "over" \/ Holds(sent[v], Overs, c) \/ (~Holds(inbox[v], Learns, c) /\ client[v].call # c)
      OBVIOUS
    <2>5. \A c \in Ids : call'[c].status \in {"none", "dialled"} => call[c].status \in {"none", "dialled"}
      OBVIOUS
    <2>6. QED
      BY ONLY <2>1, <2>2, <2>3, <2>4, <2>5, Relayed
  <1>2. QED
    BY <1>1, Delivered

LEMMA InviteLearns ==
    ASSUME TalkInv, EndInv, NEW u \in Clients, OnInvite(u)
    PROVE  EndInv'
  <1>1. PICK c \in Ids :
           /\ c = Asked(u) /\ outbox[u] # <<>> /\ Head(outbox[u]).type = "invite" /\ Head(outbox[u]).call = c
           /\ outbox' = [outbox EXCEPT ![u] = Tail(@)] /\ UNCHANGED <<client, online>>
    BY Asking DEF OnInvite, Asked
  <1>2. \/ /\ call' = [call EXCEPT ![c].status = "over"]
           /\ Emit(To(u, Event("busy", c) \o Event("ack", c)))
        \/ /\ call' = [call EXCEPT ![c].status = "ringing"]
           /\ Emit([w \in Clients |-> Event(IF w = u THEN "ack" ELSE "incoming", c)])
    BY <1>1 DEF OnInvite
  <1>3. call \in CallType /\ call[c].status = "dialled"
    BY <1>1, Typed DEF OnInvite
  <1>4. outbox[u] \in Seq(Msg) /\ Head(outbox[u]) = [type |-> "invite", call |-> c]
    <2>1. outbox[u] \in Seq(Msg)
      BY Typed
    <2>2. Head(outbox[u]) \in Msg
      BY <1>1, <2>1, Tails
    <2>3. QED
      BY <1>1, <2>1, <2>2 DEF Msg
  <1>5. /\ Event("ack", c) = <<[type |-> "ack", call |-> c]>>
        /\ Event("incoming", c) = <<[type |-> "incoming", call |-> c]>>
        /\ Event("busy", c) = <<[type |-> "busy", call |-> c]>>
    BY Numbers DEF Event
  <1>6. [type |-> "ack", call |-> c] \in Msg /\ [type |-> "incoming", call |-> c] \in Msg
        /\ [type |-> "busy", call |-> c] \in Msg
    BY DEF Msg
  <1>7. ASSUME NEW v \in Webs
        PROVE  /\ v \in Clients /\ inbox[v] \in Seq(Msg) /\ outbox[v] \in Seq(Msg)
               /\ PageInv(client[v], inbox[v], outbox[v], call)
               /\ outbox'[v] = IF v = u THEN Tail(outbox[u]) ELSE outbox[v]
    BY <1>1, Typed DEF Clients, EndInv
  <1>8. CASE /\ call' = [call EXCEPT ![c].status = "over"]
             /\ Emit(To(u, Event("busy", c) \o Event("ack", c)))
    <2> DEFINE es == Event("busy", c) \o Event("ack", c)
    <2>1. call'[c].status = "over" /\ \A d \in Ids : d # c => call'[d].status = call[d].status
      BY <1>3, <1>8 DEF CallType
    <2>2. /\ es \in Seq(Msg) /\ Len(es) = 2 /\ es[1].type = "busy" /\ es[2].type = "ack"
          /\ es[1].call = c /\ es[2].call = c
      <3>1. <<[type |-> "busy", call |-> c]>> \in Seq(Msg) /\ <<[type |-> "ack", call |-> c]>> \in Seq(Msg)
        BY <1>6
      <3>2. QED
        BY <1>5, <3>1, Concats
    <2> HIDE DEF es
    <2>3. \A i \in 1..Len(es) : es[i].call = c /\ (es[i].type \in Learns <=> i = Len(es))
      BY <2>2 DEF Learns
    <2>4. ASSUME NEW v \in Webs, v = u PROVE PageInv(client[v], inbox[v] \o es, outbox'[v], call')
      <3>1. Introduces(outbox[v], es, outbox'[v], call, call', c)
        BY <1>1, <1>3, <1>4, <1>7, <2>1, <2>2, <2>3, <2>4 DEF Introduces
      <3>2. QED
        BY <1>7, <2>2, <3>1, Introduced
    <2>5. ASSUME NEW v \in Webs, v # u PROVE PageInv(client[v], inbox[v] \o <<>>, outbox'[v], call')
      <3>1. /\ inbox[v] \in Seq(Msg) /\ outbox[v] \in Seq(Msg) /\ PageInv(client[v], inbox[v], outbox[v], call)
            /\ outbox'[v] = outbox[v]
        BY <1>7, <2>5
      <3>2. <<>> \in Seq(Msg) /\ \A i \in 1..Len(<<>>) : <<>>[i].type \notin Learns
        OBVIOUS
      <3>3. /\ \A d \in Ids : call'[d].status \in {"none", "dialled"} => call[d].status \in {"none", "dialled"}
            /\ ~Holds(inbox[v], Learns, c) /\ client[v].call # c
        BY <1>3, <2>1, <3>1 DEF PageInv, Fresh
      <3>4. \A d \in Ids : call'[d].status = "over" =>
               call[d].status = "over" \/ Holds(<<>>, Overs, d) \/ (~Holds(inbox[v], Learns, d) /\ client[v].call # d)
        BY <2>1, <3>3
      <3>5. QED
        BY ONLY <3>1, <3>2, <3>3, <3>4, Relayed
    <2>6. \A v \in Clients : To(u, es)[v] = IF v = u THEN es ELSE <<>>
      BY DEF To
    <2>7. Emit(To(u, es))
      BY <1>5, <1>8 DEF es
    <2>8. \A v \in Webs : PageInv(client[v], inbox[v] \o To(u, es)[v], outbox'[v], call')
      <3>1. ASSUME NEW v \in Webs PROVE PageInv(client[v], inbox[v] \o To(u, es)[v], outbox'[v], call')
        <4>1. v \in Clients
          BY DEF Clients
        <4>2. CASE v = u
          BY <2>4, <2>6, <4>1, <4>2
        <4>3. CASE v # u
          BY <2>5, <2>6, <4>1, <4>3
        <4>4. QED
          BY <4>2, <4>3
      <3>2. QED
        BY <3>1
    <2>9. QED
      BY <1>1, <2>7, <2>8, Delivered
  <1>9. CASE /\ call' = [call EXCEPT ![c].status = "ringing"]
             /\ Emit([w \in Clients |-> Event(IF w = u THEN "ack" ELSE "incoming", c)])
    <2> DEFINE sent == [w \in Clients |-> Event(IF w = u THEN "ack" ELSE "incoming", c)]
    <2>1. call'[c].status = "ringing" /\ \A d \in Ids : d # c => call'[d].status = call[d].status
      BY <1>3, <1>9 DEF CallType
    <2>2. ASSUME NEW v \in Webs PROVE PageInv(client[v], inbox[v] \o sent[v], outbox'[v], call')
      <3> DEFINE es == <<[type |-> IF v = u THEN "ack" ELSE "incoming", call |-> c]>>
      <3>1. sent[v] = es /\ es \in Seq(Msg)
        BY <1>5, <1>6, <1>7
      <3>2. /\ Len(es) = 1 /\ es[1].call = c /\ es[1].type = IF v = u THEN "ack" ELSE "incoming"
        OBVIOUS
      <3> HIDE DEF es
      <3>3. \A i \in 1..Len(es) : es[i].call = c /\ (es[i].type \in Learns <=> i = Len(es))
        BY <3>2 DEF Learns
      <3>4. Introduces(outbox[v], es, outbox'[v], call, call', c)
        BY <1>1, <1>3, <1>4, <1>7, <2>1, <3>2, <3>3 DEF Introduces
      <3>5. QED
        BY <1>7, <3>1, <3>4, Introduced
    <2> HIDE DEF sent
    <2>3. Emit(sent)
      BY <1>9 DEF sent
    <2>4. QED
      BY <1>1, <2>2, <2>3, Delivered
  <1>10. QED
    BY <1>2, <1>8, <1>9

LEMMA GatewayLearns ==
    ASSUME TalkInv, EndInv,
           \/ \E u \in Clients : Serve(u)
           \/ \E u \in Phones, c \in Ids : GraceExpires(u, c)
           \/ \E c \in Ids : RingTimeout(c)
    PROVE  EndInv'
  <1>0. call \in CallType /\ inbox \in [Clients -> Seq(Msg)] /\ outbox \in [Clients -> Seq(Msg)]
    BY Typed
  <1>1. ASSUME NEW u \in Clients, NEW es \in Seq(Msg)
        PROVE  \A v \in Clients : To(u, es)[v] = (IF v = u THEN es ELSE <<>>) /\ To(u, es)[v] \in Seq(Msg)
    BY DEF To
  <1>2. ASSUME UNCHANGED inbox
        PROVE  \E sent : /\ Emit(sent)
                         /\ \A v \in Clients : sent[v] = <<>> /\ sent[v] \in Seq(Msg)
    <2> DEFINE sent == [w \in Clients |-> <<>>]
    <2>1. <<>> \in Seq(Msg)
      OBVIOUS
    <2>2. \A v \in Clients : inbox[v] \o sent[v] = inbox[v]
      BY <1>0
    <2>3. Emit(sent)
      BY <1>0, <1>2, <2>2 DEF Emit
    <2>4. \A v \in Clients : sent[v] = <<>> /\ sent[v] \in Seq(Msg)
      BY <2>1
    <2> HIDE DEF sent
    <2>5. QED
      BY <2>3, <2>4
  <1>3. ASSUME NEW u \in Clients, outbox[u] # <<>>, outbox' = [outbox EXCEPT ![u] = Tail(@)]
        PROVE  \A v \in Webs : outbox'[v] = outbox[v] \/ (outbox[v] # <<>> /\ outbox'[v] = Tail(outbox[v]))
    BY <1>0, <1>3 DEF Clients
  \* Something else is said, and no call ends.
  <1>4. ASSUME UNCHANGED <<client, online>>,
               \/ UNCHANGED inbox
               \/ \E u \in Clients, c \in Ids, type \in Talk : Emit(To(u, Event(type, c))),
               \A v \in Webs : outbox'[v] = outbox[v] \/ (outbox[v] # <<>> /\ outbox'[v] = Tail(outbox[v])),
               \A c \in Ids : call'[c].status \in {call[c].status, "accepted"}
        PROVE  EndInv'
    <2>1. PICK sent :
             /\ Emit(sent)
             /\ \A v \in Clients : sent[v] \in Seq(Msg) /\ \A i \in 1..Len(sent[v]) : sent[v][i].type \notin Learns
      <3>1. CASE UNCHANGED inbox
        BY <1>2, <3>1
      <3>2. CASE \E u \in Clients, c \in Ids, type \in Talk : Emit(To(u, Event(type, c)))
        <4>1. PICK u \in Clients, c \in Ids, type \in Talk : Emit(To(u, Event(type, c)))
          BY <3>2
        <4> DEFINE es == Event(type, c)
        <4>2. es \in Seq(Msg) /\ \A i \in 1..Len(es) : es[i].type = type
          <5>1. type \in {"accepted", "offer", "answer"} /\ c \in Ids \cup {None}
            BY DEF Talk
          <5>2. es \in Seq(Msg)
            BY <5>1, OneEvent
          <5>3. es = <<[type |-> type, call |-> c]>>
            BY Numbers DEF Event
          <5> HIDE DEF es
          <5>4. QED
            BY <5>2, <5>3
        <4> HIDE DEF es
        <4>3. \A i \in 1..Len(es) : es[i].type \notin Learns
          BY <4>2 DEF Talk, Learns
        <4>4. \A v \in Clients : /\ To(u, es)[v] \in Seq(Msg)
                                 /\ \A i \in 1..Len(To(u, es)[v]) : To(u, es)[v][i].type \notin Learns
          BY <1>1, <4>2, <4>3
        <4>5. Emit(To(u, es))
          BY <4>1 DEF es
        <4>6. QED
          BY <4>4, <4>5
      <3>3. QED
        BY <1>4, <3>1, <3>2
    <2>2. \A v \in Webs : v \in Clients
      BY DEF Clients
    <2>3. /\ \A c \in Ids : call'[c].status \in {"none", "dialled"} => call[c].status \in {"none", "dialled"}
          /\ \A c \in Ids : call'[c].status = "over" => call[c].status = "over"
      BY <1>4
    <2>4. QED
      BY <1>4, <2>1, <2>2, <2>3, RelayLearns
  \* A call ends: each page is told, or has nothing to do with it any more.
  <1>5. ASSUME NEW c \in Ids, Ends(c), UNCHANGED <<client, online>>, NEW sent, Emit(sent),
               \A v \in Webs : sent[v] \in Seq(Msg) /\ \A i \in 1..Len(sent[v]) : sent[v][i].type \notin Learns,
               \A v \in Webs : Holds(sent[v], Overs, c) \/ (~Holds(inbox[v], Learns, c) /\ client[v].call # c),
               \A v \in Webs : outbox'[v] = outbox[v] \/ (outbox[v] # <<>> /\ outbox'[v] = Tail(outbox[v]))
        PROVE  EndInv'
    <2>1. \A d \in Ids : call'[d].status = IF d = c THEN "over" ELSE call[d].status
      BY <1>0, <1>5 DEF Ends, CallType
    <2>2. \A d \in Ids : call'[d].status \in {"none", "dialled"} => call[d].status \in {"none", "dialled"}
      BY <2>1
    <2>3. \A v \in Webs, d \in Ids : call'[d].status = "over" =>
             \/ call[d].status = "over"
             \/ Holds(sent[v], Overs, d)
             \/ ~Holds(inbox[v], Learns, d) /\ client[v].call # d
      BY <1>5, <2>1
    <2>4. QED
      BY <1>5, <2>2, <2>3, RelayLearns
  <1>6. ASSUME NEW c \in Ids, NEW type \in {"rejected", "cancelled", "missed", "ended"}
        PROVE  /\ Event(type, c) \in Seq(Msg)
               /\ \A i \in 1..Len(Event(type, c)) : Event(type, c)[i].type \notin Learns
               /\ Holds(Event(type, c), Overs, c)
    <2>1. /\ Event(type, c) = <<[type |-> type, call |-> c]>> /\ Event(type, c) \in Seq(Msg)
          /\ \A i \in 1..Len(Event(type, c)) : Event(type, c)[i].type = type
      BY OneEvent, Numbers
    <2>2. QED
      BY <2>1 DEF Holds, Says, Learns, Overs
  <1>7. ASSUME NEW u \in Clients, OnAccept(u) PROVE EndInv'
    <2>1. /\ outbox[u] # <<>> /\ outbox' = [outbox EXCEPT ![u] = Tail(@)] /\ Asked(u) \in Ids
          /\ Other(u) \in Clients /\ UNCHANGED <<client, online>>
      BY <1>7, Asking, OfTwo DEF OnAccept
    <2>2. CASE /\ call' = [call EXCEPT ![Asked(u)].status = "accepted", ![Asked(u)].answered = TRUE]
               /\ Emit(To(Other(u), Event("accepted", Asked(u))))
      <3>1. \A c \in Ids : call'[c].status \in {call[c].status, "accepted"}
        BY <1>0, <2>1, <2>2 DEF CallType
      <3>2. \E v \in Clients, c \in Ids, type \in Talk : Emit(To(v, Event(type, c)))
        BY <2>1, <2>2 DEF Talk
      <3>3. QED
        BY <1>3, <1>4, <2>1, <3>1, <3>2
    <2>3. CASE UNCHANGED <<call, inbox>>
      BY <1>3, <1>4, <2>1, <2>3
    <2>4. QED
      BY <1>7, <2>2, <2>3 DEF OnAccept
  <1>8. ASSUME NEW u \in Clients, NEW type \in {"reject", "cancel", "end"}, OnHangUp(u, type)
        PROVE  EndInv'
    <2> DEFINE c == Asked(u)
               told == CASE type = "reject" -> "rejected"
                         [] type = "cancel" -> "cancelled"
                         [] type = "end"    -> "ended"
               es == Event(told, c)
    <2>1. /\ outbox[u] # <<>> /\ outbox' = [outbox EXCEPT ![u] = Tail(@)] /\ c \in Ids
          /\ Head(outbox[u]).type = type /\ Head(outbox[u]).call = c
          /\ Other(u) \in Clients /\ UNCHANGED <<client, online>>
      BY <1>8, Asking, OfTwo DEF OnHangUp, Asked
    <2>2. CASE Ends(c) /\ Emit(To(Other(u), es))
      <3>1. told \in {"rejected", "cancelled", "missed", "ended"}
        OBVIOUS
      <3> HIDE DEF told
      <3>2. es \in Seq(Msg) /\ (\A i \in 1..Len(es) : es[i].type \notin Learns) /\ Holds(es, Overs, c)
        BY <1>6, <2>1, <3>1
      <3> HIDE DEF es
      <3>3. ASSUME u \in Webs PROVE ~Holds(inbox[u], Learns, c) /\ client[u].call # c
        <4>1. Holds(outbox[u], HangUps, c)
          BY <1>0, <2>1, Behind DEF Holds, Says, HangUps
        <4>2. Learnt(client[u], inbox[u], outbox[u], c)
          BY <2>1, <3>3 DEF EndInv, PageInv
        <4>3. QED
          BY <4>1, <4>2 DEF Learnt
      <3>4. ASSUME NEW v \in Webs
            PROVE  LET s == To(Other(u), es)[v] IN
                   /\ s \in Seq(Msg) /\ \A i \in 1..Len(s) : s[i].type \notin Learns
                   /\ Holds(s, Overs, c) \/ (~Holds(inbox[v], Learns, c) /\ client[v].call # c)
        <4>1. v \in Clients /\ (v = u \/ v = Other(u))
          BY OfTwo DEF Clients
        <4>2. CASE v = Other(u)
          BY <1>1, <2>1, <3>2, <4>1, <4>2
        <4>3. CASE v # Other(u)
          BY <1>1, <2>1, <3>2, <3>3, <4>1, <4>3
        <4>4. QED
          BY <4>2, <4>3
      <3>5. QED
        BY <1>3, <1>5, <2>1, <2>2, <3>4
    <2>3. CASE UNCHANGED <<call, inbox>>
      BY <1>3, <1>4, <2>1, <2>3
    <2>4. QED
      BY <1>8, <2>2, <2>3 DEF OnHangUp
  <1>9. ASSUME NEW u \in Clients, NEW type \in {"offer", "answer"}, OnSdp(u, type) PROVE EndInv'
    <2>1. /\ outbox[u] # <<>> /\ outbox' = [outbox EXCEPT ![u] = Tail(@)] /\ Asked(u) \in Ids
          /\ Other(u) \in Clients /\ UNCHANGED <<client, online, call>>
      BY <1>9, Asking, OfTwo DEF OnSdp, netVars
    <2>2. \/ UNCHANGED inbox
          \/ \E v \in Clients, c \in Ids, t \in Talk : Emit(To(v, Event(t, c)))
      BY <1>9, <2>1 DEF OnSdp, Talk
    <2>3. QED
      BY <1>3, <1>4, <2>1, <2>2
  <1>10. ASSUME NEW u \in Phones, NEW c \in Ids, GraceExpires(u, c) PROVE EndInv'
    <2> DEFINE es == Event("ended", c)
    <2>1. /\ u \in Clients /\ Other(u) \in Clients /\ UNCHANGED <<client, online, outbox>>
          /\ Ends(c) /\ Emit(To(Other(u), es))
      BY <1>10, OfTwo DEF GraceExpires, Clients
    <2>2. es \in Seq(Msg) /\ (\A i \in 1..Len(es) : es[i].type \notin Learns) /\ Holds(es, Overs, c)
      BY <1>6
    <2> HIDE DEF es
    <2>3. ASSUME NEW v \in Webs PROVE To(Other(u), es)[v] = es
      <3>1. v \in Clients /\ v = Other(u)
        BY <2>1, OfTwo, CallSignalsAssumption DEF Clients
      <3>2. QED
        BY <1>1, <2>1, <2>2, <3>1
    <2>4. QED
      BY <1>5, <2>1, <2>2, <2>3
  <1>11. ASSUME NEW c \in Ids, RingTimeout(c) PROVE EndInv'
    <2> DEFINE es == Event("missed", c)
               sent == [w \in Clients |-> es]
    <2>1. UNCHANGED <<client, online, outbox>> /\ Ends(c) /\ Emit(sent)
      BY <1>11 DEF RingTimeout
    <2>2. es \in Seq(Msg) /\ (\A i \in 1..Len(es) : es[i].type \notin Learns) /\ Holds(es, Overs, c)
      BY <1>6
    <2>3. \A v \in Webs : sent[v] = es
      BY DEF Clients
    <2> HIDE DEF es, sent
    <2>4. QED
      BY <1>5, <2>1, <2>2, <2>3
  <1>12. QED
    BY <1>7, <1>8, <1>9, <1>10, <1>11, InviteLearns DEF Serve
-----------------------------------------------------------------------------
(***************************************************************************)
(* What a phone does leaves the pages alone.                               *)
(***************************************************************************)
Alone(u) ==
    /\ Begun(call, call') /\ UNCHANGED online
    /\ \A v \in Clients : v # u => client'[v] = client[v] /\ inbox'[v] = inbox[v] /\ outbox'[v] = outbox[v]

LEMMA PhoneAlone ==
    ASSUME TalkInv, NEW u \in Phones,
           \/ PhoneUser(u) \/ PhoneHears(u) \/ PhoneResumes(u)
           \/ PhoneGivesUp(u) \/ PhoneConnects(u)
           \/ \E c \in Ids : PhoneLosesMedia(u, c)
    PROVE  Alone(u)
  <1>1. \A x : Become(u, x) => \A v \in Clients : v # u => client'[v] = client[v]
    BY Typed DEF Become
  <1>2. /\ \A es : Sends(u, es) => \A v \in Clients : v # u => outbox'[v] = outbox[v]
        /\ \A c : Invites(u, c) => \A v \in Clients : v # u => outbox'[v] = outbox[v]
    BY Typed DEF Sends, Invites
  <1>3. \A type : Hears(u, type) => \A v \in Clients : v # u => inbox'[v] = inbox[v]
    BY Typed DEF Hears
  <1>4. ASSUME NEW x, NEW es, PhoneFails(u, x, es)
        PROVE  \A v \in Clients : v # u => client'[v] = client[v] /\ outbox'[v] = outbox[v]
    BY <1>1, <1>2, <1>4 DEF PhoneFails
  <1>5. UNCHANGED call => Begun(call, call')
    BY DEF Begun
  <1>6. ASSUME PhoneDial(u) PROVE Alone(u)
    <2>1. Begun(call, call')
      BY <1>6, Typed DEF PhoneDial, Dials, Begun, CallType
    <2>2. \E x : Become(u, x)
      BY <1>6 DEF PhoneDial
    <2>3. QED
      BY <1>1, <1>6, <2>1, <2>2 DEF PhoneDial, Alone
  <1>7. CASE PhoneAccept(u) \/ PhoneAcceptPush(u) \/ PhoneHangsUp(u)
    BY <1>1, <1>2, <1>5, <1>7 DEF PhoneAccept, PhoneAcceptPush, PhoneHangsUp, Alone
  <1>8. CASE PhoneHears(u)
    BY <1>1, <1>2, <1>3, <1>5, <1>8
       DEF PhoneHears, PhoneIncoming, PhoneAck, PhoneAccepted, PhoneTold, PhoneSdp, Alone, netVars
  <1>9. ASSUME NEW c \in Ids, PhoneDialMedia(u, c) \/ PhoneAcceptMedia(u, c) PROVE Alone(u)
    BY <1>1, <1>2, <1>4, <1>5, <1>9 DEF PhoneDialMedia, PhoneAcceptMedia, Alone, netVars
  <1>10. ASSUME NEW c \in Ids, PhoneDialPeer(u, c) \/ PhoneAcceptPeer(u, c) PROVE Alone(u)
    BY <1>1, <1>2, <1>5, <1>10 DEF PhoneDialPeer, PhoneAcceptPeer, Alone, netVars
  <1>11. ASSUME NEW c \in Ids, PhoneNegotiated(u, c) PROVE Alone(u)
    BY <1>1, <1>2, <1>4, <1>5, <1>11 DEF PhoneNegotiated, Alone, netVars
  <1>12. CASE PhoneGivesUp(u) \/ PhoneConnects(u) \/ \E c \in Ids : PhoneLosesMedia(u, c)
    BY <1>1, <1>2, <1>4, <1>5, <1>12 DEF PhoneGivesUp, PhoneConnects, PhoneLosesMedia, Alone, netVars
  <1>13. QED
    BY <1>6, <1>7, <1>8, <1>9, <1>10, <1>11, <1>12 DEF PhoneUser, PhoneResumes

LEMMA EndStep == TalkInv /\ EndInv /\ [Next]_vars => EndInv'
  <1> SUFFICES ASSUME TalkInv, EndInv, [Next]_vars PROVE EndInv'
    OBVIOUS
  <1>1. CASE UNCHANGED vars
    <2>1. client' = client /\ call' = call /\ inbox' = inbox /\ outbox' = outbox /\ online' = online
      BY <1>1 DEF vars, netVars
    <2>2. QED
      BY <2>1 DEF EndInv
  <1>2. ASSUME NEW u \in Phones, Alone(u) PROVE EndInv'
    <2>1. \A v \in Webs : v \in Clients /\ v # u
      BY CallSignalsAssumption DEF Clients
    <2>2. ASSUME NEW v \in Webs PROVE online'[v] /\ PageInv(client'[v], inbox'[v], outbox'[v], call')
      <3>1. /\ online'[v] /\ Begun(call, call') /\ PageInv(client'[v], inbox'[v], outbox'[v], call)
        BY <1>2, <2>1 DEF EndInv, Alone
      <3>2. PageInv(client'[v], inbox'[v], outbox'[v], call')
        BY ONLY <3>1, BegunLearns
      <3>3. QED
        BY <3>1, <3>2
    <2>3. QED
      BY <2>2 DEF EndInv
  <1>3. ASSUME NEW u \in Clients,
               \/ User(u) \/ Receive(u) \/ Resume(u) \/ GivesUp(u) \/ Closes(u)
               \/ Connects(u) \/ \E c \in Ids : LosesMedia(u, c)
        PROVE  EndInv'
    <2>1. CASE u \in Webs
      BY <1>3, <2>1, PageLearns DEF User, Receive, Resume, GivesUp, Closes, Connects, LosesMedia
    <2>2. CASE u \notin Webs
      <3>1. u \in Phones
        BY <2>2 DEF Clients
      <3>2. Alone(u)
        BY <1>3, <2>2, <3>1, PhoneAlone DEF User, Receive, Resume, GivesUp, Closes, Connects, LosesMedia
      <3>3. QED
        BY <1>2, <3>1, <3>2
    <2>3. QED
      BY <2>1, <2>2
  <1>4. ASSUME NEW u \in Phones, Drop(u) \/ Reconnect(u) PROVE EndInv'
    <2>1. \A v \in Webs : v \in Clients /\ v # u
      BY CallSignalsAssumption DEF Clients
    <2>2. /\ client \in [Clients -> Client] /\ online \in [Clients -> BOOLEAN]
          /\ inbox \in [Clients -> Seq(Msg)] /\ outbox \in [Clients -> Seq(Msg)]
      BY Typed
    <2>3. UNCHANGED call
      BY <1>4 DEF Drop, Reconnect
    <2>4. \A v \in Webs : /\ client'[v] = client[v] /\ inbox'[v] = inbox[v]
                          /\ outbox'[v] = outbox[v] /\ online'[v] = online[v]
      <3>1. CASE Drop(u)
        BY <2>1, <2>2, <3>1 DEF Drop
      <3>2. CASE Reconnect(u)
        BY <2>1, <2>2, <3>2 DEF Reconnect
      <3>3. QED
        BY <1>4, <3>1, <3>2
    <2>5. QED
      BY <2>3, <2>4 DEF EndInv
  <1>5. QED
    BY <1>1, <1>3, <1>4, GatewayLearns DEF Next

LEMMA EndBegins == Init => EndInv
  <1> SUFFICES ASSUME Init, NEW u \in Webs PROVE online[u] /\ PageInv(client[u], inbox[u], outbox[u], call)
    BY DEF EndInv
  <1>1. /\ u \in Clients /\ online[u] /\ client[u].call = None /\ inbox[u] = <<>> /\ outbox[u] = <<>>
        /\ \A c \in Ids : call[c].status = "none"
    BY DEF Init, Clients
  <1>2. ASSUME NEW c \in Ids
        PROVE  Learnt(client[u], <<>>, <<>>, c) /\ Fresh(client[u], <<>>, <<>>, c)
    BY <1>1, Numbers DEF Learnt, Fresh, Once, Holds
  <1>3. QED
    BY <1>1, <1>2 DEF PageInv
-----------------------------------------------------------------------------
(***************************************************************************)
(* What the two clients may rely on.                                       *)
(***************************************************************************)

\* The state of both clients, of their connections and of the calls between them
\* stays what the code can hold; a client shows a call only while it is in one
\* (CallProvider.tsx, call_cubit.dart, and the gateway in calls.service.ts).
THEOREM CallClientsTypeCorrect == Spec => []TypeOK
  <1>1. TalkInv => TypeOK
    BY DEF TalkInv
  <1>2. QED
    BY <1>1, TalkBegins, TalkStep, PTL DEF Spec

\* However late the descriptions, the answers and the connections of earlier calls
\* come: no connection of a client that has both descriptions, be it the current one or
\* one it put aside and never closed, is about a call the callee has not taken; and a
\* client shows a conversation only in a call that was taken, or next to such a
\* connection of an earlier one (CallProvider.tsx:294-308 and 359, call_cubit.dart).
THEOREM ActiveIsAlwaysAnswered == Spec => []ActiveIsAnswered
  <1>1. TalkInv => ActiveIsAnswered
    BY Numbers DEF TalkInv, Sound, Answered, Held, ActiveIsAnswered
  <1>2. QED
    BY <1>1, TalkBegins, TalkStep, PTL DEF Spec

\* A page never outlives the call it shows: once the server has dropped the call, the
\* event that says so is on its way to the page, for any number of calls, whoever
\* ended it and whichever acks, cancellations and busy lines cross.
THEOREM EndIsAlwaysTold == Spec => []EndIsTold
  <1>1. TalkInv /\ EndInv => EndIsTold
    <2> SUFFICES ASSUME TalkInv, EndInv, NEW u \in Webs, client[u].call # None, call[client[u].call].status = "over"
                 PROVE  Coming(u, client[u].call, {"rejected", "cancelled", "busy", "missed", "ended"})
      BY DEF EndIsTold
    <2>1. u \in Clients /\ client[u] \in Client /\ inbox[u] \in Seq(Msg)
      BY DEF Clients, TalkInv, TypeOK
    <2>2. client[u].call \in Ids
      BY <2>1 DEF Client
    <2>3. Holds(inbox[u], Overs, client[u].call)
      BY <2>2 DEF EndInv, PageInv, Told
    <2>4. DOMAIN inbox[u] = 1..Len(inbox[u])
      BY <2>1
    <2>5. QED
      BY <2>3, <2>4 DEF Holds, Says, Overs, Coming
  <1>2. TalkInv /\ EndInv /\ [Next]_vars => (TalkInv /\ EndInv)'
    BY TalkStep, EndStep
  <1>3. QED
    BY <1>1, <1>2, TalkBegins, EndBegins, PTL DEF Spec
=============================================================================
