---------------------------- MODULE CallSignals ----------------------------
(***************************************************************************)
(* A call as its two clients see it: the browser of an admin (CallWeb) and *)
(* the phone of an employee (CallPhone), or two phones, and between them   *)
(* the gateway, which here answers an event in one step: what its awaits   *)
(* let happen is the subject of Calls.                                     *)
(*                                                                         *)
(* Events of one connection keep their order.  A phone may lose its        *)
(* connection, and with it what was under way in either direction; what it *)
(* sends while it is away waits until it is back.  SDP is reduced to which *)
(* description was applied where, ICE candidates are left out.             *)
(*                                                                         *)
(* Nothing keeps a client from running a function twice: each startCall,   *)
(* accept and negotiation is known by the call it is about.                *)
(***************************************************************************)
EXTENDS Naturals, Sequences

CONSTANTS
    Webs,           \* the clients that run CallProvider.tsx
    Phones,         \* the clients that run call_cubit.dart
    MaxCalls,       \* bound: calls dialled
    MaxDrops        \* bound: connections lost

Clients == Webs \cup Phones
Ids == 1..MaxCalls          \* call ids, in the order in which the calls are dialled
None == 0                   \* no call id

ASSUME CallSignalsAssumption ==
    /\ Webs \cap Phones = {}
    /\ \E u, v \in Clients : Clients = {u, v} /\ u # v
    /\ MaxCalls \in Nat \ {0}
    /\ MaxDrops \in Nat

VARIABLES
    client,         \* per client: what it shows and holds, and its functions that await
    call,           \* per id: who dialled, how far it came on the server, was it answered
    inbox,          \* per client: events on their way to it
    outbox,         \* per client: events on their way from it
    online,         \* per client: it has a connection
    notified,       \* per client: the call its notification rings for
    drops           \* connections lost so far

vars == <<client, call, inbox, outbox, online, notified, drops>>
netVars == <<call, online, drops>>
quietVars == <<inbox, outbox, notified, netVars>>
-----------------------------------------------------------------------------
Other(u) == CHOOSE v \in Clients : v # u

Msg == [type : {"invite", "ack", "incoming", "accept", "accepted", "reject", "rejected", "cancel",
                "cancelled", "busy", "missed", "end", "ended", "offer", "answer"},
        call : Ids \cup {None}]

\* An SDP handler that awaits, and what became of the connection it works on: still
\* the client's, closed, or replaced by another one.
Negotiation == [at : {"none", "offer", "answer", "apply", "fail"}, pc : {"kept", "closed", "lost"}]
Quiet == [at |-> "none", pc |-> "kept"]

Client ==
    [phase : {"idle", "outgoing", "incoming", "connecting", "active", "ended"},
     call  : Ids \cup {None},
     cam   : BOOLEAN,                                  \* the local stream it refers to is open
     pc    : {"none", "new", "offered", "stable"},     \* the peer connection
     stray : SUBSET Ids,         \* calls whose connection was replaced, and never closed
     watch : BOOLEAN,                                  \* the watchdog of "connecting" is armed
     close : BOOLEAN,                                  \* the ended screen closes by itself
     dial  : [Ids -> {"none", "media", "peer", "ack", "stale", "cancelled"}],     \* startCall
     ans   : [Ids -> {"none", "media", "peer"}],       \* accept
     nego  : [Ids -> Negotiation]]                     \* the SDP handlers

Busy(k) == k.phase \in {"outgoing", "incoming", "connecting", "active"}

\* A client shows a call only while it is in one.
TypeOK ==
    /\ client \in [Clients -> Client]
    /\ \A u \in Clients : client[u].call # None => Busy(client[u])
    /\ call \in [Ids -> [caller : Clients, status : {"none", "dialled", "ringing", "accepted", "over"},
                          answered : BOOLEAN]]
    /\ inbox \in [Clients -> Seq(Msg)]
    /\ outbox \in [Clients -> Seq(Msg)]
    /\ online \in [Clients -> BOOLEAN]
    /\ notified \in [Clients -> Ids \cup {None}]
    /\ drops \in 0..MaxDrops

Init ==
    /\ client = [u \in Clients |->
                    [phase |-> "idle", call |-> None, cam |-> FALSE, pc |-> "none", stray |-> {},
                     watch |-> FALSE, close |-> FALSE, dial |-> [c \in Ids |-> "none"],
                     ans |-> [c \in Ids |-> "none"], nego |-> [c \in Ids |-> Quiet]]]
    /\ call = [c \in Ids |-> [caller |-> CHOOSE u \in Clients : TRUE, status |-> "none",
                              answered |-> FALSE]]
    /\ inbox = [u \in Clients |-> <<>>]
    /\ outbox = [u \in Clients |-> <<>>]
    /\ online = [u \in Clients |-> TRUE]
    /\ notified = [u \in Clients |-> None]
    /\ drops = 0
-----------------------------------------------------------------------------
(***************************************************************************)
(* What clients do with their state.                                       *)
(***************************************************************************)
Negotiating(k) == k.phase \in {"connecting", "active"}

\* The calls of which it has a connection, its own or a replaced one, with both
\* descriptions.
Held(k) == k.stray \cup (IF k.pc = "stable" THEN {k.call} ELSE {})

\* Who dialled: call:incoming goes to the other one, the ack to the caller.
Dialled(u, c) == call[c].caller = u

Become(u, k) == client' = [client EXCEPT ![u] = k]

\* Events about a call whose id is not known (yet) are not sent.
Event(type, c) == IF c = None THEN <<>> ELSE <<[type |-> type, call |-> c]>>
Sends(u, events) == outbox' = [outbox EXCEPT ![u] = @ \o events]
Invites(u, c) == Sends(u, <<[type |-> "invite", call |-> c]>>)

\* The next event of the connection is handled.
Hears(u, type) == inbox[u] # <<>> /\ Head(inbox[u]).type = type /\ inbox' = [inbox EXCEPT ![u] = Tail(@)]
Heard(u) == Head(inbox[u]).call

\* Somebody dials: c is the call its invitation will make.
Dials(u, c) ==
    /\ call[c].status = "none" /\ \A d \in Ids : d < c => call[d].status # "none"
    /\ call' = [call EXCEPT ![c].caller = u, ![c].status = "dialled"]

\* A stream that was in the variable is lost, and left open; it is not counted.
WithCamera(k) == [k EXCEPT !.cam = TRUE]

Negotiates(k, stage) == [k EXCEPT !.nego[k.call] = [at |-> stage, pc |-> "kept"]]

\* What becomes of the handlers that work on the client's connection.
Left(nego, fate) ==
    [c \in Ids |-> IF nego[c].at # "none" /\ nego[c].pc = "kept" THEN [nego[c] EXCEPT !.pc = fate]
                   ELSE nego[c]]

\* Another connection takes the variable: that which was in it goes on.
Replaced(k, pc) == [k EXCEPT !.pc = pc, !.stray = Held(k), !.nego = Left(@, "lost")]
-----------------------------------------------------------------------------
(***************************************************************************)
(* The gateway.  A definition whose name ends in Bug is a plausible        *)
(* mistake in the one after it; PROJECT.json says which property finds it. *)
(***************************************************************************)
Live(c) == call[c].status \in {"ringing", "accepted"}
BusyLine == \E c \in Ids : Live(c)          \* with two clients, each is a party of every call

To(u, events) == [w \in Clients |-> IF w = u THEN events ELSE <<>>]

\* What goes to each client; for one without a connection it goes nowhere.
Emit(sent) == inbox' = [u \in Clients |-> IF online[u] THEN inbox[u] \o sent[u] ELSE inbox[u]]

\* pushIncoming and pushCallCancelled: phones without a connection, if the push arrives.
Push(u, c) ==
    IF u \in Phones /\ ~online[u]
    THEN \E arrives \in BOOLEAN : notified' = IF arrives THEN [notified EXCEPT ![u] = c] ELSE notified
    ELSE UNCHANGED notified

Took(u, type) == outbox[u] # <<>> /\ online[u] /\ Head(outbox[u]).type = type
                 /\ outbox' = [outbox EXCEPT ![u] = Tail(@)]
Asked(u) == Head(outbox[u]).call

\* call:invite.  Of a busy callee the caller hears before it gets the id.
OnInvite(u) ==
    LET c == Asked(u) IN
    /\ Took(u, "invite") /\ call[c].status = "dialled"
    /\ IF BusyLine
       THEN /\ call' = [call EXCEPT ![c].status = "over"]
            /\ Emit(To(u, Event("busy", c) \o Event("ack", c)))
            /\ UNCHANGED notified
       ELSE /\ call' = [call EXCEPT ![c].status = "ringing"]
            /\ Emit([w \in Clients |-> Event(IF w = u THEN "ack" ELSE "incoming", c)])
            /\ Push(Other(u), c)
    /\ UNCHANGED <<client, online, drops>>

OnAcceptBug(u) ==                         \* tells the caller of an answer it did not take
    LET c == Asked(u) IN
    /\ Took(u, "accept")
    /\ Emit(To(Other(u), Event("accepted", c)))
    /\ UNCHANGED <<client, call, online, notified, drops>>

\* call:accept, by the callee of a live call.
OnAccept(u) ==
    LET c == Asked(u) IN
    /\ Took(u, "accept")
    /\ IF Live(c) /\ ~Dialled(u, c)
       THEN /\ call' = [call EXCEPT ![c].status = "accepted", ![c].answered = TRUE]
            /\ Emit(To(Other(u), Event("accepted", c)))
       ELSE UNCHANGED <<call, inbox>>
    /\ UNCHANGED <<client, online, notified, drops>>

Ends(c) == call' = [call EXCEPT ![c].status = "over"]

\* call:reject by the callee, call:cancel by the caller, call:end by either: the
\* other one is told.
OnHangUp(u, type) ==
    LET c == Asked(u) IN
    /\ Took(u, type)
    /\ IF Live(c) /\ CASE type = "reject" -> ~Dialled(u, c)
                       [] type = "cancel" -> Dialled(u, c)
                       [] type = "end"    -> TRUE
       THEN /\ Ends(c)
            /\ Emit(To(Other(u), Event(CASE type = "reject" -> "rejected"
                                         [] type = "cancel" -> "cancelled"
                                         [] type = "end"    -> "ended", c)))
            /\ IF type = "reject" THEN UNCHANGED notified ELSE Push(Other(u), None)
       ELSE UNCHANGED <<call, inbox, notified>>
    /\ UNCHANGED <<client, online, drops>>

\* call:sdp is passed on while the call is live.
OnSdp(u, type) ==
    LET c == Asked(u) IN
    /\ Took(u, type)
    /\ IF Live(c) THEN Emit(To(Other(u), Event(type, c))) ELSE UNCHANGED inbox
    /\ UNCHANGED <<client, notified, netVars>>

\* onRingTimeout.
RingTimeout(c) ==
    /\ call[c].status = "ringing"
    /\ Ends(c)
    /\ Emit([w \in Clients |-> Event("missed", c)])
    /\ Push(Other(call[c].caller), None)
    /\ UNCHANGED <<client, outbox, online, drops>>

\* The grace timer of a client that stays away ends its call.
GraceExpires(u, c) ==
    /\ ~online[u] /\ Live(c)
    /\ Ends(c)
    /\ Emit(To(Other(u), Event("ended", c)))
    /\ UNCHANGED <<client, outbox, online, notified, drops>>

\* A phone loses its connection; the acks that were under way never come.
Drop(u) ==
    /\ online[u] /\ drops < MaxDrops
    /\ online' = [online EXCEPT ![u] = FALSE]
    /\ drops' = drops + 1
    /\ inbox' = [inbox EXCEPT ![u] = <<>>]
    /\ outbox' = [outbox EXCEPT ![u] = <<>>]
    /\ client' = [client EXCEPT ![u].dial = [c \in Ids |-> IF @[c] = "ack" THEN "none" ELSE @[c]]]
    /\ UNCHANGED <<call, notified>>

Reconnect(u) ==
    /\ ~online[u]
    /\ online' = [online EXCEPT ![u] = TRUE]
    /\ UNCHANGED <<client, call, inbox, outbox, notified, drops>>

Serve(u) ==
    \/ OnInvite(u) \/ OnAccept(u)
    \/ \E type \in {"reject", "cancel", "end"} : OnHangUp(u, type)
    \/ \E type \in {"offer", "answer"} : OnSdp(u, type)
=============================================================================
