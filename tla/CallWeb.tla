------------------------------ MODULE CallWeb ------------------------------
(***************************************************************************)
(* CallProvider, the calls of the web admin.  Every call has a session     *)
(* object, and a function that awaits asks afterwards whether its session  *)
(* is still the current one: startCall alone does not, and what it puts    *)
(* aside goes on, the connection and its callbacks included.               *)
(* A second tap on accept, while the first awaits, is left out.            *)
(***************************************************************************)
EXTENDS CallSignals

\* The ack of an earlier session is for nobody.
Superseded(dial) == [c \in Ids |-> IF dial[c] = "ack" THEN "stale" ELSE dial[c]]

\* teardown: the session is no longer the current one.
WebDown(k) ==
    [k EXCEPT !.cam = FALSE, !.pc = "none", !.watch = FALSE, !.call = None,
              !.dial = Superseded(@), !.ans = [c \in Ids |-> "none"], !.nego = Left(@, "closed")]

\* goIdle and finish; the ended screen closes after some seconds.
WebIdle(k) == [WebDown(k) EXCEPT !.phase = "idle", !.close = FALSE]
WebFinished(k) == [WebDown(k) EXCEPT !.phase = "ended", !.close = TRUE]

WebDial(u) ==
    /\ ~Busy(client[u])
    /\ \E c \in Ids : Dials(u, c) /\ Become(u, [client[u] EXCEPT !.dial[c] = "media", !.close = FALSE])
    /\ UNCHANGED <<inbox, outbox, online, notified, drops>>

\* getUserMedia answers startCall: its session becomes the current one, whatever
\* else has begun in the meantime.
WebDialMedia(u, c) ==
    LET k == client[u] IN
    /\ k.dial[c] = "media"
    /\ \/ /\ Become(u, [WithCamera(Replaced(k, "none")) EXCEPT
                            !.phase = "outgoing", !.call = None, !.ans = [d \in Ids |-> "none"],
                            !.dial = [Superseded(@) EXCEPT ![c] = "ack"]])
          /\ Invites(u, c)
       \/ Become(u, WebFinished([k EXCEPT !.dial[c] = "none"])) /\ UNCHANGED outbox
    /\ UNCHANGED <<inbox, notified, netVars>>

\* The ack; the user may have cancelled before the id was known.
WebAck(u) ==
    LET k == client[u]
        c == Heard(u) IN
    /\ Hears(u, "ack") /\ k.dial[c] \in {"ack", "stale", "cancelled"}
    /\ Become(u, [k EXCEPT !.dial[c] = "none", !.call = IF k.dial[c] = "ack" THEN c ELSE @])
    /\ Sends(u, IF k.dial[c] = "cancelled" THEN Event("cancel", c) ELSE <<>>)
    /\ UNCHANGED <<notified, netVars>>

WebAccept(u) ==
    LET k == client[u] IN
    /\ k.phase = "incoming" /\ k.ans[k.call] = "none"
    /\ Become(u, [k EXCEPT !.ans[k.call] = "media"])
    /\ UNCHANGED <<inbox, outbox, notified, netVars>>

\* Camera refused, or no ICE servers: the caller is told, if the call still rings here.
\* A function whose session is no longer the current one ends without a trace.
WebAcceptFails(u) ==
    LET k == client[u] IN
    /\ k.call # None /\ k.ans[k.call] # "none"
    /\ Become(u, WebFinished(k))
    /\ Sends(u, Event("reject", k.call))
    /\ UNCHANGED <<inbox, notified, netVars>>

WebAcceptMedia(u) ==
    LET k == client[u] IN
    /\ k.call # None /\ k.ans[k.call] = "media"
    /\ Become(u, IF k.phase = "incoming"
                 THEN [WithCamera(k) EXCEPT !.phase = "connecting", !.ans[k.call] = "peer"]
                 ELSE [k EXCEPT !.ans[k.call] = "none"])
    /\ UNCHANGED <<inbox, outbox, notified, netVars>>

WebAcceptPeerBug(u) ==                    \* forgets the watchdog
    LET k == client[u] IN
    /\ k.call # None /\ k.ans[k.call] = "peer"
    /\ Become(u, [k EXCEPT !.pc = "new", !.ans[k.call] = "none"])
    /\ Sends(u, Event("accept", k.call))
    /\ UNCHANGED <<inbox, notified, netVars>>

\* ICE servers are there: the connection is made before the call is accepted.
WebAcceptPeer(u) ==
    LET k == client[u] IN
    /\ k.call # None /\ k.ans[k.call] = "peer"
    /\ Become(u, [k EXCEPT !.pc = "new", !.watch = TRUE, !.ans[k.call] = "none"])
    /\ Sends(u, Event("accept", k.call))
    /\ UNCHANGED <<inbox, notified, netVars>>

\* reject, cancel, hangup.  Without an id, cancel leaves word for the ack.
Cancelled(dial) == [c \in Ids |-> IF dial[c] = "ack" THEN "cancelled" ELSE dial[c]]

WebHangsUp(u) ==
    LET k == client[u] IN
    /\ Busy(k)
    /\ Sends(u, Event(CASE k.phase = "incoming" -> "reject" [] k.phase = "outgoing" -> "cancel"
                        [] OTHER -> "end", k.call))
    /\ Become(u, WebIdle([k EXCEPT !.dial = IF k.phase = "outgoing" THEN Cancelled(@) ELSE @]))
    /\ UNCHANGED <<inbox, notified, netVars>>

\* The timer of the ended screen, or its button: whatever is on the screen by then goes.
WebCloses(u) ==
    /\ client[u].close
    /\ Become(u, WebIdle(client[u]))
    /\ UNCHANGED <<inbox, outbox, notified, netVars>>
-----------------------------------------------------------------------------
WebIncoming(u) ==
    LET k == client[u] IN
    /\ Hears(u, "incoming")
    /\ IF Busy(k)
       THEN Sends(u, Event("reject", Heard(u))) /\ UNCHANGED client
       ELSE /\ Become(u, [k EXCEPT !.phase = "incoming", !.call = Heard(u), !.close = FALSE])
            /\ UNCHANGED outbox
    /\ UNCHANGED <<notified, netVars>>

WebAccepted(u) ==
    LET k == client[u] IN
    /\ Hears(u, "accepted")
    /\ Become(u, IF k.call = Heard(u) /\ Dialled(u, k.call)
                 THEN [Negotiates(k, "offer") EXCEPT !.phase = "connecting", !.watch = TRUE]
                 ELSE k)
    /\ UNCHANGED <<outbox, notified, netVars>>

WebSdp(u, type) ==
    LET k == client[u] IN
    /\ Hears(u, type)
    /\ Become(u, IF k.call = Heard(u) /\ k.pc # "none"
                 THEN Negotiates(k, IF type = "offer" THEN "answer" ELSE "apply") ELSE k)
    /\ UNCHANGED <<outbox, notified, netVars>>

\* The offer is made, or dropped with its connection when the session has changed.
WebOffers(u, c) ==
    LET k == client[u]
        done == [k EXCEPT !.nego[c] = Quiet] IN
    /\ k.nego[c].at = "offer"
    /\ IF k.nego[c].pc # "kept" THEN Become(u, done) /\ UNCHANGED outbox
       ELSE \/ Become(u, [done EXCEPT !.pc = "offered"]) /\ Sends(u, Event("offer", c))
            \/ Become(u, WebIdle(done)) /\ Sends(u, Event("end", c))
    /\ UNCHANGED <<inbox, notified, netVars>>

\* handleSdp ends, also on a connection put aside; a description for a closed one
\* ends the current call.
WebNegotiated(u, c) ==
    LET k == client[u]
        done == [k EXCEPT !.nego[c] = Quiet] IN
    /\ k.nego[c].at \in {"answer", "apply"}
    /\ IF k.nego[c].pc = "closed" THEN Become(u, WebFinished(done)) /\ UNCHANGED outbox
       ELSE /\ Become(u, IF k.nego[c].pc = "kept" THEN [done EXCEPT !.pc = "stable"]
                         ELSE [done EXCEPT !.stray = @ \cup {c}])
            /\ Sends(u, IF k.nego[c].at = "answer" THEN Event("answer", c) ELSE <<>>)
    /\ UNCHANGED <<inbox, notified, netVars>>

\* handleRejected, handleMissed, handleEnded, handleCancelled ...
WebTold(u) ==
    LET k == client[u] IN
    /\ \/ /\ \E type \in {"rejected", "missed", "ended"} : Hears(u, type)
          /\ Become(u, IF k.call = Heard(u) THEN WebFinished(k) ELSE k)
       \/ /\ Hears(u, "cancelled")
          /\ Become(u, IF k.call = Heard(u) THEN WebIdle(k) ELSE k)
    /\ UNCHANGED <<outbox, notified, netVars>>

WebBusyBug(u) ==                          \* as the phone does: before the ack it knows no id
    LET k == client[u] IN
    /\ Hears(u, "busy")
    /\ Become(u, IF k.call = Heard(u) THEN WebFinished(k) ELSE k)
    /\ UNCHANGED <<outbox, notified, netVars>>

\* ... and handleBusy, which comes before the ack: to a session without an id too.
WebBusy(u) ==
    LET k == client[u] IN
    /\ Hears(u, "busy")
    /\ Become(u, IF k.call = Heard(u) \/ \E c \in Ids : k.dial[c] = "ack" THEN WebFinished(k) ELSE k)
    /\ UNCHANGED <<outbox, notified, netVars>>

\* The watchdog of "connecting": 30 s.
WebGivesUp(u) ==
    LET k == client[u] IN
    /\ k.watch
    /\ IF k.phase = "connecting"
       THEN Become(u, WebFinished(k)) /\ Sends(u, Event("end", k.call))
       ELSE Become(u, [k EXCEPT !.watch = FALSE]) /\ UNCHANGED outbox
    /\ UNCHANGED <<inbox, notified, netVars>>

\* A connection is up, be it one that was put aside: whatever is on the screen is
\* shown as a conversation.
WebConnects(u) ==
    /\ client[u].phase # "active"
    /\ Become(u, [client[u] EXCEPT !.phase = "active", !.watch = FALSE])
    /\ UNCHANGED <<inbox, outbox, notified, netVars>>

\* A connection fails.  Nobody is told: the phone's own connection breaks as well.
WebLosesMedia(u, c) ==
    /\ c \in Held(client[u])
    /\ Become(u, WebFinished([client[u] EXCEPT !.stray = @ \ {c}]))
    /\ UNCHANGED <<inbox, outbox, notified, netVars>>
-----------------------------------------------------------------------------
WebUser(u) == WebDial(u) \/ WebAccept(u) \/ WebHangsUp(u)

WebHears(u) ==
    \/ WebIncoming(u) \/ WebAck(u) \/ WebAccepted(u) \/ WebTold(u) \/ WebBusy(u)
    \/ \E type \in {"offer", "answer"} : WebSdp(u, type)

WebResumes(u) ==
    \/ WebAcceptMedia(u) \/ WebAcceptPeer(u) \/ WebAcceptFails(u)
    \/ \E c \in Ids : WebDialMedia(u, c) \/ WebOffers(u, c) \/ WebNegotiated(u, c)
=============================================================================
