----------------------------- MODULE CallPhone -----------------------------
(***************************************************************************)
(* CallCubit, the calls of the workers' phone app.  A function that awaits *)
(* goes on with the state it finds then: it keeps the call id it began     *)
(* with, and never asks whether that call is still the one on the screen.  *)
(***************************************************************************)
EXTENDS CallSignals

\* _teardownMedia.  Functions that await are not told, but their connection is closed.
PhoneDown(k) ==
    [k EXCEPT !.cam = FALSE, !.pc = "none", !.watch = FALSE, !.nego = Left(@, "closed")]

\* "ended" stands for the idle screen as well to which reset goes back when the page
\* is left: no function asks which of the two it is.
PhoneEnded(k) == [PhoneDown(k) EXCEPT !.phase = "ended", !.call = None]

\* _finish.
PhoneFinished(k) == IF k.phase \in {"idle", "ended"} THEN PhoneDown(k) ELSE PhoneEnded(k)

\* _fail: the other party is told if there may be media.
PhoneFails(u, k, events) ==
    /\ Become(u, PhoneEnded(k))
    /\ Sends(u, (IF Negotiating(k) THEN Event("end", k.call) ELSE <<>>) \o events)
    /\ notified' = [notified EXCEPT ![u] = None]

\* startCall, accept: what the user taps, up to the permission for the camera.
PhoneDial(u) ==
    /\ ~Busy(client[u])
    /\ \E c \in Ids :
          /\ Dials(u, c)
          /\ Become(u, [client[u] EXCEPT !.phase = "outgoing", !.call = None, !.dial[c] = "media"])
    /\ UNCHANGED <<inbox, outbox, online, notified, drops>>

PhoneAnswering(k, c) == [k EXCEPT !.ans[c] = "media"]

\* _accepting: one accept of the call on the screen.
PhoneAccept(u) ==
    LET k == client[u] IN
    /\ k.phase = "incoming" /\ k.ans[k.call] = "none"
    /\ Become(u, PhoneAnswering(k, k.call))
    /\ notified' = [notified EXCEPT ![u] = None]
    /\ UNCHANGED <<call, inbox, outbox, online, drops>>

\* acceptFromPush: the call on the notification, which may be over.
PhoneAcceptPush(u) ==
    LET k == client[u] IN
    /\ notified[u] # None /\ ~Busy(k)
    /\ Become(u, PhoneAnswering([k EXCEPT !.phase = "incoming", !.call = notified[u]], notified[u]))
    /\ notified' = [notified EXCEPT ![u] = None]
    /\ UNCHANGED <<call, inbox, outbox, online, drops>>

\* getUserMedia answers, for a call dialled or taken.
PhoneDialMedia(u, c) ==
    LET k == client[u] IN
    /\ k.dial[c] = "media"
    /\ \/ Become(u, [WithCamera(k) EXCEPT !.dial[c] = "peer"]) /\ UNCHANGED <<outbox, notified>>
       \/ PhoneFails(u, [k EXCEPT !.dial[c] = "none"], <<>>)
    /\ UNCHANGED <<inbox, netVars>>

PhoneAcceptMedia(u, c) ==
    LET k == client[u] IN
    /\ k.ans[c] = "media"
    /\ \/ Become(u, [WithCamera(k) EXCEPT !.ans[c] = "peer"]) /\ UNCHANGED <<outbox, notified>>
       \/ PhoneFails(u, [k EXCEPT !.ans[c] = "none"], Event("reject", c))
    /\ UNCHANGED <<inbox, netVars>>

\* The connection is there: invite, or accept the call accept began with.
PhoneDialPeer(u, c) ==
    LET k == client[u] IN
    /\ k.dial[c] = "peer"
    /\ Become(u, [Replaced(k, "new") EXCEPT !.dial[c] = "ack"])
    /\ Invites(u, c)
    /\ UNCHANGED <<inbox, notified, netVars>>

PhoneAcceptPeer(u, c) ==
    LET k == client[u] IN
    /\ k.ans[c] = "peer"
    /\ Become(u, [Replaced(k, "new") EXCEPT !.phase = "connecting", !.watch = TRUE, !.ans[c] = "none"])
    /\ Sends(u, Event("accept", c))
    /\ UNCHANGED <<inbox, notified, netVars>>

\* reject, cancel, hangUp.
PhoneHangsUp(u) ==
    LET k == client[u] IN
    /\ Busy(k)
    /\ Sends(u, Event(CASE k.phase = "incoming" -> "reject" [] k.phase = "outgoing" -> "cancel"
                         [] OTHER -> "end", k.call))
    /\ Become(u, PhoneFinished(k))
    /\ notified' = [notified EXCEPT ![u] = None]
    /\ UNCHANGED <<call, inbox, online, drops>>
-----------------------------------------------------------------------------
PhoneIncoming(u) ==
    LET k == client[u] IN
    /\ Hears(u, "incoming")
    /\ IF Busy(k)
       THEN Sends(u, Event("reject", Heard(u))) /\ UNCHANGED client
       ELSE Become(u, [k EXCEPT !.phase = "incoming", !.call = Heard(u)]) /\ UNCHANGED outbox
    /\ UNCHANGED <<notified, netVars>>

PhoneAckBug(u) ==                         \* goes on though the call was given up
    LET k == client[u]
        c == Heard(u) IN
    /\ Hears(u, "ack") /\ k.dial[c] = "ack"
    /\ Become(u, [k EXCEPT !.dial[c] = "none", !.call = c])
    /\ UNCHANGED <<outbox, notified, netVars>>

\* The ack of the invitation, which the screen may have left meanwhile.
PhoneAck(u) ==
    LET k == client[u]
        c == Heard(u) IN
    /\ Hears(u, "ack") /\ k.dial[c] = "ack"
    /\ Become(u, IF k.phase = "outgoing" THEN [k EXCEPT !.dial[c] = "none", !.call = c]
                 ELSE [k EXCEPT !.dial[c] = "none"])
    /\ UNCHANGED <<outbox, notified, netVars>>

\* _onAccepted: the caller makes the offer.
PhoneAccepted(u) ==
    LET k == client[u] IN
    /\ Hears(u, "accepted")
    /\ Become(u, IF k.call = Heard(u) /\ Dialled(u, k.call) /\ k.pc # "none"
                 THEN [Negotiates(k, "offer") EXCEPT !.phase = "connecting", !.watch = TRUE]
                 ELSE k)
    /\ UNCHANGED <<outbox, notified, netVars>>

\* A connection that has made no offer takes no answer.
PhoneSdp(u, type) ==
    LET k == client[u] IN
    /\ Hears(u, type)
    /\ Become(u, IF k.call = Heard(u) /\ k.pc # "none"
                 THEN Negotiates(k, IF type = "offer" THEN "answer"
                                    ELSE IF k.pc = "offered" THEN "apply" ELSE "fail")
                 ELSE k)
    /\ UNCHANGED <<outbox, notified, netVars>>

\* What _onAccepted and _onSdp await is done, also for a connection put aside, or
\* fails, as when the connection is closed: then whatever call is on the screen fails.
PhoneNegotiated(u, c) ==
    LET k == client[u]
        n == k.nego[c]
        done == [k EXCEPT !.nego[c] = Quiet] IN
    /\ n.at # "none"
    /\ IF n.pc = "closed" \/ n.at = "fail" THEN PhoneFails(u, done, <<>>)
       ELSE /\ Become(u, CASE n.pc = "kept" -> [done EXCEPT !.pc = IF n.at = "offer" THEN "offered" ELSE "stable"]
                           [] n.pc = "lost" -> [done EXCEPT !.stray = IF n.at = "offer" THEN @ ELSE @ \cup {c}])
            /\ Sends(u, IF n.at = "apply" THEN <<>> ELSE Event(n.at, c))
            /\ UNCHANGED notified
    /\ UNCHANGED <<inbox, netVars>>

\* _onRejected, _onCancelled, _onBusy, _onMissed, _onEnded.
PhoneTold(u) ==
    LET k == client[u] IN
    /\ \E type \in {"rejected", "cancelled", "busy", "missed", "ended"} : Hears(u, type)
    /\ IF Heard(u) = k.call
       THEN Become(u, PhoneFinished(k)) /\ notified' = [notified EXCEPT ![u] = None]
       ELSE UNCHANGED <<client, notified>>
    /\ UNCHANGED <<call, outbox, online, drops>>

\* The watchdog of "connecting": 30 s.
PhoneGivesUp(u) ==
    LET k == client[u] IN
    /\ k.watch
    /\ IF k.phase = "connecting" THEN PhoneFails(u, k, <<>>)
       ELSE Become(u, [k EXCEPT !.watch = FALSE]) /\ UNCHANGED <<outbox, notified>>
    /\ UNCHANGED <<inbox, netVars>>

\* _markActive, by a connection that may have been put aside.
PhoneConnects(u) ==
    /\ client[u].phase # "active"
    /\ Become(u, [client[u] EXCEPT !.phase = "active", !.watch = FALSE])
    /\ UNCHANGED <<inbox, outbox, notified, netVars>>

\* A connection fails, or is not restored within 10 s.
PhoneLosesMedia(u, c) ==
    /\ c \in Held(client[u])
    /\ PhoneFails(u, [client[u] EXCEPT !.stray = @ \ {c}], <<>>)
    /\ UNCHANGED <<inbox, netVars>>
-----------------------------------------------------------------------------
PhoneUser(u) == PhoneDial(u) \/ PhoneAccept(u) \/ PhoneAcceptPush(u) \/ PhoneHangsUp(u)

PhoneHears(u) ==
    \/ PhoneIncoming(u) \/ PhoneAck(u) \/ PhoneAccepted(u) \/ PhoneTold(u)
    \/ \E type \in {"offer", "answer"} : PhoneSdp(u, type)

PhoneResumes(u) ==
    \E c \in Ids :
       \/ PhoneDialMedia(u, c) \/ PhoneDialPeer(u, c) \/ PhoneAcceptMedia(u, c) \/ PhoneAcceptPeer(u, c)
       \/ PhoneNegotiated(u, c)
=============================================================================
