---------------------------- MODULE CallClients ----------------------------
(***************************************************************************)
(* The two clients of a call and the gateway between them.                 *)
(***************************************************************************)
EXTENDS CallPhone, CallWeb

User(u) == IF u \in Webs THEN WebUser(u) ELSE PhoneUser(u)
Receive(u) == IF u \in Webs THEN WebHears(u) ELSE PhoneHears(u)
Resume(u) == IF u \in Webs THEN WebResumes(u) ELSE PhoneResumes(u)
GivesUp(u) == IF u \in Webs THEN WebGivesUp(u) ELSE PhoneGivesUp(u)
Closes(u) == u \in Webs /\ WebCloses(u)

\* Media flows when both ends have the descriptions of each other ...
Connects(u) ==
    /\ Held(client[u]) \cap Held(client[Other(u)]) # {}
    /\ IF u \in Webs THEN WebConnects(u) ELSE PhoneConnects(u)

\* ... and stops by itself, or because the other end is gone.
LosesMedia(u, c) == IF u \in Webs THEN WebLosesMedia(u, c) ELSE PhoneLosesMedia(u, c)
IsLeft(u) ==
    \E c \in Ids : client[u].call = c /\ c \notin Held(client[Other(u)]) /\ LosesMedia(u, c)

Next ==
    \/ \E u \in Clients :
          \/ User(u) \/ Receive(u) \/ Resume(u) \/ GivesUp(u) \/ Closes(u)
          \/ Connects(u) \/ Serve(u) \/ \E c \in Ids : LosesMedia(u, c)
    \/ \E u \in Phones : Drop(u) \/ Reconnect(u) \/ \E c \in Ids : GraceExpires(u, c)
    \/ \E c \in Ids : RingTimeout(c)

Spec == Init /\ [][Next]_vars

\* What goes on by itself: awaits return, events arrive, timers fire, and a
\* connection whose other end is gone is found out.
System ==
    \/ \E u \in Clients : Receive(u) \/ Resume(u) \/ GivesUp(u) \/ Closes(u) \/ Serve(u) \/ IsLeft(u)
    \/ \E u \in Phones, c \in Ids : GraceExpires(u, c)
    \/ \E c \in Ids : RingTimeout(c)

\* Nobody need answer, hang up or come back.
FairSpec == Spec /\ WF_vars(System)
-----------------------------------------------------------------------------
Coming(u, c, types) == \E i \in DOMAIN inbox[u] : inbox[u][i].call = c /\ inbox[u][i].type \in types

\* The page of an admin does not outlive the call it shows, whoever ended it and
\* whatever the page was waiting for: once the server has dropped the call, the
\* event that says so is on its way.
EndIsTold ==
    \A u \in Webs : LET c == client[u].call IN
        c # None /\ call[c].status = "over"
        => Coming(u, c, {"rejected", "cancelled", "busy", "missed", "ended"})

\* No two clients hold a connection about a call its callee has not taken, though
\* both go on with answers, offers and connections of calls that are over; and a
\* client shows a conversation only in a call that was taken, or next to a
\* connection of an earlier one that it put aside and never closed.
ActiveIsAnswered ==
    \A u \in Clients : LET k == client[u] IN
        /\ k.pc = "stable" => k.call # None
        /\ \A c \in Held(k) : call[c].answered
        /\ k.phase = "active" /\ k.stray = {} => k.call # None /\ call[k.call].answered

Waiting(u) ==
    \/ client[u].phase = "connecting"
    \/ u \in Webs /\ client[u].phase \in {"outgoing", "incoming"}

\* "Otherwise the screen hangs in \"connecting\" for ever": on either side it comes
\* to an end, on the page of the admin ringing and being rung as well, also when the
\* other side lost its connection or went on to something else.
WaitingEnds == \A u \in Clients : []<>~Waiting(u)
-----------------------------------------------------------------------------
(***************************************************************************)
(* What the repository says and the code does not keep.                    *)
(***************************************************************************)

\* "Tracks stop, the PC closes, renderers are freed: the camera never stays on"
\* once no function of a client waits for it any more.
CameraReleased ==
    \A u \in Clients :
        ~Busy(client[u]) /\ (\A c \in Ids : client[u].dial[c] \notin {"media", "peer"} /\ client[u].ans[c] = "none")
        => ~client[u].cam

\* "call:busy: the employee who is called is in another call": the caller sees it.
DiallingEnds == \A u \in Phones : client[u].phase = "outgoing" ~> client[u].phase # "outgoing"

\* "call:missed: not answered for 35 s": the callee's phone stops ringing.
RingingEnds == \A u \in Phones : client[u].phase = "incoming" ~> client[u].phase # "incoming"
=============================================================================
