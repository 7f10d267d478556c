------------------------------- MODULE Outbox -------------------------------
(***************************************************************************)
(* The messages an employee writes on the phone: ChatOutbox, which keeps   *)
(* on disk what could not be sent and sends it again, and the screen of    *)
(* one conversation (ConversationCubit), which shows a message before the  *)
(* server has it and hears of it twice afterwards: by the answer to the    *)
(* request and by the echo of the socket.                                  *)
(*                                                                         *)
(* A message is the local id of the phone; each delivery of it makes a     *)
(* request with an Idempotency-Key of its own, which may be lost or late   *)
(* (the module Idempotency), and makes at most one message on the server.  *)
(***************************************************************************)
EXTENDS Naturals, Sequences, SequencesExt, FiniteSets, Subsequences

CONSTANTS
    Messages,       \* what the employees write, by local id
    Files,          \* those with an attachment that has to be uploaded
    MaxSends,       \* bound: requests per message that may reach the server
    MaxUsers,       \* bound: employees who use the phone one after another
    None

VARIABLES
    saved,          \* 'chat_outbox_v1' on disk
    trying,         \* per message: where its delivery is (_inFlight)
    current,        \* per message: the request of its delivery, or None
    head,           \* the message the flush waits for, or None
    queue,          \* what the flush has loaded and still to deliver
    offline,        \* NetworkStatus.isOffline
    screen,         \* the conversation: closed, asked for, answered, open
    page,           \* the messages of the answer
    shown,          \* how many bubbles there are of each message
    failed,         \* local bubbles marked "xato", to be tapped
    pending,        \* _pendingLocalIds
    user,           \* who uses the phone
    signedIn,       \* there are tokens
    loggingOut,     \* logout is under way
    author,         \* per message: who wrote it, or 0
    gone,           \* attachments that are no longer on the phone
    posted,         \* requests that have not arrived
    created,        \* messages of the server, by the request that made them
    echoes          \* chat:message events on their way to the screen

diskVars == <<saved, trying, current, head, queue, offline>>
screenVars == <<screen, page, shown, failed, pending>>
userVars == <<user, signedIn, loggingOut, author, gone>>
serverVars == <<posted, created, echoes>>
vars == <<diskVars, screenVars, userVars, serverVars>>
-----------------------------------------------------------------------------
Users == 1..MaxUsers
Posts == Messages \X (1..MaxSends) \X Users
Bubbles == Messages \cup Posts
NoBubbles == [b \in Bubbles |-> 0]

TypeOK ==
    /\ saved \subseteq Messages
    /\ trying \in [Messages -> {"no", "started", "uploading", "sending"}]
    /\ current \in [Messages -> Posts \cup {None}]
    /\ head \in Messages \cup {None} /\ queue \subseteq Messages
    /\ offline \in BOOLEAN
    /\ screen \in {"closed", "asked", "answered", "open"}
    /\ page \subseteq Posts
    /\ shown \in [Bubbles -> Nat]
    /\ failed \subseteq Messages
    /\ pending \in Seq(Messages)
    /\ user \in Users /\ signedIn \in BOOLEAN /\ loggingOut \in BOOLEAN
    /\ author \in [Messages -> Users \cup {0}]
    /\ gone \subseteq Files
    /\ posted \subseteq Posts /\ created \subseteq Posts
    /\ echoes \in Seq(Posts)

Init ==
    /\ saved = {} /\ head = None /\ queue = {} /\ offline = FALSE
    /\ trying = [m \in Messages |-> "no"]
    /\ current = [m \in Messages |-> None]
    /\ screen = "closed" /\ page = {} /\ shown = NoBubbles /\ failed = {} /\ pending = <<>>
    /\ user = 1 /\ signedIn = TRUE /\ loggingOut = FALSE
    /\ author = [m \in Messages |-> 0] /\ gone = {}
    /\ posted = {} /\ created = {} /\ echoes = <<>>
-----------------------------------------------------------------------------
(***************************************************************************)
(* The screen.  A definition whose name ends in Bug is a plausible mistake *)
(* in the one after it; PROJECT.json says which property finds it.         *)
(***************************************************************************)
Closed ==
    /\ screen' = "closed" /\ page' = {} /\ shown' = NoBubbles /\ failed' = {} /\ pending' = <<>>
    /\ echoes' = <<>>

ReplaceLocalBug(m, p) == [shown EXCEPT ![p] = @ + shown[m], ![m] = 0]

\* _replaceLocal: the bubble of m becomes the message p, unless the echo of p has
\* come before.
ReplaceLocal(m, p) == [shown EXCEPT ![p] = IF @ > 0 THEN @ ELSE shown[m], ![m] = 0]

\* _mergeInbound: p is there already; or it is mine, and takes the place of the oldest
\* message that waits; or it is new.
MergeInbound(p) ==
    LET mine == p[3] = user /\ pending # <<>>
        local == Head(pending)
    IN  IF shown[p] > 0 THEN UNCHANGED <<shown, pending>>
        ELSE IF mine /\ shown[local] > 0
        THEN /\ shown' = [shown EXCEPT ![local] = @ - 1, ![p] = 1]
             /\ pending' = Tail(pending)
        ELSE /\ shown' = [shown EXCEPT ![p] = 1]
             /\ pending' = IF mine THEN Tail(pending) ELSE pending

\* What the results stream tells the screen: p is the server's message, or a failure.
Told(m, p) ==
    IF screen # "open" THEN UNCHANGED screenVars
    ELSE /\ pending' = RemoveFirst(pending, m)
         /\ shown' = IF p = None THEN shown ELSE ReplaceLocal(m, p)
         /\ failed' = IF p = None /\ shown[m] > 0 THEN failed \cup {m} ELSE failed \ {m}
         /\ UNCHANGED <<screen, page>>

Open ==
    /\ screen = "closed" /\ signedIn
    /\ screen' = "asked"
    /\ UNCHANGED <<diskVars, page, shown, failed, pending, userVars, serverVars>>

PageRead ==
    /\ screen = "asked"
    /\ screen' = "answered" /\ page' = created
    /\ UNCHANGED <<diskVars, shown, failed, pending, userVars, serverVars>>

\* deliver: nothing, if the message is being delivered.
Starts(S) ==
    trying' = [m \in Messages |-> IF m \in S /\ trying[m] = "no" THEN "started" ELSE trying[m]]

\* The history, and below it what is on disk, of which each is tried again.
Loaded ==
    /\ screen = "answered"
    /\ screen' = "open" /\ page' = {}
    /\ shown' = [b \in Bubbles |-> IF b \in page \cup saved THEN 1 ELSE 0]
    /\ pending' \in SetToAllKPermutations(saved) /\ Len(pending') = Cardinality(saved)
    /\ Starts(saved)
    /\ UNCHANGED <<saved, current, head, queue, offline, failed, userVars, serverVars>>

Close ==
    /\ screen # "closed"
    /\ Closed
    /\ UNCHANGED <<diskVars, userVars, posted, created>>

\* send: a bubble, and the first delivery.
Write(m) ==
    /\ screen = "open" /\ signedIn /\ author[m] = 0
    /\ author' = [author EXCEPT ![m] = user]
    /\ shown' = [shown EXCEPT ![m] = @ + 1]
    /\ pending' = Append(pending, m)
    /\ Starts({m})
    /\ UNCHANGED <<saved, current, head, queue, offline, screen, page, failed,
                   user, signedIn, loggingOut, gone, serverVars>>

\* retryFailed: a tap on a bubble marked "xato", if the disk still has it.
Tap(m) ==
    /\ screen = "open" /\ m \in failed /\ m \in saved
    /\ failed' = failed \ {m}
    /\ pending' = Append(pending, m)
    /\ Starts({m})
    /\ UNCHANGED <<saved, current, head, queue, offline, screen, page, shown, userVars, serverVars>>

Echo ==
    /\ echoes # <<>>
    /\ echoes' = Tail(echoes)
    /\ MergeInbound(Head(echoes))
    /\ UNCHANGED <<diskVars, screen, page, failed, userVars, posted, created>>
-----------------------------------------------------------------------------
(***************************************************************************)
(* The outbox.                                                             *)
(***************************************************************************)
Flushing == head # None \/ queue # {}

\* The deliveries of S are over: a flush that waited for one goes on, unless it
\* failed offline.
Ends(S, sent, now) ==
    /\ trying' = [m \in Messages |-> IF m \in S THEN "no" ELSE trying[m]]
    /\ current' = [m \in Messages |-> IF m \in S THEN None ELSE current[m]]
    /\ head' = IF head \in S THEN None ELSE head
    /\ queue' = IF head \in S /\ ~sent /\ now THEN {}
                ELSE IF offline /\ ~now /\ ~Flushing THEN saved ELSE queue
    /\ offline' = now

FileMissing(m) ==
    /\ trying[m] = "started" /\ m \in gone
    /\ saved' = saved \ {m}
    /\ Ends({m}, FALSE, offline)
    /\ Told(m, None)
    /\ UNCHANGED <<userVars, serverVars>>

Uploads(m) ==
    /\ trying[m] = "started" /\ m \in Files \ gone
    /\ trying' = [trying EXCEPT ![m] = "uploading"]
    /\ UNCHANGED <<saved, current, head, queue, offline, screenVars, userVars, serverVars>>

\* A request with the token of whoever is signed in.
Asks(m) ==
    /\ trying' = [trying EXCEPT ![m] = "sending"]
    /\ \/ \E n \in 1..MaxSends :
             /\ signedIn
             /\ \A p \in posted \cup created : p[1] = m => p[2] < n
             /\ posted' = posted \cup {<<m, n, user>>}
             /\ current' = [current EXCEPT ![m] = <<m, n, user>>]
       \/ UNCHANGED <<posted, current>>

SendsBug(m) ==                            \* off the disk before it is sent
    /\ \/ trying[m] = "started" /\ m \notin Files
       \/ trying[m] = "uploading"
    /\ Asks(m)
    /\ saved' = saved \ {m}
    /\ UNCHANGED <<head, queue, offline, screenVars, userVars, created, echoes>>

Sends(m) ==
    /\ \/ trying[m] = "started" /\ m \notin Files
       \/ trying[m] = "uploading"
    /\ Asks(m)
    /\ UNCHANGED <<saved, head, queue, offline, screenVars, userVars, created, echoes>>

\* The answer: off the disk.  It also shows that the server can be reached.
Answered(m) ==
    /\ trying[m] = "sending" /\ current[m] \in created
    /\ saved' = saved \ {m}
    /\ Ends({m}, TRUE, FALSE)
    /\ Told(m, current[m])
    /\ UNCHANGED <<userVars, serverVars>>

\* No answer, after all the attempts (now = TRUE), or an error: onto the disk.
Fails(m, now) ==
    /\ trying[m] \in {"uploading", "sending"}
    /\ saved' = saved \cup {m}
    /\ Ends({m}, FALSE, now)
    /\ Told(m, None)
    /\ UNCHANGED <<userVars, serverVars>>

\* Several were refused with 401 and waited for one refresh, which failed: each loads
\* the list before any has stored its own, and the last one wins.
FailTogether(S, last) ==
    /\ last \in S /\ Cardinality(S) > 1
    /\ \A m \in S : trying[m] = "sending" /\ current[m] \in posted
    /\ posted' = posted \ {current[m] : m \in S}
    /\ saved' = saved \cup {last}
    /\ Ends(S, FALSE, TRUE)
    /\ IF screen # "open" THEN UNCHANGED screenVars
       ELSE /\ pending' = Subsequence(pending, Messages \ S)
            /\ failed' = failed \cup {m \in S : shown[m] > 0}
            /\ UNCHANGED <<screen, page, shown>>
    /\ UNCHANGED <<userVars, created, echoes>>

\* flush: one after another, whatever became of them since they were loaded.
FlushTakes(m) ==
    /\ head = None /\ m \in queue
    /\ IF trying[m] = "no"
       THEN Starts({m}) /\ head' = m /\ queue' = queue \ {m}
       ELSE /\ queue' = IF offline THEN {} ELSE queue \ {m}
            /\ UNCHANGED <<trying, head>>
    /\ UNCHANGED <<saved, current, offline, screenVars, userVars, serverVars>>

\* NetworkStatus, by other requests and its probe: back online, the outbox is flushed.
NetworkLost ==
    /\ ~offline
    /\ offline' = TRUE
    /\ UNCHANGED <<saved, trying, current, head, queue, screenVars, userVars, serverVars>>

Reconnects ==
    /\ offline
    /\ offline' = FALSE
    /\ queue' = IF Flushing THEN queue ELSE saved
    /\ UNCHANGED <<saved, trying, current, head, screenVars, userVars, serverVars>>
-----------------------------------------------------------------------------
(***************************************************************************)
(* The phone and its users.                                                *)
(***************************************************************************)
\* The app is killed and started again.
Killed ==
    /\ trying' = [m \in Messages |-> "no"] /\ current' = [m \in Messages |-> None]
    /\ head' = None /\ queue' = IF signedIn THEN saved ELSE {}
    /\ offline' = FALSE
    /\ loggingOut' = FALSE
    /\ Closed
    /\ UNCHANGED <<saved, user, signedIn, author, gone, posted, created>>

FileDeleted(m) ==
    /\ m \in Files \ gone
    /\ gone' = gone \cup {m}
    /\ UNCHANGED <<diskVars, screenVars, user, signedIn, loggingOut, author, serverVars>>

\* SessionService.logout: the tokens go, and later the outbox.
SignsOut ==
    /\ signedIn
    /\ signedIn' = FALSE /\ loggingOut' = TRUE
    /\ Closed
    /\ UNCHANGED <<diskVars, user, author, gone, posted, created>>

OutboxCleared ==
    /\ loggingOut
    /\ loggingOut' = FALSE
    /\ saved' = {}
    /\ UNCHANGED <<trying, current, head, queue, offline, screenVars, user, signedIn, author, gone,
                   serverVars>>

SignsIn ==
    /\ ~signedIn /\ ~loggingOut /\ user < MaxUsers
    /\ user' = user + 1 /\ signedIn' = TRUE
    /\ UNCHANGED <<diskVars, screenVars, loggingOut, author, gone, serverVars>>

\* The server: the message, and its echo to the screens that are open.
Creates(p) ==
    /\ p \in posted
    /\ posted' = posted \ {p}
    /\ created' = created \cup {p}
    /\ echoes' \in IF screen = "open" THEN {echoes, Append(echoes, p)} ELSE {echoes}
    /\ UNCHANGED <<diskVars, screenVars, userVars>>

Next ==
    \/ Open \/ PageRead \/ Loaded \/ Close \/ Echo
    \/ \E m \in Messages :
          \/ Write(m) \/ Tap(m) \/ FileMissing(m) \/ Uploads(m) \/ Sends(m) \/ Answered(m)
          \/ \E now \in BOOLEAN : Fails(m, now)
          \/ FlushTakes(m) \/ FileDeleted(m)
          \/ \E S \in SUBSET Messages : FailTogether(S, m)
    \/ NetworkLost \/ Reconnects \/ Killed \/ SignsOut \/ OutboxCleared \/ SignsIn
    \/ \E p \in posted : Creates(p)

Spec == Init /\ [][Next]_vars
-----------------------------------------------------------------------------
\* "In the outbox a message is not lost": once it is on disk it stays there, through
\* flushes, taps and other messages that fail at the same time, and through the death
\* of the app, until the server has it; unless its file is gone or the user logs out.
OutboxKeeps ==
    [][\A m \in saved \ saved' : loggingOut \/ m \in gone \/ \E p \in created : p[1] = m]_vars

\* The answer and the echo of a message come in either order, and of several messages
\* in any: a message of the server has one bubble at most, and so has a message of the
\* phone, which has it only while it is on its way or marked "xato".  Once it has been
\* answered it is shown as the server's alone, whichever bubble the echo took.  Before
\* that, and when it failed though the server has it, both can be shown (OneBubble).
ShownOnce ==
    /\ \A b \in Bubbles : shown[b] <= 1
    /\ \A m \in Messages : shown[m] > 0 => trying[m] # "no" \/ m \in failed
-----------------------------------------------------------------------------
(***************************************************************************)
(* What the repository says and the code does not keep.                    *)
(***************************************************************************)
\* "So that it is not duplicated": what the server has made of a message is not shown
\* beside the bubble it was written in.
OneBubble == \A p \in created : shown[p] + shown[p[1]] <= 1

\* "If it does not go through, it is written to disk".
FailedIsSaved == \A m \in failed : m \in saved \cup gone

\* "Kept on disk: not lost when the app is closed".
WrittenIsKept ==
    \A m \in Messages :
        author[m] # 0 /\ trying[m] = "no" /\ m \notin gone /\ author[m] = user /\ signedIn
        => m \in saved \/ \E p \in created : p[1] = m

\* A message becomes one message.
SentOnce == \A p, q \in created : p[1] = q[1] => p = q

\* "Unsent messages must not go out in the name of the next user".
SentAsAuthor == \A p \in created : p[3] = author[p[1]]

\* What waits on disk is "shown as failed".
SavedIsShown == screen = "open" => \A m \in saved : trying[m] = "no" => shown[m] > 0
=============================================================================
