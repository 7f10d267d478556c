-------------------------------- MODULE Chat --------------------------------
(***************************************************************************)
(* A conversation of the chat (ChatService): its row, its messages, and    *)
(* the handlers that write them, each in a few round trips that interleave *)
(* with those of the others.  The conversation is the one of the admin     *)
(* ("me") with one employee, which the first write creates.  A call that   *)
(* is over is written into it as a message (recordCall).                   *)
(***************************************************************************)
EXTENDS Naturals

CONSTANTS
    Msgs,           \* messages
    Workers,        \* requests under way at one time
    MaxEdits,       \* bound: times a text is changed
    Nothing

VARIABLES
    there,          \* the row of the conversation exists
    archived,       \* its column
    state,          \* per message: not written, sent, read, deleted
    from,           \* per message: its sender
    edits,          \* per message: times its text was changed
    news,           \* messages written since the conversation was last archived
    job             \* per request: what it is about to do

vars == <<there, archived, state, from, edits, news, job>>
-----------------------------------------------------------------------------
People == {"me", "employee"}
Idle == [step |-> "idle"]
Writing == {"ensure", "upsert", "create", "unarchive"}
Job == [step : Writing, msg : Msgs, from : People, born : {"sent", "read"}]
       \cup [step : {"archive:ensure", "archive:upsert", "archive"}, flag : BOOLEAN]
       \cup [step : {"clear:ensure", "clear:archive", "clear:delete", "drop"}]
       \cup [step : {"read:ensure", "read"}, by : People]
       \cup [step : {"edit", "delete"}, msg : Msgs]

TypeOK ==
    /\ there \in BOOLEAN /\ archived \in BOOLEAN
    /\ state \in [Msgs -> {"none", "sent", "read", "deleted"}]
    /\ from \in [Msgs -> People \cup {Nothing}]
    /\ \A m \in Msgs : state[m] = "none" <=> from[m] = Nothing
    /\ edits \in [Msgs -> 0..MaxEdits]
    /\ news \subseteq Msgs
    /\ job \in [Workers -> Job \cup {Idle}]

Init ==
    /\ there = FALSE /\ archived = FALSE
    /\ state = [m \in Msgs |-> "none"]
    /\ from = [m \in Msgs |-> Nothing]
    /\ edits = [m \in Msgs |-> 0]
    /\ news = {}
    /\ job = [w \in Workers |-> Idle]

Present == {m \in Msgs : state[m] \in {"sent", "read"}}
-----------------------------------------------------------------------------
(***************************************************************************)
(* The handlers.  A definition whose name ends in Bug is a plausible       *)
(* mistake in the one after it; PROJECT.json says which property finds it. *)
(***************************************************************************)
Takes(w, j) == job[w] = Idle /\ job' = [job EXCEPT ![w] = j]
At(w, step) == job[w].step = step
Goes(w, step) == job' = [job EXCEPT ![w].step = step]
Ends(w) == job' = [job EXCEPT ![w] = Idle]

UnreadBy(p) == {m \in Present : state[m] = "sent" /\ from[m] # p}

\* A request arrives; an edit or a deletion has found the message, unread if it is to be
\* edited.  (The row of a call cannot be edited; messages have no kind here.)
Arrive(w) ==
    /\ \E p \in People, m \in Msgs, b \in {"sent", "read"}, flag \in BOOLEAN :
          \/ /\ state[m] = "none"
             /\ \A v \in Workers : job[v] # Idle /\ At(v, "ensure") => job[v].msg # m
             /\ Takes(w, [step |-> "ensure", msg |-> m, from |-> p, born |-> b])
          \/ Takes(w, [step |-> "archive:ensure", flag |-> flag])
          \/ Takes(w, [step |-> "clear:ensure"])
          \/ Takes(w, [step |-> "read:ensure", by |-> p])
          \/ there /\ Takes(w, [step |-> "drop"])
          \/ /\ m \in Present
             /\ \/ state[m] = "sent" /\ edits[m] < MaxEdits
                   /\ Takes(w, [step |-> "edit", msg |-> m])
                \/ Takes(w, [step |-> "delete", msg |-> m])
    /\ UNCHANGED <<there, archived, state, from, edits, news>>

\* ensureConversationForSend: for a message, or to archive.
Ensure(w) ==
    /\ \/ At(w, "ensure") /\ Goes(w, IF there THEN "create" ELSE "upsert")
       \/ At(w, "archive:ensure") /\ Goes(w, IF there THEN "archive" ELSE "archive:upsert")
    /\ UNCHANGED <<there, archived, state, from, edits, news>>

Upsert(w) ==
    /\ \/ At(w, "upsert") /\ Goes(w, "create")
       \/ At(w, "archive:upsert") /\ Goes(w, "archive")
    /\ there' = TRUE
    /\ archived' = (there /\ archived)
    /\ UNCHANGED <<state, from, edits, news>>

CreateBug(w) ==                           \* without its sender
    /\ At(w, "create")
    /\ state' = IF there THEN [state EXCEPT ![job[w].msg] = job[w].born] ELSE state
    /\ Ends(w)
    /\ UNCHANGED <<there, archived, from, edits, news>>

\* sendMessage, recordCall: the message ...
Create(w) ==
    /\ At(w, "create")
    /\ IF there
       THEN LET m == job[w].msg IN
            /\ state' = [state EXCEPT ![m] = job[w].born]
            /\ from' = [from EXCEPT ![m] = job[w].from]
            /\ news' = news \cup {m}
            /\ Goes(w, "unarchive")
       ELSE Ends(w) /\ UNCHANGED <<state, from, news>>
    /\ UNCHANGED <<there, archived, edits>>

UnarchiveBug(w) ==                        \* a call that is written leaves it where it is
    /\ At(w, "unarchive")
    /\ archived' = (archived /\ job[w].born = "read")
    /\ Ends(w)
    /\ UNCHANGED <<there, state, from, edits, news>>

\* ... and then "activity brings it back to the main list".
Unarchive(w) ==
    /\ At(w, "unarchive")
    /\ archived' = FALSE
    /\ Ends(w)
    /\ UNCHANGED <<there, state, from, edits, news>>

\* archiveConversation: in either direction; a conversation that was deleted meanwhile
\* is an error.
Archive(w) ==
    /\ At(w, "archive")
    /\ archived' = (there /\ job[w].flag)
    /\ news' = IF there /\ job[w].flag THEN {} ELSE news
    /\ Ends(w)
    /\ UNCHANGED <<there, state, from, edits>>

\* clearConversation: archived first, and then emptied.
ClearEnsure(w) ==
    /\ At(w, "clear:ensure")
    /\ IF there THEN Goes(w, "clear:archive") ELSE Ends(w)
    /\ UNCHANGED <<there, archived, state, from, edits, news>>

ClearArchive(w) ==
    /\ At(w, "clear:archive")
    /\ IF there
       THEN archived' = TRUE /\ news' = {} /\ Goes(w, "clear:delete")
       ELSE Ends(w) /\ UNCHANGED <<archived, news>>
    /\ UNCHANGED <<there, state, from, edits>>

Emptied == [m \in Msgs |-> IF m \in Present THEN "deleted" ELSE state[m]]

ClearDelete(w) ==
    /\ At(w, "clear:delete")
    /\ state' = Emptied
    /\ Ends(w)
    /\ UNCHANGED <<there, archived, from, edits, news>>

\* deleteConversation: the messages go with the row.
Drop(w) ==
    /\ At(w, "drop")
    /\ there' = FALSE /\ archived' = FALSE
    /\ state' = Emptied
    /\ Ends(w)
    /\ UNCHANGED <<from, edits, news>>

\* openDirectConversation: an upsert that restores.
OpenDirect ==
    /\ there' = TRUE /\ archived' = FALSE
    /\ UNCHANGED <<state, from, edits, news, job>>

\* markRead.
ReadEnsure(w) ==
    /\ At(w, "read:ensure")
    /\ IF there THEN Goes(w, "read") ELSE Ends(w)
    /\ UNCHANGED <<there, archived, state, from, edits, news>>

MarkRead(w) ==
    /\ At(w, "read")
    /\ state' = [m \in Msgs |-> IF m \in UnreadBy(job[w].by) THEN "read" ELSE state[m]]
    /\ Ends(w)
    /\ UNCHANGED <<there, archived, from, edits, news>>

\* editMessage and deleteMessage, after their checks: one that was deleted meanwhile is
\* an error.
Edit(w) ==
    /\ At(w, "edit")
    /\ edits' = IF job[w].msg \in Present /\ edits[job[w].msg] < MaxEdits
                THEN [edits EXCEPT ![job[w].msg] = @ + 1] ELSE edits
    /\ Ends(w)
    /\ UNCHANGED <<there, archived, state, from, news>>

Delete(w) ==
    /\ At(w, "delete")
    /\ state' = IF job[w].msg \in Present THEN [state EXCEPT ![job[w].msg] = "deleted"] ELSE state
    /\ Ends(w)
    /\ UNCHANGED <<there, archived, from, edits, news>>

Next ==
    \/ OpenDirect
    \/ \E w \in Workers :
          \/ Arrive(w) \/ Ensure(w) \/ Upsert(w) \/ Create(w) \/ Unarchive(w) \/ Archive(w)
          \/ ClearEnsure(w) \/ ClearArchive(w) \/ ClearDelete(w) \/ Drop(w)
          \/ ReadEnsure(w) \/ MarkRead(w) \/ Edit(w) \/ Delete(w)

Spec == Init /\ [][Next]_vars
-----------------------------------------------------------------------------
\* "A new message un-archives the thread": however it interleaves with archiving,
\* clearing, deleting and opening, an archived conversation hides no message that
\* came after it was archived, except while the request that wrote it is about to
\* bring the conversation back.
NewsIsShown ==
    there /\ archived =>
        \A m \in news \cap Present : \E w \in Workers : At(w, "unarchive") /\ job[w].msg = m
-----------------------------------------------------------------------------
(***************************************************************************)
(* What the repository says and the code does not keep.                    *)
(***************************************************************************)
\* "Edit a message body - allowed only while it is still unread".
EditedUnread == [][\A m \in Msgs : edits'[m] > edits[m] => state[m] = "sent"]_vars

\* "Delete every message": of those there were when the chat was cleared; one that is
\* sent meanwhile goes with them, and nobody has seen it.
ClearedWasOld ==
    [][\A w \in Workers : ClearDelete(w) => news \cap Present = {}]_vars
=============================================================================
