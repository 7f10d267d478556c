# Verification of murojaatnoma

*murojaat*: an appeal a citizen of the district files with the hokimiyat
(the local government), which its staff answer, close, and may have reopened.

This directory specifies the backend of the system, and the parts of its
clients that hold a protocol with it, in TLA+; checks it with TLC on small
instances and proves the properties that matter most with TLAPS for instances
of every size. Every definition is translated from the source under `src/`;
`PROJECT.json` says, definition by definition, from which lines.

1. [The system](#1-the-system)
2. [Modules](#2-modules)
3. [Runs](#3-runs)
4. [Proofs](#4-proofs)
5. [Divergences](#5-divergences)
6. [What is not modelled](#6-what-is-not-modelled)
7. [Plan](#7-plan)

Paths below are relative to `src/apps/backend/src/` where they start with
`modules/` or `common/`, and to `src/` otherwise.

## 1. The system

One NestJS process with a PostgreSQL database behind it serves a React
web admin, a Flutter app for citizens and one for the staff ("workers").
`infra/docker-compose.yml` starts exactly one backend, which matters: much of
the state below is in its memory.

| Component | State it keeps | Operations | How it meets the others |
|---|---|---|---|
| **Applications** `modules/applications`, with the admin path `modules/requests` and the staff register `modules/oversight` | a row per murojaat, its messages, its audit events | file, patch of the status, assign, unassign, reply, staff message, rate, reopen, delete; archive, restore, purge an employee; SLA sweep every 10 minutes | three services write the same row; the sweep alerts the admins |
| **Calls** `modules/realtime/calls.service.ts` and the gateway's `call:*` handlers | `active` map in memory, ring timers, `CallLog` rows, rows in the chat | invite, accept, reject, cancel, end, ring timeout, teardown of a user's calls | torn down by presence; finished calls are mirrored into the chat |
| **Clients of a call** `apps/worker-app/.../call_cubit.dart`, `apps/web-admin/.../CallProvider.tsx` | the phase of the call, the local stream, the peer connection | dial, accept, reject, cancel, hang up; offer and answer; ICE watchdogs | exchange events through the gateway; the phone is woken by a push |
| **Presence** `modules/realtime/realtime.service.ts` and the gateway's connect and disconnect handlers | socket registry in memory, grace timers, `ChatConversation.online` | connect, disconnect, grace expiry | decides whether an invitation goes to sockets or to the phone |
| **Meetings** `modules/realtime/meetings-room.service.ts` and the gateway's `meeting:*` handlers | rooms in memory, idle timers, socket.io rooms, announcement rows in the group chat | invite, join, leave, media, end, disconnect, idle timeout | posts and closes announcements through the chat service |
| **Members of a meeting** `apps/worker-app/.../meeting_cubit.dart`, `apps/web-admin/.../MeetingCall.tsx` | the phase, the local stream, a peer connection for each of the others | enter, leave, end; offer to those inside, answer those who come | exchange descriptions through the gateway |
| **Idempotent retries** `common/interceptors/idempotency.interceptor.ts` and the Dart client's `retry_interceptor.dart` | a bounded map of answers in memory; a retry loop in every phone | send, give up, receive; replay, execute, remember, forget | wraps every write of every other component |
| **Sessions** `modules/auth`, `packages/app_core/.../auth_interceptor.dart` | refresh tokens in the table; an access and a refresh token on the phone | login, refresh with rotation, logout; revocation on archiving | a refresh is itself a retried write |
| **Admin accounts** `modules/admin-auth`, `modules/bootstrap` | admin users, their tokens | create, update, remove, login; seeding at start | guards the web admin |
| **Chat** `modules/chat` | the conversation, its messages | send, open, archive, clear, drop, edit, delete, mark read, record a call | receives the rows of calls and meetings |
| **Outbox** `apps/worker-app/.../chat_outbox.dart`, `conversation_cubit.dart` | messages on disk; the bubbles of the open conversation | write, deliver, flush, tap to retry, merge the echo | posts to the chat when the network is back |
| **Attendance** `modules/attendance` | scans | scan; board, timesheet, report | reads zones and leave |
| **Locations** `modules/locations`, `apps/worker-app/.../location_tracking_service.dart` | points, last position, staleness mark; a list on the phone | track, post one or a batch; scan for silent employees | archiving stops the watch |
| Complaints, suggestions, push, notifications, media monitor, registers, statistics, zones, uploads | one table each | mostly a query per operation | |

### What is hard about it

Node runs one callback at a time, and so does Dart, so the hazards are not data
races but **awaits**: every handler reads, awaits, decides, awaits, writes.

* *Applications*: whether a status may change is decided on a row read one to
  four round trips before the transaction that changes it. The SLA sweep
  updates rows it selected earlier.
* *Calls*: memory and database change on different sides of an await. Two
  parties, a ring timer and a teardown can all try to end one call at once, and a
  client goes on with a call that is over while it waits for its camera.
* *Presence*: the connect handler awaits the identity, the disconnect handler
  awaits the mirror write; either may overtake the other.
* *Meetings*: a room id is chosen by the client and may be used again while a
  query, a timer or a write of the earlier room is still in flight.
  Its members come and go while each of them is still connecting to each other.
* *Retries*: an attempt whose client has given up may still run, arrive late or
  never arrive; the memory that detects it is bounded, timed, and lost on a
  restart.
* *Sessions*: a refresh revokes the old token before the phone has the new one.
* *Chat and outbox*: one message has three names (local id, request, row), and
  learns of the next one by two channels that are not ordered. The list on disk is
  read, changed and written in separate steps.
* *Accounts*: who is the last super admin is counted a round trip before the
  write, and by a caller whose token may be older than their role.
* *Locations, attendance*: what a scan compares with was read before others wrote.

`PROJECT.json` lists each hazard at its line with the properties that cover it.

### What makes each component correct

* Applications: a closed murojaat has an answer; the status moves as promised;
  the reopening cap is passed by less than what is in flight; stamps, rating and audit in step
  with the status; a missed deadline that bears no mark of a report is reported, and only once.
* Calls: a call is over for good; it does not ring for ever; each end is
  recorded, and told to the admin's page; no connection is about a call its callee did not take.
* Presence and calls together: nobody who is connected is shown as away;
  nobody is left in a call with somebody who is gone.
* Meetings: no ghosts; an empty room is closed;
  those inside are connected to each other, and shown each other; nobody who has left is shown
  (but by a page that hears a late candidate of a phone).
* Retries: a write is executed once while the server remembers it, and the
  memory never answers with something that is not so.
* Sessions: a lost answer does not log anybody out.
* Accounts: somebody may always manage them.
* Chat, outbox: an archived conversation hides nothing new; a message on disk stays
  until the server has it; no message of the server has two bubbles, and the one it was written
  in goes when the answer comes.
* Attendance: the views of one day do not contradict each other.
* Locations: a silence that bears no mark is reported, once.

## 2. Modules

    MurojaatLifecycle <- Applications   <- MCApplications
    CallLifecycle     <- Calls          <- CallsProofs
                         Calls, Presence <- Realtime <- RealtimeProofs, MCRealtime
    CallSignals <- CallPhone, CallWeb <- CallClients <- CallClientsProofs, MCCallClients
    MeetingBounds     <- Meetings       <- MeetingsProofs
                         MeetingMesh
    Subsequences      <- Idempotency, Outbox
    SessionBounds     <- Sessions
    AccountBounds     <- AdminUsers

    MCRecords   = Applications, Chat, Attendance,
                  Locations                           side by side  <- RecordsProofs
    MCSerial    = Applications, Meetings, AdminUsers  side by side  <- SerialProofs
    MCTalks     = Calls, Meetings, MeetingMesh        side by side  <- TalksProofs
    MCNetwork   = Idempotency, Sessions, Outbox       side by side  <- NetworkProofs

`MurojaatLifecycle` and `CallLifecycle` are abstract: what a citizen is promised
of one murojaat, and what two people are promised of one call. The detailed
modules INSTANCE them with a refinement mapping and show that they implement
them (`KeepsPromise`, `KeepsLifecycle`). A definition whose name ends in `Bug` is
a plausible mistake in the definition next to it; `PROJECT.json` says which
property finds it.

Of the MC modules, four put components that share no state next to each other. A
variable `focus` chooses, in the initial state, which of them moves; the others keep
their initial values. So the states to visit are the sum of the components' and
not the product, each component has all its behaviours, and the properties of
one are not affected by another. They are grouped by the question the run
asks: requests that interleave about one record or watch the database on a timer (MCRecords, whose `Parts` say
which of its components a run lets move), requests one at a time, people who talk
with each other, and a network that loses. `SessionBounds`,
`AccountBounds` and `MeetingBounds` hold the constants of a module whose variables such a composition has to rename or to declare itself.

Two decisions are common to all modules. **A step is what Node (or Dart) runs
between two awaits**; what a handler carries over an await is a record in `task`,
`job` or the like. **A database statement or transaction is one step**: PostgreSQL
locks the row from the first update in a transaction to its commit.

### Applications

`task[p]` is what request *p* is in the middle of: `pc` names the handler and
what it is about to do (`status` has still to read, `status:count` counts the
staff's messages, `status:commit` opens the transaction), the other fields are
what it read and what the client sent. `Arrive` takes up a request,
`Proceed` goes on with one; `StatusRead`, `StatusCount`, `StatusCommit` are the
three parts of `updateStatus`, and so on for `AssignRead`, `ReplyRead`,
`RateRead`, `ReopenRead`. `AdminPatch` is `PATCH /requests/:id`, which
calls assignment and status after each other and reads the row anew between
them. `Sweep` selects overdue rows (`SweepRead`) and then updates them one by
one; an update of a row that is gone throws and ends the sweep, and `Restart`
drops everything in memory at any point.

`row[a]` has the columns the properties speak of. Dates are abstracted to
what they decide: `overdue` (dueAt has passed), and `resolved` unset, within or
past the reopening window; `DeadlinePasses` and `WindowPasses` are the clock. A
note is absent, too short, or long enough. `answered`, `audit` and `alerts` are
what messages, events and sent alerts add up to. Filing, staff messages,
deletion, archiving and purging are one step each: they decide nothing on an
earlier read that the model tells apart.

### Calls, Presence, Realtime

In `Calls`, `call` and `live` are the entries of the `active` map, `ring` the
armed timers, `log` the `CallLog` status, `mirrored` how often a call was handed to the
chat (which keeps a row only of calls with an admin, `chat.service.ts:345`, and none if its
write fails: the gateway is done with the call either way). `job[s]` is the continuation of slot *s*: of a request, of the ring timer
of a call, or of the teardown of a user. The write a continuation awaits lands
in the step that resumes it, so writes in flight together may land in either
order, and with `WritesFail` not at all (the code catches those errors and
goes on).

In `Presence`, `sock` is the life of a connection (resolving, lost while
resolving, on, leaving), where a closed connection counts as on until its handler, having left
the meetings of its owner one await at a time, comes to `removeSocket` (that loop is the subject
of Meetings); `online` is the registry, `mirroring` the mirror writes in
flight, `shown` the mirrored column, `grace` the armed teardown timers.

`Realtime` composes the two as the gateway does: only a connected user sends
`call:*` events; an invitation goes to the callee's sockets or to the phone; a
grace timer that finds its user offline ends their calls. It assumes that
the insert of an invitation takes less than DISCONNECT_GRACE_MS, so that the
grace timer of a caller does not fire while the call it should end is
being inserted.

### CallSignals, CallPhone, CallWeb, CallClients

The same call from its other side. `CallSignals` has what the two clients share: the
queues of events (`inbox`, `outbox`), the gateway that answers an event in one step
(`Serve`: what its awaits let happen is the subject of Calls), the connection of
the phone, which may drop and take with it what was under way, and the push that
makes a phone ring (`notified`). `client[u]` is what the client shows and holds;
its fields `dial`, `ans` and `nego` are its functions that await: `startCall`,
`accept`, and the negotiation of the connection. Each is known by its call, for nothing keeps a
client from running one again while an earlier one awaits: a call that was cancelled may still be
in `startCall` when the next is dialled, and the two go on side by side. `CallPhone` is `CallCubit`,
whose functions go on with the state they find; `CallWeb` is `CallProvider`, whose functions
ask whether their session is still the current one, except `startCall`. That one replaces the session
without closing its connection (`CallProvider.tsx:359`), and the old one lives on: its callbacks
(294-308) still show whatever is on the screen as a conversation, or finish it. `stray` are those
connections, of which `Replaced` makes one, `WebConnects` and `WebLosesMedia` run the callbacks, and
`WebNegotiated` the handler that was working on it. `CallClients` puts a page and a
phone (or two phones) together. SDP is reduced to which description was applied
where; ICE to the two watchdogs. Left out are a second tap on accept while the first awaits (on the
page), and an invitation whose insert throws, so that no ack ever comes.

### Meetings

A room is its id and its number under that id, so that what belongs to an
earlier room of the id can be told from what belongs to this one. `open`,
`invited`, `media` are the room in memory; `group` is the socket.io room, which
is emptied later than the room in memory; `row`, `chat`, `closing` are the
announcement and the writes about it; `timers` the idle timers; `ringing` what
connections were rung for and not told the end of. A connection that closes
leaves its meetings one at a time (`Disconnect`, `LeavesNext`), as the loop over
`meetingsOf` awaits between them.

### MeetingMesh

The same meeting from its other side, with the gateway's handlers in one step (`Serve`)
and in between two ordered queues for each person (`up`, `down`). `phase` is where the
person is; `flow` what each attempt to enter waits for, because on the phone an attempt that was left
goes on when its await returns, whereas the page numbers its runs and drops it.
`peer[p][q]` is the connection *p* has for *q*: its number, what it has negotiated and with which
connection of the other side, and of which attempt the stream is that it sends. `task` are the offers and
answers being made, `creating` the connections being made on the phone, which takes an await
there and none on the page. Of an ICE candidate the model has whom it is from and for (`Trickles`,
`RelayIce`): the gateway passes it on without looking whether the sender is inside, a page makes a
connection of it, and with that a tile, if there is none (`PageTakesIce`), and a phone passes on what
comes from a connection it has closed, also when it has left (`Seeks`).

### Idempotency

A call of the client is a key, sent in up to `MaxTries` attempts
(`Send`, `GivesUp`, `Receives`). What is sent need not arrive, and arrives at any
time, also after the client sent it again. On the server `Arrives` is one run of
`intercept` up to its first await: the sweep, then `Replay` of a stored answer or
of one under way, or `Execute`. `Succeeds` and `Fails` settle the promise for
everybody who waits for it. `Expires` is the TTL, `Crash` a restart, after which
each write that was under way has happened or has not. An execution carries the
number of its attempt, so an entry and a promise can be told from
another one of the same key. `forgotten[k]` is a history variable: the server
dropped an entry of *k* (limit, size, restart) or its TTL passed.

### Sessions

One phone and one employee. API calls (`request`) find their access token out of
date and join one refresh in flight (`flight`, the field `_refreshing`), which is a key
sent in several attempts. The server runs it once per key, in three round trips
(`Finds`, `Revokes`, `Issues`), and answers every attempt of it alike: that is
what Idempotency establishes. Around it logout (`SignOut`, whose request may be late),
login, archiving, the death of the app and a restart of the server. `excused` is a
history variable: something intervened that the session cannot survive.

### Outbox

A message is its local id; each delivery of it is a request with a key of its
own (`Posts`), so a message that is retried may be created twice, and the
screen then has to show two rows. `trying` is `_inFlight` with how far the delivery is
(started, uploading its file, sending); `head` and `queue` are the flush, which
takes one message after another; `shown`, `failed` and `pending` are the bubbles of
the open conversation. `MergeInbound` and `ReplaceLocal` decide, for the echo and for
the answer, whether to add a bubble or to take the place of one. `FailTogether` is
a set of deliveries that fail in the same turn and write the list one over the
other. The phone may lose its network, kill the app, and change hands.

### Chat

The conversation of the admin with one employee, which the first write creates.
`job[w]` is the request and its step: sending is up to four writes (find, upsert,
create the message, un-archive), clearing three, and so on. `state` is the life of a
message, `news` a history variable: what was written since the conversation was last archived.

### Attendance

`recordScan` reads the scans of the day (`Check`) and then writes its own (`Write`).
The three views are operators on the rows and on a calendar (working day,
leave, permitted window), because leave may be approved after the scan; the
properties quantify over every calendar.

### Locations

The phone numbers its fixes; each is posted at once, kept on `disk` if that fails, and
posted again in a batch. `post[r]` is a request: what it carries, the last position the
server read for it (`Reads`, `Stores`, `WritesLast`), and whether the phone still waits. `Start`
and `Stop` are the tracking service with its awaits; `ScanReads` and `ScanAlerts` the watcher.
`Ages` is the clock.

### AdminUsers

`account[a]` is a row, `holders` those who hold an access token that says super admin, and
`entering` logins and refreshes that have read the row and not yet issued the token. A change is
read, counted if it takes away an active super admin (`Count`), and written. `Restart` is the
seeding at start, which creates the configured admin or activates it.

## 3. Runs

| Run | Instance | Properties |
|---|---|---|
| Records | 1 murojaat, 1 employee, 2 requests, cap 1, restarts; a conversation of 2 messages, 2 requests; 2 scans in 2 days | `TypesOK` `ClosedHasAnswer` `AlertedOnce` `ReopenOvershoot` `NewsIsShown` `ViewsAgree` |
| Serial | 1 murojaat, 2 employees, 1 request, cap 2, every kind of traffic; 1 meeting id used for 2 rooms, 2 requests, fair; 3 admin accounts, 1 change | `MarksFollowStatus` `AuditTellsStatus` `KeepsPromise` `EmptyIsWatched` `EmptyEnds` `SuperAdminRemains` |
| Watchers | 2 murojaats, 1 row per sweep, patches by staff and admin, replies, reopening, deletion, fair; 2 positions, 2 requests, fair | `OverdueIsReported` `TypesOK` `OneAlertPerSilence` `SilenceIsReported` |
| Network | 2 writes, 2 attempts each, 2 entries, 1 restart; 3 refresh tokens, 2 refreshes, 2 attempts each, 1 restart; 2 messages (one with a file) of 2 employees | `TypesOK` `ExecutedOnce` `EntryIsTrue` `SessionKept` `ShownOnce` `OutboxKeeps` |
| Talks | 2 users, 2 calls, 2 requests, 3 writes in flight (2 about two calls), writes fail; 3 connections of 2 people with 1 meeting id used for 2 rooms, or with 2 meetings, queries fail; 2 pages and a phone that enter once, 1 of them out again at a time | `TypeOK` `RingCovered` `EndedIsMirrored` `KeepsLifecycle` `RoomTypesOK` `NoGhosts` `DevicesAgree` `Meshed` `ShownAreInside` |
| CallClients | a page and a phone, 2 calls, 1 lost connection, fair | `TypeOK` `EndIsTold` `ActiveIsAnswered` `WaitingEnds` |
| RealtimeTabs | admin on 1 connection, employee on 2, 1 call | `TypeOK` `ConnectedIsOnline` `AnsweredIsAttended` |
| RealtimeAbandoned | admin and employee on 1 each, 1 call, fair | `AbandonedCallEnds` `StopsRinging` |
| ApplicationsRejected | 1 murojaat, 2 requests, patches and assignments only | `RejectedIsFinal` is **violated** |
| CallCamera | a page and a phone, 1 call | `CameraReleased` is **violated** |
| MeetingLeaver | a page and a phone that enter once | `LeaverIsOut` is **violated** |
| ShownTwice | 2 messages of 1 employee, 1 request each | `OneBubble` is **violated** |

**Records** lets two requests about the same record interleave at every await.
`ClosedHasAnswer` is the point for murojaats: `updateStatus` counts the staff's
messages and writes the status two round trips later, and nothing that happens in
between takes the answer away. `ReopenOvershoot` is how far the cap is off when
requests race. `NewsIsShown` is the point for the chat: sending brings an archived
conversation back in a second write, and archiving, clearing, dropping and opening may
come in between. `ViewsAgree` compares the board, the timesheet and the report of a
day, however scans overlap, fail and straddle midnight.

**Serial** is the services as their authors think of them. With one request at a time
Applications implements `MurojaatLifecycle` and keeps every derived column in
step, the sweep still running under it. That is a statement about the handlers one by one: nothing in
the code serializes them, and what is left of it when they race is what Records checks (and
`RejectedIsFinal`, `ReopenCapped`, section 5, refute). The rooms of one id come and go.
`SuperAdminRemains` holds with one change at a time although the tokens with which
changes come may be older than the role of their holder, and a seeded account may
have been removed, demoted and seeded again: forbidding changes to oneself is not what keeps it, the count is.
Two changes at once defeat the count (section 5); that race is not covered, and the theorem one could
prove would assume it away, so there is none.

**Watchers** is about what the database is polled for: a row the sweep could not take
this time, or did not reach because another one was deleted under it, is taken
later; a silence is alerted although a position arrives while the watcher
looks, and once although an alert was under way. Both liveness properties speak of what is overdue, or
silent, *and bears no mark*. The sweep and the watcher update by id what they selected earlier, so either
may set its mark for a deadline, or a silence, that is over: the next one then begins with the mark set, and is not
reported. That is `EscalatedIsOverdue` and `AlertIsDue` of section 5, and the properties promise nothing there.

**Network** has attempts of one write overlap while another write fills the memory (one of
the two has an answer too large to keep); answers to a refresh lost after the
old token was revoked; and messages that fail, wait, are flushed, tapped and echoed in any order.

**Talks** has hanging up, answering, ring timeout and teardown of two crossed
calls interleave; a connection close while its person is in several meetings, from several devices; and
the offers, answers, entries and exits of a group call cross. `Meshed` speaks of the moments when nothing is
under way: a mesh needs every pair to have agreed, and no message says that it has. `ShownAreInside` asks that
all who are inside be shown, and nobody else; but a page may also show a phone that has left, for the
candidates of a phone come after its leaving and make a tile (`TilesAreInside`, section 5). The candidates of a
page, offers and entries do not. **CallClients** has the two ends dial each other, also at the same time, while
cameras are refused, events are under way and the phone loses its connection. `ActiveIsAnswered` says of
connections, not of the screen, that they are about a call its callee took: a page that dialled twice shows "active"
whenever the connection of the earlier call, which it never closed, comes up. So the screen is only held to it where no such
connection is left (`stray = {}`). **RealtimeTabs** has an
employee on two connections, which is where a handler that thinks of users and not of connections would go wrong.
Serial has the rooms with all invited and with queries that return, which its liveness needs.

### Why these bounds

Two of a kind is where the interference is: two requests on one row, two parties
of one call, two rooms of one id, two connections of one user, two messages of one
outbox, two scans of one day. A third request adds no new pair of read and write.
Where an effect needs a third, there is one: three tokens (the old one, the new one, and one of a
login that crosses them), three accounts (who changes, who is changed, who is counted).
A cap of 1 is exceeded by the first race, one row per sweep makes two murojaats
a backlog, two entries make the second write the one that evicts.

Bounds that are of the model, not of the code: `MaxRooms`, `MaxCrashes`,
`MaxRestarts`, `MaxInFlight` (of the requests, timers and teardowns of two calls, three
await a write at one time while one of the calls has no row yet, and two begin to when both have), `MaxCalls`, `MaxDrops`, `MaxEdits`, `MaxRows`, `MaxHour`,
`MaxPoints`, `MaxStops`, `MaxSends`, `MaxUsers`, `MaxJoins` (entries of one person), `MaxGone` (people out
again at one time), `MayTrickle` (one candidate under way, of somebody of whom nothing else waits: a candidate can be late
by any amount, as it waits in the queue, and one shows a person as well as ten); the changes of admin accounts at one time, which is
an assumption and stated as one. `reopens` and `alerts` are bounded by what
the model can do. The proofs of section 4 have no bounds. `CHECK_DEADLOCK FALSE`
stands where the system may really come to rest: every call id, room number,
attempt or message is used up.

The largest runs have 3.6 million distinct states (Network, RealtimeTabs), and each ends within five minutes
on two workers. Symmetry is used only in runs without liveness properties, over sets
whose members are interchangeable; in Talks these are the pages of the mesh (`MeshSymmetry`). There the MC module breaks the symmetry itself (`InTurn`): a request
takes the first free handler, rows appear in the order of the ids, and the first is of a call of one user.

### Fairness

A liveness property assumes that what is awaited returns and that timers fire: weak
fairness of each continuation, each armed timer and the cron jobs. Node and the
driver give that: a query resolves or rejects, and a timer stays armed until it
fires or is cleared. Nobody is assumed to answer, hang up, join, leave, retry
or send a request. In `RealtimeAbandoned` the connection of the absent party
need not come back, and if it does for good the property is met. In `CallClients`
fairness is of `System` as a whole, that is, of everything that goes on by
itself: events arrive (while the connection is there), the ICE watchdogs and the ring timer fire, and
WebRTC finds out that the other end is gone. Each component in Serial and Watchers keeps the
fairness of its own module, under its `focus`. Specifications of runs without
liveness properties state none.

The model distinguishes a lost write from one that never returns: the former
happens with `WritesFail` or `Fails`, the latter is excluded by fairness.

## 4. Proofs

| Module | Theorem | For every |
|---|---|---|
| RecordsProofs | `TypeCorrect`, `ClosedIsAnswered`, `AlertsOnce`, `OvershootBounded` | set of murojaats, employees, cap, sweep limit, traffic; finite set of handlers |
| | `MarksFollow`, `AuditTells`, `PromiseKept` | the same, one request at a time |
| | `NewsShown`; `ViewsAgreeAlways`; `OneAlert` | set of messages, requests, number of edits; scans, hours, rows; positions, requests, stops |
| | `RecordsIsItsParts`, `RecordsTypes` | all of these |
| CallsProofs | `CallsTypeCorrect`, `RingsAreTimed`, `EndingsAreMirrored`, `CallsImplementLifecycle` | set of users, calls, requests; writes lost or not |
| RealtimeProofs | `RealtimeTypeCorrect`, `OpenIsOnline`, `NobodyTalksToTheGone`, `GatewayImplementsParts`, `CallsInTheGateway` | set of users, connections, calls, requests |
| CallClientsProofs | `CallClientsTypeCorrect`, `ActiveIsAlwaysAnswered`, `EndIsAlwaysTold` | two clients, each page or phone, any number of calls and drops |
| MeetingsProofs | `MeetingsTypeCorrect`, `NobodyHauntsARoom`, `DevicesAlwaysAgree`; `EmptyRoomsAreWatched` | set of people, connections, meetings, rooms; the last where queries return |
| TalksProofs | `NobodyIsLeftBehind`, `DevicesOfOnePerson`, `TalksAreCalls`, `TalksAreMeetings` | the same, in the setting of the run Talks |
| | `TalksTypeCorrect`; `MembersAreShown`, `MembersAreConnected` | set of pages and of phones, number of entries, candidates at any time within `MayTrickle`; the last two with one entry each |
| NetworkProofs | `OnceForAll`, `EntriesTrue` | set of keys, limit of the map, number of attempts and of restarts |
| | `SessionsTypeCorrect`, `SessionIsKept`, `TokenIsRefreshable` | number of tokens, refreshes, calls of the app, attempts and restarts |
| | `BubblesAreShownOnce`, `OutboxLosesNothing` | set of messages and files, number of users and of requests per message |
| | `NetworkIsItsParts`, `NetworkTypes`, `NetworkHolds` | all of these |
| SerialProofs | `EmptyRoomsOfOneId`, `SerialIsItsParts` | rooms as in MeetingsProofs; all of these |

The only assumptions are those on the constants in the modules themselves, which
TLC evaluates in the runs, and what a theorem says in front: `OneAtATime` (one handler)
and `~Fails` (queries return) are the settings of the run Serial; `MaxJoins = 1` is that of Talks.
They are needed: without them the code does not keep the properties (section 5).
No theorem assumes away a race it is about: of the cap on reopening it is the overshoot that is proved. Every inductive invariant below was checked with TLC as
an invariant before it was proved. A composition side by side is shown to be a
behaviour of each of its parts (`RecordsIsItsParts`, `NetworkIsItsParts`, `SerialIsItsParts`, `TalksAreCalls`, `TalksAreMeetings`),
so what is proved of a part holds in the run.

**Applications.** `TypeOK` needs one companion, `Targeted`: a task on its way to a
status write carries a status. `ClosedHasAnswer` is not inductive, because the
commit of a status does not look for the answer again. `AnswerInv` adds that a
task about to commit a closing status is `Backed`: the answer it counted is
there, or it will write one; that a task's murojaat was filed; and
that answers stay as long as the row does. `AlertedOnce` needs `AlertInv`: an
unescalated row has had no alert for this deadline, and a row
the sweep has in hand is unescalated while it is in the table, because handlers reset the
flag and only the sweep sets it. `OvershootBounded` counts: `reopens` plus the
tasks about to commit a reopening never exceeds the cap plus the handlers less one.

With one handler, `SerialInv` says that what the handler has read is still so
(`Current`): between its round trips only the sweep and the clock move, and `QuietIsFine`
shows that they touch none of it. Every step then does to a murojaat one of six things
(`Moves`), and `MovesKeepPromise` maps each to a step of MurojaatLifecycle: that is
the refinement, for any number of murojaats.

**Chat.** `NewsIsShown` is inductive with the types: archiving a conversation forgets its news in the
same write, and who has written a message that is news to an archived conversation brings it back next. The proof follows what each request holds (`JobGoes`, `JobEnds`, `JobsOfOthers`).

**Attendance.** `CameFirst` says that a valid check-out, and one about to be written, has a valid
check-in of its day: the check is made on an earlier read, but rows only come. `ViewsFollow` derives the agreement of the
views from that and from the first and the last scan of a day, which exist because hours are finitely many.

**Locations.** `AlertIsMarked`: an alert bears the mark, and a scan under way has found none, which a
position that arrives in between only confirms. The types need `StreamsCounted`: a stop
leaves one stream at most, and what `stop` cancels is there.

**Calls.** `IInv` adds to the two properties that an id is `Reserved` by at most one insert,
that what is live or being ended has a row (`Backed`), and that the slot of a ring
timer only ever works on its own call (`OwnTimer`). One lemma per action.
`CallsImplementLifecycle` is the refinement: `EveryStepMoves` shows that every step
moves a call's phase along `CallLifecycle` or not at all.

**Realtime.** Every step of the gateway is a step of Calls, or leaves calls alone
(`CallsStep`), and the same of Presence: so the invariants of CallsProofs hold inside it and are
cited, not proved again. `AnsweredIsAttended` then needs two facts about who is absent:
to be watched is to be online, to have a disconnect still under way, or to be in the grace period;
a caller is watched while the insert of the invitation is awaited (`CallersWatched`), and whoever
is bound to a call, as its caller or having answered it, is watched unless the call is in flight
or in the hands of a teardown (`BoundWatched`). The step that matters is the grace timer: it hands every call of the user
to the teardown at once, and the teardown ends them one await after another.

**Clients of a call.** `ActiveIsAnswered` needs that everything said is about
answered calls, wherever it is: in the inbox, the outbox, an operation that awaits, a
connection being negotiated, one that was put aside (`TalkInv`), and that descriptions are about calls nobody dials any
more (`Settled`): so a `startCall` that returns late finds none of its own call. `EndIsTold` needs to know what a page may still learn. An end is
told before or after the ack, so `EndInv` says that a page learns of a call once, that
one ack at most is on its way per invitation, that a hang-up is about what has already been learnt and is not
shown any more, and that a call which is over has its end behind whatever teaches the
page of it, or a refusal in front of its ack.

**Meetings.** `NoGhosts` and `DevicesAgree` are inductive with `TypeOK`, which says
that a room that is not open holds nobody: without that, who enters a room that is opened anew
would find somebody inside. `EmptyIsWatched` is too, if queries return. The proof is by how a room
can become empty (a departure closes it) and what can take its timer (only the firing, which closes it too).

**The members of a meeting.** The types need that every message is about a person and an
attempt there is (`Typed`), that no description bears the number of a connection not yet made
(`Numbers`, which speaks of the messages on their way and of the answers still being made), and that a page
waits for nothing but its last attempt (`PageFlows`). They hold for any number of entries.

`ShownAreInside` speaks of the moment when nothing is under way. `OnceInv` says what holds before it.
Of who is `Settled` (in it, let in by the gateway, with no end in the queue), `SettledSee` says: it is inside,
and `Sees` everybody else. Whoever is inside is shown already or `Announced` in the queue, with nothing behind
it that takes them away; whoever is not inside and is shown, or will be, is `TakenAway` by a later
message, phones on a page excepted. An offer shows its sender too, a candidate does on a page, and the gateway relays either without
looking whether the sender is inside. So `Offerers` says that whoever offers, or is a page and sends a candidate, to one who is settled is
inside (`Brings`), which rests on the order of the queue to the gateway: what one who leaves has brought comes before the leaving (`UpOrder`).
That is what the candidates of a phone do not keep to. `Unheard` says that nobody has heard
of one who has yet to enter: that is what a second entry breaks. The proof splits the steps by actor.
`ServeKept` is the gateway's half, by who comes in, goes out or passes something on;
`OnceKept` is everybody else's, of whom all that matters is what they say, how they turn
and what they hear (`Says`, `Turns`, `Heard`), shown action by action (`Trickles`, which only says something, among them).

`Meshed` says that two people inside end up connected, and that nothing is under way tells nothing of how they
got there. So `MeshInv` adds `Negotiates`: of any two who are settled one offers and the other answers, and
they are at one of eight places of one sequence. The newcomer has the ack to hear, or an offer to make, or it is on its way to the
gateway; then the other has it to hear, an answer to make, or that is on its way; then the newcomer has it to hear; then
both are done. A place says of each of the two all that lies between them: what of the other's is in its queues,
what it is making, and how far its peer connection is (`Side`, `Has`), with the numbers of the connections, so
that an answer is to this offer. A queue holds `Only` that: one such message or none. The start of it is
`Strangers`: between one who has yet to enter and anybody else there is nothing at all. That is where one entry each is
needed again: after a second one, messages of the first are still about. `OnePeer` (none is
being made where one is there) keeps a connection on the phone from being replaced, and `Sources` and `Streams` say that
all are of the stream that runs. A step of one person leaves what others are at (`Kept`) and takes at most the next
step of its own (`Advances`); `PairAdvances` joins the two halves, and `RelayNegotiates` is the
gateway's step, which hands the turn to the other.

**Retries.** `ExecutedOnce` speaks of executions, and what prevents a second one is
the map. `Known` closes the gap: while a key is not forgotten, whatever execution of it
runs or has succeeded is the one its unexpired entry names. The order of the map
plays no part in that, and has invariants of its own (`InOrder`): whatever has an entry has one place, and a sweep leaves room
for one more. It is written with `Subsequence`, which keeps places by their rank, because the provers know
nothing of the library's SelectSeq; `SubsequenceFacts` says what it leaves. That every rank is taken follows
from counting (an injection between finite sets of one size is onto), so no induction is needed.

**Sessions.** `SessionKept` says nothing of tokens. `Holding` says what the phone has while nothing
else intervened: a token whose row is valid and that nobody else presents or takes
back, or one that the refresh in flight is exchanging for another of that kind. Every refusal
would have to come from an execution that found the row revoked, and only its own execution
revokes it. `Keyed` and `Minted` say that unused keys and tokens are nowhere, so a new one is seen by nobody.

**Outbox.** A bubble appears with a message, so `Written` says that nothing that was not written
is shown, kept, queued or delivered; `OwnRequest`, that a delivery waits for a request of its
own message, so that the answer takes no other message off the disk. Neither depends on the sequence of
the bubbles that wait: whichever the echo replaces, none is added twice. `ShownOnce` says besides that the bubble a message
was written in is there only while it is on its way or marked "xato", which `Local` carries: the answer and the
failure are the two ends of a delivery, and the first takes that bubble away. It does not say that a message has one bubble:
before its answer, and after a failure of something the server has, it has two (`OneBubble`, section 5). That it is a sequence of messages
(`Waiting`) needs that the disk holds finitely many, and it does, because a step adds one at most.

Only model-checked: all liveness (`StopsRinging`, `OverdueIsReported`, `SilenceIsReported`,
`AbandonedCallEnds`, `EmptyEnds`, `WaitingEnds`), because the prover reasons about neither
fairness nor ENABLED; and `SuperAdminRemains`, as it speaks of one change at a time. The other properties of the
passing runs are proved, each with the premises the table names.

## 5. Divergences

Where the code does not do what a comment, table or test beside it says. Four are
runs that must fail:

* **RejectedIsFinal** (`applications.service.ts:51`, "REJECTED: []"): a request that
  read NEW commits IN_PROGRESS after another one rejected the murojaat.
* **CameraReleased** (`call_cubit.dart:578`, "the camera never stays on"): the user
  cancels while `startCall` waits for the camera; the function goes on, keeps the stream
  and invites, and nobody closes the one or cancels the other.
* **LeaverIsOut** (`MeetingCall.tsx:458`, "leaves the room"; `meeting_cubit_test.dart:277`, "tells the
  server"): who closes the page, or leaves or times out on the phone, between `meeting:join` and its
  answer is inside for the server as long as the connection lives.
* **OneBubble** (run ShownTwice; `conversation_cubit.dart:71`, "so that it is not duplicated"): the echo of an own message takes
  the oldest bubble that waits, whichever that is; when the second of two messages is stored first, it is shown in
  its own bubble and in that of the first, until the answers come. Likewise a message that failed on the phone after the server
  had stored it: the bubble marked "xato" stays beside the echo.

The others are stated in the modules, each under "What the repository says and the
code does not keep", and can be reproduced by naming the property in the given cfg, or, where the
module is one of several in a composition, by `Name == X!Name` in the MC module first (`X` as it
names the instance there). Leave out a SYMMETRY for a temporal property.

| Property | Cfg, with | What happens |
|---|---|---|
| `EscalatedIsOverdue` | Records | the sweep marks, by id, a murojaat that was closed, or reopened under a new deadline, after it was selected; in the second case the new deadline is never reported |
| `ReopenCapped` | Records | two requests read `reopenCount` under the cap and both increment it |
| `StartsWithAssignee` | Serial | a reply moves NEW to IN_PROGRESS without an assignee, which `updateStatus` refuses |
| `ReopenedToActive` | Serial | only open murojaats are released on archiving; a resolved one is reopened to somebody archived |
| `OverdueIsReported` | Watchers, traffic `restart` | a restart between the stamp and the alert loses the alert: `escalatedAt` is set |
| `P!TilesAreInside` | Talks | a candidate of a phone comes after its leaving, is relayed, and makes a tile on a page |
| `SingleMirror` | Talks | both parties hang up before the first write returns ("only the first terminal transition is mirrored") |
| `EndedIsLogged` | Talks | the write of an answer lands after the one of the end: the row says "accepted" |
| `BusyCallee` | Talks | two invitations pass the busy check before either call is live |
| `P!PeersReleased` | Talks | the phone finishes making a connection after it was left, and keeps it |
| `P!OneStream` | Talks, `MaxJoins = 2` | the phone is left and enters again while it asks for the microphone: the first attempt goes on as the second, and one stream is never stopped |
| `Meshed` | Talks, `MaxJoins = 2` | the answer to an earlier entry lets the phone in before it has a microphone for this one: it shows itself inside, and can make no connection |
| `ShownAreInside` | Talks, `MaxJoins = 2`, `Pages = {w1}` | the offer of a phone that left is relayed when the phone is entering again, and gives up: the page shows somebody who is not inside |
| `DiallingEnds` | CallClients | a phone without a connection dials: the invitation waits for one, and nothing limits the wait |
| `RingingEnds` | CallClients | the cancellation is lost with the connection, and the phone, back again, rings on: it has no timer of its own |
| `P!OnlineHasSocket` | RealtimeTabs | a socket closes while its identity is resolved, and is registered afterwards |
| `P!GraceOnlyWhileAway` | RealtimeTabs | the timer is armed after an await, when the user is back: the next disconnect shares its remainder |
| `P!MirrorSettles` | RealtimeTabs | the two mirror writes of a reconnect land in the wrong order |
| `OfflineCalleeIsPushed` | RealtimeTabs | follows from the phantom socket: the phone is not rung |
| `M!RingingIsLive` | Serial | the invitees are rung after the query though the meeting has ended |
| `EmptyIsWatched` | Serial, `Fails = TRUE` | the query fails between opening the room and arming its timer |
| `M!LiveRowHasRoom` | Serial | the announcement is posted after the meeting it announces is over |
| `M!InsideIsTold` | Serial | the socket.io room is emptied after a write, and with it somebody who joined the next room |
| `M!OwnIdleTimer` | Serial | the timer of an earlier room closes a later one |
| `SuperAdminRemains` | Serial, `Changes = {c1, c2}` | two admins demote each other: each is counted as the one who remains |
| `C!EditedUnread` | Records | the message is read between the check and the write of the edit |
| `C!ClearedWasOld` | Records | a message that is sent while the chat is cleared goes with the old ones |
| `A!OncePerDay` | Records | two scans read the day before either writes |
| `ExcusedInside` | Attendance alone, 2 scans, `DayLength = 4`, `Deadline = 1`, `WorkEnd = 3`, `MaxHour = 7`, `MaxRows = 3` | lateness is compared with the end of the permitted window only: who is late in the morning is excused by a permission for the afternoon |
| `EarlyInside` | likewise | leaving is compared with the start of the window only |
| `A!SameRules` | Records | the timesheet counts leaving early on working days only, the board on every day |
| `S!ExpelledByServer` | Network | an answer to a refresh that is neither tokens nor a failure of the network (of a proxy, say) counts as a refusal |
| `S!KeptIsValid` | Network | all attempts of a refresh are lost after the server revoked the old token: what is kept is not valid |
| `S!SignedOutStaysOut` | Network | logout clears the tokens, and the refresh in flight stores the new pair |
| `S!ArchivedIsOut` | Network | a login or a refresh finds the employee active, archiving revokes every token, and a new one is issued |
| `O!FailedIsSaved` | Network | messages that fail in one turn load the list before any of them stores it |
| `O!WrittenIsKept` | Network | a message whose delivery is under way is only in memory when the app dies |
| `O!SentOnce` | Network, `MaxSends = 2` | a retry has a new key; the first request arrives late |
| `O!SentAsAuthor` | Network | a delivery that overlaps a logout is sent with the tokens of the next user |
| `O!SavedIsShown` | Network | the echo has taken the place of the bubble when the answer is lost: the message is saved to be sent again, and nothing shows it |
| `L!RecordedIsKept` | Watchers, `MaxPoints = 3` | a fix is appended to the list on disk while the batch is under way, and removed with it |
| `L!LastIsNewest` | Watchers, `MaxPoints = 3` | two requests compare with the same last position, and the older one writes last |
| `L!AlertIsDue` | Watchers, `MaxPoints = 3` | a position arrives between the selection and the alert |
| `L!StoppedIsStill` | Watchers, `MaxPoints = 1`, `MaxStops = 2` | a stop that overlaps a start leaves a stream delivering |

`NewsIsShown` has no restart of the server under it: one between the message and the
un-archiving hides the message until the next one.

Limits of the retry memory, which `ExecutedOnce` excepts through `forgotten`:

* The sweep runs before the lookup. At MAX_ENTRIES the oldest entry is evicted first,
  also when its request still runs, and also when it is the very key of the request
  that sweeps: the map serves MAX_ENTRIES - 1 keys.
* `entries.delete(id)` on a failure or a large answer deletes by key. After an eviction it may
  delete the entry of a newer execution.
* The TTL runs from the first attempt's arrival. The client's loop takes at most four
  attempts with bounded timeouts and waits of at most 10 s, under ten minutes in all, so
  15 minutes are enough for it.
* The memory is the process's: a restart forgets.

## 6. What is not modelled

Reads, lists and statistics: they change nothing. Formatting, validation of
payloads, logging. Delivery by FCM, SMS and socket.io beyond what is said above.
Floating-point geometry, face vectors, images. The React and Flutter screens, apart
from the call, the group call and the open conversation. Registers, salaries, bonuses, leave: a
query per operation. Each is listed in `PROJECT.json` with its reason. By far the larger
part of the repository is of this kind: screens, forms, tables, translations, mock data, reports.

In the modelled components: requests of clients are drawn from all that the
validation lets through, and roles and tokens are taken as checked. In Calls and Presence the process
does not restart; in Applications, Idempotency, Sessions and AdminUsers it does. Messages of the
gateway to clients are delivered or not; nothing depends on it but `ringing` in Meetings, and
CallClients and MeetingMesh, where their order is the subject, and in the former their loss. MeetingMesh
has no lost connection, no host that invites before it enters and no microphone button, and of a candidate not what
it does to a connection that is there.

Three parts were looked at and left out for a reason:

* **Media monitor.** A refresh groups the articles of a window into stories and marks one
  of each as its lead. `groupStories` picks the lead by score and not by what was
  marked before, and neither the rescoring after a change of the settings
  nor the cleanup of old articles looks at the mark: so after them a story
  may have two leads or none, and a mood set by hand is overwritten by the next analysis.
  The repository promises none of this, and a model would state only what one reads in the code.
* **Complaints.** The answers are one JSON column that `addResponse` reads, extends and writes
  (`complaints.service.ts:109`), so of two at once one is lost. Nothing says otherwise.
* **Face scan on the phone.** The states of the camera are those of a plugin, and what the scan decides
  is a distance between vectors.

## 7. Plan

Done, with proofs: Applications, Calls, Presence, Realtime, the clients of a call, Meetings, the mesh of a
meeting, Idempotency, Sessions, Outbox, AdminUsers, Chat, Attendance and Locations.

What would add most, in this order:

1. **Restarts under Calls and Presence**: what the database says of calls and
   of who is online after the process has lost both maps.
2. The one-time codes of citizens.
3. A lost connection under MeetingMesh, and what is left of `Meshed` and `ShownAreInside` when people enter
   again: section 5 says where they fail.

The runs are kept to a dozen, so that all of them are repeated after every change: a new
component shares a run with those whose question it is.
