------------------------------ MODULE MCSerial ------------------------------
(***************************************************************************)
(* For TLC, side by side because they share no state: murojaats of which   *)
(* one request is served at a time (Applications), meeting rooms that come *)
(* and go under one id (Meetings), and the accounts of the web admin of    *)
(* which one changes at a time (AdminUsers).  focus says which of them     *)
(* moves; the rooms keep the fairness of their module, the others need     *)
(* none.                                                                   *)
(***************************************************************************)
EXTENDS Applications, AccountBounds, TLC

CONSTANTS Meetings, Admins, Employees, Sockets, Queries, Kinds, Fails, MaxRooms
CONSTANTS adm, emp, s1, s2

MCAdmins == {adm}
MCEmployees == {emp}
MCSockets == {s1, s2}

VARIABLES
    open, number, invited, media, chat, group, announcement, closing, timers, ringing,
    conn, todo, job
VARIABLES account, seed, entering, holders, change
VARIABLE focus

ASSUME RoomsAssumption ==
    /\ Admins \cap Employees = {}
    /\ (s1 :> adm) @@ (s2 :> emp) \in [Sockets -> Admins \cup Employees]
    /\ Kinds \subseteq {"some", "all"} /\ Fails \in BOOLEAN /\ MaxRooms \in Nat

M == INSTANCE Meetings WITH
    Handlers <- Queries, Owner <- (s1 :> adm) @@ (s2 :> emp), row <- announcement
U == INSTANCE AdminUsers WITH None <- Null

roomVars == <<
    open, number, invited, media, chat, group, announcement, closing, timers, ringing,
    conn, todo, job>>
accountVars == <<account, seed, entering, holders, change>>
allVars == <<vars, roomVars, accountVars, focus>>

SerialInit ==
    /\ Init /\ M!Init /\ U!Init
    /\ focus \in {"murojaats", "rooms", "accounts"}

RoomsDo(action) == focus = "rooms" /\ action /\ UNCHANGED <<vars, accountVars, focus>>

SerialNext ==
    \/ focus = "murojaats" /\ Next /\ UNCHANGED <<roomVars, accountVars, focus>>
    \/ RoomsDo(M!Next)
    \/ focus = "accounts" /\ U!Next /\ UNCHANGED <<vars, roomVars, focus>>

SerialSpec ==
    /\ SerialInit /\ [][SerialNext]_allVars
    /\ \A h \in Queries : WF_allVars(RoomsDo(M!Resume(h)))
    /\ \A r \in M!Rooms : WF_allVars(RoomsDo(M!IdleFires(r[1], r[2])))
    /\ \A s \in Sockets : WF_allVars(RoomsDo(M!LeavesNext(s)))

EmptyIsWatched == M!EmptyIsWatched
EmptyEnds == M!EmptyEnds
SuperAdminRemains == U!SuperAdminRemains
=============================================================================
