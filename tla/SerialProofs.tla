---------------------------- MODULE SerialProofs ----------------------------
(***************************************************************************)
(* Proofs about the setting of the run Serial: it is the murojaats, the    *)
(* rooms and the accounts of the web admin side by side, and its rooms are *)
(* those of MeetingsProofs, which says more of them.                       *)
(***************************************************************************)
EXTENDS MCSerial, TLAPS

-----------------------------------------------------------------------------
(***************************************************************************)
(* The rooms.                                                              *)
(***************************************************************************)
\* Meetings again, with what is proved about it.
MP == INSTANCE MeetingsProofs WITH
    Handlers <- Queries, Owner <- (s1 :> adm) @@ (s2 :> emp), row <- announcement

LEMMA RoomsAreMeetings == MP!MeetingsAssumption
  BY RoomsAssumption DEF MP!MeetingsAssumption

LEMMA SameRooms == M!Next <=> MP!Next
  BY DEF M!Numbers, M!Rooms, M!States, M!Idle, M!Init, M!Inside, M!Present, M!In, M!Admin, M!Free,
      M!Await, M!Opened, M!Ring, M!Ended, M!Closing, M!Invite, M!Queried, M!QueryFails,
      M!Posted, M!PostFails, M!CanJoin, M!Inherited, M!Join, M!SetMedia, M!Departs, M!Stays,
      M!Leave, M!LeaveNext, M!Connect, M!Disconnect, M!LeavesNext, M!End, M!Close, M!Kick,
      M!Closed, M!IdleFires, M!Resume, M!Next, MP!Numbers, MP!Rooms, MP!States, MP!Idle,
      MP!Init, MP!Inside, MP!Present, MP!In, MP!Admin, MP!Free, MP!Await, MP!Opened, MP!Ring,
      MP!Ended, MP!Closing, MP!Invite, MP!Queried, MP!QueryFails, MP!Posted, MP!PostFails,
      MP!CanJoin, MP!Inherited, MP!Join, MP!SetMedia, MP!Departs, MP!Stays, MP!Leave,
      MP!LeaveNext, MP!Connect, MP!Disconnect, MP!LeavesNext, MP!End, MP!Close, MP!Kick,
      MP!Closed, MP!IdleFires, MP!Resume, MP!Next

LEMMA SameMeetings == M!Spec => MP!Spec
  <1>1. M!Init => MP!Init
    BY DEF M!Init, MP!Init, M!Idle, MP!Idle, M!Rooms, MP!Rooms, M!Numbers, MP!Numbers
  <1>2. [M!Next]_(M!vars) => [MP!Next]_(MP!vars)
    BY SameRooms DEF M!vars, MP!vars
  <1> QED
    BY <1>1, <1>2, PTL DEF M!Spec, MP!Spec

\* RealtimeService, if the queries of an invitation return: a room that is open with
\* nobody in it has a timer that will close it.
THEOREM EmptyRoomsOfOneId == ~Fails /\ M!Spec => []EmptyIsWatched
  <1> SUFFICES ASSUME ~Fails PROVE M!Spec => []EmptyIsWatched
    OBVIOUS
  <1>1. MP!EmptyIsWatched => EmptyIsWatched
    BY DEF MP!EmptyIsWatched, EmptyIsWatched, M!EmptyIsWatched, MP!Inside, M!Inside
  <1>2. ~Fails /\ MP!Spec => []MP!EmptyIsWatched
    BY RoomsAreMeetings, MP!EmptyRoomsAreWatched
  <1> QED
    BY <1>1, <1>2, SameMeetings, PTL
-----------------------------------------------------------------------------
\* No step of one part moves another: murojaats, rooms and accounts each behave as their
\* own module says.
THEOREM SerialIsItsParts == SerialSpec => Spec /\ M!Spec /\ U!Spec
  <1>1. SerialInit => Init /\ M!Init /\ U!Init
    BY DEF SerialInit
  <1>5. SerialSpec => SerialInit /\ [][SerialNext]_allVars
    BY PTL DEF SerialSpec
  <1> USE DEF SerialNext, RoomsDo, allVars, roomVars, accountVars
  <1>2. [SerialNext]_allVars => [Next]_vars
    BY DEF vars
  <1>3. [SerialNext]_allVars => [M!Next]_(M!vars)
    BY DEF M!vars
  <1>4. [SerialNext]_allVars => [U!Next]_(U!vars)
    BY DEF U!vars
  <1> QED
    BY <1>1, <1>2, <1>3, <1>4, <1>5, PTL DEF Spec, M!Spec, U!Spec
=============================================================================
