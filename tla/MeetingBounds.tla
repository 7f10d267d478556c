--------------------------- MODULE MeetingBounds ---------------------------
(* The parameters of Meetings, apart from its handlers and variables: a      *)
(* composition that takes several modules side by side EXTENDS this one.     *)
EXTENDS Naturals, FiniteSets

CONSTANTS
    Meetings, Admins, Employees,
    Sockets, Owner,     \* connections and whose they are
    Kinds,              \* the invitations made: "some" names people, "all" nobody
    Fails,              \* whether a query may fail
    MaxRooms            \* bound: rooms opened under one id

ASSUME MeetingsAssumption ==
    /\ Admins \cap Employees = {}
    /\ Owner \in [Sockets -> Admins \cup Employees]
    /\ Kinds \subseteq {"some", "all"}
    /\ Fails \in BOOLEAN
    /\ MaxRooms \in Nat
=============================================================================
