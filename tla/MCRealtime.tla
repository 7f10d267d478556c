----------------------------- MODULE MCRealtime -----------------------------
(* Small instances of Realtime for TLC: an admin with one connection, and an *)
(* employee with one (Pair) or two (Trio).                                   *)
EXTENDS Realtime, TLC

CONSTANTS me, emp, s1, s2, s3

MCUsers == {me, emp}
MCStaff == {emp}

PairOwner == (s1 :> me) @@ (s2 :> emp)
TrioOwner == PairOwner @@ (s3 :> emp)
PairSockets == {s1, s2}
TrioSockets == {s1, s2, s3}

TrioSymmetry == Permutations({s2, s3})
=============================================================================
