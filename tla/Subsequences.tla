---------------------------- MODULE Subsequences ----------------------------
(***************************************************************************)
(* What is left of a sequence when some of its members are deleted: as     *)
(* SelectSeq has it, but for a set and by the ranks of the places that are *)
(* kept, because the provers know nothing of SelectSeq.                    *)
(***************************************************************************)
EXTENDS Naturals, Sequences, FiniteSets

Places(s, S) == {i \in DOMAIN s : s[i] \in S}
Rank(i, I) == Cardinality({h \in I : h <= i})

Subsequence(s, S) ==
    LET I == Places(s, S)
    IN  [j \in 1..Cardinality(I) |-> s[CHOOSE i \in I : Rank(i, I) = j]]
=============================================================================
