------------------------------- MODULE MCPlay -------------------------------
(* Play on a small instance: two players, a course of two holes and a      *)
(* practice ground of one; a module may have the course with one hole, or  *)
(* not at all.                                                             *)
EXTENDS Play, TLC

CONSTANTS a1, a2, c1, p1

MCAccount == {a1, a2}
MCCourse == {c1, p1}
MCPractice == {p1}
MCRoomId == 1..2
MCGroupId == {1}
MCGreen == {2}
MCPublication == {[c \in Course |-> IF c = c1 THEN n ELSE 1] : n \in 0..2}

Symmetry == Permutations(Account)
=============================================================================
