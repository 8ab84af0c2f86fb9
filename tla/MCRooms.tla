------------------------------ MODULE MCRooms ------------------------------
(* Rooms on a small instance: more players than one room holds, more in a  *)
(* room than one group holds, and courses, rooms and groups to spare.      *)
EXTENDS Rooms, TLC

CONSTANTS a1, a2, a3, a4, a5, c1, c2

MCAccount == {a1, a2, a3, a4, a5}
MCCourse == {c1, c2}
MCRoomId == 1..3
MCGroupId == 1..2

(* Rows name accounts and courses only to tell them apart. *)
Symmetry == Permutations(Account) \cup Permutations(Course)
=============================================================================
