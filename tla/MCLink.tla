------------------------------- MODULE MCLink -------------------------------
(* One game, two courses, the first of them with carts, a room of each.     *)
EXTENDS Link

CONSTANTS c1, c2, r1, r2

MCCourse == {c1, c2}
MCRoom == {r1, r2}
MCCartCourse == {c1}
MCCourseOf == [r \in Room |-> IF r = r2 THEN c2 ELSE c1]
=============================================================================
