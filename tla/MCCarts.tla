------------------------------ MODULE MCCarts ------------------------------
(* Carts on small instances: one room with every seat action for three    *)
(* players, and every action for two.                                      *)
EXTENDS Carts, TLC

CONSTANTS a1, a2, a3, c1

MCTwoAccounts == {a1, a2}
MCThreeAccounts == {a1, a2, a3}
(* The rows name players only to tell them apart. *)
Symmetry == Permutations(Account)

MCCourse == {c1}
MCOneRoom == {1}
MCTwoRooms == {1, 2}

(* Seats, motions, rides and tows, with republishes; no bag is moved and   *)
(* no group made, which touch no seat.                                     *)
SeatNext ==
    \/ \E a \in Account : MembershipStep(a) \/ MotionStep(a) \/ SeatStep(a) \/ TowCart(a)
    \/ Republish /\ UNCHANGED cartVars

(* Bags, seats, motions and tows, the course always there. *)
BagNext ==
    \E a \in Account :
        MembershipStep(a) \/ MotionStep(a) \/ SeatStep(a) \/ BagStep(a) \/ TowCart(a)

(* With the tows' time and the host's scheduling of them. *)
BagSpec == Init /\ [][BagNext \/ Tick]_vars /\ Scheduling

SeatSpec == Init /\ [][SeatNext]_vars
=============================================================================
