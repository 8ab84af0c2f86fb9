------------------------------- MODULE Purse -------------------------------
(***************************************************************************)
(* What a golfer may rely on of their XP, with no ledger behind it: every  *)
(* event pays them once, into skills and the month it happened in, and     *)
(* nothing else touches what they earned, until their account goes.        *)
(***************************************************************************)
EXTENDS Integers

CONSTANTS Golfer, Skill, Event, Month, Amount

VARIABLES
    earned, \* the events that have paid each golfer
    xp      \* each golfer's XP by skill and month

purseVars == <<earned, xp>>

Nothing == [s \in Skill |-> [m \in Month |-> 0]]

(* An event pays what it may, which can be nothing. *)
Earn(g, e) ==
    /\ e \notin earned[g]
    /\ earned' = [earned EXCEPT ![g] = @ \cup {e}]
    /\ \E m \in Month, gains \in [Skill -> Amount] :
          xp' = [xp EXCEPT ![g] = [s \in Skill |-> [xp[g][s] EXCEPT ![m] = xp[g][s][m] + gains[s]]]]

Forget(g) ==
    /\ earned' = [earned EXCEPT ![g] = {}]
    /\ xp' = [xp EXCEPT ![g] = Nothing]

PurseInit ==
    /\ earned = [g \in Golfer |-> {}]
    /\ xp = [g \in Golfer |-> Nothing]

PurseNext ==
    \E g \in Golfer :
        \/ \E e \in Event : Earn(g, e)
        \/ Forget(g)

PurseSpec == PurseInit /\ [][PurseNext]_purseVars
=============================================================================
