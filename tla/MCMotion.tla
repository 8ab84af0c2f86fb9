------------------------------ MODULE MCMotion ------------------------------
(* A golfer on foot on a small instance: a time saved up for one step, two *)
(* steps a motion may carry, and the tee two steps from the spawn.         *)
EXTENDS Motion

(* The play of a golfer whose game's clock is the server's, whose motions  *)
(* go out as soon as they are due or they walk, and whom nothing hampers:  *)
(* no call is lost or comes twice, and their ball stays in the bag.        *)
SendsAll == me' # me => ~Due(me') /\ (me'.moving # 0 => me'.commands # <<>>)
Smooth == Len(taken') <= now' /\ SendsAll /\ spent'.faults + spent'.turns = 0
SmoothSpec == Init /\ [][Next /\ Smooth]_vars

(* The play of a golfer who tees up and stays there; nothing is lost.      *)
Stays == spent'.turns <= 1 /\ spent'.faults = 0
TeedSpec == Init /\ [][Next /\ Stays]_vars
=============================================================================
