------------------------------ MODULE MCLedger ------------------------------
(* The ledger on a small instance: a golfer, two skills, a collectible     *)
(* that is there once and one that comes back after a hole.                *)
EXTENDS Ledger, TLC

CONSTANTS g1, swing, fitness, ball, token

MCGolfer == {g1}
MCSkill == {swing, fitness}
MCMoveSkill == {fitness}
MCCollectible == {ball, token}
MCRewardSkill == [x \in Collectible |-> {fitness}]
MCCooldown == [x \in Collectible |-> 1]

(* A module has the collectibles, lacks them, or does not load. *)
Here == [x \in Collectible |-> IF x = ball THEN "one_off" ELSE "repeatable"]
MCPublication == {Here, [x \in Collectible |-> "none"], Broken}
=============================================================================
