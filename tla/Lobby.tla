------------------------------- MODULE Lobby -------------------------------
(***************************************************************************)
(* What a player may rely on of the server's rooms, with no counters and   *)
(* no rows: who is at which room and what a room plays.  A step seats or   *)
(* unseats one player and moves nobody else, a room has space by the       *)
(* players really in it, and its course is fixed while anyone is there.    *)
(***************************************************************************)
EXTENDS Integers, FiniteSets

CONSTANTS Account, Course, RoomId, NoCourse, RoomCapacity

VARIABLES
    at,     \* the room each player is in, 0 for none
    plays   \* the course of each room, NoCourse for an empty one

lobbyVars == <<at, plays>>

Others(a, r) == {b \in Account \ {a} : at[b] = r}

(* The rooms' courses once a is in none of them: an empty room closes. *)
Closing(a) == [r \in RoomId |-> IF Others(a, r) = {} THEN NoCourse ELSE plays[r]]

Enter(a, c, r) ==
    /\ Cardinality(Others(a, r)) < RoomCapacity
    /\ Others(a, r) # {} => plays[r] = c
    /\ at' = [at EXCEPT ![a] = r]
    /\ plays' = [Closing(a) EXCEPT ![r] = c]

Leave(a) ==
    /\ at[a] # 0
    /\ at' = [at EXCEPT ![a] = 0]
    /\ plays' = Closing(a)

LobbyInit ==
    /\ at = [a \in Account |-> 0]
    /\ plays = [r \in RoomId |-> NoCourse]

LobbyNext ==
    \E a \in Account :
        \/ \E c \in Course, r \in RoomId : Enter(a, c, r)
        \/ Leave(a)

LobbySpec == LobbyInit /\ [][LobbyNext]_lobbyVars
=============================================================================
