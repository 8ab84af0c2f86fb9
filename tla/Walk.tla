-------------------------------- MODULE Walk --------------------------------
(* Movement by input, as docs/networking_rules.md promises it: a golfer    *)
(* takes numbered steps, and the server plays each at most once, in order, *)
(* with the input it was taken with.  What it walks for them, which earns  *)
(* movement XP, is never more than those steps.                            *)
EXTENDS Integers, Sequences, FiniteSets

CONSTANT Input   \* what one step may do: go on so far

VARIABLES
    taken,   \* the input of each step taken, by its number
    done,    \* the last step the server played or passed over
    walked   \* how far the server's steps went

walkVars == <<taken, done, walked>>

(* The furthest the steps numbered `from` to `to` can go.                  *)
Reach(from, to) == Cardinality({n \in from..to : taken[n] # 0})

WalkInit == taken = <<>> /\ done = 0 /\ walked = 0

Take(input) ==
    /\ taken' = Append(taken, input)
    /\ UNCHANGED <<done, walked>>

(* Steps up to number n are played, or passed over.                        *)
PlaySteps(n, far) ==
    /\ n \in done + 1 .. Len(taken)
    /\ far \in 0..Reach(done + 1, n)
    /\ done' = n
    /\ walked' = walked + far
    /\ UNCHANGED taken

WalkNext ==
    \/ \E input \in Input : Take(input)
    \/ \E n \in 1..Len(taken) : \E far \in 0..Len(taken) : PlaySteps(n, far)

WalkSpec == WalkInit /\ [][WalkNext]_walkVars
=============================================================================
