-------------------------------- MODULE Play --------------------------------
(***************************************************************************)
(* Golf in a room, over its members (Rooms): tees, balls, shots, rounds    *)
(* and the greens' flags (lib.cpp ball, green_flag, room_member's          *)
(* round_strokes, hole_score, golfer_progress and completed_course;        *)
(* play_rules check_shot; game round_state and progress_rules).            *)
(*                                                                         *)
(* Positions are left out, so what a player is near enough to is; where a  *)
(* ball lies is only whether it has come to rest, the shot only whether it *)
(* holes and what it costs.  A retried or wrong stroke is an Err, no step. *)
(***************************************************************************)
EXTENDS Rooms, Sequences, FiniteSetsExt

CONSTANTS
    PracticeCourse, \* the courses that are practice grounds
    Green,          \* the holes whose flags are taken out
    MaxHoles,       \* the most holes a course is published with
    Publication,    \* how many holes of each course a module may have
    MaxStrokes,     \* bound: strokes a ball has, penalties included
    MaxScores       \* bound: holes completed, all golfers' together

ASSUME PlayAssumption ==
    /\ PracticeCourse \subseteq Course
    /\ MaxHoles \in Nat \ {0}
    /\ Green \subseteq 1..MaxHoles
    /\ Publication \subseteq [Course -> 0..MaxHoles]
    /\ MaxStrokes \in Nat
    /\ MaxScores \in Nat

VARIABLES
    holes,      \* the content's number of holes of each course, 0 with none
    ball,       \* table ball, by account
    round,      \* room_member's round_strokes, by account
    flags,      \* table green_flag: the holes of rooms whose flag is out
    scores,     \* table hole_score: how many of each golfer, course and hole
    completed,  \* table completed_course: the courses of each golfer
    total       \* golfer_progress's holes_completed, by account

playVars == <<holes, ball, round, flags, scores, completed, total>>
vars == <<roomVars, playVars>>

-----------------------------------------------------------------------------

Hole == 1..MaxHoles

(* A ball on hole 0 is no row.  It rests once its last shot has played. *)
BallRow == [room : RoomId \cup {NoRoom}, hole : Hole \cup {0}, strokes : 0..MaxStrokes,
            resting : BOOLEAN, inCup : BOOLEAN]
Ball(r, h, s, rests, cup) == [room |-> r, hole |-> h, strokes |-> s, resting |-> rests, inCup |-> cup]
NoBall == Ball(NoRoom, 0, 0, TRUE, FALSE)

(* The courses of a module. *)
Published(h) == {c \in Course : h[c] # 0}

HasBall(a) == ball[a] # NoBall
CourseOf(a) == room[member[a].room].course
HolesOf(a) == 1..holes[CourseOf(a)]
Practice(a) == CourseOf(a) \in PracticeCourse

(* ball_in_play_of: a ball not in its cup, on a hole the course still has. *)
InPlay(a) == HasBall(a) /\ ~ball[a].inCup
OnHole(a) == InPlay(a) /\ ball[a].hole \in HolesOf(a)

(* round_strokes.resize: a republished course may have another hole count  *)
(* than this round.                                                        *)
Unplayed(n) == [h \in 1..n |-> 0]
Resized(strokes, n) == [h \in 1..n |-> IF h <= Len(strokes) THEN strokes[h] ELSE 0]
RoundNow(a) == Resized(round[a], holes[CourseOf(a)])

(* hole_played and round_finished. *)
Played(strokes, h) == h <= Len(strokes) /\ strokes[h] > 0
Finished(strokes) == \A h \in DOMAIN strokes : strokes[h] > 0

(* tee_in_use: another's ball waits on that tee of this room. *)
Waiting(b, h) == ball[b].hole = h /\ ball[b].strokes = 0 /\ ~ball[b].inCup
TeeInUseAnywhereElse(a, h) ==
    \E b \in Account \ {a} : ball[b].room # member[a].room /\ Waiting(b, h)
TeeInUse(a, h) == \E b \in Account \ {a} : ball[b].room = member[a].room /\ Waiting(b, h)

-----------------------------------------------------------------------------
(* leave_room_state on the tables of this module: the ball goes, the round *)
(* with the member row, and a closing room's flags.                        *)

FlagsLeftOut(a) == flags
FlagsLeft(a) == {f \in flags : RoomsLeft(a)[f[1]].course # NoCourse}

Join(a, c) ==
    /\ JoinCourse(a, c)
    /\ ball' = [ball EXCEPT ![a] = NoBall]
    /\ round' = [round EXCEPT ![a] = Unplayed(holes[c])]
    /\ flags' = FlagsLeft(a)
    /\ UNCHANGED <<holes, scores, completed, total>>

Leave(a) ==
    /\ LeaveRoom(a)
    /\ ball' = [ball EXCEPT ![a] = NoBall]
    /\ round' = [round EXCEPT ![a] = <<>>]
    /\ flags' = FlagsLeft(a)
    /\ UNCHANGED <<holes, scores, completed, total>>

-----------------------------------------------------------------------------
(* tee_up.  On a practice ground a fresh ball any time; on a course one    *)
(* ball, for a hole not played this round, once any other was given up     *)
(* (the call's give_up).                                                   *)

TeeUpPlayed(a, h) ==
    /\ Present(a)
    /\ h \in HolesOf(a)
    /\ ~Practice(a) => ~ball[a].inCup /\ ball[a].hole # h
    /\ ~TeeInUse(a, h)
    /\ round' = [round EXCEPT ![a] = RoundNow(a)]
    /\ ball' = [ball EXCEPT ![a] = Ball(member[a].room, h, 0, TRUE, FALSE)]
    /\ UNCHANGED <<roomVars, holes, flags, scores, completed, total>>

TeeUp(a, h) ==
    /\ Present(a)
    /\ h \in HolesOf(a)
    /\ ~Practice(a) => /\ ~Played(RoundNow(a), h)
                       /\ ~ball[a].inCup
                       /\ ball[a].hole # h
    /\ ~TeeInUse(a, h)
    /\ round' = [round EXCEPT ![a] = RoundNow(a)]
    /\ ball' = [ball EXCEPT ![a] = Ball(member[a].room, h, 0, TRUE, FALSE)]
    /\ UNCHANGED <<roomVars, holes, flags, scores, completed, total>>

(* give_up_hole; and take_shot of a ball whose hole the course lost.       *)
GiveUpHole(a) ==
    /\ Present(a)
    /\ InPlay(a)
    /\ ball' = [ball EXCEPT ![a] = NoBall]
    /\ UNCHANGED <<roomVars, holes, round, flags, scores, completed, total>>

(* take_shot: the stroke after the ball's last, once it rests.  Water      *)
(* costs a stroke, a ball hit on a green two; only the second can hole.    *)
TakeShot(a, penalty) ==
    /\ Present(a)
    /\ OnHole(a)
    /\ ball[a].resting
    /\ ball[a].strokes + 1 + penalty <= MaxStrokes
    /\ ball' = [ball EXCEPT ![a].strokes = @ + 1 + penalty, ![a].resting = FALSE]
    /\ UNCHANGED <<roomVars, holes, round, flags, scores, completed, total>>

(* A holed shot's score, holes completed, and on the round's last hole the *)
(* course completed and a new round.  Practice earns nothing.              *)
ScoredWithCourse(a, h, strokes) ==
    LET after == [RoundNow(a) EXCEPT ![h] = strokes]
    IN  /\ scores' = [scores EXCEPT ![a][CourseOf(a)][h] = @ + 1]
        /\ total' = IF Finished(after) THEN total ELSE [total EXCEPT ![a] = @ + 1]
        /\ IF Finished(after)
           THEN /\ completed' = [completed EXCEPT ![a] = @ \cup {CourseOf(a)}]
                /\ round' = [round EXCEPT ![a] = Unplayed(Len(after))]
           ELSE /\ round' = [round EXCEPT ![a] = after]
                /\ UNCHANGED completed

Scored(a, h, strokes) ==
    LET after == [RoundNow(a) EXCEPT ![h] = strokes]
    IN  /\ scores' = [scores EXCEPT ![a][CourseOf(a)][h] = @ + 1]
        /\ total' = [total EXCEPT ![a] = @ + 1]
        /\ IF Finished(after)
           THEN /\ completed' = [completed EXCEPT ![a] = @ \cup {CourseOf(a)}]
                /\ round' = [round EXCEPT ![a] = Unplayed(Len(after))]
           ELSE /\ round' = [round EXCEPT ![a] = after]
                /\ UNCHANGED completed

AllTotals == FoldSet(LAMBDA a, sum : sum + total[a], 0, Account)

HoleOut(a, penalty) ==
    LET h == ball[a].hole
        strokes == ball[a].strokes + 1 + penalty
    IN  /\ Present(a)
        /\ OnHole(a)
        /\ ball[a].resting
        /\ strokes <= MaxStrokes
        /\ ball' = [ball EXCEPT ![a] = Ball(@.room, h, strokes, TRUE, TRUE)]
        /\ IF Practice(a)
           THEN UNCHANGED <<round, scores, completed, total>>
           ELSE AllTotals < MaxScores /\ Scored(a, h, strokes)
        /\ UNCHANGED <<roomVars, holes, flags>>

(* The time a shot takes to play has passed (shot_has_played). *)
ComesToRest(a) ==
    /\ HasBall(a)
    /\ ~ball[a].resting
    /\ ball' = [ball EXCEPT ![a].resting = TRUE]
    /\ UNCHANGED <<roomVars, holes, round, flags, scores, completed, total>>

PickUpBall(a) ==
    /\ Present(a)
    /\ ball[a].inCup
    /\ ball' = [ball EXCEPT ![a] = NoBall]
    /\ UNCHANGED <<roomVars, holes, round, flags, scores, completed, total>>

(* set_flag: out, or back in. *)
SetFlag(a, h) ==
    /\ Present(a)
    /\ h \in HolesOf(a) \cap Green
    /\ LET f == <<member[a].room, h>>
       IN  flags' = IF f \in flags THEN flags \ {f} ELSE flags \cup {f}
    /\ UNCHANGED <<roomVars, holes, ball, round, scores, completed, total>>

(* A new module may have courses with other numbers of holes. *)
RepublishHoles ==
    /\ Republish
    /\ holes' \in Publication
    /\ content' = Published(holes')
    /\ UNCHANGED <<ball, round, flags, scores, completed, total>>

-----------------------------------------------------------------------------

Init ==
    /\ RoomsInit
    /\ holes \in Publication
    /\ content = Published(holes)
    /\ ball = [a \in Account |-> NoBall]
    /\ round = [a \in Account |-> <<>>]
    /\ flags = {}
    /\ scores = [a \in Account |-> [c \in Course |-> [h \in Hole |-> 0]]]
    /\ completed = [a \in Account |-> {}]
    /\ total = [a \in Account |-> 0]

MembershipStep(a) == Leave(a) \/ \E c \in Course : Join(a, c)

BallStep(a) ==
    \/ \E h \in Hole : TeeUp(a, h)
    \/ GiveUpHole(a) \/ PickUpBall(a) \/ ComesToRest(a)
    \/ \E penalty \in 0..3 : TakeShot(a, penalty)
    \/ \E penalty \in {0, 2} : HoleOut(a, penalty)

Next ==
    \/ \E a \in Account :
          \/ MembershipStep(a) \/ BallStep(a)
          \/ \E h \in Hole : SetFlag(a, h)
          \/ GroupStep(a) /\ UNCHANGED playVars
    \/ RepublishHoles

Spec == Init /\ [][Next]_vars

-----------------------------------------------------------------------------
(* What play promises. *)

(* Every table holds rows of its type; a ball and a round are of a room    *)
(* member and in their room, and no flag is out in a closed room.          *)
PlayTypeOK ==
    /\ holes \in Publication
    /\ content = Published(holes)
    /\ ball \in [Account -> BallRow]
    /\ round \in [Account -> Seq(0..MaxStrokes)]
    /\ flags \subseteq RoomId \X Green
    /\ scores \in [Account -> [Course -> [Hole -> Nat]]]
    /\ completed \in [Account -> SUBSET Course]
    /\ total \in [Account -> Nat]
    /\ \A a \in Account :
          /\ HasBall(a) => ball[a].room = member[a].room /\ member[a].room # NoRoom
          /\ HasBall(a) <=> ball[a].hole # 0
          /\ Len(round[a]) \in IF member[a].room = NoRoom THEN {0} ELSE Hole
    /\ \A f \in flags : Open(f[1])

(* "A tee is in use while another player's ball waits on it ... Nobody     *)
(* else tees up there until then" (net_types.h): through tee shots, balls  *)
(* given up, picked up and left, a tee has one ball waiting at most.       *)
TeesSound ==
    \A a, b \in Account :
        /\ a # b
        /\ HasBall(a) /\ HasBall(b)
        /\ ball[a].room = ball[b].room
        /\ Waiting(a, ball[a].hole) /\ Waiting(b, ball[b].hole)
        => ball[a].hole # ball[b].hole

(* No hole is scored twice in a round: a ball in play is of a hole its     *)
(* round has no score for, and one in its cup is that hole's score, unless *)
(* a new round has started since.                                          *)
BallsMatchRounds ==
    \A a \in Account :
        HasBall(a) /\ ~Practice(a) =>
            LET h == ball[a].hole
            IN  IF ball[a].inCup
                THEN \/ h > Len(round[a])
                     \/ round[a][h] = ball[a].strokes
                     \/ round[a] = Unplayed(Len(round[a]))
                ELSE ~Played(round[a], h)

(* A score in the round has its hole_score row, of this course: leaving,   *)
(* joining another course or a republish carries no score over.            *)
RoundsAreScored ==
    \A a \in Account :
        \A h \in DOMAIN round[a] : round[a][h] > 0 => scores[a][CourseOf(a)][h] > 0

(* The rows of hole_score of a golfer. *)
ScoreRows(a) == UNION {{p} \X (1..scores[a][p[1]][p[2]]) : p \in Course \X Hole}

(* holes_completed, which repeatable collectibles wait for, is the number  *)
(* of the golfer's scores, the round's last hole and its reset included.   *)
TotalCountsScores == \A a \in Account : total[a] = Cardinality(ScoreRows(a))

(* The three places a holed shot is kept in agree: the round, the scores   *)
(* and the count, through leaving, rejoining and republishes.              *)
ScoresSound == RoundsAreScored /\ TotalCountsScores

(* "The round is finished once every hole has a score" (round_state.h),    *)
(* and a new one starts: a player of a course is never left in a round     *)
(* with no hole to play.  It does not hold: tee_up fits the round to a      *)
(* course published with fewer holes, but only take_shot ends a round.     *)
RoundHasAHoleLeft ==
    \A a \in Account :
        Present(a) /\ ~Practice(a) => \E h \in HolesOf(a) : ~Played(round[a], h)

=============================================================================
