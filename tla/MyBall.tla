------------------------------- MODULE MyBall -------------------------------
(* One golfer's ball online: as their own game plays it, ahead of the      *)
(* server, and as the server has it (lib.cpp's ball and round_strokes).    *)
(* Calls and answers travel in order; a frame of the game takes what the   *)
(* player does, then the refusals, shots and rows it heard                 *)
(* (update_online_play).                                                   *)
(*                                                                         *)
(* Positions are left out: what is in reach is any choice, as is a refusal *)
(* for it, for a tee in use or for the club, but the balls of two holes    *)
(* are never in one reach.  A shot is whether it holes and what it costs.  *)
(* What comes while the results are shown waits for the next round.        *)
EXTENDS Integers, Sequences, FiniteSets, FiniteSetsExt

CONSTANTS
    Holes,       \* how many holes the course has
    MaxStrokes,  \* bound: strokes of one ball, penalties included
    MaxFlight    \* bound: the player waits while so much is on its way

ASSUME MyBallAssumption ==
    /\ Holes \in Nat \ {0} /\ MaxStrokes \in Nat \ {0} /\ MaxFlight \in Nat \ {0}

VARIABLES
    me,    \* the golfer's game
    up,    \* calls on their way to the server, in order
    down,  \* rows and refusals on their way back, in order
    host,  \* the server: the golfer's ball, whether it rests, and round
    practice  \* whether the course is a practice ground

vars == <<me, up, down, host, practice>>

Hole == 1 .. Holes

(* A ball on hole 0 is none.                                               *)
Ball(h, strokes, cup) == [hole |-> h, strokes |-> strokes, inCup |-> cup]
NoBall == Ball(0, 0, FALSE)
BallRow == [hole : Hole, strokes : 0 .. MaxStrokes, inCup : BOOLEAN] \cup {NoBall}

InPlay(ball) == ball # NoBall /\ ~ball.inCup

(* How a shot ends: water costs a stroke, a ball hit on a green two, only  *)
(* the second of which can hole.                                           *)
Shot == [holed : BOOLEAN, penalty : 0 .. 3]
NoShot == [holed |-> FALSE, penalty |-> 4]
Outcomes == {shot \in Shot : shot.holed => shot.penalty \in {0, 2}}

Unplayed == [h \in Hole |-> 0]
Played(round, h) == round[h] > 0
Finished(round) == \A h \in Hole : Played(round, h)

Calls == {"tee_up", "take_shot", "give_up_hole", "pick_up_ball"}

Call == [call : Calls, hole : Hole \cup {0}, giveUp : BOOLEAN, stroke : 0 .. MaxStrokes]

Asked(c, call, h, giveUp, stroke) ==
    [c EXCEPT !.out = Append(@, [call |-> call, hole |-> h, giveUp |-> giveUp, stroke |-> stroke])]

(* A change of the ball's row, with the shot that made it, or a refusal.   *)
Event == [kind : {"row"}, ball : BallRow, shot : Shot \cup {NoShot}]
            \cup [kind : {"refused"}, call : Calls]

-----------------------------------------------------------------------------
(* The golfer's game, a record c:                                          *)
(*   ball, round   as played here, and row, the server's as last heard     *)
(*   mode          walking, addressing the ball or following a shot        *)
(*   swinging      the club is at its top, or on its way down with answer  *)
(*   shot          the shot that plays                                     *)
(*   entered       the server had this ball in play on its hole            *)
(*   prompt        the tee that asks whether to give the hole up           *)

EndBallPlayMidSwing(c) ==
    [c EXCEPT !.shot = NoShot, !.mode = "walking", !.entered = FALSE, !.prompt = 0]

EndBallPlay(c) ==
    [c EXCEPT !.shot = NoShot, !.mode = "walking", !.swinging = FALSE, !.answer = NoShot,
              !.entered = FALSE, !.prompt = 0]

(* tee_up, and stepping up to the ball unless the bag is on the back.      *)
TeeUp(c, h, giveUp, stepsUp) ==
    IF ~practice /\ \/ Played(c.round, h) \/ c.ball.inCup \/ c.ball.hole = h
                    \/ c.ball # NoBall /\ ~giveUp
    THEN c
    ELSE Asked([EndBallPlay(c) EXCEPT !.ball = Ball(h, 0, FALSE),
                                      !.mode = IF stepsUp THEN "addressing" ELSE @],
               "tee_up", h, giveUp, 0)

CompleteHole(c) ==
    IF ~InPlay(c.ball) THEN c
    ELSE LET scored == IF practice THEN c ELSE [c EXCEPT !.round[c.ball.hole] = c.ball.strokes]
         IN  [EndBallPlay(scored) EXCEPT !.ball.inCup = TRUE]

GiveUpHole(c) ==
    IF ~InPlay(c.ball) THEN c
    ELSE Asked([EndBallPlay(c) EXCEPT !.ball = NoBall], "give_up_hole", 0, FALSE, 0)

(* The ball becomes the server's; holed there, its hole is completed.      *)
AdoptServerBall(c) ==
    IF c.row.hole = c.ball.hole /\ c.row.inCup /\ InPlay(c.ball)
    THEN CompleteHole([c EXCEPT !.ball.strokes = c.row.strokes])
    ELSE [EndBallPlay(c) EXCEPT !.ball = c.row, !.entered = InPlay(c.row)]

TakeRefusalOfShots(c, call) ==
    IF call = "take_shot" /\ c.mode = "addressing" /\ c.swinging
    THEN [c EXCEPT !.swinging = FALSE, !.answer = NoShot]
    ELSE IF call = "take_shot" THEN AdoptServerBall(c) ELSE c

TakeRefusal(c, call) ==
    IF call = "take_shot" /\ c.mode = "addressing" /\ c.swinging
    THEN [c EXCEPT !.swinging = FALSE, !.answer = NoShot]
    ELSE AdoptServerBall(c)

AnswersMySwingDry(c, event) ==
    /\ c.mode = "addressing" /\ c.swinging /\ c.answer = NoShot
    /\ InPlay(c.ball) /\ event.ball.hole = c.ball.hole
    /\ event.ball.strokes = c.ball.strokes + 1

(* The shot that answers the swing is its next stroke on this hole; where  *)
(* another's ball lies is reconciled, which is a position only.            *)
AnswersMySwing(c, event) ==
    /\ c.mode = "addressing" /\ c.swinging /\ c.answer = NoShot
    /\ InPlay(c.ball) /\ event.ball.hole = c.ball.hole
    /\ event.ball.strokes - event.shot.penalty = c.ball.strokes + 1

TakeShotEvent(c, event) ==
    IF event.shot # NoShot /\ AnswersMySwing(c, event)
    THEN [c EXCEPT !.answer = event.shot]
    ELSE c

FollowServerHole(c) ==
    IF ~InPlay(c.ball) \/ c.shot # NoShot THEN c
    ELSE IF c.row.hole = c.ball.hole /\ ~c.row.inCup THEN [c EXCEPT !.entered = TRUE]
    ELSE IF c.entered THEN AdoptServerBall(c)
    ELSE c

SeeRows(c, events) ==
    LET rows == {i \in DOMAIN events : events[i].kind = "row"}
    IN  IF rows = {} THEN c ELSE [c EXCEPT !.row = events[Max(rows)].ball]

TakeRefusals(c, events) ==
    LET told[i \in 0 .. Len(events)] ==
            IF i = 0 THEN c
            ELSE IF events[i].kind = "refused" THEN TakeRefusal(told[i - 1], events[i].call)
            ELSE told[i - 1]
    IN  told[Len(events)]

TakeRoomEvents(c, events) ==
    LET shown[i \in 0 .. Len(events)] ==
            IF i = 0 THEN c
            ELSE IF events[i].kind = "row" THEN TakeShotEvent(shown[i - 1], events[i])
            ELSE shown[i - 1]
    IN  shown[Len(events)]

(* What a frame takes of what it heard: the rows are in place before, all  *)
(* refusals come before the shots.                                         *)
Heard(c, events) == TakeRoomEvents(TakeRefusals(SeeRows(c, events), events), events)

Online(c, events) == FollowServerHole(Heard(c, events))

-----------------------------------------------------------------------------
(* Frames.                                                                 *)

Spare == Len(up) + Len(down) < MaxFlight

(* A frame that hears the first of what is on its way.                     *)
Frame(Does(_)) ==
    \E count \in 0 .. Len(down) :
        LET next == Does(SubSeq(down, 1, count))
        IN  /\ me' = [next EXCEPT !.out = <<>>]
            /\ up' = up \o next.out
            /\ down' = SubSeq(down, count + 1, Len(down))
            /\ UNCHANGED <<host, practice>>

Playing == ~Finished(me.round)
Plays(played) == Playing /\ Frame(LAMBDA events : Online(played, events))

Waits == Plays(me)

(* The round over, its results wait for the group's last hole.             *)
WatchesRoom == ~Playing /\ me.ball # NoBall /\ Frame(LAMBDA events : Heard(me, events))

(* A tee in reach, no shot playing: with a ball in play elsewhere it asks. *)
Tee(h, stepsUp) ==
    /\ me.mode = "walking" /\ me.shot = NoShot /\ me.prompt = 0 /\ Spare
    /\ practice \/ (~Played(me.round, h) /\ me.ball.hole # h)
    /\ Plays(IF InPlay(me.ball) /\ ~practice THEN [me EXCEPT !.prompt = h]
             ELSE TeeUp(me, h, practice, stepsUp))

(* The prompt is answered, or left with Esc or by walking away.            *)
AnswerPrompt(stepsUp) ==
    /\ me.mode = "walking" /\ me.prompt # 0 /\ InPlay(me.ball) /\ Spare
    /\ Plays(TeeUp([me EXCEPT !.prompt = 0], me.prompt, TRUE, stepsUp))

LeavePrompt == me.prompt # 0 /\ Plays([me EXCEPT !.prompt = 0])

StepUpToBall ==
    /\ me.mode = "walking" /\ me.shot = NoShot /\ me.prompt = 0 /\ InPlay(me.ball)
    /\ Plays([me EXCEPT !.mode = "addressing", !.swinging = FALSE, !.answer = NoShot])

StepBack ==
    /\ me.mode = "addressing" /\ ~me.swinging
    /\ Plays([me EXCEPT !.mode = "walking"])

PickUpCupBall ==
    /\ me.mode = "walking" /\ me.ball.inCup /\ Spare
    /\ Plays(Asked([me EXCEPT !.ball = NoBall], "pick_up_ball", 0, FALSE, 0))

StartSwing ==
    /\ me.mode = "addressing" /\ ~me.swinging /\ Spare
    /\ me.ball.strokes < MaxStrokes
    /\ Plays(Asked([me EXCEPT !.swinging = TRUE], "take_shot", me.ball.hole, FALSE, me.ball.strokes + 1))

(* Answered, the club comes down and strikes the ball.                     *)
LaunchShot ==
    /\ me.mode = "addressing" /\ me.answer # NoShot
    /\ Plays([me EXCEPT !.shot = me.answer, !.mode = "following", !.swinging = FALSE,
                        !.answer = NoShot, !.ball.strokes = @ + 1])

(* The ball rolls out, the player walks again.                             *)
RollsOut == me.mode = "following" /\ Plays([me EXCEPT !.mode = "walking"])

(* Online the hole is over when the server says so.                        *)
ShotEnds ==
    /\ me.shot # NoShot
    /\ Plays([me EXCEPT !.shot = NoShot, !.mode = "walking",
                        !.ball.strokes = @ + me.shot.penalty])

(* From the pause menu, after its frame.                                   *)
PauseAndGiveUp ==
    /\ me.mode = "walking" /\ me.prompt = 0 /\ InPlay(me.ball) /\ Spare
    /\ Playing /\ Frame(LAMBDA events : GiveUpHole(Online(me, events)))

StartNextRound ==
    /\ Finished(me.round)
    /\ me' = [me EXCEPT !.round = Unplayed]
    /\ UNCHANGED <<up, down, host, practice>>

GameStep ==
    \/ Waits \/ WatchesRoom \/ LeavePrompt \/ StepUpToBall \/ StepBack \/ PickUpCupBall
    \/ StartSwing \/ LaunchShot \/ RollsOut \/ ShotEnds \/ PauseAndGiveUp \/ StartNextRound
    \/ \E stepsUp \in BOOLEAN :
          AnswerPrompt(stepsUp) \/ \E h \in Hole : Tee(h, stepsUp)

-----------------------------------------------------------------------------
(* The server.                                                             *)

Told(ball, shot) == down' = Append(down, [kind |-> "row", ball |-> ball, shot |-> shot])

Refuse(call) ==
    /\ down' = Append(down, [kind |-> "refused", call |-> call.call])
    /\ UNCHANGED host

ServeTeeUp(call) ==
    /\ call.call = "tee_up"
    /\ ~practice => /\ ~Played(host.round, call.hole) /\ ~host.ball.inCup
                    /\ host.ball.hole # call.hole
                    /\ host.ball = NoBall \/ call.giveUp
    /\ host' = [host EXCEPT !.ball = Ball(call.hole, 0, FALSE), !.resting = TRUE]
    /\ Told(Ball(call.hole, 0, FALSE), NoShot)

Scored(h, strokes) ==
    LET after == [host.round EXCEPT ![h] = strokes]
    IN  IF practice THEN host.round ELSE IF Finished(after) THEN Unplayed ELSE after

ServeShot(call) ==
    /\ call.call = "take_shot"
    /\ InPlay(host.ball) /\ host.ball.hole = call.hole /\ host.resting /\ call.stroke = host.ball.strokes + 1
    /\ \E shot \in Outcomes :
          LET h == host.ball.hole
              ball == Ball(h, call.stroke + shot.penalty, shot.holed)
          IN  /\ ball.strokes <= MaxStrokes
              /\ host' = [ball |-> ball, resting |-> shot.holed,
                          round |-> IF shot.holed THEN Scored(h, ball.strokes) ELSE host.round]
              /\ Told(ball, shot)

ServeGiveUp(call) ==
    /\ call.call = "give_up_hole"
    /\ IF InPlay(host.ball)
       THEN host' = [host EXCEPT !.ball = NoBall, !.resting = TRUE] /\ Told(NoBall, NoShot)
       ELSE Refuse(call)

ServePickUp(call) ==
    /\ call.call = "pick_up_ball"
    /\ CASE host.ball = NoBall -> UNCHANGED <<down, host>>
         [] host.ball.inCup ->
               host' = [host EXCEPT !.ball = NoBall, !.resting = TRUE] /\ Told(NoBall, NoShot)
         [] OTHER -> Refuse(call)

(* Out of reach, a tee in use, a wrong club: any of these may be refused.  *)
ServeRefusal(call) ==
    /\ call.call \in {"tee_up", "take_shot", "pick_up_ball"}
    /\ call.call = "pick_up_ball" => host.ball # NoBall
    /\ Refuse(call)

Serve ==
    /\ up # <<>>
    /\ LET call == Head(up)
       IN  \/ ServeTeeUp(call) \/ ServeShot(call) \/ ServeGiveUp(call)
           \/ ServePickUp(call) \/ ServeRefusal(call)
    /\ up' = Tail(up)
    /\ UNCHANGED <<me, practice>>

(* The shot has played (shot_has_played).                                  *)
ComesToRest ==
    /\ ~host.resting
    /\ host' = [host EXCEPT !.resting = TRUE]
    /\ UNCHANGED <<me, up, down, practice>>

-----------------------------------------------------------------------------
Init ==
    /\ me = [ball |-> NoBall, round |-> Unplayed, row |-> NoBall, mode |-> "walking",
             swinging |-> FALSE, answer |-> NoShot, shot |-> NoShot, entered |-> FALSE,
             prompt |-> 0, out |-> <<>>]
    /\ up = <<>> /\ down = <<>>
    /\ host = [ball |-> NoBall, resting |-> TRUE, round |-> Unplayed]
    /\ practice \in BOOLEAN

Next == GameStep \/ Serve \/ ComesToRest

Spec == Init /\ [][Next]_vars

(* The server and the frames keep up with what the player does, swings and *)
(* shots take their time and no more, and results are left.                *)
FairSpec ==
    /\ Spec
    /\ []<>(up = <<>>) /\ []<>(down = <<>>)
    /\ []<>(me.answer = NoShot) /\ []<>(me.shot = NoShot) /\ []<>Playing

-----------------------------------------------------------------------------
(* The game's record, and what lives for one ball's hole only while there  *)
(* is such a ball: a swing and its answer only over a ball addressed, a    *)
(* shot only of a ball in play, a question only while walking.             *)
Game ==
    [ball : BallRow, round : [Hole -> 0 .. MaxStrokes], row : BallRow,
     mode : {"walking", "addressing", "following"}, swinging : BOOLEAN,
     answer : Shot \cup {NoShot}, shot : Shot \cup {NoShot}, entered : BOOLEAN,
     prompt : Hole \cup {0}, out : Seq(Call)]

Host == [ball : BallRow, resting : BOOLEAN, round : [Hole -> 0 .. MaxStrokes]]

BallTypeOK ==
    /\ me \in Game /\ me.out = <<>> /\ host \in Host /\ practice \in BOOLEAN
    /\ up \in Seq(Call) /\ down \in Seq(Event)
    /\ me.answer # NoShot => me.swinging
    /\ me.swinging => me.mode = "addressing"
    /\ me.mode # "walking" => InPlay(me.ball) /\ me.prompt = 0
    /\ me.shot # NoShot => InPlay(me.ball) /\ me.mode # "addressing"

Quiet == up = <<>> /\ down = <<>>

(* The game plays ahead of the server (tee_up, give_up_hole and            *)
(* pick_up_cup_ball take effect before their call is answered), and        *)
(* refusals cross with calls made since.  Once nothing is on its way, a    *)
(* ball that following the server leaves in play is of the hole the server *)
(* has the golfer on: no ball is played that the server knows nothing of.  *)
(* Rows heard while results are shown are followed by the next frame only. *)
BallIsServers ==
    LET followed == FollowServerHole(me)
    IN  Quiet /\ InPlay(followed.ball) => host.ball.hole = followed.ball.hole

(* A swing ends: held at its top for the server's answer, it comes down    *)
(* when the shot is heard, or is dropped on a refusal, on a ball holed or  *)
(* taken away, whatever crosses.  A hole the server has ended ends here    *)
(* too, once the game knew the server had the ball there.                  *)
SwingsAndHolesEnd ==
    /\ me.swinging ~> ~me.swinging
    /\ me.entered /\ ~InPlay(host.ball) ~> ~InPlay(me.ball) \/ InPlay(host.ball)

(* The docs' and comments' claim: the club waits at its top for the answer, *)
(* the ball is launched from it, and a holed shot completes the hole once   *)
(* it has finished playing.  So no hole is scored while the club is up.     *)
HoledShotsPlay == [][\A h \in Hole : ~Played(me.round, h) /\ Played(me'.round, h) => ~me.swinging]_me
=============================================================================
