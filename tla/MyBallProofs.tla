---------------------------- MODULE MyBallProofs ----------------------------
(***************************************************************************)
(* A golfer's ball online, proved for any number of holes and strokes, and *)
(* any number of calls, refusals and rows that cross.                      *)
(***************************************************************************)
EXTENDS MyBall, SequenceTheorems, FunctionTheorems, WellFoundedInduction, TLAPS

-----------------------------------------------------------------------------
(* The invariant. *)

(* What of a game lives together, and that the strokes an answer or a shot *)
(* still brings are ones the server had.                                   *)
Sound(c) ==
    /\ c.answer # NoShot => c.swinging /\ c.ball.strokes + 1 + c.answer.penalty <= MaxStrokes
    /\ c.swinging => c.mode = "addressing"
    /\ c.mode # "walking" => InPlay(c.ball) /\ c.prompt = 0
    /\ c.shot # NoShot =>
          InPlay(c.ball) /\ c.mode # "addressing" /\ c.ball.strokes + c.shot.penalty <= MaxStrokes

TeesNamed(calls) == \A i \in 1..Len(calls) : calls[i].call = "tee_up" => calls[i].hole \in Hole

TypeInv == BallTypeOK /\ Sound(me) /\ TeesNamed(up)

Rows(events) == {i \in DOMAIN events : events[i].kind = "row"}

(* The last row on its way, or heard, is the server's ball.                *)
ToldOf(row, events, ball) ==
    IF Rows(events) = {} THEN row = ball
    ELSE \E i \in Rows(events) : (\A j \in Rows(events) : j <= i) /\ events[i].ball = ball

RowInv == ToldOf(me.row, down, host.ball)

(* A ball teed up and not seen on the server yet: its call, or the call's  *)
(* refusal, is on its way with nothing but shots after it, or the server   *)
(* has the golfer on its hole and only shots can come.                     *)
TeedUp(h, calls, events, ball) ==
    \/ \E i \in 1..Len(calls) :
          /\ calls[i].call = "tee_up" /\ calls[i].hole = h
          /\ \A j \in 1..Len(calls) : j > i => calls[j].call = "take_shot"
    \/ /\ \A j \in 1..Len(calls) : calls[j].call = "take_shot"
       /\ \/ \E i \in 1..Len(events) : events[i].kind = "refused" /\ events[i].call = "tee_up"
          \/ ball.hole = h

Unseen(c) == InPlay(c.ball) /\ ~c.entered

TeeInv == Unseen(me) => TeedUp(me.ball.hole, up, down, host.ball)

(* A ball swung at or in flight: the last call is its hole's shot, and the *)
(* server has the golfer on that hole after it or its refusal comes last.  *)
Struck(h, calls, events, ball) ==
    IF calls # <<>>
    THEN calls[Len(calls)].call = "take_shot" /\ calls[Len(calls)].hole = h
    ELSE \/ ball.hole = h
         \/ /\ events # <<>> /\ events[Len(events)].kind = "refused"
            /\ events[Len(events)].call = "take_shot"

Busy(c) == c.swinging \/ c.shot # NoShot

ShotInv == Busy(me) => Struck(me.ball.hole, up, down, host.ball)

BallInv == TypeInv /\ RowInv /\ TeeInv /\ ShotInv

LEMMA UpTo ==
    ASSUME NEW n \in Nat, NEW P, 0 \in P, \A i \in 1..n : i - 1 \in P => i \in P
    PROVE  \A i \in 0..n : i \in P
<1> SUFFICES ASSUME NEW m \in 0..n, m \notin P PROVE FALSE
    OBVIOUS
<1> DEFINE Out == {i \in Nat : i \in 0..n /\ i \notin P}
<1>1. m \in Out
    OBVIOUS
<1>2. PICK k \in Out : \A l \in Out : ~(<<l, k>> \in OpToRel(<, Nat))
    BY <1>1, WFMin, NatLessThanWellFounded
<1>3. \A l \in Out : ~(l < k)
    BY <1>2 DEF OpToRel
<1>4. k # 0 /\ k \in 1..n /\ k - 1 \notin Out
    BY <1>3
<1> QED
    BY <1>4

(* A recursive function over the places of a sequence exists.              *)
FoldOf(f, S, n, c, H) ==
    f \in [0..n -> S] /\ f[0] = c /\ \A i \in 1..n : f[i] = H[<<f[i - 1], i>>]

LEMMA FoldRuns ==
    ASSUME NEW S, NEW n \in Nat, NEW c \in S, NEW H \in [S \X (1..n) -> S]
    PROVE  \E f : FoldOf(f, S, n, c, H)
<1> DEFINE Runs(f, k) == f \in [0..k -> S] /\ f[0] = c /\ \A i \in 1..k : f[i] = H[<<f[i - 1], i>>]
           P == {k \in 0..n : \E f : Runs(f, k)}
<1>1. 0 \in P
  <2>1. \E f : Runs(f, 0)
    <3> WITNESS [i \in 0..0 |-> c]
    <3> QED
      OBVIOUS
  <2> HIDE DEF Runs
  <2> QED
    BY <2>1
<1>2. ASSUME NEW k \in 1..n, k - 1 \in P PROVE k \in P
  <2>1. PICK f : Runs(f, k - 1)
    BY <1>2
  <2> DEFINE last == H[<<f[k - 1], k>>]
             g == [i \in 0..k |-> IF i = k THEN last ELSE f[i]]
  <2>2. last \in S
    BY <2>1
  <2>3. g \in [0..k -> S]
    BY <2>1, <2>2
  <2>4. g[0] = c
    BY <2>1
  <2>5. ASSUME NEW i \in 1..k PROVE g[i] = H[<<g[i - 1], i>>]
    <3>1. g[i - 1] = f[i - 1] /\ i - 1 \in 0..(k - 1)
      OBVIOUS
    <3>2. CASE i = k
      <4>1. g[i] = last
        BY <3>2
      <4> HIDE DEF g
      <4> QED
        BY <4>1, <3>1, <3>2
    <3>3. CASE i # k
      <4>1. i \in 1..(k - 1) /\ g[i] = f[i]
        BY <3>3
      <4> HIDE DEF g
      <4> QED
        BY <4>1, <3>1, <2>1
    <3> QED
      BY <3>2, <3>3
  <2> HIDE DEF g
  <2>6. Runs(g, k)
    BY <2>3, <2>4, <2>5
  <2> QED
    BY <2>6
<1>3. \A k \in 1..n : k - 1 \in P => k \in P
    BY <1>2
<1>4. n \in P
  <2> HIDE DEF P
  <2>1. \A i \in 0..n : i \in P
    BY <1>1, <1>3, UpTo
  <2> QED
    BY <2>1
<1> QED
    BY <1>4 DEF FoldOf

-----------------------------------------------------------------------------
(* The functions of a game. *)

SoundGame == {c \in Game : Sound(c)}

(* What comes of a game by hearing: it swings or plays a shot only if it   *)
(* did, and has a ball the server was not seen with only if it had, of the *)
(* same hole.                                                              *)
Follows(c, d) ==
    /\ d.out = c.out /\ d.row = c.row
    /\ Busy(d) => Busy(c) /\ d.ball.hole = c.ball.hole
    /\ Unseen(d) => Unseen(c) /\ d.ball.hole = c.ball.hole

LEMMA ShotIsNone == NoShot \notin Shot
BY DEF NoShot, Shot

LEMMA EndKeeps ==
    ASSUME NEW c \in Game
    PROVE  LET d == EndBallPlay(c)
           IN  /\ d \in Game /\ d.ball = c.ball /\ d.round = c.round /\ d.row = c.row /\ d.out = c.out
               /\ d.shot = NoShot /\ d.mode = "walking" /\ ~d.swinging /\ d.answer = NoShot
               /\ ~d.entered /\ d.prompt = 0
BY DEF EndBallPlay, Game

LEMMA Balls ==
    /\ NoBall \in BallRow /\ ~InPlay(NoBall) /\ ~NoBall.inCup /\ NoBall.hole = 0
    /\ \A h \in Hole, n \in 0 .. MaxStrokes, cup \in BOOLEAN :
          Ball(h, n, cup) \in BallRow /\ (InPlay(Ball(h, n, cup)) <=> ~cup)
    /\ \A b \in BallRow :
          /\ b = Ball(b.hole, b.strokes, b.inCup) /\ b.hole \in Hole \cup {0}
          /\ b.strokes \in 0 .. MaxStrokes /\ b.inCup \in BOOLEAN
          /\ InPlay(b) \/ b.inCup => b.hole \in Hole
          /\ b.hole \in Hole <=> b # NoBall
    /\ 0 \notin Hole
<1>1. NoBall \in BallRow /\ ~InPlay(NoBall) /\ ~NoBall.inCup /\ NoBall.hole = 0 /\ 0 \notin Hole
    BY DEF NoBall, Ball, BallRow, InPlay, Hole
<1>2. \A h \in Hole, n \in 0 .. MaxStrokes, cup \in BOOLEAN :
          Ball(h, n, cup) \in BallRow /\ (InPlay(Ball(h, n, cup)) <=> ~cup)
    BY <1>1 DEF NoBall, Ball, BallRow, InPlay
<1>3. ASSUME NEW b \in BallRow
      PROVE  /\ b = Ball(b.hole, b.strokes, b.inCup) /\ b.hole \in Hole \cup {0}
             /\ b.strokes \in 0 .. MaxStrokes /\ b.inCup \in BOOLEAN
             /\ InPlay(b) \/ b.inCup => b.hole \in Hole
             /\ b.hole \in Hole <=> b # NoBall
  <2>1. CASE b = NoBall
    BY <2>1, <1>1, MyBallAssumption DEF NoBall, Ball
  <2>2. CASE b # NoBall
    BY <2>2, <1>1 DEF BallRow, Ball, NoBall
  <2> QED
    BY <2>1, <2>2
<1> QED
    BY <1>1, <1>2, <1>3

LEMMA OnTee ==
    ASSUME NEW h \in Hole, NEW n \in 0 .. MaxStrokes
    PROVE  /\ Ball(h, n, FALSE) \in BallRow /\ InPlay(Ball(h, n, FALSE))
           /\ Ball(h, n, FALSE).hole = h /\ Ball(h, n, FALSE).strokes = n
<1>1. Ball(h, n, FALSE) \in BallRow
    BY DEF Ball, BallRow
<1>2. ~Ball(h, n, FALSE).inCup /\ Ball(h, n, FALSE).hole = h /\ Ball(h, n, FALSE).strokes = n
    BY DEF Ball
<1>3. Ball(h, n, FALSE) # NoBall
    BY <1>2, Balls
<1> QED
    BY <1>1, <1>2, <1>3 DEF InPlay

LEMMA Cupped ==
    ASSUME NEW h \in Hole, NEW n \in 0 .. MaxStrokes
    PROVE  /\ [Ball(h, n, FALSE) EXCEPT !.inCup = TRUE] = Ball(h, n, TRUE)
           /\ Ball(h, n, TRUE) \in BallRow /\ ~InPlay(Ball(h, n, TRUE))
<1>1. ASSUME NEW no, NEW yes PROVE [Ball(h, n, no) EXCEPT !.inCup = yes] = Ball(h, n, yes)
    BY DEF Ball
<1>2. Ball(h, n, TRUE) \in BallRow
    BY DEF Ball, BallRow
<1>3. Ball(h, n, TRUE).inCup
    BY DEF Ball
<1> QED
    BY <1>1, <1>2, <1>3 DEF InPlay

LEMMA Restroked ==
    ASSUME NEW b \in BallRow, NEW n \in 0 .. MaxStrokes
    PROVE  [b EXCEPT !.strokes = n] = Ball(b.hole, n, b.inCup)
<1> DEFINE h == b.hole
           cup == b.inCup
           k == b.strokes
<1>1. b = [hole |-> h, strokes |-> k, inCup |-> cup]
    BY Balls DEF Ball
<1> HIDE DEF h, cup, k
<1>2. [b EXCEPT !.strokes = n] = [hole |-> h, strokes |-> n, inCup |-> cup]
    BY <1>1
<1> QED
    BY <1>2 DEF h, cup, Ball

(* A ball adopted ends what was played, and was seen on the server.        *)
LEMMA Adopted ==
    ASSUME NEW c \in SoundGame
    PROVE  LET d == AdoptServerBall(c)
           IN  /\ d \in SoundGame /\ d.out = c.out /\ d.row = c.row
               /\ ~Busy(d) /\ ~Unseen(d) /\ (d.ball = c.row \/ ~InPlay(d.ball))
<1>1. c \in Game
    BY DEF SoundGame
<1> DEFINE strokes == [c.ball EXCEPT !.strokes = c.row.strokes]
           struck == [c EXCEPT !.ball.strokes = c.row.strokes]
           round == [c.round EXCEPT ![c.ball.hole] = c.row.strokes]
<1>2. CASE c.row.hole = c.ball.hole /\ c.row.inCup /\ InPlay(c.ball)
  <2> DEFINE d == AdoptServerBall(c)
  <2>1. d = CompleteHole(struck)
    BY <1>2 DEF AdoptServerBall
  <2>2. c.ball \in BallRow /\ c.row \in BallRow
    BY <1>1 DEF Game
  <2>3. strokes = Ball(c.ball.hole, c.row.strokes, FALSE) /\ strokes \in BallRow /\ c.ball.hole \in Hole
    <3>1. ~c.ball.inCup /\ c.ball.hole \in Hole /\ c.row.strokes \in 0 .. MaxStrokes
      BY <1>2, <2>2, Balls DEF InPlay
    <3>2. c.ball.inCup = FALSE
      BY <3>1, <2>2, Balls
    <3>3. strokes = Ball(c.ball.hole, c.row.strokes, FALSE)
      BY <3>1, <3>2, <2>2, Restroked
    <3> HIDE DEF strokes
    <3> QED
      BY <3>3, <3>1, Balls
  <2>5. struck = [c EXCEPT !.ball = strokes]
    BY <1>1 DEF Game
  <2> HIDE DEF strokes, struck
  <2>6. struck \in Game /\ struck.ball = strokes /\ struck.round = c.round /\ struck.out = c.out /\ struck.row = c.row
    BY <1>1, <2>3, <2>5 DEF Game
  <2>7. InPlay(strokes) /\ strokes.hole = c.ball.hole /\ strokes.strokes = c.row.strokes
    BY <2>3, <2>2, Balls DEF Ball
  <2>8. PICK scored \in Game : /\ d = [EndBallPlay(scored) EXCEPT !.ball.inCup = TRUE]
                               /\ scored.ball = strokes /\ scored.out = c.out /\ scored.row = c.row
    <3> DEFINE scored == IF practice THEN struck ELSE [struck EXCEPT !.round = round]
    <3>1. round \in [Hole -> 0 .. MaxStrokes]
      BY <1>1, <2>2, <2>3, Balls DEF Game
    <3>2. [struck EXCEPT !.round[struck.ball.hole] = struck.ball.strokes] = [struck EXCEPT !.round = round]
      BY <2>6, <2>7 DEF Game
    <3>3. d = [EndBallPlay(scored) EXCEPT !.ball.inCup = TRUE]
      BY <2>1, <2>6, <2>7, <3>2 DEF CompleteHole
    <3>4. scored \in Game /\ scored.ball = strokes /\ scored.out = c.out /\ scored.row = c.row
      BY <2>6, <3>1 DEF Game
    <3> QED
      BY <3>3, <3>4
  <2> DEFINE e == EndBallPlay(scored)
             cupped == [e.ball EXCEPT !.inCup = TRUE]
  <2>9. /\ e \in Game /\ e.ball = strokes /\ e.out = c.out /\ e.row = c.row
        /\ e.shot = NoShot /\ e.mode = "walking" /\ ~e.swinging /\ e.answer = NoShot
    BY <2>8, EndKeeps
  <2> HIDE DEF e
  <2>10. c.row.strokes \in 0 .. MaxStrokes
    BY <2>2, Balls
  <2>11. cupped \in BallRow /\ ~InPlay(cupped)
    <3>1. e.ball = Ball(c.ball.hole, c.row.strokes, FALSE) /\ c.ball.hole \in Hole
      BY <2>3, <2>9
    <3>2. cupped = [Ball(c.ball.hole, c.row.strokes, FALSE) EXCEPT !.inCup = TRUE]
      BY <3>1, Zenon
    <3> HIDE DEF cupped
    <3> QED
      BY <3>1, <3>2, <2>10, Cupped
  <2> HIDE DEF cupped
  <2>12. d = [e EXCEPT !.ball = cupped]
    BY <2>8, <2>9 DEF Game, e, cupped
  <2> HIDE DEF d
  <2>13. /\ d \in Game /\ d.ball = cupped /\ d.out = c.out /\ d.row = c.row
         /\ d.shot = NoShot /\ d.mode = "walking" /\ ~d.swinging /\ d.answer = NoShot
    BY <2>12, <2>9, <2>11 DEF Game
  <2>14. d \in SoundGame /\ d.out = c.out /\ d.row = c.row /\ ~Busy(d) /\ ~Unseen(d) /\ ~InPlay(d.ball)
    BY <2>13, <2>11 DEF SoundGame, Sound, Busy, Unseen
  <2> QED
    BY <2>14 DEF d
<1>3. CASE ~(c.row.hole = c.ball.hole /\ c.row.inCup /\ InPlay(c.ball))
  <2> DEFINE d == AdoptServerBall(c)
             e == EndBallPlay(c)
  <2>1. d = [e EXCEPT !.ball = c.row, !.entered = InPlay(c.row)]
    BY <1>3 DEF AdoptServerBall
  <2>2. /\ e \in Game /\ e.out = c.out /\ e.row = c.row
        /\ e.shot = NoShot /\ e.mode = "walking" /\ ~e.swinging /\ e.answer = NoShot
    BY <1>1, EndKeeps
  <2>3. c.row \in BallRow /\ InPlay(c.row) \in BOOLEAN
    BY <1>1 DEF Game, InPlay
  <2> HIDE DEF d, e
  <2>4. /\ d \in Game /\ d.ball = c.row /\ d.entered = InPlay(c.row) /\ d.out = c.out /\ d.row = c.row
        /\ d.shot = NoShot /\ d.mode = "walking" /\ ~d.swinging /\ d.answer = NoShot
    BY <2>1, <2>2, <2>3 DEF Game
  <2>5. /\ d \in SoundGame /\ d.out = c.out /\ d.row = c.row /\ ~Busy(d) /\ ~Unseen(d)
        /\ d.ball = c.row
    BY <2>4 DEF SoundGame, Sound, Busy, Unseen
  <2> QED
    BY <2>5 DEF d
<1> QED
  BY <1>2, <1>3

LEMMA RefusalTaken ==
    ASSUME NEW c \in SoundGame, NEW call \in Calls
    PROVE  LET d == TakeRefusal(c, call)
           IN  /\ d \in SoundGame /\ d.out = c.out /\ d.row = c.row /\ ~Busy(d)
               /\ Unseen(d) => Unseen(c) /\ d.ball.hole = c.ball.hole /\ call # "tee_up"
<1> DEFINE d == TakeRefusal(c, call)
<1>1. c \in Game /\ Sound(c)
    BY DEF SoundGame
<1>2. CASE call = "take_shot" /\ c.mode = "addressing" /\ c.swinging
  <2>1. d = [c EXCEPT !.swinging = FALSE, !.answer = NoShot]
    BY <1>2 DEF TakeRefusal
  <2> HIDE DEF d
  <2>2. /\ d \in Game /\ d.ball = c.ball /\ d.entered = c.entered /\ d.out = c.out /\ d.row = c.row
        /\ d.shot = c.shot /\ d.mode = c.mode /\ ~d.swinging /\ d.answer = NoShot /\ d.prompt = c.prompt
    BY <2>1, <1>1 DEF Game
  <2>3. c.shot = NoShot
    BY <1>2, <1>1 DEF Sound
  <2>4. /\ d \in SoundGame /\ d.out = c.out /\ d.row = c.row /\ ~Busy(d)
        /\ Unseen(d) => Unseen(c) /\ d.ball.hole = c.ball.hole /\ call # "tee_up"
    BY <2>2, <2>3, <1>1, <1>2 DEF SoundGame, Sound, Busy, Unseen
  <2> QED
    BY <2>4 DEF d
<1>3. CASE ~(call = "take_shot" /\ c.mode = "addressing" /\ c.swinging)
  <2>1. d = AdoptServerBall(c)
    BY <1>3 DEF TakeRefusal
  <2> QED
    BY <2>1, Adopted
<1> QED
  BY <1>2, <1>3

LEMMA ShotHeard ==
    ASSUME NEW c \in SoundGame, NEW event \in Event, event.kind = "row"
    PROVE  LET d == TakeShotEvent(c, event) IN d \in SoundGame /\ Follows(c, d)
<1> DEFINE d == TakeShotEvent(c, event)
<1>1. c \in Game /\ Sound(c)
    BY DEF SoundGame
<1>2. CASE event.shot # NoShot /\ AnswersMySwing(c, event)
  <2>1. d = [c EXCEPT !.answer = event.shot]
    BY <1>2 DEF TakeShotEvent
  <2>2. event.ball \in BallRow /\ event.shot \in Shot
    BY <1>2 DEF Event
  <2>3. event.ball.strokes \in 0 .. MaxStrokes /\ c.ball.strokes \in 0 .. MaxStrokes /\ event.shot.penalty \in 0 .. 3
    BY <2>2, <1>1, Balls DEF Game, Shot
  <2>4. c.swinging /\ event.ball.strokes - event.shot.penalty = c.ball.strokes + 1
    BY <1>2 DEF AnswersMySwing
  <2>5. c.ball.strokes + 1 + event.shot.penalty <= MaxStrokes
    BY <2>3, <2>4, MyBallAssumption
  <2> HIDE DEF d
  <2>6. /\ d \in Game /\ d.ball = c.ball /\ d.entered = c.entered /\ d.out = c.out /\ d.row = c.row
        /\ d.shot = c.shot /\ d.mode = c.mode /\ d.swinging = c.swinging /\ d.answer = event.shot
        /\ d.prompt = c.prompt
    BY <2>1, <2>2, <1>1 DEF Game
  <2>7. d \in SoundGame /\ Follows(c, d)
    BY <2>4, <2>5, <2>6, <1>1 DEF SoundGame, Sound, Follows, Busy, Unseen
  <2> QED
    BY <2>7 DEF d
<1>3. CASE ~(event.shot # NoShot /\ AnswersMySwing(c, event))
  BY <1>3 DEF TakeShotEvent, Follows
<1> QED
  BY <1>2, <1>3

(* Once it has the ball on its hole, the server is followed off it too.    *)
LEMMA Followed ==
    ASSUME NEW c \in SoundGame
    PROVE  LET d == FollowServerHole(c) IN d \in SoundGame /\ Follows(c, d)
<1> DEFINE d == FollowServerHole(c)
<1>1. c \in Game /\ Sound(c)
    BY DEF SoundGame
<1>2. CASE InPlay(c.ball) /\ c.shot = NoShot /\ c.row.hole = c.ball.hole /\ ~c.row.inCup
  <2>1. d = [c EXCEPT !.entered = TRUE]
    BY <1>2 DEF FollowServerHole
  <2> HIDE DEF d
  <2>2. /\ d \in Game /\ d.ball = c.ball /\ d.entered /\ d.out = c.out /\ d.row = c.row
        /\ d.shot = c.shot /\ d.mode = c.mode /\ d.swinging = c.swinging /\ d.answer = c.answer
        /\ d.prompt = c.prompt
    BY <2>1, <1>1 DEF Game
  <2>3. d \in SoundGame /\ Follows(c, d)
    BY <2>2, <1>1 DEF SoundGame, Sound, Follows, Busy, Unseen
  <2> QED
    BY <2>3 DEF d
<1>3. CASE d = AdoptServerBall(c)
  BY <1>3, Adopted DEF Follows
<1>4. CASE d = c
  BY <1>4 DEF Follows
<1> QED
  BY <1>2, <1>3, <1>4 DEF FollowServerHole

(* What is left of a game when the refusals heard are taken: whatever it   *)
(* swung at or played is given up on any, and a ball teed up unseen on the *)
(* refusal of a tee.                                                       *)
LEMMA RefusalsTaken ==
    ASSUME NEW c \in SoundGame, NEW events \in Seq(Event)
    PROVE  LET d == TakeRefusals(c, events)
           IN  /\ d \in SoundGame /\ Follows(c, d)
               /\ \A j \in 1..Len(events) :
                     events[j].kind = "refused" => ~Busy(d) /\ (events[j].call = "tee_up" => ~Unseen(d))
<1> DEFINE n == Len(events)
           Step(x, i) == IF events[i].kind = "refused" THEN TakeRefusal(x, events[i].call) ELSE x
           H == [xi \in SoundGame \X (1..n) |-> Step(xi[1], xi[2])]
           Refused(d, i) == \A j \in 1..i :
                     events[j].kind = "refused" => ~Busy(d) /\ (events[j].call = "tee_up" => ~Unseen(d))
           told[i \in 0..n] == IF i = 0 THEN c
                               ELSE IF events[i].kind = "refused" THEN TakeRefusal(told[i - 1], events[i].call)
                               ELSE told[i - 1]
<1>1. n \in Nat /\ \A i \in 1..n : events[i] \in Event
    BY ElementOfSeq, LenProperties
<1>2. ASSUME NEW x \in SoundGame, NEW i \in 1..n, events[i].kind = "refused"
      PROVE  LET d == TakeRefusal(x, events[i].call)
             IN  /\ d \in SoundGame /\ Follows(x, d) /\ ~Busy(d)
                 /\ events[i].call = "tee_up" => ~Unseen(d)
  <2>1. events[i].call \in Calls
      BY <1>1, <1>2 DEF Event
  <2> QED
      BY <2>1, RefusalTaken DEF Follows
<1>3. \A x \in SoundGame, i \in 1..n : Step(x, i) \in SoundGame
    BY <1>2
<1>4. H \in [SoundGame \X (1..n) -> SoundGame] /\ \A x \in SoundGame, i \in 1..n : H[<<x, i>>] = Step(x, i)
  <2> HIDE DEF Step, n
  <2> QED
      BY <1>3
<1>5. PICK f : FoldOf(f, SoundGame, n, c, H)
  <2> HIDE DEF H, n, told, Step, Refused
  <2> QED
      BY <1>1, <1>4, FoldRuns
<1>6. \A i \in 1..n : f[i] = Step(f[i - 1], i)
  <2> HIDE DEF H, Step
  <2>1. \A i \in 1..n : f[i - 1] \in SoundGame
      BY <1>5 DEF FoldOf
  <2> QED
      BY <1>4, <1>5, <2>1 DEF FoldOf
<1>7. told = [i \in 0..n |-> IF i = 0 THEN c
                             ELSE IF events[i].kind = "refused" THEN TakeRefusal(told[i - 1], events[i].call)
                             ELSE told[i - 1]]
  <2>1. f = [i \in 0..n |-> IF i = 0 THEN c
                             ELSE IF events[i].kind = "refused" THEN TakeRefusal(f[i - 1], events[i].call)
                             ELSE f[i - 1]]
      BY <1>1, <1>5, <1>6 DEF FoldOf
  <2> QED
      BY <2>1
<1>8. told[0] = c /\ \A i \in 1..n : told[i] = Step(told[i - 1], i)
  <2> HIDE DEF told, H, Refused
  <2> QED
      BY <1>1, <1>7
<1> HIDE DEF told, H
<1> DEFINE P == {i \in 0..n : told[i] \in SoundGame /\ Follows(c, told[i]) /\ Refused(told[i], i)}
<1>9. 0 \in P
  BY <1>1, <1>8 DEF Follows
<1>10. ASSUME NEW i \in 1..n, i - 1 \in P PROVE i \in P
  <2> DEFINE x == told[i - 1]
             d == told[i]
  <2>1. d = Step(x, i)
      BY <1>8
  <2>2. x \in SoundGame /\ Follows(c, x) /\ Refused(x, i - 1)
      BY <1>10 DEF x
  <2> HIDE DEF x, d, P
  <2>3. CASE events[i].kind = "refused"
    <3>1. d = TakeRefusal(x, events[i].call)
      BY <2>1, <2>3
    <3>2. d \in SoundGame /\ Follows(x, d) /\ ~Busy(d) /\ (events[i].call = "tee_up" => ~Unseen(d))
      BY <3>1, <2>2, <2>3, <1>2
    <3>3. Follows(c, d)
      BY <3>2, <2>2 DEF Follows
    <3>4. ASSUME NEW j \in 1..i, events[j].kind = "refused"
          PROVE  ~Busy(d) /\ (events[j].call = "tee_up" => ~Unseen(d))
      <4>1. CASE j = i
        BY <4>1, <3>2
      <4>2. CASE j \in 1..(i - 1)
        BY <4>2, <3>2, <3>4, <2>2 DEF Follows
      <4> QED
        BY <4>1, <4>2
    <3> QED
      BY <3>2, <3>3, <3>4 DEF d, P
  <2>4. CASE events[i].kind # "refused"
    <3>1. d = x
      BY <2>1, <2>4
    <3>2. Refused(d, i)
      <4> SUFFICES ASSUME NEW j \in 1..i, events[j].kind = "refused"
                   PROVE  ~Busy(d) /\ (events[j].call = "tee_up" => ~Unseen(d))
        OBVIOUS
      <4>1. j \in 1..(i - 1)
        BY <2>4
      <4> QED
        BY <4>1, <3>1, <2>2
    <3> HIDE DEF Refused
    <3> QED
      BY <3>1, <3>2, <2>2 DEF d, P
  <2> QED
      BY <2>3, <2>4
<1>11. n \in P
  <2> HIDE DEF P
  <2>1. \A i \in 1..n : i - 1 \in P => i \in P
      BY <1>10
  <2>2. \A i \in 0..n : i \in P
      BY <1>1, <1>9, <2>1, UpTo
  <2> QED
      BY <1>1, <2>2
<1>12. TakeRefusals(c, events) = told[n]
  BY DEF TakeRefusals, told
<1>13. told[n] \in SoundGame /\ Follows(c, told[n]) /\ Refused(told[n], n)
  BY <1>11
<1> QED
  BY <1>12, <1>13

LEMMA RoomEventsTaken ==
    ASSUME NEW c \in SoundGame, NEW events \in Seq(Event)
    PROVE  LET d == TakeRoomEvents(c, events) IN d \in SoundGame /\ Follows(c, d)
<1> DEFINE n == Len(events)
           Step(x, i) == IF events[i].kind = "row" THEN TakeShotEvent(x, events[i]) ELSE x
           H == [xi \in SoundGame \X (1..n) |-> Step(xi[1], xi[2])]
           shown[i \in 0..n] == IF i = 0 THEN c
                                ELSE IF events[i].kind = "row" THEN TakeShotEvent(shown[i - 1], events[i])
                                ELSE shown[i - 1]
<1>1. n \in Nat /\ \A i \in 1..n : events[i] \in Event
    BY ElementOfSeq, LenProperties
<1>2. ASSUME NEW x \in SoundGame, NEW i \in 1..n PROVE Step(x, i) \in SoundGame /\ Follows(x, Step(x, i))
  <2>1. CASE events[i].kind = "row"
      BY <1>1, <2>1, ShotHeard
  <2>2. CASE events[i].kind # "row"
      BY <2>2 DEF Follows
  <2> QED
      BY <2>1, <2>2
<1>3. \A x \in SoundGame, i \in 1..n : Step(x, i) \in SoundGame
    BY <1>2
<1>4. H \in [SoundGame \X (1..n) -> SoundGame] /\ \A x \in SoundGame, i \in 1..n : H[<<x, i>>] = Step(x, i)
  <2> HIDE DEF Step, n
  <2> QED
      BY <1>3
<1>5. PICK f : FoldOf(f, SoundGame, n, c, H)
  <2> HIDE DEF H, n, shown, Step
  <2> QED
      BY <1>1, <1>4, FoldRuns
<1>6. \A i \in 1..n : f[i] = Step(f[i - 1], i)
  <2> HIDE DEF H, Step
  <2>1. \A i \in 1..n : f[i - 1] \in SoundGame
      BY <1>5 DEF FoldOf
  <2> QED
      BY <1>4, <1>5, <2>1 DEF FoldOf
<1>7. shown = [i \in 0..n |-> IF i = 0 THEN c
                              ELSE IF events[i].kind = "row" THEN TakeShotEvent(shown[i - 1], events[i])
                              ELSE shown[i - 1]]
  <2>1. f = [i \in 0..n |-> IF i = 0 THEN c
                            ELSE IF events[i].kind = "row" THEN TakeShotEvent(f[i - 1], events[i])
                            ELSE f[i - 1]]
      BY <1>1, <1>5, <1>6 DEF FoldOf
  <2> QED
      BY <2>1
<1>8. shown[0] = c /\ \A i \in 1..n : shown[i] = Step(shown[i - 1], i)
  <2> HIDE DEF shown, H
  <2> QED
      BY <1>1, <1>7
<1> HIDE DEF shown, H
<1> DEFINE P == {i \in 0..n : shown[i] \in SoundGame /\ Follows(c, shown[i])}
<1>9. 0 \in P
  BY <1>1, <1>8 DEF Follows
<1>10. ASSUME NEW i \in 1..n, i - 1 \in P PROVE i \in P
  <2>1. shown[i - 1] \in SoundGame /\ Follows(c, shown[i - 1]) /\ shown[i] = Step(shown[i - 1], i)
      BY <1>8, <1>10
  <2> HIDE DEF Step
  <2>2. shown[i] \in SoundGame /\ Follows(shown[i - 1], shown[i])
      BY <2>1, <1>2
  <2> QED
      BY <2>1, <2>2 DEF Follows
<1>11. n \in P
  <2> HIDE DEF P
  <2>1. \A i \in 1..n : i - 1 \in P => i \in P
      BY <1>10
  <2>2. \A i \in 0..n : i \in P
      BY <1>1, <1>9, <2>1, UpTo
  <2> QED
      BY <1>1, <2>2
<1>12. TakeRoomEvents(c, events) = shown[n]
  BY DEF TakeRoomEvents, shown
<1> QED
  BY <1>11, <1>12

LEMMA Greatest ==
    ASSUME NEW n \in Nat, NEW S, S \subseteq 1..n, S # {}
    PROVE  Max(S) \in S /\ \A j \in S : j <= Max(S)
<1> DEFINE T == {k \in Nat : n - k \in S}
<1>1. PICK s \in S : TRUE
    OBVIOUS
<1>2. n - s \in T
    BY <1>1
<1>3. PICK k \in T : \A l \in T : ~(<<l, k>> \in OpToRel(<, Nat))
    BY <1>2, WFMin, NatLessThanWellFounded
<1>4. \A l \in T : ~(l < k)
    BY <1>3 DEF OpToRel
<1>5. ASSUME NEW j \in S PROVE n - k >= j
  <2>1. j \in 1..n
    OBVIOUS
  <2>2. n - j \in T
    BY <2>1
  <2>3. ~(n - j < k)
    BY <1>4, <2>2
  <2>4. k \in Nat
    OBVIOUS
  <2> HIDE DEF T
  <2> QED
    BY <2>1, <2>3, <2>4
<1>6. n - k \in S
    OBVIOUS
<1>7. Max(S) \in S /\ \A j \in S : Max(S) >= j
  <2> HIDE DEF T
  <2> QED
    BY <1>5, <1>6 DEF Max
<1>8. \A j \in S : j \in Int
    OBVIOUS
<1> QED
    BY <1>7, <1>8


(* The rows heard leave the last of them, whatever is still on its way.    *)
LEMMA RowsSeen ==
    ASSUME NEW c \in SoundGame, NEW events \in Seq(Event)
    PROVE  LET d == SeeRows(c, events)
           IN  /\ d \in SoundGame /\ d.out = c.out /\ d.ball = c.ball
               /\ (Busy(d) <=> Busy(c)) /\ (Unseen(d) <=> Unseen(c))
               /\ ToldOf(c.row, events, d.row)
<1> DEFINE d == SeeRows(c, events)
           last == events[Max(Rows(events))].ball
<1>1. Rows(events) \subseteq 1..Len(events) /\ Len(events) \in Nat
    BY DEF Rows
<1>2. c \in Game /\ Sound(c)
    BY DEF SoundGame
<1>3. CASE Rows(events) = {}
  <2>1. d = c
    BY <1>3 DEF SeeRows, Rows
  <2> QED
    BY <2>1, <1>3 DEF ToldOf
<1>4. CASE Rows(events) # {}
  <2>1. Max(Rows(events)) \in Rows(events) /\ \A j \in Rows(events) : j <= Max(Rows(events))
    BY <1>1, <1>4, Greatest
  <2>2. Max(Rows(events)) \in 1..Len(events) /\ events[Max(Rows(events))].kind = "row"
    BY <2>1, <1>1 DEF Rows
  <2>3. last \in BallRow
    BY <2>2, ElementOfSeq DEF Event
  <2>4. d = [c EXCEPT !.row = last]
    BY <1>4 DEF SeeRows, Rows
  <2>5. ToldOf(c.row, events, last)
    BY <2>1, <1>4 DEF ToldOf
  <2> HIDE DEF d, last
  <2>6. /\ d \in Game /\ d.row = last /\ d.ball = c.ball /\ d.entered = c.entered /\ d.out = c.out
        /\ d.shot = c.shot /\ d.mode = c.mode /\ d.swinging = c.swinging /\ d.answer = c.answer
        /\ d.prompt = c.prompt
    BY <2>3, <2>4, <1>2 DEF Game
  <2>7. d \in SoundGame
    BY <2>6, <1>2 DEF SoundGame, Sound
  <2> QED
    BY <2>5, <2>6, <2>7 DEF Busy, Unseen, d
<1> QED
  BY <1>3, <1>4

(* What a frame leaves of the game it was played to.                       *)
Leaves(c, events, d) ==
    /\ d \in SoundGame /\ d.out = c.out /\ ToldOf(c.row, events, d.row)
    /\ Busy(d) => Busy(c) /\ d.ball.hole = c.ball.hole
    /\ Unseen(d) => Unseen(c) /\ d.ball.hole = c.ball.hole
    /\ \A j \in 1..Len(events) :
          events[j].kind = "refused" => ~Busy(d) /\ (events[j].call = "tee_up" => ~Unseen(d))

LEMMA HeardLeaves ==
    ASSUME NEW c \in SoundGame, NEW events \in Seq(Event)
    PROVE  Leaves(c, events, Heard(c, events))
<1> DEFINE s == SeeRows(c, events)
           r == TakeRefusals(s, events)
           d == TakeRoomEvents(r, events)
<1>1. /\ s \in SoundGame /\ s.out = c.out /\ s.ball = c.ball
      /\ (Busy(s) <=> Busy(c)) /\ (Unseen(s) <=> Unseen(c)) /\ ToldOf(c.row, events, s.row)
    BY RowsSeen
<1> HIDE DEF s
<1>2. /\ r \in SoundGame /\ Follows(s, r)
      /\ \A j \in 1..Len(events) :
            events[j].kind = "refused" => ~Busy(r) /\ (events[j].call = "tee_up" => ~Unseen(r))
    BY <1>1, RefusalsTaken
<1> HIDE DEF r
<1>3. d \in SoundGame /\ Follows(r, d)
    BY <1>2, RoomEventsTaken
<1>4. d = Heard(c, events)
    BY DEF Heard, s, r
<1> HIDE DEF d
<1> QED
    BY <1>1, <1>2, <1>3, <1>4 DEF Leaves, Follows

LEMMA OnlineLeaves ==
    ASSUME NEW c \in SoundGame, NEW events \in Seq(Event)
    PROVE  Leaves(c, events, Online(c, events))
<1> DEFINE x == Heard(c, events)
           d == FollowServerHole(x)
<1>1. Leaves(c, events, x)
    BY HeardLeaves
<1> HIDE DEF x
<1>2. d \in SoundGame /\ Follows(x, d)
    BY <1>1, Followed DEF Leaves
<1>3. d = Online(c, events)
    BY DEF Online, x
<1> HIDE DEF d
<1> QED
    BY <1>1, <1>2, <1>3 DEF Leaves, Follows

-----------------------------------------------------------------------------
(* What a frame leaves on its way. *)

LEMMA Rest ==
    ASSUME NEW events \in Seq(Event), NEW count \in 0..Len(events)
    PROVE  LET heard == SubSeq(events, 1, count)
               rest == SubSeq(events, count + 1, Len(events))
           IN  /\ heard \in Seq(Event) /\ Len(heard) = count
               /\ \A i \in 1..count : heard[i] = events[i]
               /\ rest \in Seq(Event) /\ Len(rest) = Len(events) - count
               /\ \A i \in 1..(Len(events) - count) : rest[i] = events[count + i]
<1> DEFINE heard == SubSeq(events, 1, count)
           rest == SubSeq(events, count + 1, Len(events))
<1>1. Len(events) \in Nat /\ \A i \in 1..Len(events) : events[i] \in Event
    BY ElementOfSeq, LenProperties
<1>2. heard \in Seq(Event) /\ Len(heard) = count /\ \A i \in 1..count : heard[i] = events[i]
    BY <1>1, SubSeqProperties
<1>3. rest \in Seq(Event) /\ Len(rest) = Len(events) - count
    BY <1>1, SubSeqProperties
<1>4. ASSUME NEW i \in 1..(Len(events) - count) PROVE rest[i] = events[count + i]
    BY <1>1, SubSeqProperties
<1> QED
    BY <1>2, <1>3, <1>4

LEMMA RestTold ==
    ASSUME NEW events \in Seq(Event), NEW count \in 0..Len(events), NEW row, NEW seen, NEW ball,
           ToldOf(row, SubSeq(events, 1, count), seen), ToldOf(row, events, ball)
    PROVE  ToldOf(seen, SubSeq(events, count + 1, Len(events)), ball)
<1> DEFINE heard == SubSeq(events, 1, count)
           rest == SubSeq(events, count + 1, Len(events))
           n == Len(events)
<1>1. /\ n \in Nat /\ heard \in Seq(Event) /\ Len(heard) = count
      /\ \A i \in 1..count : heard[i] = events[i]
      /\ rest \in Seq(Event) /\ Len(rest) = n - count
      /\ \A i \in 1..(n - count) : rest[i] = events[count + i]
    BY Rest, LenProperties
<1>2. ToldOf(row, heard, seen) /\ ToldOf(row, events, ball)
    OBVIOUS
<1> HIDE DEF heard, rest
<1>3. /\ Rows(events) = {i \in 1..n : events[i].kind = "row"}
      /\ Rows(heard) = {i \in 1..count : heard[i].kind = "row"}
      /\ Rows(rest) = {i \in 1..(n - count) : rest[i].kind = "row"}
    BY <1>1 DEF Rows
<1>4. count \in 0..n
    OBVIOUS
<1> HIDE DEF n
<1>5. CASE Rows(rest) = {}
  <2>1. \A i \in Rows(events) : i \in Rows(heard)
    <3> SUFFICES ASSUME NEW i \in Rows(events), i \notin Rows(heard) PROVE FALSE
      OBVIOUS
    <3>1. i \in 1..n /\ i > count
      BY <1>1, <1>3
    <3>2. i - count \in 1..(n - count) /\ count + (i - count) = i
      BY <1>1, <1>4, <3>1
    <3>3. rest[i - count] = events[i]
      BY <1>1, <3>2
    <3> QED
      BY <1>3, <1>5, <3>2, <3>3
  <2>2. \A i \in Rows(heard) : i \in Rows(events) /\ heard[i] = events[i]
    BY <1>1, <1>3
  <2>3. seen = ball
    <3>1. CASE Rows(events) = {}
      BY <3>1, <2>1, <2>2, <1>2 DEF ToldOf
    <3>2. CASE Rows(events) # {}
      <4>1. PICK i \in Rows(events) : (\A j \in Rows(events) : j <= i) /\ events[i].ball = ball
        BY <1>2, <3>2 DEF ToldOf
      <4>2. PICK k \in Rows(heard) : (\A j \in Rows(heard) : j <= k) /\ heard[k].ball = seen
        BY <1>2, <2>1, <3>2 DEF ToldOf
      <4>3. i <= k /\ k <= i /\ i \in Nat /\ k \in Nat
        BY <4>1, <4>2, <2>1, <2>2, <1>3
      <4>4. i = k
        BY <4>3
      <4> QED
        BY <4>1, <4>2, <4>4, <2>2
    <3> QED
      BY <3>1, <3>2
  <2> QED
    <3>1. ToldOf(seen, rest, ball)
      BY <1>5, <2>3 DEF ToldOf
    <3> QED
      BY <3>1 DEF rest, n
<1>6. CASE Rows(rest) # {}
  <2>1. \A j \in Rows(rest) : count + j \in Rows(events) /\ rest[j] = events[count + j]
    BY <1>1, <1>3
  <2>2. PICK i \in Rows(events) : (\A j \in Rows(events) : j <= i) /\ events[i].ball = ball
    BY <1>2, <1>6, <2>1 DEF ToldOf
  <2>3. PICK j \in Rows(rest) : TRUE
    BY <1>6
  <2>4. count + j <= i /\ j \in 1..(n - count) /\ i \in 1..n
    BY <2>1, <2>2, <1>3
  <2>5. i - count \in 1..(n - count) /\ count + (i - count) = i
    BY <1>1, <1>4, <2>4
  <2>6. rest[i - count] = events[i]
    BY <1>1, <2>5
  <2>7. i - count \in Rows(rest)
    BY <1>3, <2>5, <2>6
  <2>8. \A k \in Rows(rest) : k <= i - count
    <3> SUFFICES ASSUME NEW k \in Rows(rest) PROVE k <= i - count
      OBVIOUS
    <3>1. count + k <= i /\ k \in Nat
      BY <2>1, <2>2, <1>3
    <3> QED
      BY <3>1, <2>4
  <2> QED
    <3>1. ToldOf(seen, rest, ball)
      BY <1>6, <2>2, <2>6, <2>7, <2>8 DEF ToldOf
    <3> QED
      BY <3>1 DEF rest, n
<1> QED
  BY <1>5, <1>6 DEF rest, n

LEMMA RestTeed ==
    ASSUME NEW events \in Seq(Event), NEW count \in 0..Len(events), NEW calls, NEW h, NEW ball,
           TeedUp(h, calls, events, ball),
           \A j \in 1..count : ~(events[j].kind = "refused" /\ events[j].call = "tee_up")
    PROVE  TeedUp(h, calls, SubSeq(events, count + 1, Len(events)), ball)
<1> DEFINE rest == SubSeq(events, count + 1, Len(events))
           n == Len(events)
<1>1. /\ n \in Nat /\ Len(rest) = n - count
      /\ \A i \in 1..(n - count) : rest[i] = events[count + i]
    BY Rest, LenProperties
<1> HIDE DEF rest
<1>2. ASSUME NEW i \in 1..n, events[i].kind = "refused", events[i].call = "tee_up"
      PROVE  \E j \in 1..Len(rest) : rest[j].kind = "refused" /\ rest[j].call = "tee_up"
  <2>1. i - count \in 1..(n - count) /\ count + (i - count) = i
    BY <1>1, <1>2
  <2>2. rest[i - count] = events[i] /\ i - count \in 1..Len(rest)
    BY <1>1, <2>1
  <2> QED
    BY <2>2, <1>2
<1>3. TeedUp(h, calls, rest, ball)
  BY <1>2 DEF TeedUp
<1> QED
  BY <1>3 DEF rest

LEMMA RestStruck ==
    ASSUME NEW events \in Seq(Event), NEW count \in 0..Len(events), NEW calls, NEW h, NEW ball,
           Struck(h, calls, events, ball), \A j \in 1..count : events[j].kind # "refused"
    PROVE  Struck(h, calls, SubSeq(events, count + 1, Len(events)), ball)
<1> DEFINE rest == SubSeq(events, count + 1, Len(events))
           n == Len(events)
<1>1. /\ n \in Nat /\ Len(rest) = n - count /\ rest \in Seq(Event)
      /\ \A i \in 1..(n - count) : rest[i] = events[count + i]
    BY Rest, LenProperties
<1> HIDE DEF rest
<1>2. ASSUME events # <<>>, events[n].kind = "refused"
      PROVE  rest # <<>> /\ rest[Len(rest)] = events[n]
  <2>1. n # 0
    BY <1>1, <1>2, EmptySeq
  <2>2. count # n
    BY <1>1, <1>2, <2>1
  <2>3. n - count \in 1..(n - count) /\ count + (n - count) = n
    BY <1>1, <2>2
  <2>4. rest[Len(rest)] = events[n]
    BY <1>1, <2>3
  <2> QED
    BY <1>1, <2>3, <2>4, EmptySeq
<1>3. Struck(h, calls, rest, ball)
  BY <1>2 DEF Struck
<1> QED
  BY <1>3 DEF rest

-----------------------------------------------------------------------------
(* What a call appended, served or refused leaves on its way. *)

LEMMA Added ==
    ASSUME NEW S, NEW s \in Seq(S), NEW e \in S
    PROVE  /\ Append(s, e) \in Seq(S) /\ Len(Append(s, e)) = Len(s) + 1 /\ Len(s) \in Nat
           /\ \A i \in 1..Len(s) : Append(s, e)[i] = s[i]
           /\ Append(s, e)[Len(s) + 1] = e /\ Append(s, e) # <<>> /\ s \o <<e>> = Append(s, e)
           /\ <<>> \o s = s /\ s \o <<>> = s /\ Append(<<>>, e) = <<e>>
OBVIOUS

LEMMA TeeAdded ==
    ASSUME NEW calls \in Seq(Call), NEW call \in Call, NEW h, NEW events, NEW ball,
           \/ call.call = "tee_up" /\ call.hole = h
           \/ call.call = "take_shot" /\ TeedUp(h, calls, events, ball)
    PROVE  TeedUp(h, Append(calls, call), events, ball)
<1> DEFINE n == Len(calls)
           more == Append(calls, call)
<1>1. /\ n \in Nat /\ Len(more) = n + 1 /\ \A i \in 1..n : more[i] = calls[i]
      /\ more[n + 1] = call
    BY Added
<1> HIDE DEF n, more
<1>2. CASE call.call = "tee_up" /\ call.hole = h
  <2>1. n + 1 \in 1..Len(more) /\ \A j \in 1..Len(more) : ~(j > n + 1)
    BY <1>1
  <2> QED
    BY <1>1, <1>2, <2>1 DEF TeedUp, more
<1>3. ASSUME call.call = "take_shot", NEW i \in 1..n, calls[i].call = "tee_up", calls[i].hole = h,
             \A j \in 1..n : j > i => calls[j].call = "take_shot"
      PROVE  TeedUp(h, more, events, ball)
  <2>1. i \in 1..Len(more) /\ more[i].call = "tee_up" /\ more[i].hole = h
    BY <1>1, <1>3
  <2>2. ASSUME NEW j \in 1..Len(more), j > i PROVE more[j].call = "take_shot"
    <3>1. j \in 1..n \/ j = n + 1
      BY <1>1
    <3> QED
      BY <1>1, <1>3, <2>2, <3>1
  <2> QED
    BY <2>1, <2>2 DEF TeedUp
<1>4. ASSUME call.call = "take_shot", \A j \in 1..n : calls[j].call = "take_shot"
      PROVE  \A j \in 1..Len(more) : more[j].call = "take_shot"
  <2> SUFFICES ASSUME NEW j \in 1..Len(more) PROVE more[j].call = "take_shot"
    OBVIOUS
  <2>1. j \in 1..n \/ j = n + 1
    BY <1>1
  <2> QED
    BY <1>1, <1>4, <2>1
<1> QED
  <2>1. CASE call.call = "take_shot" /\ TeedUp(h, calls, events, ball)
    <3>1. \/ \E i \in 1..n : /\ calls[i].call = "tee_up" /\ calls[i].hole = h
                             /\ \A j \in 1..n : j > i => calls[j].call = "take_shot"
          \/ /\ \A j \in 1..n : calls[j].call = "take_shot"
             /\ \/ \E i \in 1..Len(events) : events[i].kind = "refused" /\ events[i].call = "tee_up"
                \/ ball.hole = h
      BY <2>1 DEF TeedUp, n
    <3>2. CASE \E i \in 1..n : /\ calls[i].call = "tee_up" /\ calls[i].hole = h
                               /\ \A j \in 1..n : j > i => calls[j].call = "take_shot"
      BY <3>2, <2>1, <1>3 DEF more
    <3>3. CASE /\ \A j \in 1..n : calls[j].call = "take_shot"
               /\ \/ \E i \in 1..Len(events) : events[i].kind = "refused" /\ events[i].call = "tee_up"
                  \/ ball.hole = h
      BY <3>3, <2>1, <1>4 DEF more, TeedUp
    <3> QED
      BY <3>1, <3>2, <3>3
  <2> QED
    BY <1>2, <2>1

LEMMA Served ==
    ASSUME NEW calls \in Seq(Call), calls # <<>>
    PROVE  LET n == Len(calls)
               left == Tail(calls)
           IN  /\ Head(calls) = calls[1] /\ Head(calls) \in Call /\ n \in Nat /\ n >= 1
               /\ left \in Seq(Call) /\ Len(left) = n - 1 /\ (left = <<>> <=> n = 1)
               /\ \A i \in 1..(n - 1) : left[i] = calls[i + 1]
<1> DEFINE n == Len(calls)
           left == Tail(calls)
<1>1. n \in Nat /\ n >= 1
    OBVIOUS
<1>2. Head(calls) \in Call /\ left \in Seq(Call) /\ Len(left) = n - 1
    BY HeadTailProperties
<1>3. \A i \in 1..(n - 1) : left[i] = calls[i + 1]
    BY HeadTailProperties
<1>4. Head(calls) = calls[1]
    OBVIOUS
<1>5. left = <<>> <=> n = 1
  <2> HIDE DEF left, n
  <2> QED
    BY <1>1, <1>2, EmptySeq
<1> QED
    BY <1>1, <1>2, <1>3, <1>4, <1>5

LEMMA TeeServed ==
    ASSUME NEW calls \in Seq(Call), calls # <<>>, NEW h, NEW events, NEW ball,
           TeedUp(h, calls, events, ball)
    PROVE  LET left == Tail(calls)
               shots == \A j \in 1..Len(left) : left[j].call = "take_shot"
           IN  \/ \A anyEvents, anyBall : TeedUp(h, left, anyEvents, anyBall)
               \/ Head(calls).call = "tee_up" /\ Head(calls).hole = h /\ shots
               \/ /\ Head(calls).call = "take_shot" /\ shots
                  /\ \/ \E i \in 1..Len(events) : events[i].kind = "refused" /\ events[i].call = "tee_up"
                     \/ ball.hole = h
<1> DEFINE n == Len(calls)
           left == Tail(calls)
           shots == \A j \in 1..Len(left) : left[j].call = "take_shot"
<1>1. /\ Head(calls) = calls[1] /\ n \in Nat /\ n >= 1 /\ Len(left) = n - 1
      /\ \A i \in 1..(n - 1) : left[i] = calls[i + 1]
    BY Served
<1> HIDE DEF n, left
<1>2. ASSUME NEW i \in 1..n, calls[i].call = "tee_up", calls[i].hole = h,
             \A j \in 1..n : j > i => calls[j].call = "take_shot"
      PROVE  \/ \A anyEvents, anyBall : TeedUp(h, left, anyEvents, anyBall)
             \/ Head(calls).call = "tee_up" /\ Head(calls).hole = h /\ shots
  <2>1. ASSUME NEW j \in 1..(n - 1), j + 1 > i PROVE left[j].call = "take_shot"
    BY <1>1, <1>2, <2>1
  <2>2. CASE i = 1
    BY <1>1, <1>2, <2>1, <2>2
  <2>3. CASE i # 1
    <3>1. i - 1 \in 1..(n - 1) /\ (i - 1) + 1 = i
      BY <1>1, <2>3
    <3>2. left[i - 1] = calls[i]
      BY <1>1, <3>1
    <3>3. \A j \in 1..(n - 1) : j > i - 1 => left[j].call = "take_shot"
      BY <2>1
    <3> QED
      BY <1>1, <1>2, <3>1, <3>2, <3>3 DEF TeedUp
  <2> QED
    BY <2>2, <2>3
<1>3. ASSUME \A j \in 1..n : calls[j].call = "take_shot" PROVE Head(calls).call = "take_shot" /\ shots
  BY <1>1, <1>3
<1>4. \/ \E i \in 1..n : /\ calls[i].call = "tee_up" /\ calls[i].hole = h
                         /\ \A j \in 1..n : j > i => calls[j].call = "take_shot"
      \/ /\ \A j \in 1..n : calls[j].call = "take_shot"
         /\ \/ \E i \in 1..Len(events) : events[i].kind = "refused" /\ events[i].call = "tee_up"
            \/ ball.hole = h
  BY DEF TeedUp, n
<1> QED
  BY <1>2, <1>3, <1>4 DEF left

LEMMA ShotServed ==
    ASSUME NEW calls \in Seq(Call), calls # <<>>, NEW h, NEW events, NEW ball,
           Struck(h, calls, events, ball)
    PROVE  \/ \A anyEvents, anyBall : Struck(h, Tail(calls), anyEvents, anyBall)
           \/ Tail(calls) = <<>> /\ Head(calls).call = "take_shot" /\ Head(calls).hole = h
<1> DEFINE n == Len(calls)
           left == Tail(calls)
<1>1. /\ Head(calls) = calls[1] /\ n \in Nat /\ n >= 1 /\ Len(left) = n - 1 /\ (left = <<>> <=> n = 1)
      /\ \A i \in 1..(n - 1) : left[i] = calls[i + 1]
    BY Served
<1>2. calls[n].call = "take_shot" /\ calls[n].hole = h
    BY DEF Struck
<1> HIDE DEF n, left
<1>3. CASE n = 1
    BY <1>1, <1>2, <1>3 DEF left
<1>4. CASE n # 1
  <2>1. n - 1 \in 1..(n - 1) /\ (n - 1) + 1 = n /\ left # <<>>
    BY <1>1, <1>4
  <2>2. left[Len(left)] = calls[n]
    BY <1>1, <2>1
  <2> QED
    BY <1>2, <2>1, <2>2 DEF Struck, left
<1> QED
    BY <1>3, <1>4

LEMMA Concat ==
    ASSUME NEW S, NEW s \in Seq(S), NEW t \in Seq(S)
    PROVE  /\ s \o t \in Seq(S) /\ Len(s \o t) = Len(s) + Len(t) /\ Len(s) \in Nat /\ Len(t) \in Nat
           /\ \A i \in 1..(Len(s) + Len(t)) : (s \o t)[i] = IF i <= Len(s) THEN s[i] ELSE t[i - Len(s)]
BY ConcatProperties

LEMMA TeesJoined ==
    ASSUME NEW s \in Seq(Call), NEW t \in Seq(Call), TeesNamed(s), TeesNamed(t)
    PROVE  TeesNamed(s \o t)
<1> SUFFICES ASSUME NEW i \in 1..Len(s \o t), (s \o t)[i].call = "tee_up"
             PROVE  (s \o t)[i].hole \in Hole
    BY DEF TeesNamed
<1>1. /\ Len(s) \in Nat /\ Len(t) \in Nat /\ i \in 1..(Len(s) + Len(t))
      /\ (s \o t)[i] = IF i <= Len(s) THEN s[i] ELSE t[i - Len(s)]
    BY Concat
<1>2. CASE i <= Len(s)
    BY <1>1, <1>2 DEF TeesNamed
<1>3. CASE ~(i <= Len(s))
  <2>1. i - Len(s) \in 1..Len(t)
    BY <1>1, <1>3
  <2> QED
    BY <1>1, <1>3, <2>1 DEF TeesNamed
<1> QED
    BY <1>2, <1>3

-----------------------------------------------------------------------------
(* Frames. *)

(* A game played from me, with the calls it makes.                         *)
PlayedFrom(c) ==
    /\ c \in SoundGame /\ c.row = me.row /\ TeesNamed(c.out)
    /\ Unseen(c) => TeedUp(c.ball.hole, up \o c.out, down, host.ball)
    /\ Busy(c) => Struck(c.ball.hole, up \o c.out, down, host.ball)

LEMMA HeardKeeps ==
    ASSUME BallInv, NEW c, PlayedFrom(c), NEW count \in 0..Len(down), NEW d,
           Leaves(c, SubSeq(down, 1, count), d),
           me' = [d EXCEPT !.out = <<>>], up' = up \o d.out,
           down' = SubSeq(down, count + 1, Len(down)), host' = host, practice' = practice
    PROVE  BallInv'
<1> DEFINE heard == SubSeq(down, 1, count)
           rest == SubSeq(down, count + 1, Len(down))
<1>1. /\ up \in Seq(Call) /\ down \in Seq(Event) /\ host \in Host /\ practice \in BOOLEAN
      /\ TeesNamed(up) /\ ToldOf(me.row, down, host.ball)
    BY DEF BallInv, TypeInv, BallTypeOK, RowInv
<1>2. c \in SoundGame /\ c.row = me.row /\ c.out \in Seq(Call) /\ TeesNamed(c.out)
    BY DEF PlayedFrom, SoundGame, Game
<1>3. /\ d \in Game /\ Sound(d) /\ d.out = c.out /\ ToldOf(c.row, heard, d.row)
      /\ Busy(d) => Busy(c) /\ d.ball.hole = c.ball.hole
      /\ Unseen(d) => Unseen(c) /\ d.ball.hole = c.ball.hole
    BY DEF Leaves, SoundGame
<1>4. /\ me' \in Game /\ me'.out = <<>> /\ Sound(me') /\ (Busy(me') <=> Busy(d)) /\ (Unseen(me') <=> Unseen(d))
      /\ me'.row = d.row /\ me'.ball = d.ball
  <2> DEFINE none == <<>>
  <2>1. none \in Seq(Call) /\ me' = [d EXCEPT !.out = none]
    OBVIOUS
  <2> HIDE DEF none
  <2>2. me' \in Game
    BY <2>1, <1>3 DEF Game
  <2>3. /\ me'.out = none /\ me'.row = d.row /\ me'.ball = d.ball
        /\ me'.answer = d.answer /\ me'.swinging = d.swinging /\ me'.mode = d.mode /\ me'.prompt = d.prompt
        /\ me'.shot = d.shot /\ me'.entered = d.entered
    BY <2>1, <1>3 DEF Game
  <2> QED
    BY <2>2, <2>3, <1>3 DEF Sound, Busy, Unseen, none
<1>5. /\ rest \in Seq(Event) /\ Len(heard) = count /\ \A i \in 1..count : heard[i] = down[i]
    BY <1>1, Rest
<1>6. TypeInv'
  <2>1. up' \in Seq(Call) /\ TeesNamed(up')
    BY <1>1, <1>2, <1>3, Concat, TeesJoined
  <2>2. down' \in Seq(Event) /\ host' \in Host /\ practice' \in BOOLEAN
    BY <1>1, <1>5
  <2> QED
    BY <1>4, <2>1, <2>2 DEF TypeInv, BallTypeOK, Sound
<1>7. RowInv'
  <2>1. ToldOf(d.row, rest, host.ball)
    BY <1>1, <1>2, <1>3, RestTold
  <2> QED
    BY <1>4, <2>1 DEF RowInv
<1>8. \A j \in 1..count : down[j].kind = "refused" => ~Busy(d) /\ (down[j].call = "tee_up" => ~Unseen(d))
    BY <1>5 DEF Leaves
<1>9. TeeInv'
  <2> SUFFICES ASSUME Unseen(d) PROVE TeedUp(d.ball.hole, up', down', host.ball)
    BY <1>4 DEF TeeInv
  <2>1. TeedUp(c.ball.hole, up \o c.out, down, host.ball) /\ d.ball.hole = c.ball.hole
    BY <1>3 DEF PlayedFrom
  <2>2. TeedUp(c.ball.hole, up \o c.out, rest, host.ball)
    BY <1>1, <1>8, <2>1, RestTeed
  <2> QED
    BY <1>3, <2>1, <2>2
<1>10. ShotInv'
  <2> SUFFICES ASSUME Busy(d) PROVE Struck(d.ball.hole, up', down', host.ball)
    BY <1>4 DEF ShotInv
  <2>1. Struck(c.ball.hole, up \o c.out, down, host.ball) /\ d.ball.hole = c.ball.hole
    BY <1>3 DEF PlayedFrom
  <2>2. Struck(c.ball.hole, up \o c.out, rest, host.ball)
    BY <1>1, <1>8, <2>1, RestStruck
  <2> QED
    BY <1>3, <2>1, <2>2
<1> QED
    BY <1>6, <1>7, <1>9, <1>10 DEF BallInv

LEMMA PlaysKeeps ==
    ASSUME BallInv, NEW c, PlayedFrom(c), Plays(c)
    PROVE  BallInv'
<1>1. PICK count \in 0..Len(down) :
          LET next == Online(c, SubSeq(down, 1, count))
          IN  /\ me' = [next EXCEPT !.out = <<>>] /\ up' = up \o next.out
              /\ down' = SubSeq(down, count + 1, Len(down)) /\ UNCHANGED <<host, practice>>
    BY DEF Plays, Frame
<1> DEFINE heard == SubSeq(down, 1, count)
           next == Online(c, heard)
<1>2. down \in Seq(Event) /\ c \in SoundGame
    BY DEF BallInv, TypeInv, BallTypeOK, PlayedFrom
<1>3. heard \in Seq(Event)
    BY <1>2, Rest
<1>4. Leaves(c, heard, next)
    BY <1>2, <1>3, OnlineLeaves
<1> HIDE DEF next
<1> QED
    BY <1>1, <1>4, HeardKeeps DEF next

LEMMA Me ==
    ASSUME BallInv
    PROVE  /\ me \in Game /\ me \in SoundGame /\ Sound(me) /\ me.out = <<>> /\ up \in Seq(Call)
           /\ TeesNamed(<<>>) /\ PlayedFrom(me)
<1>1. me \in Game /\ Sound(me) /\ me.out = <<>> /\ up \in Seq(Call)
    BY DEF BallInv, TypeInv, BallTypeOK
<1>2. up \o <<>> = up /\ TeesNamed(<<>>)
    BY <1>1, ConcatEmptySeq DEF TeesNamed
<1> QED
    BY <1>1, <1>2 DEF BallInv, TeeInv, ShotInv, PlayedFrom, SoundGame

(* A game that makes no call, and is no more ahead than me.                *)
LEMMA SamePlay ==
    ASSUME BallInv, NEW c \in SoundGame, c.row = me.row, c.out = <<>>,
           Unseen(c) => Unseen(me) /\ c.ball.hole = me.ball.hole,
           Busy(c) => Busy(me) /\ c.ball.hole = me.ball.hole
    PROVE  PlayedFrom(c)
BY Me DEF PlayedFrom

LEMMA WaitsKeeps == BallInv /\ Waits => BallInv'
BY Me, PlaysKeeps DEF Waits

LEMMA WatchesRoomKeeps == BallInv /\ WatchesRoom => BallInv'
<1> SUFFICES ASSUME BallInv, WatchesRoom PROVE BallInv'
    OBVIOUS
<1>1. PICK count \in 0..Len(down) :
          LET next == Heard(me, SubSeq(down, 1, count))
          IN  /\ me' = [next EXCEPT !.out = <<>>] /\ up' = up \o next.out
              /\ down' = SubSeq(down, count + 1, Len(down)) /\ UNCHANGED <<host, practice>>
    BY DEF WatchesRoom, Frame
<1> DEFINE heard == SubSeq(down, 1, count)
           next == Heard(me, heard)
<1>2. down \in Seq(Event) /\ me \in SoundGame /\ PlayedFrom(me)
    BY Me DEF BallInv, TypeInv, BallTypeOK
<1>3. heard \in Seq(Event)
    BY <1>2, Rest
<1>4. Leaves(me, heard, next)
    BY <1>2, <1>3, HeardLeaves
<1> HIDE DEF next
<1> QED
    BY <1>1, <1>2, <1>4, HeardKeeps DEF next

LEMMA PromptKeeps ==
    ASSUME BallInv, me.mode = "walking", NEW h \in Hole \cup {0}
    PROVE  PlayedFrom([me EXCEPT !.prompt = h]) /\ [me EXCEPT !.prompt = h].mode = "walking"
<1> DEFINE c == [me EXCEPT !.prompt = h]
<1>1. me \in Game /\ Sound(me) /\ me.out = <<>>
    BY Me
<1>2. /\ c \in Game /\ c.ball = me.ball /\ c.row = me.row /\ c.out = me.out /\ c.answer = me.answer
      /\ c.swinging = me.swinging /\ c.mode = me.mode /\ c.prompt = h /\ c.shot = me.shot /\ c.entered = me.entered
    BY <1>1 DEF Game
<1> HIDE DEF c
<1>3. c \in SoundGame /\ (Unseen(c) <=> Unseen(me)) /\ (Busy(c) <=> Busy(me))
    BY <1>1, <1>2 DEF SoundGame, Sound, Unseen, Busy
<1>4. PlayedFrom(c) /\ c.mode = "walking"
    BY <1>1, <1>2, <1>3, SamePlay
<1> QED
    BY <1>4 DEF c

(* A game that ends what it plays, and calls.                              *)
LEMMA CallKeeps ==
    ASSUME BallInv, NEW c \in Game, c.row = me.row, c.out = <<>>, Sound(c),
           NEW call \in Calls, NEW h \in Hole \cup {0}, NEW giveUp \in BOOLEAN, NEW stroke \in 0 .. MaxStrokes,
           call = "tee_up" => h \in Hole,
           Unseen(c) => \/ call = "tee_up" /\ h = c.ball.hole
                        \/ call = "take_shot" /\ Unseen(me) /\ c.ball.hole = me.ball.hole,
           Busy(c) => call = "take_shot" /\ h = c.ball.hole
    PROVE  PlayedFrom(Asked(c, call, h, giveUp, stroke))
<1> DEFINE made == [call |-> call, hole |-> h, giveUp |-> giveUp, stroke |-> stroke]
           d == Asked(c, call, h, giveUp, stroke)
<1>1. made \in Call /\ made.call = call /\ made.hole = h
    BY DEF Call
<1>2. d = [c EXCEPT !.out = <<made>>]
    BY DEF Asked, Game
<1> HIDE DEF made, d
<1> DEFINE calls == <<made>>
<1>3. calls \in Seq(Call) /\ TeesNamed(calls) /\ d = [c EXCEPT !.out = calls]
    BY <1>1, <1>2 DEF TeesNamed
<1>4. up \in Seq(Call) /\ up \o calls = Append(up, made)
    BY <1>1, Me, Added
<1> HIDE DEF calls
<1>5. /\ d \in Game /\ d.ball = c.ball /\ d.row = c.row /\ d.out = calls /\ d.answer = c.answer
      /\ d.swinging = c.swinging /\ d.mode = c.mode /\ d.prompt = c.prompt /\ d.shot = c.shot
      /\ d.entered = c.entered
    BY <1>3 DEF Game
<1>6. d \in SoundGame /\ (Unseen(d) <=> Unseen(c)) /\ (Busy(d) <=> Busy(c))
    BY <1>5 DEF SoundGame, Sound, Unseen, Busy
<1>7. Unseen(d) => TeedUp(d.ball.hole, Append(up, made), down, host.ball)
  <2> SUFFICES ASSUME Unseen(d) PROVE TeedUp(d.ball.hole, Append(up, made), down, host.ball)
    OBVIOUS
  <2>1. \/ made.call = "tee_up" /\ made.hole = d.ball.hole
        \/ made.call = "take_shot" /\ TeedUp(d.ball.hole, up, down, host.ball)
    BY <1>1, <1>5, <1>6 DEF BallInv, TeeInv
  <2> QED
    BY <2>1, <1>1, <1>4, TeeAdded
<1>8. Busy(d) => Struck(d.ball.hole, Append(up, made), down, host.ball)
  <2> SUFFICES ASSUME Busy(d) PROVE Struck(d.ball.hole, Append(up, made), down, host.ball)
    OBVIOUS
  <2>1. made.call = "take_shot" /\ made.hole = d.ball.hole
    BY <1>1, <1>5, <1>6
  <2> QED
    BY <2>1, <1>1, <1>4, Added DEF Struck
<1> QED
    BY <1>3, <1>4, <1>5, <1>6, <1>7, <1>8 DEF PlayedFrom, d

LEMMA TeeUpKeeps ==
    ASSUME BallInv, NEW c, c \in SoundGame, PlayedFrom(c), c.out = <<>>, NEW h \in Hole, NEW giveUp \in BOOLEAN,
           NEW stepsUp \in BOOLEAN
    PROVE  PlayedFrom(TeeUp(c, h, giveUp, stepsUp))
<1> DEFINE e == EndBallPlay(c)
           mode == IF stepsUp THEN "addressing" ELSE e.mode
           ball == Ball(h, 0, FALSE)
           d == [EndBallPlay(c) EXCEPT !.ball = Ball(h, 0, FALSE),
                                       !.mode = IF stepsUp THEN "addressing" ELSE @]
<1>1. CASE TeeUp(c, h, giveUp, stepsUp) = c
    BY <1>1
<1>2. CASE TeeUp(c, h, giveUp, stepsUp) = Asked(d, "tee_up", h, giveUp, 0)
  <2>1. /\ e \in Game /\ e.row = me.row /\ e.out = <<>>
        /\ e.shot = NoShot /\ e.mode = "walking" /\ ~e.swinging /\ e.answer = NoShot
        /\ ~e.entered /\ e.prompt = 0
    BY EndKeeps DEF SoundGame, PlayedFrom
  <2>2. 0 \in 0 .. MaxStrokes /\ ball \in BallRow /\ InPlay(ball) /\ ball.hole = h
    <3>1. 0 \in 0 .. MaxStrokes
      BY MyBallAssumption
    <3> QED
      BY <3>1, OnTee, Zenon
  <2>3. d = [e EXCEPT !.ball = ball, !.mode = mode]
    BY <2>1 DEF Game
  <2>4. mode \in {"walking", "addressing"}
    BY <2>1
  <2> HIDE DEF e, ball, mode
  <2>5. /\ d \in Game /\ d.ball = ball /\ d.row = me.row /\ d.out = <<>> /\ d.answer = NoShot
        /\ ~d.swinging /\ d.mode = mode /\ d.prompt = 0 /\ d.shot = NoShot
    BY <2>1, <2>2, <2>3, <2>4 DEF Game
  <2> HIDE DEF d
  <2>6. Sound(d) /\ d.ball.hole = h /\ ~Busy(d)
    BY <2>2, <2>5 DEF Sound, Busy
  <2>7. PlayedFrom(Asked(d, "tee_up", h, giveUp, 0))
    BY <2>2, <2>5, <2>6, CallKeeps DEF Calls
  <2> QED
    BY <2>7, <1>2 DEF d
<1> QED
    BY <1>1, <1>2 DEF TeeUp

LEMMA TeeKeeps == \A h \in Hole, stepsUp \in BOOLEAN : BallInv /\ Tee(h, stepsUp) => BallInv'
<1> SUFFICES ASSUME BallInv, NEW h \in Hole, NEW stepsUp \in BOOLEAN, Tee(h, stepsUp) PROVE BallInv'
    OBVIOUS
<1>1. CASE InPlay(me.ball) /\ ~practice
    BY <1>1, PromptKeeps, PlaysKeeps DEF Tee
<1>2. CASE ~(InPlay(me.ball) /\ ~practice)
  <2>1. practice \in BOOLEAN
    BY DEF BallInv, TypeInv, BallTypeOK
  <2>2. PlayedFrom(TeeUp(me, h, practice, stepsUp))
    BY <2>1, Me, TeeUpKeeps
  <2> QED
    BY <1>2, <2>2, PlaysKeeps DEF Tee
<1> QED
    BY <1>1, <1>2

LEMMA AnswerPromptKeeps == \A stepsUp \in BOOLEAN : BallInv /\ AnswerPrompt(stepsUp) => BallInv'
<1> SUFFICES ASSUME BallInv, NEW stepsUp \in BOOLEAN, AnswerPrompt(stepsUp) PROVE BallInv'
    OBVIOUS
<1> DEFINE c == [me EXCEPT !.prompt = 0]
<1>1. me \in Game /\ me.out = <<>>
    BY Me
<1>2. me.prompt \in Hole
    BY <1>1 DEF Game, AnswerPrompt
<1>3. PlayedFrom(c) /\ c.out = <<>>
    BY <1>1, PromptKeeps DEF AnswerPrompt, Game
<1> HIDE DEF c
<1>4. PlayedFrom(TeeUp(c, me.prompt, TRUE, stepsUp))
    BY <1>2, <1>3, TeeUpKeeps DEF PlayedFrom
<1> QED
    BY <1>4, PlaysKeeps DEF AnswerPrompt, c

LEMMA LeavePromptKeeps == BallInv /\ LeavePrompt => BallInv'
<1> SUFFICES ASSUME BallInv, LeavePrompt PROVE BallInv'
    OBVIOUS
<1>1. me.mode = "walking"
    BY Me DEF Sound, LeavePrompt
<1> QED
    BY <1>1, PromptKeeps, PlaysKeeps DEF LeavePrompt

LEMMA StepUpToBallKeeps == BallInv /\ StepUpToBall => BallInv'
<1> SUFFICES ASSUME BallInv, StepUpToBall PROVE BallInv'
    OBVIOUS
<1> DEFINE c == [me EXCEPT !.mode = "addressing", !.swinging = FALSE, !.answer = NoShot]
<1>1. me \in Game /\ Sound(me) /\ me.out = <<>>
    BY Me
<1>2. /\ c \in Game /\ c.ball = me.ball /\ c.row = me.row /\ c.out = me.out /\ c.answer = NoShot
      /\ ~c.swinging /\ c.mode = "addressing" /\ c.prompt = me.prompt /\ c.shot = me.shot
      /\ c.entered = me.entered
    BY <1>1 DEF Game
<1>3. Plays(c)
    BY DEF StepUpToBall
<1> HIDE DEF c
<1>4. c \in SoundGame /\ (Unseen(c) <=> Unseen(me)) /\ ~Busy(c)
    BY <1>1, <1>2 DEF SoundGame, Sound, Unseen, Busy, StepUpToBall
<1> QED
    BY <1>1, <1>2, <1>3, <1>4, SamePlay, PlaysKeeps

LEMMA StepBackKeeps == BallInv /\ StepBack => BallInv'
<1> SUFFICES ASSUME BallInv, StepBack PROVE BallInv'
    OBVIOUS
<1> DEFINE c == [me EXCEPT !.mode = "walking"]
<1>1. me \in Game /\ Sound(me) /\ me.out = <<>>
    BY Me
<1>2. /\ c \in Game /\ c.ball = me.ball /\ c.row = me.row /\ c.out = me.out /\ c.answer = me.answer
      /\ c.swinging = me.swinging /\ c.mode = "walking" /\ c.prompt = me.prompt /\ c.shot = me.shot
      /\ c.entered = me.entered
    BY <1>1 DEF Game
<1>3. Plays(c)
    BY DEF StepBack
<1> HIDE DEF c
<1>4. c \in SoundGame /\ (Unseen(c) <=> Unseen(me)) /\ (Busy(c) <=> Busy(me))
    BY <1>1, <1>2 DEF SoundGame, Sound, Unseen, Busy, StepBack
<1> QED
    BY <1>1, <1>2, <1>3, <1>4, SamePlay, PlaysKeeps

LEMMA PickUpCupBallKeeps == BallInv /\ PickUpCupBall => BallInv'
<1> SUFFICES ASSUME BallInv, PickUpCupBall PROVE BallInv'
    OBVIOUS
<1> DEFINE c == [me EXCEPT !.ball = NoBall]
<1>1. me \in Game /\ Sound(me) /\ me.out = <<>>
    BY Me
<1>2. /\ c \in Game /\ c.ball = NoBall /\ c.row = me.row /\ c.out = me.out /\ c.answer = me.answer
      /\ c.swinging = me.swinging /\ c.mode = me.mode /\ c.prompt = me.prompt /\ c.shot = me.shot
    BY <1>1, Balls DEF Game
<1>3. Plays(Asked(c, "pick_up_ball", 0, FALSE, 0)) /\ me.mode = "walking" /\ me.ball.inCup
    BY DEF PickUpCupBall
<1> HIDE DEF c
<1>4. ~me.swinging /\ me.answer = NoShot /\ me.shot = NoShot
    BY <1>1, <1>3 DEF Sound, InPlay
<1>5. Sound(c) /\ ~Unseen(c) /\ ~Busy(c)
    BY <1>2, <1>3, <1>4, Balls DEF Sound, Unseen, Busy
<1>6. PlayedFrom(Asked(c, "pick_up_ball", 0, FALSE, 0))
  <2>1. "pick_up_ball" \in Calls /\ "pick_up_ball" # "tee_up" /\ 0 \in Hole \cup {0} /\ 0 \in 0 .. MaxStrokes
    BY MyBallAssumption DEF Calls
  <2> QED
    BY <1>1, <1>2, <1>5, <2>1, CallKeeps
<1> QED
    BY <1>3, <1>6, PlaysKeeps

LEMMA StartSwingKeeps == BallInv /\ StartSwing => BallInv'
<1> SUFFICES ASSUME BallInv, StartSwing PROVE BallInv'
    OBVIOUS
<1> DEFINE c == [me EXCEPT !.swinging = TRUE]
           h == me.ball.hole
           n == me.ball.strokes + 1
<1>1. me \in Game /\ Sound(me) /\ me.out = <<>>
    BY Me
<1>2. /\ c \in Game /\ c.ball = me.ball /\ c.row = me.row /\ c.out = me.out /\ c.answer = me.answer
      /\ c.swinging /\ c.mode = me.mode /\ c.prompt = me.prompt /\ c.shot = me.shot
      /\ c.entered = me.entered
    BY <1>1 DEF Game
<1>3. Plays(Asked(c, "take_shot", h, FALSE, n)) /\ me.mode = "addressing" /\ ~me.swinging
    BY DEF StartSwing
<1>4. h \in Hole /\ n \in 0 .. MaxStrokes
  <2>1. me.ball \in BallRow /\ InPlay(me.ball)
    BY <1>1, <1>3 DEF Sound, Game
  <2> QED
    BY <2>1, Balls, MyBallAssumption DEF StartSwing
<1>5. h = c.ball.hole
    BY <1>2
<1> HIDE DEF c, h, n
<1>6. Sound(c) /\ (Unseen(c) <=> Unseen(me))
    BY <1>1, <1>2, <1>3 DEF Sound, Unseen
<1>7. PlayedFrom(Asked(c, "take_shot", h, FALSE, n))
    BY <1>1, <1>2, <1>4, <1>5, <1>6, CallKeeps DEF Calls
<1> QED
    BY <1>3, <1>7, PlaysKeeps

LEMMA RollsOutKeeps == BallInv /\ RollsOut => BallInv'
<1> SUFFICES ASSUME BallInv, RollsOut PROVE BallInv'
    OBVIOUS
<1> DEFINE c == [me EXCEPT !.mode = "walking"]
<1>1. me \in Game /\ Sound(me) /\ me.out = <<>>
    BY Me
<1>2. /\ c \in Game /\ c.ball = me.ball /\ c.row = me.row /\ c.out = me.out /\ c.answer = me.answer
      /\ c.swinging = me.swinging /\ c.mode = "walking" /\ c.prompt = me.prompt /\ c.shot = me.shot
      /\ c.entered = me.entered
    BY <1>1 DEF Game
<1>3. Plays(c)
    BY DEF RollsOut
<1> HIDE DEF c
<1>4. c \in SoundGame /\ (Unseen(c) <=> Unseen(me)) /\ (Busy(c) <=> Busy(me))
    BY <1>1, <1>2 DEF SoundGame, Sound, Unseen, Busy, RollsOut
<1> QED
    BY <1>1, <1>2, <1>3, <1>4, SamePlay, PlaysKeeps

(* The ball in play with more strokes is still that ball.                  *)
LEMMA StrokesAdded ==
    ASSUME NEW b \in BallRow, InPlay(b), NEW n \in 0 .. MaxStrokes
    PROVE  LET a == [b EXCEPT !.strokes = n]
           IN  a \in BallRow /\ InPlay(a) /\ a.hole = b.hole /\ a.strokes = n
<1>1. b.hole \in Hole /\ b.inCup = FALSE
    BY Balls DEF InPlay
<1> DEFINE a == [b EXCEPT !.strokes = n]
<1>2. a = Ball(b.hole, n, FALSE)
    BY <1>1, Restroked
<1> HIDE DEF a
<1>3. a \in BallRow /\ InPlay(a) /\ a.hole = b.hole /\ a.strokes = n
    BY <1>1, <1>2, OnTee
<1> QED
    BY <1>3 DEF a

LEMMA LaunchShotKeeps == BallInv /\ LaunchShot => BallInv'
<1> SUFFICES ASSUME BallInv, LaunchShot PROVE BallInv'
    OBVIOUS
<1> DEFINE n == me.ball.strokes + 1
           ball == [me.ball EXCEPT !.strokes = n]
           c == [me EXCEPT !.shot = me.answer, !.mode = "following", !.swinging = FALSE,
                           !.answer = NoShot, !.ball = ball]
<1>1. me \in Game /\ Sound(me) /\ me.out = <<>>
    BY Me
<1>2. /\ me.mode = "addressing" /\ me.answer \in Shot /\ me.swinging
      /\ me.ball.strokes + 1 + me.answer.penalty <= MaxStrokes
    BY <1>1 DEF LaunchShot, Sound, Game
<1>3. me.ball \in BallRow /\ InPlay(me.ball) /\ me.prompt = 0
    BY <1>1, <1>2 DEF Sound, Game
<1>4. n \in 0 .. MaxStrokes /\ n + me.answer.penalty <= MaxStrokes
  <2>1. me.ball.strokes \in 0 .. MaxStrokes /\ me.answer.penalty \in 0 .. 3
    BY <1>2, <1>3, Balls DEF Shot
  <2> QED
    BY <1>2, <2>1, MyBallAssumption
<1>5. ball \in BallRow /\ InPlay(ball) /\ ball.hole = me.ball.hole /\ ball.strokes = n
    BY <1>3, <1>4, StrokesAdded
<1>6. Plays(c)
    BY <1>1 DEF LaunchShot, Game
<1> HIDE DEF ball, n
<1>7. /\ c \in Game /\ c.ball = ball /\ c.row = me.row /\ c.out = me.out /\ c.answer = NoShot
      /\ ~c.swinging /\ c.mode = "following" /\ c.prompt = me.prompt /\ c.shot = me.answer
      /\ c.entered = me.entered
    BY <1>1, <1>2, <1>5 DEF Game
<1> HIDE DEF c
<1>8. c \in SoundGame /\ (Unseen(c) <=> Unseen(me)) /\ Busy(me)
    BY <1>2, <1>3, <1>4, <1>5, <1>7 DEF SoundGame, Sound, Unseen, Busy
<1> QED
    BY <1>1, <1>5, <1>6, <1>7, <1>8, SamePlay, PlaysKeeps

LEMMA ShotEndsKeeps == BallInv /\ ShotEnds => BallInv'
<1> SUFFICES ASSUME BallInv, ShotEnds PROVE BallInv'
    OBVIOUS
<1> DEFINE n == me.ball.strokes + me.shot.penalty
           ball == [me.ball EXCEPT !.strokes = n]
           c == [me EXCEPT !.shot = NoShot, !.mode = "walking", !.ball = ball]
<1>1. me \in Game /\ Sound(me) /\ me.out = <<>>
    BY Me
<1>2. /\ me.shot \in Shot /\ me.ball \in BallRow /\ InPlay(me.ball) /\ me.mode # "addressing"
      /\ me.ball.strokes + me.shot.penalty <= MaxStrokes
    BY <1>1 DEF ShotEnds, Sound, Game
<1>3. ~me.swinging /\ me.answer = NoShot
    BY <1>1, <1>2 DEF Sound
<1>4. n \in 0 .. MaxStrokes
  <2>1. me.ball.strokes \in 0 .. MaxStrokes /\ me.shot.penalty \in 0 .. 3
    BY <1>2, Balls DEF Shot
  <2> QED
    BY <1>2, <2>1, MyBallAssumption
<1>5. ball \in BallRow /\ InPlay(ball) /\ ball.hole = me.ball.hole /\ ball.strokes = n
    BY <1>2, <1>4, StrokesAdded
<1>6. Plays(c)
    BY <1>1 DEF ShotEnds, Game
<1> HIDE DEF ball, n
<1>7. /\ c \in Game /\ c.ball = ball /\ c.row = me.row /\ c.out = me.out /\ c.answer = NoShot
      /\ ~c.swinging /\ c.mode = "walking" /\ c.prompt = me.prompt /\ c.shot = NoShot
      /\ c.entered = me.entered
    BY <1>1, <1>3, <1>5 DEF Game
<1> HIDE DEF c
<1>8. c \in SoundGame /\ (Unseen(c) <=> Unseen(me)) /\ ~Busy(c)
    BY <1>2, <1>5, <1>7 DEF SoundGame, Sound, Unseen, Busy
<1> QED
    BY <1>1, <1>5, <1>6, <1>7, <1>8, SamePlay, PlaysKeeps

(* Given up after its frame, with the calls of that frame's game.          *)
LEMMA PauseAndGiveUpKeeps == BallInv /\ PauseAndGiveUp => BallInv'
<1> SUFFICES ASSUME BallInv, PauseAndGiveUp PROVE BallInv'
    OBVIOUS
<1>1. PICK count \in 0..Len(down) :
          LET next == GiveUpHole(Online(me, SubSeq(down, 1, count)))
          IN  /\ me' = [next EXCEPT !.out = <<>>] /\ up' = up \o next.out
              /\ down' = SubSeq(down, count + 1, Len(down)) /\ UNCHANGED <<host, practice>>
    BY DEF PauseAndGiveUp, Frame
<1> DEFINE heard == SubSeq(down, 1, count)
           x == Online(me, heard)
           next == GiveUpHole(x)
<1>2. down \in Seq(Event) /\ me \in Game /\ me \in SoundGame /\ PlayedFrom(me) /\ me.out = <<>>
    BY Me DEF BallInv, TypeInv, BallTypeOK
<1>3. heard \in Seq(Event)
    BY <1>2, Rest
<1>4. Leaves(me, heard, x)
    BY <1>2, <1>3, OnlineLeaves
<1> HIDE DEF x
<1>5. CASE ~InPlay(x.ball)
  <2>1. next = x
    BY <1>5 DEF GiveUpHole
  <2> QED
    BY <2>1, <1>1, <1>2, <1>4, HeardKeeps DEF x
<1>6. CASE InPlay(x.ball)
  <2> DEFINE e == EndBallPlay(x)
             calls == <<[call |-> "give_up_hole", hole |-> 0, giveUp |-> FALSE, stroke |-> 0]>>
             c == [next EXCEPT !.row = me.row]
  <2>1. x \in Game /\ x.out = <<>> /\ ToldOf(me.row, heard, x.row)
    BY <1>2, <1>4 DEF Leaves, SoundGame
  <2>2. /\ e \in Game /\ e.row = x.row /\ e.out = <<>> /\ e.shot = NoShot /\ e.mode = "walking"
        /\ ~e.swinging /\ e.answer = NoShot /\ ~e.entered /\ e.prompt = 0
    BY <2>1, EndKeeps
  <2>3. calls \in Seq(Call) /\ TeesNamed(calls)
    BY MyBallAssumption DEF Call, Calls, TeesNamed
  <2>4. NoBall \in BallRow /\ ~InPlay(NoBall)
    BY Balls
  <2> DEFINE gone == [e EXCEPT !.ball = NoBall]
  <2>5. next = Asked(gone, "give_up_hole", 0, FALSE, 0)
    BY <1>6 DEF GiveUpHole
  <2> HIDE DEF e
  <2>6. /\ gone \in Game /\ gone.ball = NoBall /\ gone.row = x.row /\ gone.out = <<>> /\ gone.shot = NoShot
        /\ gone.mode = "walking" /\ ~gone.swinging /\ gone.answer = NoShot
    BY <2>2, <2>4 DEF Game
  <2> HIDE DEF gone, next
  <2>7. next = [gone EXCEPT !.out = calls]
    BY <2>5, <2>6 DEF Asked, Game
  <2> HIDE DEF calls
  <2>8. /\ next \in Game /\ next.ball = NoBall /\ next.row = x.row /\ next.out = calls /\ next.shot = NoShot
        /\ next.mode = "walking" /\ ~next.swinging /\ next.answer = NoShot
    BY <2>3, <2>6, <2>7 DEF Game
  <2>9. next \in SoundGame /\ ~Busy(next) /\ ~Unseen(next)
    BY <2>4, <2>8 DEF SoundGame, Sound, Busy, Unseen
  <2>10. /\ c \in Game /\ c.ball = NoBall /\ c.row = me.row /\ c.out = calls /\ c.shot = NoShot
         /\ c.mode = "walking" /\ ~c.swinging /\ c.answer = NoShot
    BY <2>8, <1>2 DEF Game
  <2> HIDE DEF c
  <2>11. PlayedFrom(c)
    BY <2>3, <2>4, <2>10 DEF PlayedFrom, SoundGame, Sound, Busy, Unseen
  <2>12. Leaves(c, heard, next)
    BY <2>1, <2>8, <2>9, <2>10 DEF Leaves
  <2>13. /\ me' = [next EXCEPT !.out = <<>>] /\ up' = up \o next.out
         /\ down' = SubSeq(down, count + 1, Len(down)) /\ host' = host /\ practice' = practice
    BY <1>1 DEF next, x
  <2> QED
    BY <2>11, <2>12, <2>13, HeardKeeps
<1> QED
    BY <1>5, <1>6

LEMMA StartNextRoundKeeps == BallInv /\ StartNextRound => BallInv'
<1> SUFFICES ASSUME BallInv, StartNextRound PROVE BallInv'
    OBVIOUS
<1>1. me \in Game /\ Sound(me) /\ me.out = <<>>
    BY Me
<1>2. Unplayed \in [Hole -> 0 .. MaxStrokes]
    BY MyBallAssumption DEF Unplayed
<1>3. me' = [me EXCEPT !.round = Unplayed] /\ UNCHANGED <<up, down, host, practice>>
    BY DEF StartNextRound
<1>4. /\ me' \in Game /\ me'.ball = me.ball /\ me'.row = me.row /\ me'.out = me.out /\ me'.answer = me.answer
      /\ me'.swinging = me.swinging /\ me'.mode = me.mode /\ me'.prompt = me.prompt /\ me'.shot = me.shot
      /\ me'.entered = me.entered
    BY <1>1, <1>2, <1>3 DEF Game
<1>5. Sound(me') /\ (Unseen(me') <=> Unseen(me)) /\ (Busy(me') <=> Busy(me))
    BY <1>1, <1>4 DEF Sound, Unseen, Busy
<1> QED
    BY <1>3, <1>4, <1>5 DEF BallInv, TypeInv, BallTypeOK, RowInv, TeeInv, ShotInv, Sound

-----------------------------------------------------------------------------
(* The server. *)

LEMMA RowTold ==
    ASSUME NEW events \in Seq(Event), NEW row, NEW event \in Event
    PROVE  /\ event.kind = "row" => ToldOf(row, Append(events, event), event.ball)
           /\ \A ball : event.kind # "row" /\ ToldOf(row, events, ball)
                            => ToldOf(row, Append(events, event), ball)
<1> DEFINE n == Len(events)
           more == Append(events, event)
<1>1. /\ n \in Nat /\ Len(more) = n + 1 /\ \A i \in 1..n : more[i] = events[i]
      /\ more[n + 1] = event /\ more \in Seq(Event)
    BY Added
<1>2. DOMAIN more = 1..(n + 1) /\ DOMAIN events = 1..n
    BY <1>1
<1> HIDE DEF more, n
<1>3. ASSUME event.kind = "row" PROVE ToldOf(row, more, event.ball)
  <2>1. n + 1 \in Rows(more) /\ \A j \in Rows(more) : j <= n + 1
    BY <1>1, <1>2, <1>3 DEF Rows
  <2> QED
    BY <1>1, <2>1 DEF ToldOf
<1>4. ASSUME event.kind # "row", NEW ball, ToldOf(row, events, ball) PROVE ToldOf(row, more, ball)
  <2>1. Rows(more) = Rows(events) /\ \A i \in Rows(events) : more[i] = events[i]
    <3>1. ASSUME NEW i PROVE i \in Rows(more) <=> i \in Rows(events)
      <4>1. i \in 1..(n + 1) => i \in 1..n \/ i = n + 1
        BY <1>1
      <4> QED
        BY <4>1, <1>1, <1>2, <1>4 DEF Rows
    <3>2. Rows(more) = Rows(events)
      BY <3>1
    <3> QED
      BY <3>2, <1>1, <1>2 DEF Rows
  <2> QED
    BY <2>1, <1>4 DEF ToldOf
<1> QED
    BY <1>3, <1>4 DEF more

(* What serving a call must do to keep what the game awaits: a tee served  *)
(* puts the server's ball on it, a shot leaves the ball on its hole, and a *)
(* refusal says which call it is of.                                       *)
Answers(call) ==
    /\ host' \in Host /\ down' \in Seq(Event) /\ ToldOf(me.row, down', host'.ball)
    /\ \A i \in 1..Len(down) : i \in 1..Len(down') /\ down'[i] = down[i]
    /\ \/ call.call = "tee_up" /\ host'.ball.hole = call.hole
       \/ call.call = "take_shot" /\ host.ball.hole = call.hole /\ host'.ball.hole = host.ball.hole
       \/ call.call \in {"give_up_hole", "pick_up_ball"}
       \/ /\ host' = host /\ down' # <<>>
          /\ down'[Len(down')].kind = "refused" /\ down'[Len(down')].call = call.call

LEMMA AnsweredKeeps ==
    ASSUME BallInv, up # <<>>, Answers(Head(up)), up' = Tail(up), UNCHANGED <<me, practice>>
    PROVE  BallInv'
<1> DEFINE n == Len(up)
           left == Tail(up)
           call == Head(up)
<1>1. /\ me \in Game /\ Sound(me) /\ up \in Seq(Call) /\ TeesNamed(up) /\ down \in Seq(Event)
      /\ ToldOf(me.row, down, host.ball)
    BY DEF BallInv, TypeInv, BallTypeOK, RowInv
<1>2. /\ call = up[1] /\ call \in Call /\ n \in Nat /\ n >= 1
      /\ left \in Seq(Call) /\ Len(left) = n - 1 /\ (left = <<>> <=> n = 1)
      /\ \A i \in 1..(n - 1) : left[i] = up[i + 1]
    BY <1>1, Served
<1>3. TypeInv'
  <2>1. TeesNamed(left)
    <3> SUFFICES ASSUME NEW i \in 1..Len(left), left[i].call = "tee_up" PROVE left[i].hole \in Hole
      BY DEF TeesNamed
    <3>1. i + 1 \in 1..n /\ left[i] = up[i + 1]
      BY <1>2
    <3> QED
      BY <3>1, <1>1 DEF TeesNamed
  <2> QED
    BY <1>2, <2>1 DEF BallInv, TypeInv, BallTypeOK, Answers
<1>4. RowInv'
    BY DEF Answers, RowInv
<1> DEFINE h == me.ball.hole
<1>5. TeeInv'
  <2> SUFFICES ASSUME Unseen(me) PROVE TeedUp(h, left, down', host'.ball)
    BY DEF TeeInv
  <2>1. TeedUp(h, up, down, host.ball)
    BY DEF BallInv, TeeInv
  <2> DEFINE shots == \A j \in 1..Len(left) : left[j].call = "take_shot"
  <2>2. \/ \A anyEvents, anyBall : TeedUp(h, left, anyEvents, anyBall)
        \/ call.call = "tee_up" /\ call.hole = h /\ shots
        \/ /\ call.call = "take_shot" /\ shots
           /\ \/ \E i \in 1..Len(down) : down[i].kind = "refused" /\ down[i].call = "tee_up"
              \/ host.ball.hole = h
    BY <1>1, <2>1, TeeServed
  <2> HIDE DEF h, left, call
  <2>3. CASE call.call = "tee_up" /\ call.hole = h /\ shots
    <3>1. \/ host'.ball.hole = h
          \/ \E i \in 1..Len(down') : down'[i].kind = "refused" /\ down'[i].call = "tee_up"
      <4>1. CASE /\ host' = host /\ down' # <<>>
                 /\ down'[Len(down')].kind = "refused" /\ down'[Len(down')].call = call.call
        <5>1. down' \in Seq(Event) /\ down' # <<>>
          BY <4>1 DEF Answers
        <5>2. Len(down') \in 1..Len(down')
          BY <5>1, EmptySeq, LenProperties
        <5> QED
          BY <5>2, <4>1, <2>3
      <4> QED
        BY <4>1, <2>3 DEF Answers, call
    <3> QED
      BY <2>3, <3>1 DEF TeedUp
  <2>4. CASE /\ call.call = "take_shot" /\ shots
             /\ \/ \E i \in 1..Len(down) : down[i].kind = "refused" /\ down[i].call = "tee_up"
                \/ host.ball.hole = h
    <3>1. host'.ball.hole = host.ball.hole
      BY <2>4 DEF Answers, call
    <3>2. (\E i \in 1..Len(down) : down[i].kind = "refused" /\ down[i].call = "tee_up")
          => \E i \in 1..Len(down') : down'[i].kind = "refused" /\ down'[i].call = "tee_up"
      BY DEF Answers
    <3> QED
      BY <2>4, <3>1, <3>2 DEF TeedUp
  <2> QED
    BY <2>2, <2>3, <2>4
<1>6. ShotInv'
  <2> SUFFICES ASSUME Busy(me) PROVE Struck(h, left, down', host'.ball)
    BY DEF ShotInv
  <2>1. Struck(h, up, down, host.ball)
    BY DEF BallInv, ShotInv
  <2>2. \/ \A anyEvents, anyBall : Struck(h, left, anyEvents, anyBall)
        \/ left = <<>> /\ call.call = "take_shot" /\ call.hole = h
    BY <1>1, <2>1, ShotServed
  <2> HIDE DEF h, left, call
  <2>3. CASE left = <<>> /\ call.call = "take_shot" /\ call.hole = h
    BY <2>3 DEF Answers, Struck, call
  <2> QED
    BY <2>2, <2>3
<1> QED
    BY <1>3, <1>4, <1>5, <1>6 DEF BallInv

LEMMA ToldAnswers ==
    ASSUME BallInv, NEW call \in Call, NEW shot \in Shot \cup {NoShot}, Told(host'.ball, shot),
           host' \in Host,
           \/ call.call = "tee_up" /\ host'.ball.hole = call.hole
           \/ call.call = "take_shot" /\ host.ball.hole = call.hole /\ host'.ball.hole = host.ball.hole
           \/ call.call \in {"give_up_hole", "pick_up_ball"}
    PROVE  Answers(call)
<1> DEFINE row == [kind |-> "row", ball |-> host'.ball, shot |-> shot]
<1>1. down \in Seq(Event) /\ row \in Event /\ row.kind = "row" /\ row.ball = host'.ball
    BY DEF BallInv, TypeInv, BallTypeOK, Event, Host
<1>2. down' = Append(down, row)
    BY DEF Told
<1> HIDE DEF row
<1>3. /\ down' \in Seq(Event) /\ ToldOf(me.row, down', host'.ball)
      /\ \A i \in 1..Len(down) : i \in 1..Len(down') /\ down'[i] = down[i]
    BY <1>1, <1>2, RowTold, Added
<1> QED
    BY <1>3 DEF Answers

LEMMA RefusalAnswers ==
    ASSUME BallInv, NEW call \in Call, Refuse(call)
    PROVE  Answers(call)
<1> DEFINE refused == [kind |-> "refused", call |-> call.call]
<1>1. /\ down \in Seq(Event) /\ host \in Host /\ ToldOf(me.row, down, host.ball)
      /\ refused \in Event /\ refused.kind = "refused" /\ refused.call = call.call
    BY DEF BallInv, TypeInv, BallTypeOK, RowInv, Event, Call
<1>2. down' = Append(down, refused) /\ host' = host
    BY DEF Refuse
<1> HIDE DEF refused
<1>3. /\ down' \in Seq(Event) /\ ToldOf(me.row, down', host.ball)
      /\ \A i \in 1..Len(down) : i \in 1..Len(down') /\ down'[i] = down[i]
      /\ down' # <<>> /\ down'[Len(down')] = refused
    BY <1>1, <1>2, RowTold, Added
<1> QED
    BY <1>1, <1>2, <1>3 DEF Answers

LEMMA ServeAnswers ==
    ASSUME BallInv, NEW call \in Call, call.call = "tee_up" => call.hole \in Hole,
           \/ ServeTeeUp(call) \/ ServeShot(call) \/ ServeGiveUp(call)
           \/ ServePickUp(call) \/ ServeRefusal(call)
    PROVE  Answers(call)
<1>1. /\ host \in Host /\ host.ball \in BallRow /\ down \in Seq(Event) /\ ToldOf(me.row, down, host.ball)
      /\ host.round \in [Hole -> 0 .. MaxStrokes]
    BY DEF BallInv, TypeInv, BallTypeOK, RowInv, Host
<1>2. CASE ServeTeeUp(call)
  <2> DEFINE ball == Ball(call.hole, 0, FALSE)
  <2>1. 0 \in 0 .. MaxStrokes
    BY MyBallAssumption
  <2>2. ball \in BallRow /\ ball.hole = call.hole
    BY <1>2, <2>1, OnTee, Zenon DEF ServeTeeUp
  <2>3. host' = [host EXCEPT !.ball = ball, !.resting = TRUE] /\ Told(ball, NoShot)
    BY <1>2 DEF ServeTeeUp
  <2> HIDE DEF ball
  <2>4. host' \in Host /\ host'.ball = ball
    BY <1>1, <2>2, <2>3 DEF Host
  <2> QED
    BY <1>2, <2>2, <2>3, <2>4, ToldAnswers DEF ServeTeeUp
<1>3. CASE ServeShot(call)
  <2> DEFINE h == host.ball.hole
  <2>1. PICK shot \in Outcomes :
          /\ call.stroke + shot.penalty <= MaxStrokes
          /\ host' = [ball |-> Ball(h, call.stroke + shot.penalty, shot.holed), resting |-> shot.holed,
                      round |-> IF shot.holed THEN Scored(h, call.stroke + shot.penalty) ELSE host.round]
          /\ Told(Ball(h, call.stroke + shot.penalty, shot.holed), shot)
    BY <1>3 DEF ServeShot, Ball
  <2> DEFINE strokes == call.stroke + shot.penalty
             ball == Ball(h, strokes, shot.holed)
             round == IF shot.holed THEN Scored(h, strokes) ELSE host.round
  <2>2. shot \in Shot /\ shot.holed \in BOOLEAN /\ shot.penalty \in 0 .. 3
    BY DEF Outcomes, Shot
  <2>3. strokes \in 0 .. MaxStrokes
    <3>1. call.stroke \in Nat
      BY MyBallAssumption DEF Call
    <3> QED
      BY <2>1, <2>2, <3>1, MyBallAssumption
  <2>4. h \in Hole
    BY <1>1, <1>3, Balls DEF ServeShot
  <2> HIDE DEF strokes, h
  <2>5. ball \in BallRow /\ ball.hole = h
    BY <2>2, <2>3, <2>4, Balls DEF Ball
  <2>6. round \in [Hole -> 0 .. MaxStrokes]
    BY <1>1, <2>3, <2>4, MyBallAssumption DEF Scored, Unplayed
  <2>7. host' = [ball |-> ball, resting |-> shot.holed, round |-> round] /\ Told(ball, shot)
    BY <2>1 DEF strokes, h
  <2> HIDE DEF ball, round
  <2>8. host' \in Host /\ host'.ball = ball
    BY <2>2, <2>5, <2>6, <2>7 DEF Host
  <2> QED
    BY <1>3, <2>2, <2>5, <2>7, <2>8, ToldAnswers DEF ServeShot, h
<1>4. ASSUME call.call \in {"give_up_hole", "pick_up_ball"},
             host' = [host EXCEPT !.ball = NoBall, !.resting = TRUE] /\ Told(NoBall, NoShot)
      PROVE  Answers(call)
  <2>1. NoBall \in BallRow
    BY Balls
  <2>2. host' \in Host /\ host'.ball = NoBall
    BY <1>1, <1>4, <2>1 DEF Host
  <2> QED
    BY <1>4, <2>2, ToldAnswers
<1>5. CASE ServeGiveUp(call)
    BY <1>4, <1>5, RefusalAnswers DEF ServeGiveUp
<1>6. CASE ServePickUp(call)
  <2>1. CASE host.ball = NoBall
    <3>1. ~host.ball.inCup
      BY <2>1, Balls
    <3>2. down' = down /\ host' = host /\ call.call = "pick_up_ball"
      BY <1>6, <2>1, <3>1 DEF ServePickUp
    <3> QED
      BY <1>1, <3>2 DEF Answers
  <2>2. CASE host.ball # NoBall
    BY <1>4, <1>6, <2>2, RefusalAnswers DEF ServePickUp
  <2> QED
    BY <2>1, <2>2
<1>7. CASE ServeRefusal(call)
    BY <1>7, RefusalAnswers DEF ServeRefusal
<1> QED
    BY <1>2, <1>3, <1>5, <1>6, <1>7

LEMMA ServeKeeps == BallInv /\ Serve => BallInv'
<1> SUFFICES ASSUME BallInv, Serve PROVE BallInv'
    OBVIOUS
<1>1. up \in Seq(Call) /\ up # <<>> /\ TeesNamed(up)
    BY DEF Serve, BallInv, TypeInv, BallTypeOK
<1>2. Head(up) \in Call /\ Head(up) = up[1] /\ 1 \in 1..Len(up)
    BY <1>1, Served
<1>3. Head(up).call = "tee_up" => Head(up).hole \in Hole
    BY <1>1, <1>2 DEF TeesNamed
<1>4. Answers(Head(up))
    BY <1>2, <1>3, ServeAnswers DEF Serve
<1> QED
    BY <1>1, <1>4, AnsweredKeeps DEF Serve

LEMMA ComesToRestKeeps == BallInv /\ ComesToRest => BallInv'
<1> SUFFICES ASSUME BallInv, ComesToRest PROVE BallInv'
    OBVIOUS
<1>1. host \in Host /\ host' = [host EXCEPT !.resting = TRUE] /\ UNCHANGED <<me, up, down, practice>>
    BY DEF ComesToRest, BallInv, TypeInv, BallTypeOK
<1>2. host' \in Host /\ host'.ball = host.ball
    BY <1>1 DEF Host
<1> QED
    BY <1>1, <1>2 DEF BallInv, TypeInv, BallTypeOK, RowInv, TeeInv, ShotInv

-----------------------------------------------------------------------------
(* The theorems. *)

LEMMA BallStart == Init => BallInv
<1> SUFFICES ASSUME Init PROVE BallInv
    OBVIOUS
<1>1. NoBall \in BallRow /\ ~InPlay(NoBall)
    BY Balls
<1>2. Unplayed \in [Hole -> 0 .. MaxStrokes]
    BY MyBallAssumption DEF Unplayed
<1>3. /\ me \in Game /\ me.ball = NoBall /\ me.row = NoBall /\ me.out = <<>> /\ me.answer = NoShot
      /\ ~me.swinging /\ me.mode = "walking" /\ me.shot = NoShot
    BY <1>1, <1>2 DEF Init, Game
<1>4. host \in Host /\ host.ball = NoBall
    BY <1>1, <1>2 DEF Init, Host
<1>5. up = <<>> /\ down = <<>> /\ up \in Seq(Call) /\ down \in Seq(Event) /\ practice \in BOOLEAN
    BY DEF Init
<1>6. TypeInv
    BY <1>3, <1>4, <1>5 DEF TypeInv, BallTypeOK, Sound, TeesNamed
<1>7. RowInv
    BY <1>3, <1>4, <1>5 DEF RowInv, ToldOf, Rows
<1>8. TeeInv /\ ShotInv
    BY <1>1, <1>3 DEF TeeInv, ShotInv, Unseen, Busy
<1> QED
    BY <1>6, <1>7, <1>8 DEF BallInv

LEMMA BallStep == BallInv /\ [Next]_vars => BallInv'
<1> SUFFICES ASSUME BallInv, [Next]_vars PROVE BallInv'
    OBVIOUS
<1>1. CASE GameStep
  <2>1. ASSUME NEW stepsUp \in BOOLEAN, AnswerPrompt(stepsUp) \/ \E h \in Hole : Tee(h, stepsUp)
        PROVE  BallInv'
    BY <2>1, AnswerPromptKeeps, TeeKeeps
  <2> QED
    BY <1>1, <2>1, WaitsKeeps, WatchesRoomKeeps, LeavePromptKeeps, StepUpToBallKeeps, StepBackKeeps,
       PickUpCupBallKeeps, StartSwingKeeps, LaunchShotKeeps, RollsOutKeeps, ShotEndsKeeps,
       PauseAndGiveUpKeeps, StartNextRoundKeeps DEF GameStep
<1>2. CASE Serve \/ ComesToRest
    BY <1>2, ServeKeeps, ComesToRestKeeps
<1>3. CASE UNCHANGED vars
    BY <1>3 DEF vars, BallInv, TypeInv, BallTypeOK, RowInv, TeeInv, ShotInv, Sound, Unseen, Busy
<1> QED
    BY <1>1, <1>2, <1>3 DEF Next

(* Whatever crosses, a swing is only over a ball addressed, a shot only of *)
(* a ball in play, and an answer only of a swing (BallTypeOK): nothing a   *)
(* refusal, a row or a frame does leaves one of them behind.               *)
THEOREM BallTyped == Spec => []BallTypeOK
<1>1. BallInv => BallTypeOK
    BY DEF BallInv, TypeInv
<1> QED
    BY <1>1, BallStart, BallStep, PTL DEF Spec

(* With nothing on its way, a ball a frame leaves in play is of the hole   *)
(* the server has the golfer on (BallIsServers), though the game plays     *)
(* ahead of the server and refusals cross with what was played since.      *)
THEOREM BallStaysServers == Spec => []BallIsServers
<1>1. BallInv => BallIsServers
  <2> DEFINE c == FollowServerHole(me)
  <2> SUFFICES ASSUME BallInv, Quiet, InPlay(c.ball)
               PROVE  host.ball.hole = c.ball.hole
    BY DEF BallIsServers
  <2>1. up = <<>> /\ down = <<>> /\ Rows(down) = {} /\ Len(up) = 0 /\ Len(down) = 0
    BY DEF Quiet, Rows
  <2>2. me.row = host.ball /\ me \in Game /\ me \in SoundGame
    BY <2>1, Me DEF BallInv, RowInv, ToldOf
  <2>3. CASE c = AdoptServerBall(me)
    <3>1. c.ball = me.row
      BY <2>2, <2>3, Adopted
    <3> QED
      BY <2>2, <3>1
  <2>4. CASE InPlay(me.ball) /\ me.shot = NoShot /\ me.row.hole = me.ball.hole /\ ~me.row.inCup
    <3>1. c = [me EXCEPT !.entered = TRUE]
      BY <2>4 DEF FollowServerHole
    <3>2. c.ball = me.ball
      BY <3>1, <2>2 DEF Game
    <3> QED
      BY <2>2, <2>4, <3>2
  <2>5. CASE c = me /\ me.shot # NoShot
    BY <2>1, <2>5 DEF BallInv, ShotInv, Busy, Struck
  <2>6. CASE c = me /\ ~me.entered
    <3>1. TeedUp(me.ball.hole, up, down, host.ball)
      BY <2>6 DEF BallInv, TeeInv, Unseen
    <3> QED
      BY <2>1, <2>6, <3>1 DEF TeedUp
  <2>7. c = me => InPlay(me.ball)
    OBVIOUS
  <2> QED
    BY <2>3, <2>4, <2>5, <2>6, <2>7 DEF FollowServerHole
<1> QED
    BY <1>1, BallStart, BallStep, PTL DEF Spec
====
