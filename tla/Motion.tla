------------------------------- MODULE Motion -------------------------------
(* A golfer on foot in an online round: their game numbers every fixed     *)
(* step, predicts where it leads and sends its input with the next motion; *)
(* the server plays the inputs from its own state, as fast as time allows, *)
(* and its row corrects the prediction.                                    *)
(*                                                                         *)
(* Places are numbers along a line, a step goes 0 or 1 on, and time is     *)
(* counted in steps.  One frame of the game is net_client's update and     *)
(* then update_game.                                                       *)
EXTENDS Integers, Sequences, FiniteSets

CONSTANTS
    Gap,             \* server.max_motion_gap_seconds, in steps
    StartTolerance,  \* server.step_start_tolerance, in steps' lengths
    TeeReach,        \* how near a tee or a ball is in reach
    Tee,             \* the place a tee-up puts the golfer at
    NoPlace, NoMotion

CONSTANT MaxTurns \* bound

ASSUME MotionAssumption ==
    /\ Gap \in Nat /\ StartTolerance \in Nat /\ TeeReach \in Nat /\ Tee \in Int
    /\ MaxTurns \in Nat
    /\ NoMotion \notin [at : Int, mode : {"idle", "walk", "address"}]

VARIABLES
    me,      \* the golfer's game: their place, their motion_sync, their queued commands
    up,      \* calls on their way to the server, in order
    down,    \* rows and refusals on their way back, in order
    mover,   \* the server's motion_state row, and whether their ball is on the tee
    since,   \* the time since the row's server_time
    now,     \* the time since they joined
    played,  \* how many of their steps the server played
    walked,  \* how far those went (what pay_movement pays for)
    taken,   \* the input of each step they took, by its number
    spent    \* how often they turned to or from their ball, beat, or met a fault

vars == <<me, up, down, mover, since, now, played, walked, taken, spent>>
serverVars == <<mover, since, played, walked>>

(* The bound on steps, time, turns, heartbeats and faults together.        *)
Spare(used) == Len(taken) + now + used.turns + used.beats + used.faults < MaxTurns

Least(a, b) == IF a < b THEN a ELSE b
Most(a, b) == IF a < b THEN b ELSE a
Apart(a, b) == Most(a - b, b - a)

-----------------------------------------------------------------------------
(* The game: what it makes of its state, as functions of `me`.             *)

MotionMode(c) ==
    IF c.mode = "addressing" THEN "address" ELSE IF c.moving # 0 THEN "walk" ELSE "idle"

(* The steps not sent yet go out with the motion they lead to; after steps *)
(* on foot that is where the last one ended, wherever I was put since.     *)
Pushed(c) ==
    LET walkedThere == c.unsent # <<>> /\ c.mode = "walking" /\ c.stepped # NoPlace
        motion == [call |-> "update_motion", first |-> c.first, start |-> c.start,
                   steps |-> c.unsent, mode |-> MotionMode(c), placed |-> 0,
                   at |-> IF walkedThere THEN c.stepped ELSE c.at]
    IN  [c EXCEPT !.commands = Append(@, motion), !.unsent = <<>>,
                  !.latest = [at |-> motion.at, mode |-> motion.mode]]

IsMotion(command) == command.call = "update_motion"

(* Of the motions sent and not acknowledged, this is the newest.           *)
Newest(history, sent) == \A other \in history : other.id <= sent.id

(* Put `by` away without a step: the latest motion remembers it.           *)
Placed(c, by) ==
    LET motions == {i \in DOMAIN c.commands : IsMotion(c.commands[i])}
        latest == CHOOSE i \in motions : \A j \in motions : j <= i
    IN  IF motions # {}
        THEN [c EXCEPT !.commands[latest].placed = @ + by]
        ELSE [c EXCEPT !.history = {IF Newest(@, sent) THEN [sent EXCEPT !.placed = sent.placed + by]
                                    ELSE sent : sent \in @}]

(* The number of the newest step, of all that wait.                        *)
RecordedLast(c, input) ==
    [c EXCEPT !.step = @ + 1, !.first = c.step + 1, !.start = c.at,
              !.unsent = Append(@, input)]

(* One step numbered, its input kept for the next motion; a step from      *)
(* elsewhere than the last one ended sends what came before first.         *)
Recorded(c, input) ==
    LET by == IF c.stepped # NoPlace THEN c.at - c.stepped ELSE 0
        flushed == IF by # 0 /\ c.unsent # <<>> THEN Pushed(c) ELSE c
        noted == IF by # 0 THEN [Placed(flushed, by) EXCEPT !.stepped = NoPlace] ELSE flushed
        first == noted.unsent = <<>>
    IN  [noted EXCEPT !.step = @ + 1,
                      !.first = IF first THEN c.step + 1 ELSE @,
                      !.start = IF first THEN c.at ELSE @,
                      !.unsent = Append(@, input)]

Walked(c, input) ==
    LET at == c.at + input IN [Recorded(c, input) EXCEPT !.at = at, !.moving = input, !.stepped = at]

(* The motion goes first, so that the server knows where I stand; then my  *)
(* ball is on the tee and I behind it, up to it unless my bag is on my     *)
(* back.                                                                   *)
TeedUp(c, mode) ==
    [Pushed(c) EXCEPT !.at = Tee, !.mode = mode, !.ball = TRUE,
                      !.commands = Append(@, [call |-> "tee_up"])]

(* The queued commands that are no motions: tee-ups, all alike.            *)
OnlyTeeUps(commands) ==
    [i \in 1 .. Cardinality({j \in DOMAIN commands : ~IsMotion(commands[j])}) |->
        [call |-> "tee_up"]]

(* discard_pending.                                                        *)
Discarded(c) ==
    [c EXCEPT !.history = {}, !.unsent = <<>>, !.stepped = NoPlace, !.latest = NoMotion,
              !.commands = OnlyTeeUps(@)]

Returned(c) == [c EXCEPT !.at = c.row.at]

RefusedMotion(c) == Discarded(Returned(c))

RefusedTee(c) == Returned([c EXCEPT !.ball = FALSE, !.mode = "walking"])

(* Every refusal heard this frame, in order: a motion's makes any tee-up's *)
(* return of no more effect.                                               *)
RefusalsTaken(c) ==
    LET teed == IF "tee_up" \in c.refused THEN RefusedTee(c) ELSE c
        moved == IF "update_motion" \in c.refused THEN RefusedMotion(teed) ELSE teed
    IN  [moved EXCEPT !.refused = {}]

(* Only I move: what I sent since keeps its place.                         *)
CorrectedAlone(c, sent) == [c EXCEPT !.at = @ + c.row.at - sent.at]

(* The row of a motion of my history: off by `by`, unless where I was put  *)
(* since explains it, I and all I sent since move by that.                 *)
Corrected(c, sent) ==
    LET by == c.row.at - sent.at
        unnoticed == IF Newest(c.history, sent) /\ c.stepped # NoPlace THEN c.at - c.stepped ELSE 0
        placed == sent.placed + unnoticed
        putThere == placed # 0 /\ c.row.at = sent.at + placed
    IN  IF by = 0 \/ putThere THEN c
        ELSE [c EXCEPT !.at = @ + by,
                       !.history = {IF later.id > sent.id
                                    THEN [later EXCEPT !.at = later.at + by] ELSE later : later \in @},
                       !.stepped = IF @ = NoPlace THEN NoPlace ELSE c.at + by,
                       !.start = @ + by]

(* The row forgets its own motion and none before it.                      *)
AcknowledgedOne(c) ==
    [c EXCEPT !.acked = Most(@, c.row.id),
              !.history = {sent \in @ : sent.id # c.row.id}]

(* A new row: its motion, if my history still has it, is the one it        *)
(* answers; what it acknowledges is forgotten.                             *)
Acknowledged(c) ==
    LET news == c.row.id > c.acked
        known == {sent \in c.history :
                     sent.id = c.row.id /\ sent.mode = c.row.mode /\ c.row.mode # "address"}
        seen == IF news /\ known # {} THEN Corrected(c, CHOOSE sent \in known : TRUE) ELSE c
        acked == Most(c.acked, c.row.id)
    IN  [seen EXCEPT !.acked = acked, !.history = {sent \in @ : sent.id > acked}]

(* What makes should_send_motion say so at once, and as a heartbeat.       *)
Due(c) == c.latest # [at |-> c.at, mode |-> MotionMode(c)]
BeatDue(c) == ~Due(c) /\ (c.moving # 0 \/ c.history # {})

-----------------------------------------------------------------------------
(* A frame of the game.                                                    *)

Heard(c, events) ==
    LET rows == {i \in DOMAIN events : events[i].event = "row"}
        last == CHOOSE i \in rows : \A j \in rows : j <= i
        refusals == {events[i].call : i \in DOMAIN events \ rows}
    IN  [c EXCEPT !.row = IF rows = {} THEN @ ELSE events[last].row,
                  !.refused = refusals]

(* The queued commands as they go out, each motion with an id of its own.  *)
Ids(c) == [i \in DOMAIN c.commands |-> c.sent + i]
Calls(c) ==
    [i \in DOMAIN c.commands |->
        IF IsMotion(c.commands[i])
        THEN [call |-> "update_motion", id |-> Ids(c)[i], first |-> c.commands[i].first,
              start |-> c.commands[i].start, steps |-> c.commands[i].steps,
              at |-> c.commands[i].at, mode |-> c.commands[i].mode]
        ELSE c.commands[i]]
Sent(c) ==
    LET motion(i) == [id |-> Ids(c)[i], at |-> c.commands[i].at,
                      mode |-> c.commands[i].mode, placed |-> c.commands[i].placed]
    IN  [c EXCEPT !.history = @ \cup {motion(i) : i \in {j \in DOMAIN c.commands :
                                                            IsMotion(c.commands[j])}},
                  !.sent = @ + Len(c.commands), !.commands = <<>>]
(* The bridge takes no call: the motions are due again, their steps gone.  *)
NotSent(c) == [c EXCEPT !.commands = <<>>, !.latest = NoMotion]

(* The game once refusals and the row are taken, with what that used up:   *)
(* the history may have waited too long for its answer, and is refused.    *)
Reconciled(c, used) ==
    LET acknowledged == Acknowledged(RefusalsTaken(c))
    IN  {[game |-> acknowledged, used |-> used]} \cup
        IF acknowledged.history = {} \/ ~Spare(used) THEN {}
        ELSE {[game |-> RefusedMotion(acknowledged), used |-> [used EXCEPT !.faults = @ + 1]]}

(* The rest of the frame once the golfer has done c: a motion is pushed    *)
(* when one is due and the least interval has passed.                      *)
Finish(c, used, sends) ==
    \E end \in Reconciled(c, used) :
        LET beat == sends /\ BeatDue(end.game)
        IN  /\ sends => Due(end.game) \/ beat
            /\ beat => Spare(end.used)
            /\ me' = IF sends THEN Pushed(end.game) ELSE end.game
            /\ spent' = [end.used EXCEPT !.beats = IF beat THEN @ + 1 ELSE @]

Standing(c) == [c EXCEPT !.moving = 0]
Turned(used) == [used EXCEPT !.turns = @ + 1]

(* No fixed step falls in this frame, or I stand at my ball.               *)
Rest(c, used, sends) == Finish(Standing(c), used, sends) /\ UNCHANGED taken

(* One step on foot, going on or standing still.                           *)
Step(c, used, input, sends) ==
    /\ c.mode = "walking" /\ Spare(used)
    /\ Finish(Walked(c, input), used, sends)
    /\ taken' = Append(taken, input)

TeeUp(c, used, mode, sends) ==
    /\ c.mode = "walking" /\ ~c.ball /\ Apart(c.at, Tee) <= TeeReach
    /\ Spare(used)
    /\ Finish(TeedUp(Standing(c), mode), Turned(used), sends)
    /\ UNCHANGED taken

(* Up to my ball, or turning a dial of my setup there: I stand to it.      *)
Address(c, used, sends) ==
    /\ c.ball /\ Apart(c.at, Tee) <= TeeReach
    /\ c.mode = "addressing" => c.at # Tee
    /\ Spare(used)
    /\ Finish([Standing(c) EXCEPT !.at = Tee, !.mode = "addressing"], Turned(used), sends)
    /\ UNCHANGED taken

StepBack(c, used, sends) ==
    /\ c.mode = "addressing"
    /\ Spare(used)
    /\ Finish([Standing(c) EXCEPT !.mode = "walking"], Turned(used), sends)
    /\ UNCHANGED taken

Acts(c, used, sends) ==
    \/ Address(c, used, sends) \/ StepBack(c, used, sends)
    \/ \E input \in {0, 1} : Step(c, used, input, sends)
    \/ \E mode \in {"walking", "addressing"} : TeeUp(c, used, mode, sends)

(* net_client's update, the first n rows and refusals on their way having  *)
(* come: the commands go out, or the bridge takes none of them.            *)
NetUpdate(n) ==
    LET heard == Heard(me, SubSeq(down, 1, n))
        lost == [spent EXCEPT !.faults = @ + 1]
    IN  {[game |-> Sent(heard), calls |-> Calls(me), used |-> spent]} \cup
        IF me.commands = <<>> \/ ~Spare(spent) THEN {}
        ELSE {[game |-> NotSent(heard), calls |-> <<>>, used |-> lost]}

Frame(n, rests, sends) ==
    /\ \E net \in NetUpdate(n) :
          /\ up' = up \o net.calls
          /\ IF rests THEN Rest(net.game, net.used, sends) ELSE Acts(net.game, net.used, sends)
    /\ down' = SubSeq(down, n + 1, Len(down))
    /\ UNCHANGED <<serverVars, now>>

-----------------------------------------------------------------------------
(* The server: update_motion and tee_up.                                   *)

(* The steps of a motion m the server plays, from where it starts them:    *)
(* those not played yet, while the time saved up lasts.                    *)
CreditKept == mover.credit + since
Credit == Least(Gap, mover.credit + since)
LastStep(m) == m.first + Len(m.steps) - 1
FreshFrom(m) == Most(m.first, mover.step + 1)
Fresh(m) == Most(0, LastStep(m) - FreshFrom(m) + 1)
FromStart(m) ==
    LET off == Apart(m.start, mover.at)
    IN  FreshFrom(m) = m.first /\ Fresh(m) > 0 /\ off <= StartTolerance /\ off < Credit
StartCost(m) == IF FromStart(m) THEN Apart(m.start, mover.at) ELSE 0
InTime(m) == IF Credit = 0 THEN 0 ELSE Least(Fresh(m), Credit - StartCost(m))
Forward(m) ==
    Cardinality({n \in FreshFrom(m) .. FreshFrom(m) + InTime(m) - 1 : m.steps[n - m.first + 1] # 0})

(* The steps cost no time.                                                 *)
SteppedFree(m, far) ==
    [mover EXCEPT !.at = @ + far, !.step = IF m.steps = <<>> THEN @ ELSE Most(@, LastStep(m)),
                  !.credit = Credit, !.id = m.id]

(* The mover once m's steps went `far` of the way forward they could: a    *)
(* step may meet something the prediction did not.                         *)
Stepped(m, far) ==
    [mover EXCEPT !.at = (IF FromStart(m) THEN m.start ELSE @) + far,
                  !.step = IF m.steps = <<>> THEN @ ELSE Most(@, LastStep(m)),
                  !.credit = Credit - InTime(m) - StartCost(m),
                  !.id = m.id]

NearTee(at) == Apart(at, Tee) <= TeeReach

(* At the ball the place is the client's claim: within the time left, the  *)
(* slack, or beside their own ball.  A claim spends the time it takes.     *)
Claimed(mv, to) == [mv EXCEPT !.at = to, !.credit = Most(0, @ - Apart(mv.at, to))]
ByOwnBall(mv, to) == mv.ball /\ NearTee(mv.at) /\ NearTee(to)

(* Every way the server may take motion m; none is a refusal.  How much    *)
(* slack is left is not modelled: a claim beyond the time left may pass.   *)
Outcomes(m) ==
    LET stepped == {[moved |-> Stepped(m, far), far |-> far] :
                       far \in {Forward(m), Most(0, Forward(m) - 1)}}
        claimed(o) == {[o EXCEPT !.moved = Claimed(@, m.at)]}
        beside(o) == IF ByOwnBall(o.moved, m.at) THEN {[o EXCEPT !.moved.at = m.at]} ELSE {}
    IN  IF m.mode = "address" THEN UNION {claimed(o) \cup beside(o) : o \in stepped} ELSE stepped
MayRefuse(m) ==
    m.mode = "address" /\ \E far \in 0..Forward(m) :
        LET mv == Stepped(m, far)
        IN  Apart(mv.at, m.at) > mv.credit /\ ~ByOwnBall(mv, m.at)

Refusal(call) == Append(down, [event |-> "refusal", call |-> call])
Row(mv, mode) == [event |-> "row", row |-> [at |-> mv.at, mode |-> mode, id |-> mv.id]]

Accept(m) ==
    \E o \in Outcomes(m) :
        /\ mover' = o.moved /\ since' = 0
        /\ played' = played + InTime(m) /\ walked' = walked + o.far
        /\ down' = Append(down, Row(o.moved, m.mode))

Refuse(call) == down' = Refusal(call) /\ UNCHANGED serverVars

(* A motion with more steps than one may carry, or older than the last, is *)
(* refused; the last one again changes nothing.                            *)
Motion(m) ==
    IF Len(m.steps) > 2 * Gap THEN Refuse(m.call)
    ELSE IF m.id = mover.id THEN UNCHANGED <<serverVars, down>>
    ELSE IF m.id < mover.id THEN Refuse(m.call)
    ELSE Accept(m) \/ (MayRefuse(m) /\ Refuse(m.call))

(* Their ball on the tee and them behind it, unless it is out of reach or  *)
(* another golfer's ball is there.                                         *)
TeeUpCall ==
    \/ /\ NearTee(mover.at) /\ ~mover.ball
       /\ LET placed == [mover EXCEPT !.at = Tee, !.credit = Credit, !.ball = TRUE]
          IN  mover' = placed /\ since' = 0 /\ down' = Append(down, Row(placed, "idle"))
       /\ UNCHANGED <<played, walked>>
    \/ Refuse("tee_up")

(* The next call, which may come again later.                              *)
Serve ==
    /\ up # <<>>
    /\ LET call == Head(up)
       IN  /\ IF IsMotion(call) THEN Motion(call) ELSE TeeUpCall
           /\ \/ up' = Tail(up) /\ UNCHANGED spent
              \/ /\ IsMotion(call) /\ Spare(spent)
                 /\ up' = Append(Tail(up), call)
                 /\ spent' = [spent EXCEPT !.faults = @ + 1]
    /\ UNCHANGED <<me, now, taken>>

Tick ==
    /\ Spare(spent)
    /\ now' = now + 1 /\ since' = since + 1
    /\ UNCHANGED <<me, up, down, mover, played, walked, taken, spent>>

-----------------------------------------------------------------------------

Joined(at) ==
    [at |-> at, step |-> 0, credit |-> Gap, id |-> 0, ball |-> FALSE]

(* Just in the room, at the spawn (place 0), their row known.              *)
Init ==
    /\ mover = Joined(0)
    /\ me = [at |-> 0, mode |-> "walking", moving |-> 0, ball |-> FALSE, step |-> 0,
             unsent |-> <<>>, first |-> 0, start |-> 0, stepped |-> NoPlace, commands |-> <<>>,
             latest |-> NoMotion, history |-> {}, sent |-> 0, acked |-> 0,
             row |-> [at |-> 0, mode |-> "idle", id |-> 0], refused |-> {}]
    /\ up = <<>> /\ down = <<>>
    /\ since = 0 /\ now = 0 /\ played = 0 /\ walked = 0 /\ taken = <<>>
    /\ spent = [turns |-> 0, beats |-> 0, faults |-> 0]

Next ==
    \/ \E n \in 0..Len(down), rests, sends \in BOOLEAN : Frame(n, rests, sends)
    \/ Serve
    \/ Tick

Spec == Init /\ [][Next]_vars

(* Frames go on, even if the golfer does nothing, and hear what has come;  *)
(* calls are answered.                                                     *)
Running == []<>(down = <<>>) /\ WF_vars(Serve)

FairSpec == Spec /\ Running

-----------------------------------------------------------------------------
(* The state's types.                                                      *)

Call ==
    [call : {"update_motion"}, id : Nat \ {0}, first : Nat, start : Int,
     steps : Seq({0, 1}), at : Int, mode : {"idle", "walk", "address"}]
    \cup [call : {"tee_up"}]

(* What the game and the server hold is of its kind, and no call, row or   *)
(* acknowledgement has an id the game did not give out.                    *)
MotionTypeOK ==
    /\ me.at \in Int /\ me.moving \in {0, 1} /\ me.mode \in {"walking", "addressing"}
    /\ me.step = Len(taken) /\ me.unsent \in Seq({0, 1})
    /\ me.acked \in 0..me.sent /\ mover.id \in 0..me.sent
    /\ \A sent \in me.history : sent.id \in me.acked + 1 .. me.sent
    /\ \A i \in DOMAIN up : up[i] \in Call /\ (IsMotion(up[i]) => up[i].id <= me.sent)
    /\ mover.at \in Int /\ mover.credit \in 0..Gap /\ mover.step \in 0..me.step
    /\ since \in 0..now /\ walked \in 0..played /\ played \in 0..mover.step

(* All that was sent is answered, and nothing more is to be sent.          *)
Quiet ==
    /\ up = <<>> /\ down = <<>>
    /\ me.commands = <<>> /\ me.history = {} /\ me.refused = {}
    /\ \A i \in DOMAIN me.unsent : me.unsent[i] = 0
    /\ ~Due(me)

(* A golfer who stopped stands where the server has them, however their    *)
(* motions and the rows that answer them crossed, whatever was lost, came  *)
(* twice or was given up on: corrections (reconcile_motion) are made once  *)
(* each, and what they miss, the next motion finds.  Where they were put   *)
(* at a tee since is not the same (TeedGolferStays).                       *)
Agreement == Quiet /\ spent.turns = 0 => me.at = mover.at

(* The server plays no more steps than the time they had, plus the time it *)
(* lets them save up: play_move's credit, however motions are repeated.    *)
WithinTime == played <= Gap + now

(* Every motion sent is acknowledged in the end, or given up on: no answer *)
(* is waited for for ever.                                                 *)
GetsHeard == []<>(me.history = {})

(* The server plays the steps the golfer took, each at most once and in    *)
(* order, and pays movement for no other, as docs/networking_rules.md has  *)
(* it.                                                                     *)
Abstract == INSTANCE Walk WITH taken <- taken, done <- mover.step, walked <- walked,
                               Input <- {0, 1}
ImplementsWalk == Abstract!WalkSpec

(* "Motions are not refused for drifting", and steps beyond the time saved *)
(* up are "passed over unplayed" (docs/networking_rules.md:80-87).         *)
NoneRefused ==
    \A i \in DOMAIN down : ~(down[i].event = "refusal" /\ down[i].call = "update_motion")

(* A golfer stood to their ball is not moved by the row that shows them    *)
(* there: "where I was put since, which the row may show already"          *)
(* (sync_reconciliation.cpp:175).  It does not hold: a placement not yet   *)
(* noted by a step reads as a correction of the walk before.               *)
TeedGolferStays ==
    [][ /\ me.mode = "addressing" /\ me'.mode = "addressing"
        /\ me.at = Tee /\ me'.row.at = Tee /\ me.refused = {} /\ me'.refused = {}
        => me'.at = Tee ]_vars
=============================================================================
