---------------------------- MODULE MotionProofs ----------------------------
(***************************************************************************)
(* Movement by input, proved for any place of the tee, any time that may   *)
(* be saved up and any number of steps, losses and repeats.  What TLC      *)
(* alone shows of Motion is that every motion is answered.                 *)
(***************************************************************************)
EXTENDS Motion, FiniteSetTheorems, SequenceTheorems, WellFoundedInduction, TLAPS

-----------------------------------------------------------------------------
(* The state's types. *)

Mode == {"idle", "walk", "address"}
Input == {0, 1}

MotionCommand ==
    [call : {"update_motion"}, first : Nat, start : Int, steps : Seq(Input),
     mode : Mode, placed : Int, at : Int]

Command == MotionCommand \cup [call : {"tee_up"}]

MotionCall ==
    [call : {"update_motion"}, id : Nat \ {0}, first : Nat, start : Int, steps : Seq(Input),
     at : Int, mode : Mode]

HistoryEntry == [id : Nat \ {0}, at : Int, mode : Mode, placed : Int]

RowSent == [at : Int, mode : Mode, id : Nat]

Event == [event : {"row"}, row : RowSent] \cup [event : {"refusal"}, call : {"update_motion", "tee_up"}]

Mover == [at : Int, step : Nat, credit : 0..Gap, id : Nat, ball : BOOLEAN]

Game ==
    [at : Int, mode : {"walking", "addressing"}, moving : Input, ball : BOOLEAN, step : Nat,
     unsent : Seq(Input), first : Nat, start : Int, stepped : Int \cup {NoPlace},
     commands : Seq(Command), latest : [at : Int, mode : Mode] \cup {NoMotion},
     history : SUBSET HistoryEntry, sent : Nat, acked : Nat, row : RowSent,
     refused : SUBSET {"update_motion", "tee_up"}]

(* The inputs a motion carries are those of the steps it numbers. *)
Carried(first, steps, inputs) ==
    steps # <<>> =>
        /\ first >= 1 /\ first + Len(steps) - 1 <= Len(inputs)
        /\ \A i \in 1..Len(steps) : steps[i] = inputs[first + i - 1]

AllCarried(motions, inputs) ==
    \A i \in 1..Len(motions) :
        IsMotion(motions[i]) => Carried(motions[i].first, motions[i].steps, inputs)

(* A game's steps are numbered up to the last it took, and what it holds   *)
(* has the numbers it gave out.                                            *)
Sound(c, inputs, ids) ==
    /\ c \in Game
    /\ c.step = Len(inputs)
    /\ Carried(c.first, c.unsent, inputs)
    /\ c.unsent # <<>> => c.first + Len(c.unsent) - 1 = c.step
    /\ AllCarried(c.commands, inputs)
    /\ c.sent = ids /\ c.acked <= c.sent /\ c.row.id <= c.sent
    /\ \A sent \in c.history : sent.id \in c.acked + 1 .. c.sent

Travelling ==
    /\ up \in Seq(Call) /\ down \in Seq(Event)
    /\ AllCarried(up, taken)
    /\ \A i \in 1..Len(up) : IsMotion(up[i]) => up[i].id <= me.sent
    /\ \A i \in 1..Len(down) : down[i].event = "row" => down[i].row.id <= me.sent

Served ==
    /\ mover \in Mover /\ mover.step <= Len(taken) /\ mover.id <= me.sent
    /\ since \in 0..now /\ now \in Nat
    /\ played \in 0..mover.step /\ walked \in 0..played
    /\ played + mover.credit + since <= Gap + now

MotionInv == taken \in Seq(Input) /\ Sound(me, taken, me.sent) /\ Travelling /\ Served

-----------------------------------------------------------------------------
(* Sequences and numbers. *)

(* A finite set of numbers that is not empty has a greatest. *)
LEMMA Greatest ==
    ASSUME NEW n \in Nat, NEW S, S \subseteq 1..n, S # {}
    PROVE  \E i \in S : \A j \in S : j <= i
<1> DEFINE T == {k \in Nat : n - k \in S}
<1>1. PICK s \in S : TRUE
    OBVIOUS
<1>2. n - s \in T
    BY <1>1
<1>3. PICK k \in T : \A l \in T : ~(<<l, k>> \in OpToRel(<, Nat))
    BY <1>2, WFMin, NatLessThanWellFounded
<1>4. \A l \in T : ~(l < k)
    BY <1>3 DEF OpToRel
<1>5. ASSUME NEW j \in S PROVE j <= n - k
  <2>1. j \in 1..n
    OBVIOUS
  <2>2. n - j \in T
    BY <2>1
  <2>3. ~(n - j < k)
    BY <1>4, <2>2
  <2>4. k \in Nat
    OBVIOUS
  <2> HIDE DEF T
  <2> QED
    BY <2>1, <2>3, <2>4
<1> QED
    BY <1>5

(* What was carried still is when one more step is taken. *)
LEMMA CarriedOn ==
    ASSUME NEW inputs \in Seq(Input), NEW input \in Input,
           NEW first \in Nat, NEW steps \in Seq(Input), Carried(first, steps, inputs)
    PROVE  Carried(first, steps, Append(inputs, input))
<1>1. Len(Append(inputs, input)) = Len(inputs) + 1
    OBVIOUS
<1>2. \A k \in 1..Len(inputs) : Append(inputs, input)[k] = inputs[k]
    OBVIOUS
<1>3. ASSUME steps # <<>>, NEW i \in 1..Len(steps)
      PROVE  Append(inputs, input)[first + i - 1] = steps[i]
  <2>1. first + i - 1 \in 1..Len(inputs)
    BY <1>3 DEF Carried
  <2> QED
    BY <1>2, <1>3, <2>1 DEF Carried
<1> QED
    BY <1>1, <1>3 DEF Carried

(* A queued command of each kind. *)
LEMMA CommandKinds ==
    ASSUME NEW command \in Command
    PROVE  IF IsMotion(command)
           THEN command \in MotionCommand
           ELSE command = [call |-> "tee_up"]
BY DEF Command, MotionCommand, IsMotion

LEMMA CallKinds ==
    ASSUME NEW call \in Call
    PROVE  IF IsMotion(call) THEN call \in MotionCall ELSE call = [call |-> "tee_up"]
BY DEF Call, MotionCall, Mode, Input, IsMotion

(* One more motion that carries steps that were taken. *)
LEMMA AppendCarried ==
    ASSUME NEW S, NEW motions \in Seq(S), NEW motion \in S, NEW inputs, AllCarried(motions, inputs),
           IsMotion(motion) => Carried(motion.first, motion.steps, inputs)
    PROVE  AllCarried(Append(motions, motion), inputs)
<1> DEFINE more == Append(motions, motion)
<1>1. /\ Len(more) = Len(motions) + 1 /\ more[Len(motions) + 1] = motion
      /\ \A i \in 1..Len(motions) : more[i] = motions[i]
      /\ Len(motions) \in Nat
    OBVIOUS
<1> HIDE DEF more
<1>2. ASSUME NEW i \in 1..Len(more), IsMotion(more[i])
      PROVE  Carried(more[i].first, more[i].steps, inputs)
  <2>1. CASE i = Len(motions) + 1
    BY <1>1, <1>2, <2>1
  <2>2. CASE i \in 1..Len(motions)
    BY <1>1, <1>2, <2>2 DEF AllCarried
  <2> QED
    BY <1>1, <2>1, <2>2
<1> QED
    BY <1>2 DEF AllCarried, more

-----------------------------------------------------------------------------
(* The game's functions. *)

LEMMA PushedSound ==
    ASSUME NEW inputs \in Seq(Input), NEW ids, NEW c, Sound(c, inputs, ids)
    PROVE  Sound(Pushed(c), inputs, ids) /\ Pushed(c).unsent = <<>> /\ Pushed(c).stepped = c.stepped
           /\ Pushed(c).at = c.at
<1> DEFINE walkedThere == c.unsent # <<>> /\ c.mode = "walking" /\ c.stepped # NoPlace
           motion == [call |-> "update_motion", first |-> c.first, start |-> c.start,
                      steps |-> c.unsent, mode |-> MotionMode(c), placed |-> 0,
                      at |-> IF walkedThere THEN c.stepped ELSE c.at]
<1>1. c \in Game
    BY DEF Sound
<1>2. MotionMode(c) \in Mode
    BY DEF MotionMode, Mode
<1>3. motion.at \in Int
    BY <1>1 DEF Game
<1>4. motion \in Command
    BY <1>1, <1>2, <1>3 DEF Game, Command, MotionCommand
<1>5. IsMotion(motion) /\ motion.first = c.first /\ motion.steps = c.unsent
    BY DEF IsMotion
<1>6. Pushed(c) = [c EXCEPT !.commands = Append(@, motion), !.unsent = <<>>,
                            !.latest = [at |-> motion.at, mode |-> motion.mode]]
    BY DEF Pushed
<1>7. motion.mode \in Mode
    BY <1>2
<1> HIDE DEF motion, walkedThere
<1>8. c.commands \in Seq(Command)
    BY <1>1 DEF Game
<1>9. /\ Pushed(c) \in Game
      /\ Pushed(c).commands = Append(c.commands, motion)
      /\ Pushed(c).unsent = <<>>
      /\ Pushed(c).step = c.step /\ Pushed(c).acked = c.acked /\ Pushed(c).sent = c.sent
      /\ Pushed(c).row = c.row /\ Pushed(c).history = c.history
      /\ Pushed(c).stepped = c.stepped /\ Pushed(c).at = c.at
  <2> DEFINE commands == Append(c.commands, motion)
             latest == [at |-> motion.at, mode |-> motion.mode]
  <2>1. commands \in Seq(Command)
    BY <1>4, <1>8
  <2>2. latest \in [at : Int, mode : Mode] \cup {NoMotion}
    BY <1>3, <1>7
  <2>3. <<>> \in Seq(Input)
    OBVIOUS
  <2>4. Pushed(c) = [c EXCEPT !.commands = commands, !.unsent = <<>>, !.latest = latest]
    BY <1>1, <1>6 DEF Game
  <2> HIDE DEF commands, latest
  <2>5. Pushed(c) \in Game
    BY <1>1, <2>1, <2>2, <2>3, <2>4 DEF Game
  <2>6. /\ Pushed(c).commands = commands /\ Pushed(c).unsent = <<>>
        /\ Pushed(c).step = c.step /\ Pushed(c).acked = c.acked /\ Pushed(c).sent = c.sent
        /\ Pushed(c).row = c.row /\ Pushed(c).history = c.history
        /\ Pushed(c).stepped = c.stepped /\ Pushed(c).at = c.at
    BY <1>1, <2>4 DEF Game
  <2> QED
    BY <2>5, <2>6 DEF commands
<1>10. AllCarried(Pushed(c).commands, inputs)
  <2>1. AllCarried(c.commands, inputs) /\ Carried(motion.first, motion.steps, inputs)
    BY <1>5 DEF Sound
  <2>2. AllCarried(Append(c.commands, motion), inputs)
    BY <1>4, <1>8, <2>1, AppendCarried
  <2> QED
    BY <1>9, <2>2
<1>11. Carried(Pushed(c).first, Pushed(c).unsent, inputs)
    BY <1>9 DEF Carried
<1>12. /\ Pushed(c).step = Len(inputs)
       /\ Pushed(c).acked <= Pushed(c).sent /\ Pushed(c).row.id <= Pushed(c).sent
       /\ \A sent \in Pushed(c).history : sent.id \in Pushed(c).acked + 1 .. Pushed(c).sent
    BY <1>9 DEF Sound
<1>13. Sound(Pushed(c), inputs, ids)
    BY <1>9, <1>10, <1>11, <1>12 DEF Sound
<1> QED
    BY <1>9, <1>13

LEMMA PlacedSound ==
    ASSUME NEW inputs \in Seq(Input), NEW ids, NEW c, Sound(c, inputs, ids), NEW by \in Int
    PROVE  /\ Sound(Placed(c, by), inputs, ids)
           /\ Placed(c, by).unsent = c.unsent /\ Placed(c, by).at = c.at
<1> DEFINE motions == {i \in DOMAIN c.commands : IsMotion(c.commands[i])}
           latest == CHOOSE i \in motions : \A j \in motions : j <= i
<1>1. c \in Game /\ c.commands \in Seq(Command) /\ c.history \subseteq HistoryEntry
    BY DEF Sound, Game
<1>2. CASE motions # {}
  <2>1. motions \subseteq 1..Len(c.commands) /\ Len(c.commands) \in Nat
    BY <1>1
  <2>2. \E i \in motions : \A j \in motions : j <= i
    BY <1>2, <2>1, Greatest
  <2>3. latest \in motions
    BY <2>2
  <2> HIDE DEF latest
  <2> DEFINE command == c.commands[latest]
             more == [command EXCEPT !.placed = @ + by]
             commands == [c.commands EXCEPT ![latest] = more]
  <2>4. latest \in 1..Len(c.commands) /\ command \in Command /\ IsMotion(command)
    <3>1. latest \in 1..Len(c.commands)
        BY <2>1, <2>3
    <3>2. command \in Command
        BY <1>1, <3>1, ElementOfSeq
    <3> QED
        BY <2>3, <3>1, <3>2
  <2>5. /\ more \in Command /\ IsMotion(more)
        /\ more.first = command.first /\ more.steps = command.steps
    <3>1. command \in MotionCommand
        BY <2>4, CommandKinds
    <3> HIDE DEF command
    <3> QED
        BY <3>1 DEF Command, MotionCommand, IsMotion
  <2>6. Placed(c, by) = [c EXCEPT !.commands = commands]
    BY <1>1, <1>2 DEF Placed, Game, latest
  <2> HIDE DEF more
  <2>7. /\ commands \in Seq(Command) /\ Len(commands) = Len(c.commands)
        /\ commands[latest] = more
        /\ \A i \in 1..Len(c.commands) : i # latest => commands[i] = c.commands[i]
    BY <1>1, <2>4, <2>5, ExceptSeq
  <2>8. AllCarried(commands, inputs)
    <3> HIDE DEF commands
    <3>1. SUFFICES ASSUME NEW i \in 1..Len(c.commands), IsMotion(commands[i])
                   PROVE  Carried(commands[i].first, commands[i].steps, inputs)
        BY <2>7 DEF AllCarried
    <3>2. AllCarried(c.commands, inputs)
        BY DEF Sound
    <3>3. CASE i = latest
        BY <2>4, <2>5, <2>7, <3>2, <3>3 DEF AllCarried
    <3>4. CASE i # latest
        BY <2>7, <3>1, <3>2, <3>4 DEF AllCarried
    <3> QED
        BY <3>3, <3>4
  <2> HIDE DEF commands
  <2>9. Placed(c, by) \in Game /\ Placed(c, by).commands = commands
    BY <1>1, <2>6, <2>7 DEF Game
  <2>10. /\ Placed(c, by).at = c.at /\ Placed(c, by).step = c.step
         /\ Placed(c, by).unsent = c.unsent /\ Placed(c, by).first = c.first
         /\ Placed(c, by).acked = c.acked /\ Placed(c, by).sent = c.sent
         /\ Placed(c, by).row = c.row /\ Placed(c, by).history = c.history
    BY <1>1, <2>6 DEF Game
  <2> QED
    BY <2>8, <2>9, <2>10 DEF Sound
<1>3. CASE motions = {}
  <2> DEFINE history == {IF Newest(c.history, sent) THEN [sent EXCEPT !.placed = @ + by]
                         ELSE sent : sent \in c.history}
  <2>1. Placed(c, by) = [c EXCEPT !.history = history]
    BY <1>1, <1>3 DEF Placed, Game
  <2>2. \A entry \in history : entry \in HistoryEntry /\ \E sent \in c.history : entry.id = sent.id
    BY <1>1 DEF HistoryEntry
  <2> HIDE DEF history
  <2>3. Placed(c, by) \in Game /\ Placed(c, by).history = history
    BY <1>1, <2>1, <2>2 DEF Game
  <2>4. /\ Placed(c, by).at = c.at /\ Placed(c, by).step = c.step
        /\ Placed(c, by).unsent = c.unsent /\ Placed(c, by).first = c.first
        /\ Placed(c, by).acked = c.acked /\ Placed(c, by).sent = c.sent
        /\ Placed(c, by).row = c.row /\ Placed(c, by).commands = c.commands
    BY <1>1, <2>1 DEF Game
  <2>5. \A entry \in history : entry.id \in c.acked + 1 .. c.sent
    BY <2>2 DEF Sound
  <2> QED
    BY <2>3, <2>4, <2>5 DEF Sound
<1> QED
    BY <1>2, <1>3

(* What is sound hangs on these parts of the game. *)
LEMMA SameSound ==
    ASSUME NEW inputs, NEW ids, NEW c, Sound(c, inputs, ids), NEW d \in Game,
           d.step = c.step, d.unsent = c.unsent, d.first = c.first, d.commands = c.commands,
           \A entry \in d.history : \E sent \in c.history : entry.id = sent.id, d.acked = c.acked, d.sent = c.sent, d.row = c.row
    PROVE  Sound(d, inputs, ids)
BY DEF Sound

(* One more step gets the next number. *)
LEMMA NumberedSound ==
    ASSUME NEW inputs \in Seq(Input), NEW ids, NEW input \in Input, NEW c, Sound(c, inputs, ids), NEW at \in Int
    PROVE  LET first == c.unsent = <<>>
               next == [c EXCEPT !.step = @ + 1,
                                 !.first = IF first THEN c.step + 1 ELSE @,
                                 !.start = IF first THEN at ELSE @,
                                 !.unsent = Append(@, input)]
           IN  Sound(next, Append(inputs, input), ids)
<1> DEFINE more == Append(inputs, input)
           start == IF c.unsent = <<>> THEN c.step + 1 ELSE c.first
           place == IF c.unsent = <<>> THEN at ELSE c.start
           unsent == Append(c.unsent, input)
           next == [c EXCEPT !.step = @ + 1, !.first = start, !.start = place, !.unsent = unsent]
<1>1. c \in Game /\ c.unsent \in Seq(Input) /\ c.step \in Nat /\ c.first \in Nat /\ c.start \in Int
    BY DEF Sound, Game
<1>2. c.commands \in Seq(Command)
    BY <1>1 DEF Game
<1>3. /\ more \in Seq(Input) /\ Len(more) = Len(inputs) + 1 /\ more[Len(inputs) + 1] = input
      /\ \A i \in 1..Len(inputs) : more[i] = inputs[i]
    OBVIOUS
<1>4. /\ unsent \in Seq(Input) /\ Len(unsent) = Len(c.unsent) + 1 /\ unsent[Len(c.unsent) + 1] = input
      /\ \A i \in 1..Len(c.unsent) : unsent[i] = c.unsent[i]
    BY <1>1
<1>5. /\ start \in Nat /\ place \in Int /\ start >= 1
      /\ start + Len(unsent) - 1 = c.step + 1
      /\ c.step + 1 = Len(more)
  <2>1. c.step = Len(inputs)
    BY DEF Sound
  <2>2. CASE c.unsent = <<>>
    BY <1>1, <1>3, <1>4, <2>1, <2>2
  <2>3. CASE c.unsent # <<>>
    <3>1. c.first >= 1 /\ c.first + Len(c.unsent) - 1 = c.step
        BY <2>3 DEF Sound, Carried
    <3>2. start = c.first /\ place = c.start
        BY <2>3
    <3> HIDE DEF start, place, unsent, more
    <3> QED
        BY <1>1, <1>3, <1>4, <2>1, <3>1, <3>2
  <2> QED
    BY <2>2, <2>3
<1>6. ASSUME NEW i \in 1..Len(unsent) PROVE unsent[i] = more[start + i - 1]
  <2> HIDE DEF more, unsent
  <2>1. c.step = Len(inputs) /\ Len(c.unsent) \in Nat
    BY <1>1 DEF Sound
  <2>2. CASE i = Len(c.unsent) + 1
    <3> HIDE DEF start
    <3>1. start + i - 1 = Len(inputs) + 1
        BY <1>4, <1>5, <2>1, <2>2
    <3> QED
        BY <1>3, <1>4, <2>2, <3>1
  <2>3. CASE i \in 1..Len(c.unsent)
    <3>1. c.unsent # <<>>
        BY <2>3
    <3>2. start = c.first /\ Carried(c.first, c.unsent, inputs)
        BY <3>1 DEF Sound
    <3>3. start + i - 1 \in 1..Len(inputs) /\ c.unsent[i] = inputs[start + i - 1]
        BY <1>1, <2>3, <3>1, <3>2 DEF Carried
    <3> QED
        BY <1>3, <1>4, <2>3, <3>3
  <2> QED
    BY <1>4, <2>1, <2>2, <2>3
<1> HIDE DEF more, start, place, unsent
<1>7. Carried(start, unsent, more)
    BY <1>5, <1>6 DEF Carried
<1>8. AllCarried(c.commands, more)
  <2>1. SUFFICES ASSUME NEW i \in 1..Len(c.commands), IsMotion(c.commands[i])
                 PROVE  Carried(c.commands[i].first, c.commands[i].steps, more)
    BY DEF AllCarried
  <2>2. c.commands[i] \in MotionCommand
    BY <1>2, <2>1, CommandKinds, ElementOfSeq
  <2>3. Carried(c.commands[i].first, c.commands[i].steps, inputs)
    BY <2>1 DEF Sound, AllCarried
  <2>4. c.commands[i].first \in Nat /\ c.commands[i].steps \in Seq(Input)
    BY <2>2 DEF MotionCommand
  <2> QED
    BY <2>3, <2>4, CarriedOn DEF more
<1>9. /\ next \in Game
      /\ next.step = c.step + 1 /\ next.first = start /\ next.unsent = unsent
      /\ next.commands = c.commands /\ next.history = c.history
      /\ next.acked = c.acked /\ next.sent = c.sent /\ next.row = c.row
  <2>1. unsent \in Seq(Input) /\ start \in Nat /\ place \in Int /\ c.step + 1 \in Nat
    BY <1>1, <1>4, <1>5
  <2>2. c \in Game
    BY <1>1
  <2>3. next \in Game
    BY <2>1, <2>2 DEF Game
  <2> QED
    BY <2>2, <2>3 DEF Game
<1> HIDE DEF next
<1>10. Sound(next, more, ids)
    BY <1>5, <1>7, <1>8, <1>9 DEF Sound
<1> QED
    BY <1>10 DEF next, more, start, place, unsent

LEMMA RecordedSound ==
    ASSUME NEW inputs \in Seq(Input), NEW ids, NEW input \in Input, NEW c, Sound(c, inputs, ids)
    PROVE  Sound(Recorded(c, input), Append(inputs, input), ids)
<1> DEFINE by == IF c.stepped # NoPlace THEN c.at - c.stepped ELSE 0
           flushed == IF by # 0 /\ c.unsent # <<>> THEN Pushed(c) ELSE c
           noted == IF by # 0 THEN [Placed(flushed, by) EXCEPT !.stepped = NoPlace] ELSE flushed
<1>1. c \in Game /\ c.at \in Int
    BY DEF Sound, Game
<1>2. by \in Int
    BY <1>1 DEF Game
<1> HIDE DEF by
<1>3. Sound(flushed, inputs, ids)
    BY PushedSound
<1> HIDE DEF flushed
<1>4. Sound(noted, inputs, ids)
  <2>1. CASE by # 0
    <3>1. Sound(Placed(flushed, by), inputs, ids)
        BY <1>2, <1>3, PlacedSound
    <3> DEFINE placed == Placed(flushed, by)
    <3> HIDE DEF placed
    <3>2. placed \in Game /\ Sound(placed, inputs, ids)
        BY <3>1 DEF Sound, placed
    <3>3. Sound([placed EXCEPT !.stepped = NoPlace], inputs, ids)
        <4> DEFINE put == [placed EXCEPT !.stepped = NoPlace]
        <4>1. /\ put \in Game /\ put.step = placed.step /\ put.unsent = placed.unsent
              /\ put.first = placed.first /\ put.commands = placed.commands
              /\ put.history = placed.history /\ put.acked = placed.acked
              /\ put.sent = placed.sent /\ put.row = placed.row
            BY <3>2 DEF Game
        <4> HIDE DEF put
        <4>2. Sound(put, inputs, ids)
            BY <3>2, <4>1, SameSound
        <4> QED
            BY <4>2 DEF put
    <3> QED
        BY <2>1, <3>3 DEF placed
  <2>2. CASE by = 0
    BY <1>3, <2>2
  <2> QED
    BY <2>1, <2>2
<1>5. c.step = noted.step
    BY <1>4 DEF Sound
<1> HIDE DEF noted
<1>6. Sound([noted EXCEPT !.step = @ + 1,
                          !.first = IF noted.unsent = <<>> THEN noted.step + 1 ELSE @,
                          !.start = IF noted.unsent = <<>> THEN c.at ELSE @,
                          !.unsent = Append(@, input)], Append(inputs, input), ids)
    BY <1>1, <1>4, NumberedSound
<1> QED
    BY <1>5, <1>6 DEF Recorded, noted, flushed, by

LEMMA WalkedSound ==
    ASSUME NEW inputs \in Seq(Input), NEW ids, NEW input \in Input, NEW c, Sound(c, inputs, ids)
    PROVE  Sound(Walked(c, input), Append(inputs, input), ids)
<1> DEFINE d == Recorded(c, input)
           at == c.at + input
           next == [d EXCEPT !.at = at, !.moving = input, !.stepped = at]
<1>1. Sound(d, Append(inputs, input), ids) /\ d \in Game
    BY RecordedSound DEF Sound
<1>2. at \in Int /\ input \in Input
    BY DEF Sound, Game, Input
<1> HIDE DEF d, at
<1>3. /\ next \in Game /\ next.step = d.step /\ next.unsent = d.unsent
      /\ next.first = d.first /\ next.commands = d.commands /\ next.history = d.history
      /\ next.acked = d.acked /\ next.sent = d.sent /\ next.row = d.row
    BY <1>1, <1>2 DEF Game
<1> HIDE DEF next
<1>4. Sound(next, Append(inputs, input), ids)
    BY <1>1, <1>3, SameSound
<1> QED
    BY <1>4 DEF Walked, next, d, at

(* Put elsewhere, turned to or from the ball. *)
LEMMA PutSound ==
    ASSUME NEW inputs, NEW ids, NEW c, Sound(c, inputs, ids), NEW at \in Int,
           NEW mode \in {"walking", "addressing"}, NEW moving \in Input, NEW has \in BOOLEAN,
           NEW refused \in SUBSET {"update_motion", "tee_up"}
    PROVE  Sound([c EXCEPT !.at = at, !.mode = mode, !.moving = moving, !.ball = has,
                           !.refused = refused], inputs, ids)
<1> DEFINE next == [c EXCEPT !.at = at, !.mode = mode, !.moving = moving, !.ball = has,
                             !.refused = refused]
<1>1. c \in Game
    BY DEF Sound
<1>2. /\ next \in Game /\ next.step = c.step /\ next.unsent = c.unsent
      /\ next.first = c.first /\ next.commands = c.commands /\ next.history = c.history
      /\ next.acked = c.acked /\ next.sent = c.sent /\ next.row = c.row
    BY <1>1 DEF Game
<1> HIDE DEF next
<1>3. Sound(next, inputs, ids)
    BY <1>2, SameSound
<1> QED
    BY <1>3 DEF next

LEMMA GameParts ==
    ASSUME NEW c \in Game
    PROVE  /\ c.at \in Int /\ c.mode \in {"walking", "addressing"} /\ c.moving \in Input
           /\ c.ball \in BOOLEAN /\ c.refused \in SUBSET {"update_motion", "tee_up"}
           /\ c.row.at \in Int
BY DEF Game, RowSent

LEMMA StandingSound ==
    ASSUME NEW inputs, NEW ids, NEW c, Sound(c, inputs, ids)
    PROVE  /\ Sound(Standing(c), inputs, ids)
           /\ Sound([Standing(c) EXCEPT !.at = Tee, !.mode = "addressing"], inputs, ids)
           /\ Sound([Standing(c) EXCEPT !.mode = "walking"], inputs, ids)
<1>1. c \in Game /\ 0 \in Input /\ Tee \in Int
    BY MotionAssumption DEF Sound, Input
<1> DEFINE put(at, mode) == [c EXCEPT !.at = at, !.mode = mode, !.moving = 0, !.ball = c.ball,
                                      !.refused = c.refused]
<1>2. \A at \in Int, mode \in {"walking", "addressing"} : Sound(put(at, mode), inputs, ids)
    BY <1>1, GameParts, PutSound
<1>3. Standing(c) = put(c.at, c.mode)
    BY <1>1 DEF Standing, Game
<1>4. [Standing(c) EXCEPT !.at = Tee, !.mode = "addressing"] = put(Tee, "addressing")
    BY <1>1 DEF Standing, Game
<1>5. [Standing(c) EXCEPT !.mode = "walking"] = put(c.at, "walking")
    BY <1>1 DEF Standing, Game
<1>6. /\ Sound(put(c.at, c.mode), inputs, ids) /\ Sound(put(Tee, "addressing"), inputs, ids)
      /\ Sound(put(c.at, "walking"), inputs, ids)
    BY <1>1, <1>2, GameParts
<1> HIDE DEF put
<1> QED
    BY <1>3, <1>4, <1>5, <1>6

LEMMA TeedUpSound ==
    ASSUME NEW inputs \in Seq(Input), NEW ids, NEW c, Sound(c, inputs, ids), NEW mode \in {"walking", "addressing"}
    PROVE  Sound(TeedUp(c, mode), inputs, ids)
<1> DEFINE d == Pushed(c)
           tee == [call |-> "tee_up"]
           commands == Append(d.commands, tee)
           next == [d EXCEPT !.at = Tee, !.mode = mode, !.ball = TRUE, !.commands = commands]
<1>1. Sound(d, inputs, ids) /\ d \in Game
    BY PushedSound DEF Sound
<1> HIDE DEF d
<1>2. d.commands \in Seq(Command) /\ AllCarried(d.commands, inputs)
    BY <1>1 DEF Sound, Game
<1>3. tee \in Command /\ ~IsMotion(tee)
    BY DEF Command, IsMotion
<1> HIDE DEF tee
<1>4. commands \in Seq(Command) /\ AllCarried(commands, inputs)
    BY <1>2, <1>3, AppendCarried
<1> HIDE DEF commands
<1>5. /\ next \in Game /\ next.step = d.step /\ next.unsent = d.unsent
      /\ next.first = d.first /\ next.commands = commands /\ next.history = d.history
      /\ next.acked = d.acked /\ next.sent = d.sent /\ next.row = d.row
    BY <1>1, <1>4, MotionAssumption DEF Game
<1> HIDE DEF next
<1>6. Sound(next, inputs, ids)
    BY <1>1, <1>4, <1>5 DEF Sound
<1> QED
    BY <1>6 DEF TeedUp, next, commands, d, tee

LEMMA DiscardedSound ==
    ASSUME NEW inputs, NEW ids, NEW c, Sound(c, inputs, ids)
    PROVE  Sound(Discarded(c), inputs, ids)
<1> DEFINE others == {j \in DOMAIN c.commands : ~IsMotion(c.commands[j])}
           commands == OnlyTeeUps(c.commands)
           next == [c EXCEPT !.history = {}, !.unsent = <<>>, !.stepped = NoPlace,
                             !.latest = NoMotion, !.commands = commands]
<1>1. c \in Game /\ c.commands \in Seq(Command)
    BY DEF Sound, Game
<1>2. Cardinality(others) \in Nat
  <2>1. others \subseteq 1..Len(c.commands) /\ Len(c.commands) \in Nat
    BY <1>1
  <2>2. IsFiniteSet(1..Len(c.commands))
    BY <2>1, FS_Interval
  <2> QED
    BY <2>1, <2>2, FS_Subset, FS_CardinalityType
<1>3. commands = [i \in 1..Cardinality(others) |-> [call |-> "tee_up"]]
    BY DEF OnlyTeeUps
<1> HIDE DEF commands, others
<1>4. /\ commands \in Seq(Command)
      /\ \A i \in 1..Len(commands) : commands[i] = [call |-> "tee_up"]
    BY <1>2, <1>3 DEF Command
<1>5. AllCarried(commands, inputs)
    BY <1>4 DEF AllCarried, IsMotion
<1>6. /\ next \in Game /\ next.step = c.step /\ next.unsent = <<>>
      /\ next.commands = commands /\ next.history = {}
      /\ next.acked = c.acked /\ next.sent = c.sent /\ next.row = c.row
  <2>1. <<>> \in Seq(Input)
    OBVIOUS
  <2> QED
    BY <1>1, <1>4, <2>1 DEF Game
<1> HIDE DEF next
<1>7. Sound(next, inputs, ids)
    BY <1>5, <1>6 DEF Sound, Carried
<1> QED
    BY <1>7 DEF Discarded, next, commands

LEMMA RefusalsTakenSound ==
    ASSUME NEW inputs, NEW ids, NEW c, Sound(c, inputs, ids)
    PROVE  Sound(RefusedMotion(c), inputs, ids) /\ Sound(RefusalsTaken(c), inputs, ids)
<1> DEFINE put(d, at, mode, has, refused) ==
               [d EXCEPT !.at = at, !.mode = mode, !.moving = d.moving, !.ball = has,
                         !.refused = refused]
<1>1. ASSUME NEW d, Sound(d, inputs, ids)
      PROVE  Sound(RefusedMotion(d), inputs, ids) /\ Sound(RefusedTee(d), inputs, ids)
  <2>1. d \in Game
    BY <1>1 DEF Sound
  <2>2. /\ d.row.at \in Int /\ d.mode \in {"walking", "addressing"} /\ d.moving \in Input
        /\ d.ball \in BOOLEAN /\ d.refused \in SUBSET {"update_motion", "tee_up"}
    BY <2>1, GameParts
  <2>3. /\ Sound(put(d, d.row.at, d.mode, d.ball, d.refused), inputs, ids)
        /\ Sound(put(d, d.row.at, "walking", FALSE, d.refused), inputs, ids)
    <3>1. "walking" \in {"walking", "addressing"} /\ FALSE \in BOOLEAN
        OBVIOUS
    <3>2. Sound(put(d, d.row.at, d.mode, d.ball, d.refused), inputs, ids)
        BY <1>1, <2>2, PutSound
    <3>3. Sound(put(d, d.row.at, "walking", FALSE, d.refused), inputs, ids)
        BY <1>1, <2>2, <3>1, PutSound
    <3> QED
        BY <3>2, <3>3
  <2>4. Returned(d) = put(d, d.row.at, d.mode, d.ball, d.refused)
    BY <2>1 DEF Returned, Game
  <2>5. RefusedTee(d) = put(d, d.row.at, "walking", FALSE, d.refused)
    BY <2>1 DEF RefusedTee, Returned, Game
  <2> HIDE DEF put
  <2>6. Sound(Returned(d), inputs, ids) /\ Sound(RefusedTee(d), inputs, ids)
    BY <2>3, <2>4, <2>5
  <2> QED
    BY <2>6, DiscardedSound DEF RefusedMotion
<1> DEFINE teed == IF "tee_up" \in c.refused THEN RefusedTee(c) ELSE c
           moved == IF "update_motion" \in c.refused THEN RefusedMotion(teed) ELSE teed
<1>2. Sound(teed, inputs, ids)
    BY <1>1
<1> HIDE DEF teed
<1>3. Sound(moved, inputs, ids)
    BY <1>1, <1>2
<1> HIDE DEF moved
<1>4. moved \in Game
    BY <1>3 DEF Sound
<1>5. Sound(put(moved, moved.at, moved.mode, moved.ball, {}), inputs, ids)
    BY <1>3, <1>4, GameParts, PutSound
<1>6. [moved EXCEPT !.refused = {}] = put(moved, moved.at, moved.mode, moved.ball, {})
    BY <1>4 DEF Game
<1> HIDE DEF put
<1>7. RefusalsTaken(c) = [moved EXCEPT !.refused = {}]
    BY DEF RefusalsTaken, moved, teed
<1> QED
    BY <1>1, <1>5, <1>6, <1>7

LEMMA CorrectedSound ==
    ASSUME NEW inputs, NEW ids, NEW c, Sound(c, inputs, ids), NEW sent \in c.history
    PROVE  Sound(Corrected(c, sent), inputs, ids) /\ Corrected(c, sent).acked = c.acked
           /\ Corrected(c, sent).sent = c.sent
<1> DEFINE by == c.row.at - sent.at
           at == c.at + by
           start == c.start + by
           stepped == IF c.stepped = NoPlace THEN NoPlace ELSE at
           history == {IF later.id > sent.id THEN [later EXCEPT !.at = @ + by] ELSE later :
                          later \in c.history}
           next == [c EXCEPT !.at = at, !.history = history, !.stepped = stepped, !.start = start]
<1>1. c \in Game
    BY DEF Sound
<1>2. c.at \in Int /\ c.row.at \in Int /\ c.start \in Int /\ c.history \subseteq HistoryEntry
    BY <1>1 DEF Game, RowSent
<1>3. by \in Int
    BY <1>2 DEF HistoryEntry
<1> HIDE DEF by
<1>4. at \in Int /\ start \in Int /\ stepped \in Int \cup {NoPlace}
    BY <1>2, <1>3
<1>5. \A entry \in history : entry \in HistoryEntry /\ \E old \in c.history : entry.id = old.id
    BY <1>2, <1>3 DEF HistoryEntry
<1>6. Corrected(c, sent) = c \/ Corrected(c, sent) = next
  <2>1. [c EXCEPT !.at = @ + by,
                  !.history = {IF later.id > sent.id THEN [later EXCEPT !.at = later.at + by] ELSE later :
                                  later \in @},
                  !.stepped = IF @ = NoPlace THEN NoPlace ELSE c.at + by,
                  !.start = @ + by] = next
    BY <1>1 DEF Game
  <2> HIDE DEF next
  <2> QED
    BY <2>1 DEF Corrected, by
<1> HIDE DEF at, start, stepped, history
<1>7. /\ next \in Game /\ next.step = c.step /\ next.unsent = c.unsent
      /\ next.first = c.first /\ next.commands = c.commands /\ next.history = history
      /\ next.acked = c.acked /\ next.sent = c.sent /\ next.row = c.row
  <2>1. history \subseteq HistoryEntry
    BY <1>5
  <2> QED
    BY <1>1, <1>4, <2>1 DEF Game
<1> HIDE DEF next
<1>8. Sound(next, inputs, ids)
    BY <1>5, <1>7, SameSound
<1> QED
    BY <1>6, <1>7, <1>8

LEMMA AcknowledgedSound ==
    ASSUME NEW inputs, NEW ids, NEW c, Sound(c, inputs, ids)
    PROVE  Sound(Acknowledged(c), inputs, ids)
<1> DEFINE known == {sent \in c.history :
                        sent.id = c.row.id /\ sent.mode = c.row.mode /\ c.row.mode # "address"}
           seen == IF c.row.id > c.acked /\ known # {}
                   THEN Corrected(c, CHOOSE sent \in known : TRUE) ELSE c
           acked == Most(c.acked, c.row.id)
           history == {sent \in seen.history : sent.id > acked}
           next == [seen EXCEPT !.acked = acked, !.history = history]
<1>1. Sound(seen, inputs, ids) /\ seen.acked = c.acked /\ seen.sent = c.sent
  <2>1. known # {} => (CHOOSE sent \in known : TRUE) \in c.history
    OBVIOUS
  <2> HIDE DEF known
  <2> QED
    BY <2>1, CorrectedSound
<1> HIDE DEF seen
<1>2. seen \in Game /\ seen.history \subseteq HistoryEntry
    BY <1>1 DEF Sound, Game
<1>3. acked \in Nat /\ acked <= seen.sent
    BY <1>1 DEF Sound, Game, RowSent, Most
<1> HIDE DEF acked
<1>4. /\ next \in Game /\ next.step = seen.step /\ next.unsent = seen.unsent
      /\ next.first = seen.first /\ next.commands = seen.commands /\ next.history = history
      /\ next.acked = acked /\ next.sent = seen.sent /\ next.row = seen.row
  <2>1. history \subseteq HistoryEntry
    BY <1>2
  <2> HIDE DEF history
  <2> QED
    BY <1>2, <1>3, <2>1 DEF Game
<1>5. ASSUME NEW sent \in history PROVE sent.id \in acked + 1 .. seen.sent
  <2>1. sent \in seen.history /\ sent.id > acked /\ sent.id \in Nat
    BY <1>2 DEF HistoryEntry
  <2>2. sent.id <= seen.sent /\ seen.sent \in Nat
    BY <1>1, <1>2, <2>1 DEF Sound, Game
  <2> QED
    BY <1>3, <2>1, <2>2
<1> HIDE DEF next, history
<1>6. Sound(next, inputs, ids)
    BY <1>1, <1>3, <1>4, <1>5 DEF Sound
<1> QED
    BY <1>6 DEF Acknowledged, next, history, acked, seen, known

LEMMA FinishSound ==
    ASSUME NEW inputs \in Seq(Input), NEW ids, NEW c, Sound(c, inputs, ids),
           NEW used, NEW sends, Finish(c, used, sends)
    PROVE  Sound(me', inputs, ids)
<1>1. PICK end \in Reconciled(c, used) : me' = IF sends THEN Pushed(end.game) ELSE end.game
    BY DEF Finish
<1>2. Sound(Acknowledged(RefusalsTaken(c)), inputs, ids)
    BY RefusalsTakenSound, AcknowledgedSound
<1>3. Sound(RefusedMotion(Acknowledged(RefusalsTaken(c))), inputs, ids)
    BY <1>2, RefusalsTakenSound
<1>4. \/ end.game = Acknowledged(RefusalsTaken(c))
      \/ end.game = RefusedMotion(Acknowledged(RefusalsTaken(c)))
    BY DEF Reconciled
<1>5. Sound(end.game, inputs, ids)
    BY <1>2, <1>3, <1>4
<1>6. Sound(Pushed(end.game), inputs, ids)
    BY <1>5, PushedSound
<1> QED
    BY <1>1, <1>5, <1>6

-----------------------------------------------------------------------------
(* What is heard and sent. *)

LEMMA HeardSound ==
    ASSUME NEW inputs, NEW ids, NEW c, Sound(c, inputs, ids), NEW events \in Seq(Event),
           \A i \in 1..Len(events) : events[i].event = "row" => events[i].row.id <= ids
    PROVE  Sound(Heard(c, events), inputs, ids) /\ Heard(c, events).commands = c.commands
<1> DEFINE rows == {i \in DOMAIN events : events[i].event = "row"}
           last == CHOOSE i \in rows : \A j \in rows : j <= i
           refusals == {events[i].call : i \in DOMAIN events \ rows}
           row == IF rows = {} THEN c.row ELSE events[last].row
           next == [c EXCEPT !.row = row, !.refused = refusals]
<1>1. c \in Game /\ c.sent = ids /\ c.row \in RowSent /\ c.row.id <= ids
    BY DEF Sound, Game
<1>2. \A i \in DOMAIN events : events[i] \in Event
    BY ElementOfSeq
<1>3. row \in RowSent /\ row.id <= ids
  <2>1. CASE rows = {}
    BY <1>1, <2>1
  <2>2. CASE rows # {}
    <3>1. rows \subseteq 1..Len(events) /\ Len(events) \in Nat
        OBVIOUS
    <3>2. \E i \in rows : \A j \in rows : j <= i
        BY <2>2, <3>1, Greatest
    <3>3. last \in rows
        BY <3>2
    <3> HIDE DEF last
    <3>4. last \in 1..Len(events) /\ events[last] \in Event /\ events[last].event = "row"
        BY <1>2, <3>1, <3>3
    <3>5. events[last].row \in RowSent /\ events[last].row.id <= ids
        BY <3>4 DEF Event
    <3> QED
        BY <2>2, <3>5
  <2> QED
    BY <2>1, <2>2
<1>4. refusals \in SUBSET {"update_motion", "tee_up"}
  <2>1. SUFFICES ASSUME NEW i \in DOMAIN events \ rows
                 PROVE  events[i].call \in {"update_motion", "tee_up"}
    OBVIOUS
  <2>2. events[i] \in Event /\ events[i].event # "row"
    BY <1>2, <2>1
  <2> HIDE DEF rows
  <2> QED
    BY <2>2 DEF Event
<1> HIDE DEF row, refusals
<1>5. /\ next \in Game /\ next.step = c.step /\ next.unsent = c.unsent
      /\ next.first = c.first /\ next.commands = c.commands /\ next.history = c.history
      /\ next.acked = c.acked /\ next.sent = c.sent /\ next.row = row
    BY <1>1, <1>3, <1>4 DEF Game
<1> HIDE DEF next
<1>6. Sound(next, inputs, ids)
    BY <1>1, <1>3, <1>5 DEF Sound
<1>7. Heard(c, events) = next
    BY DEF Heard, next, row, refusals
<1> QED
    BY <1>5, <1>6, <1>7

LEMMA SentSound ==
    ASSUME NEW inputs, NEW ids, NEW c, Sound(c, inputs, ids)
    PROVE  Sound(Sent(c), inputs, ids + Len(c.commands))
<1> DEFINE entry(i) == [id |-> Ids(c)[i], at |-> c.commands[i].at,
                        mode |-> c.commands[i].mode, placed |-> c.commands[i].placed]
           motions == {i \in DOMAIN c.commands : IsMotion(c.commands[i])}
           history == c.history \cup {entry(i) : i \in motions}
           sent == c.sent + Len(c.commands)
           next == [c EXCEPT !.history = history, !.sent = sent, !.commands = <<>>]
<1>1. /\ c \in Game /\ c.sent = ids /\ c.sent \in Nat /\ c.acked \in Nat /\ c.acked <= c.sent
      /\ c.row.id \in Nat /\ c.row.id <= c.sent
      /\ c.commands \in Seq(Command) /\ Len(c.commands) \in Nat /\ c.history \subseteq HistoryEntry
    BY DEF Sound, Game, RowSent
<1>2. ASSUME NEW i \in motions
      PROVE  entry(i) \in HistoryEntry /\ entry(i).id \in c.acked + 1 .. sent
  <2>1. i \in 1..Len(c.commands) /\ c.commands[i] \in Command /\ IsMotion(c.commands[i])
    BY <1>1, ElementOfSeq
  <2>2. c.commands[i] \in MotionCommand
    BY <2>1, CommandKinds
  <2>3. Ids(c)[i] = c.sent + i
    BY <1>1, <2>1 DEF Ids
  <2>4. c.sent + i \in Nat \ {0} /\ c.sent + i \in c.acked + 1 .. sent
    BY <1>1, <2>1
  <2> DEFINE command == c.commands[i]
  <2> HIDE DEF command
  <2>5. command.at \in Int /\ command.mode \in Mode /\ command.placed \in Int
    BY <2>2 DEF MotionCommand, command
  <2>6. entry(i) = [id |-> c.sent + i, at |-> command.at, mode |-> command.mode,
                    placed |-> command.placed]
    BY <2>3 DEF command
  <2> HIDE DEF entry, sent
  <2> QED
    BY <2>4, <2>5, <2>6 DEF HistoryEntry
<1>3. \A old \in c.history : old.id \in c.acked + 1 .. sent
  <2> SUFFICES ASSUME NEW old \in c.history PROVE old.id \in c.acked + 1 .. sent
    OBVIOUS
  <2>1. old.id \in c.acked + 1 .. c.sent
    BY DEF Sound
  <2> QED
    BY <1>1, <2>1
<1> HIDE DEF entry
<1>4. history \subseteq HistoryEntry /\ \A old \in history : old.id \in c.acked + 1 .. sent
    BY <1>1, <1>2, <1>3
<1>5. sent \in Nat /\ c.acked <= sent /\ c.row.id <= sent
    BY <1>1
<1> HIDE DEF history
<1>6. /\ next \in Game /\ next.step = c.step /\ next.unsent = c.unsent
      /\ next.first = c.first /\ next.commands = <<>> /\ next.history = history
      /\ next.acked = c.acked /\ next.sent = sent /\ next.row = c.row
  <2>1. <<>> \in Seq(Command)
    OBVIOUS
  <2> HIDE DEF sent
  <2> QED
    BY <1>1, <1>4, <1>5, <2>1 DEF Game
<1> HIDE DEF next
<1>7. AllCarried(<<>>, inputs)
    BY DEF AllCarried
<1>8. sent = ids + Len(c.commands)
    BY <1>1
<1> HIDE DEF sent
<1>9. Sound(next, inputs, sent)
    BY <1>4, <1>5, <1>6, <1>7 DEF Sound
<1> QED
    BY <1>8, <1>9 DEF Sent, next, sent, history, motions, entry

LEMMA NotSentSound ==
    ASSUME NEW inputs, NEW ids, NEW c, Sound(c, inputs, ids)
    PROVE  Sound(NotSent(c), inputs, ids)
<1> DEFINE next == [c EXCEPT !.commands = <<>>, !.latest = NoMotion]
<1>1. c \in Game /\ <<>> \in Seq(Command)
    BY DEF Sound
<1>2. /\ next \in Game /\ next.step = c.step /\ next.unsent = c.unsent
      /\ next.first = c.first /\ next.commands = <<>> /\ next.history = c.history
      /\ next.acked = c.acked /\ next.sent = c.sent /\ next.row = c.row
    BY <1>1 DEF Game
<1> HIDE DEF next
<1>3. AllCarried(<<>>, inputs)
    BY DEF AllCarried
<1>4. Sound(next, inputs, ids)
    BY <1>2, <1>3 DEF Sound
<1> QED
    BY <1>4 DEF NotSent, next

LEMMA CallsCarried ==
    ASSUME NEW inputs, NEW ids, NEW c, Sound(c, inputs, ids)
    PROVE  /\ Calls(c) \in Seq(Call) /\ AllCarried(Calls(c), inputs)
           /\ \A i \in 1..Len(Calls(c)) :
                 IsMotion(Calls(c)[i]) => Calls(c)[i].id <= ids + Len(c.commands)
<1>1. c.commands \in Seq(Command) /\ c.sent = ids /\ c.sent \in Nat
    BY DEF Sound, Game
<1>2. Len(c.commands) \in Nat /\ DOMAIN c.commands = 1..Len(c.commands)
    BY <1>1
<1>3. ASSUME NEW i \in 1..Len(c.commands)
      PROVE  /\ Calls(c)[i] \in Call
             /\ IsMotion(Calls(c)[i]) =>
                   /\ Calls(c)[i].id <= ids + Len(c.commands)
                   /\ Carried(Calls(c)[i].first, Calls(c)[i].steps, inputs)
  <2> DEFINE command == c.commands[i]
  <2>1. command \in Command
    BY <1>1, ElementOfSeq
  <2>2. CASE IsMotion(command)
    <3> DEFINE call == [call |-> "update_motion", id |-> c.sent + i, first |-> command.first,
                        start |-> command.start, steps |-> command.steps,
                        at |-> command.at, mode |-> command.mode]
    <3>1. Calls(c)[i] = call
        BY <1>2, <2>2 DEF Calls, Ids
    <3>2. command \in MotionCommand
        BY <2>1, <2>2, CommandKinds
    <3>3. Carried(command.first, command.steps, inputs)
        BY <2>2 DEF Sound, AllCarried
    <3> HIDE DEF command
    <3>4. call \in Call /\ call.id <= ids + Len(c.commands)
        BY <1>1, <1>2, <3>2 DEF MotionCommand, Call, Mode, Input
    <3> QED
        BY <3>1, <3>3, <3>4
  <2>3. CASE ~IsMotion(command)
    <3>1. Calls(c)[i] = command
        BY <1>2, <2>3 DEF Calls
    <3>2. command = [call |-> "tee_up"]
        BY <2>1, <2>3, CommandKinds
    <3> HIDE DEF command
    <3> QED
        BY <2>3, <3>1, <3>2 DEF Call
  <2> QED
    BY <2>2, <2>3
<1>4. Calls(c) = [i \in 1..Len(c.commands) |-> Calls(c)[i]]
    BY <1>2 DEF Calls
<1>5. Calls(c) \in Seq(Call) /\ Len(Calls(c)) = Len(c.commands)
    BY <1>2, <1>3, <1>4
<1> QED
    BY <1>3, <1>5 DEF AllCarried

-----------------------------------------------------------------------------
(* Frames. *)

LEMMA CarriedTogether ==
    ASSUME NEW S, NEW a \in Seq(S), NEW b \in Seq(S), NEW inputs,
           AllCarried(a, inputs), AllCarried(b, inputs)
    PROVE  AllCarried(a \o b, inputs)
<1> DEFINE both == a \o b
<1>1. /\ Len(a) \in Nat /\ Len(b) \in Nat /\ Len(both) = Len(a) + Len(b)
      /\ \A i \in 1..Len(both) : both[i] = IF i <= Len(a) THEN a[i] ELSE b[i - Len(a)]
    BY ConcatProperties
<1> HIDE DEF both
<1>2. ASSUME NEW i \in 1..Len(both), IsMotion(both[i])
      PROVE  Carried(both[i].first, both[i].steps, inputs)
  <2>1. CASE i \in 1..Len(a)
    BY <1>1, <1>2, <2>1 DEF AllCarried
  <2>2. CASE i - Len(a) \in 1..Len(b)
    BY <1>1, <1>2, <2>2 DEF AllCarried
  <2> QED
    BY <1>1, <2>1, <2>2
<1> QED
    BY <1>2 DEF AllCarried, both

LEMMA AllCarriedOn ==
    ASSUME NEW inputs \in Seq(Input), NEW input \in Input,
           NEW calls \in Seq(Call), AllCarried(calls, inputs)
    PROVE  AllCarried(calls, Append(inputs, input))
<1> SUFFICES ASSUME NEW i \in 1..Len(calls), IsMotion(calls[i])
             PROVE  Carried(calls[i].first, calls[i].steps, Append(inputs, input))
    BY DEF AllCarried
<1>1. calls[i] \in MotionCall
    BY CallKinds, ElementOfSeq
<1>2. calls[i].first \in Nat /\ calls[i].steps \in Seq(Input)
    BY <1>1 DEF MotionCall
<1>3. Carried(calls[i].first, calls[i].steps, inputs)
    BY DEF AllCarried
<1> QED
    BY <1>2, <1>3, CarriedOn

(* What one update of the connection makes of the game and sends. *)
LEMMA NetUpdateSound ==
    ASSUME MotionInv, NEW n \in 0..Len(down), NEW net \in NetUpdate(n)
    PROVE  \E ids \in Nat :
             /\ ids >= me.sent /\ Sound(net.game, taken, ids)
             /\ net.calls \in Seq(Call) /\ AllCarried(net.calls, taken)
             /\ \A i \in 1..Len(net.calls) : IsMotion(net.calls[i]) => net.calls[i].id <= ids
<1> DEFINE events == SubSeq(down, 1, n)
           heard == Heard(me, events)
<1>1. /\ down \in Seq(Event) /\ Len(down) \in Nat /\ Sound(me, taken, me.sent)
      /\ me.sent \in Nat /\ me.commands \in Seq(Command) /\ Len(me.commands) \in Nat
    BY DEF MotionInv, Travelling, Sound, Game
<1>2. /\ events \in Seq(Event) /\ Len(events) = n
      /\ \A i \in 1..n : events[i] = down[i]
    BY <1>1, SubSeqProperties
<1> HIDE DEF events
<1>3. \A i \in 1..Len(events) : events[i].event = "row" => events[i].row.id <= me.sent
    BY <1>1, <1>2 DEF MotionInv, Travelling
<1>4. Sound(heard, taken, me.sent) /\ heard.commands = me.commands
    BY <1>1, <1>2, <1>3, HeardSound
<1>5. \/ /\ net.game = Sent(heard) /\ net.calls = Calls(me)
      \/ /\ net.game = NotSent(heard) /\ net.calls = <<>>
    BY DEF NetUpdate, heard, events
<1> HIDE DEF heard
<1>6. CASE net.game = Sent(heard) /\ net.calls = Calls(me)
  <2> DEFINE ids == me.sent + Len(me.commands)
  <2>1. Sound(net.game, taken, ids)
    BY <1>4, <1>6, SentSound
  <2>2. /\ net.calls \in Seq(Call) /\ AllCarried(net.calls, taken)
        /\ \A i \in 1..Len(net.calls) : IsMotion(net.calls[i]) => net.calls[i].id <= ids
    BY <1>1, <1>6, CallsCarried
  <2>3. ids \in Nat /\ ids >= me.sent
    BY <1>1
  <2> QED
    BY <2>1, <2>2, <2>3
<1>7. CASE net.game = NotSent(heard) /\ net.calls = <<>>
  <2>1. Sound(net.game, taken, me.sent)
    BY <1>4, <1>7, NotSentSound
  <2>2. net.calls \in Seq(Call) /\ AllCarried(net.calls, taken) /\ Len(net.calls) = 0
    BY <1>7 DEF AllCarried
  <2> QED
    BY <1>1, <2>1, <2>2
<1> QED
    BY <1>5, <1>6, <1>7

(* The rest of the frame, and the step it takes. *)
LEMMA FrameSound ==
    ASSUME taken \in Seq(Input), NEW ids, NEW c, Sound(c, taken, ids), NEW used,
           NEW rests, NEW sends, IF rests THEN Rest(c, used, sends) ELSE Acts(c, used, sends)
    PROVE  /\ Sound(me', taken', ids)
           /\ taken' = taken \/ \E input \in Input : taken' = Append(taken, input)
<1>1. CASE Rest(c, used, sends)
    BY <1>1, StandingSound, FinishSound DEF Rest
<1>2. CASE Address(c, used, sends)
    BY <1>2, StandingSound, FinishSound DEF Address
<1>3. CASE StepBack(c, used, sends)
    BY <1>3, StandingSound, FinishSound DEF StepBack
<1>4. ASSUME NEW input \in {0, 1}, Step(c, used, input, sends)
      PROVE  /\ Sound(me', taken', ids)
             /\ \E i \in Input : taken' = Append(taken, i)
  <2>1. input \in Input
    BY DEF Input
  <2>2. Sound(Walked(c, input), Append(taken, input), ids) /\ Append(taken, input) \in Seq(Input)
    BY <2>1, WalkedSound
  <2>3. Finish(Walked(c, input), used, sends) /\ taken' = Append(taken, input)
    BY <1>4 DEF Step
  <2>4. Sound(me', Append(taken, input), ids)
    BY <2>2, <2>3, FinishSound
  <2> QED
    BY <2>1, <2>3, <2>4
<1>5. ASSUME NEW mode \in {"walking", "addressing"}, TeeUp(c, used, mode, sends)
      PROVE  Sound(me', taken', ids) /\ taken' = taken
  <2>1. Sound(TeedUp(Standing(c), mode), taken, ids)
    BY StandingSound, TeedUpSound
  <2> QED
    BY <1>5, <2>1, FinishSound DEF TeeUp
<1> QED
    BY <1>1, <1>2, <1>3, <1>4, <1>5 DEF Acts

LEMMA FrameKeeps ==
    ASSUME MotionInv, NEW n \in 0..Len(down), NEW rests, NEW sends, Frame(n, rests, sends)
    PROVE  MotionInv' /\ (taken' = taken \/ \E input \in Input : taken' = Append(taken, input))
<1>1. PICK net \in NetUpdate(n) :
        /\ up' = up \o net.calls
        /\ IF rests THEN Rest(net.game, net.used, sends) ELSE Acts(net.game, net.used, sends)
    BY DEF Frame
<1>2. PICK ids \in Nat :
        /\ ids >= me.sent /\ Sound(net.game, taken, ids)
        /\ net.calls \in Seq(Call) /\ AllCarried(net.calls, taken)
        /\ \A i \in 1..Len(net.calls) : IsMotion(net.calls[i]) => net.calls[i].id <= ids
    BY NetUpdateSound
<1>3. taken \in Seq(Input) /\ me.sent \in Nat
    BY DEF MotionInv, Sound, Game
<1>4. /\ Sound(me', taken', ids)
      /\ taken' = taken \/ \E input \in Input : taken' = Append(taken, input)
    BY <1>1, <1>2, <1>3, FrameSound
<1>5. me'.sent = ids
    BY <1>4 DEF Sound
<1>6. taken' \in Seq(Input) /\ Len(taken') >= Len(taken)
    BY <1>3, <1>4
<1>7. up' \in Seq(Call) /\ AllCarried(up', taken')
  <2>1. up \in Seq(Call) /\ AllCarried(up, taken)
    BY DEF MotionInv, Travelling
  <2>2. up' \in Seq(Call) /\ AllCarried(up', taken)
    BY <1>1, <1>2, <2>1, CarriedTogether
  <2> QED
    BY <1>3, <1>4, <2>2, AllCarriedOn
<1>8. ASSUME NEW i \in 1..Len(up'), IsMotion(up'[i]) PROVE up'[i].id <= ids
  <2>1. up \in Seq(Call) /\ Len(up) \in Nat /\ Len(net.calls) \in Nat
    BY <1>2 DEF MotionInv, Travelling
  <2>2. CASE i \in 1..Len(up)
    <3>1. up'[i] = up[i]
        BY <1>1, <1>2, <2>1, <2>2
    <3>2. up[i].id <= me.sent /\ up[i].id \in Nat
        <4>1. up[i] \in MotionCall
            BY <1>8, <2>1, <2>2, <3>1, CallKinds, ElementOfSeq
        <4> QED
            BY <1>8, <2>2, <3>1, <4>1 DEF MotionInv, Travelling, MotionCall
    <3> QED
        BY <1>2, <1>3, <3>1, <3>2
  <2>3. CASE i - Len(up) \in 1..Len(net.calls)
    <3>1. up'[i] = net.calls[i - Len(up)]
        BY <1>1, <1>2, <2>1, <2>3
    <3> QED
        BY <1>2, <1>8, <2>3, <3>1
  <2> QED
    BY <1>1, <1>2, <2>1, <2>2, <2>3
<1>9. down' \in Seq(Event) /\ \A i \in 1..Len(down') : down'[i].event = "row" => down'[i].row.id <= ids
  <2>1. down \in Seq(Event) /\ Len(down) \in Nat
    BY DEF MotionInv, Travelling
  <2>2. down' = SubSeq(down, n + 1, Len(down))
    BY DEF Frame
  <2>3. /\ down' \in Seq(Event) /\ Len(down') = Len(down) - n
        /\ \A i \in 1..Len(down') : down'[i] = down[n + i]
    BY <2>1, <2>2, SubSeqProperties
  <2>4. ASSUME NEW i \in 1..Len(down'), down'[i].event = "row" PROVE down'[i].row.id <= ids
    <3>1. n + i \in 1..Len(down) /\ down'[i] = down[n + i]
        BY <2>1, <2>3
    <3>2. down[n + i] \in Event /\ down[n + i].event = "row"
        BY <2>1, <2>4, <3>1, ElementOfSeq
    <3>3. down[n + i].row.id <= me.sent /\ down[n + i].row.id \in Nat
        BY <3>1, <3>2 DEF MotionInv, Travelling, Event, RowSent
    <3> QED
        BY <1>2, <1>3, <3>1, <3>3
  <2> QED
    BY <2>3, <2>4
<1>10. Served'
  <2>1. UNCHANGED <<serverVars, now>>
    BY DEF Frame
  <2>2. me'.sent \in Nat /\ me'.sent >= me.sent
    BY <1>2, <1>5
  <2>3. Len(taken) \in Nat /\ Len(taken') \in Nat
    BY <1>3, <1>6
  <2> QED
    BY <1>3, <1>6, <2>1, <2>2, <2>3 DEF MotionInv, Served, serverVars, Mover
<1> QED
    BY <1>4, <1>5, <1>6, <1>7, <1>8, <1>9, <1>10 DEF MotionInv, Travelling

-----------------------------------------------------------------------------
(* The server. *)

LEMMA Numbers ==
    ASSUME NEW a \in Int, NEW b \in Int
    PROVE  /\ Least(a, b) \in Int /\ Least(a, b) <= a /\ Least(a, b) <= b
           /\ (Least(a, b) = a \/ Least(a, b) = b)
           /\ Most(a, b) \in Int /\ a <= Most(a, b) /\ b <= Most(a, b)
           /\ (Most(a, b) = a \/ Most(a, b) = b)
           /\ Apart(a, b) \in Nat
BY DEF Least, Most, Apart

(* What the server plays of a motion: no step twice, none beyond its time. *)
LEMMA PlayFacts ==
    ASSUME taken \in Seq(Input), Served, NEW m \in MotionCall, Carried(m.first, m.steps, taken)
    PROVE  /\ Credit \in 0..Gap /\ Credit <= mover.credit + since
           /\ StartCost(m) \in Nat /\ InTime(m) \in Nat
           /\ InTime(m) + StartCost(m) <= Credit
           /\ LastStep(m) \in Int /\ InTime(m) <= Fresh(m)
           /\ FreshFrom(m) \in Nat /\ FreshFrom(m) >= mover.step + 1
           /\ Fresh(m) > 0 => /\ m.steps # <<>> /\ LastStep(m) <= Len(taken)
                              /\ LastStep(m) = FreshFrom(m) + Fresh(m) - 1
           /\ Fresh(m) = 0 => InTime(m) = 0 /\ (LastStep(m) <= mover.step \/ m.steps = <<>>)
<1>1. /\ mover.credit \in 0..Gap /\ mover.step \in Nat /\ mover.at \in Int /\ since \in Nat
      /\ Gap \in Nat /\ StartTolerance \in Nat
    BY MotionAssumption DEF Served, Mover
<1>2. /\ m.first \in Nat /\ m.start \in Int /\ m.steps \in Seq(Input) /\ Len(m.steps) \in Nat
    BY DEF MotionCall
<1>3. Credit \in 0..Gap /\ Credit <= mover.credit + since
    BY <1>1 DEF Credit, Least
<1>4. LastStep(m) \in Int /\ FreshFrom(m) \in Nat /\ FreshFrom(m) >= mover.step + 1
      /\ FreshFrom(m) >= m.first /\ (FreshFrom(m) = m.first \/ FreshFrom(m) = mover.step + 1)
    BY <1>1, <1>2 DEF LastStep, FreshFrom, Most
<1>5. Fresh(m) \in Nat /\ (Fresh(m) > 0 => LastStep(m) = FreshFrom(m) + Fresh(m) - 1)
      /\ (Fresh(m) = 0 => LastStep(m) < FreshFrom(m))
    BY <1>4 DEF Fresh, Most
<1>6. StartCost(m) \in Nat /\ (StartCost(m) # 0 => StartCost(m) < Credit /\ Fresh(m) > 0)
  <2>1. Apart(m.start, mover.at) \in Nat
    BY <1>1, <1>2, Numbers
  <2> QED
    BY <2>1 DEF StartCost, FromStart
<1>7. InTime(m) \in Nat /\ InTime(m) + StartCost(m) <= Credit /\ InTime(m) <= Fresh(m)
  <2>1. CASE Credit = 0
    BY <1>3, <1>5, <1>6, <2>1 DEF InTime
  <2>2. CASE Credit # 0
    <3>1. InTime(m) = Least(Fresh(m), Credit - StartCost(m))
        BY <2>2 DEF InTime
    <3> QED
        BY <1>3, <1>5, <1>6, <2>2, <3>1 DEF Least
  <2> QED
    BY <2>1, <2>2
<1>8. Fresh(m) > 0 => m.steps # <<>>
  <2> SUFFICES ASSUME m.steps = <<>> PROVE Fresh(m) = 0
    BY <1>5
  <2>1. Len(m.steps) = 0
    OBVIOUS
  <2>2. LastStep(m) < FreshFrom(m)
    BY <1>2, <1>4, <2>1 DEF LastStep
  <2> QED
    BY <1>4, <1>5, <2>2
<1>9. m.steps # <<>> => LastStep(m) <= Len(taken) /\ LastStep(m) >= m.first
  <2> SUFFICES ASSUME m.steps # <<>> PROVE LastStep(m) <= Len(taken) /\ LastStep(m) >= m.first
    OBVIOUS
  <2>1. Len(m.steps) >= 1
    BY <1>2
  <2> QED
    BY <1>2, <2>1 DEF LastStep, Carried
<1>10. Fresh(m) = 0 => InTime(m) = 0 /\ (LastStep(m) <= mover.step \/ m.steps = <<>>)
    BY <1>1, <1>2, <1>4, <1>5, <1>7, <1>9
<1> QED
    BY <1>3, <1>4, <1>5, <1>6, <1>7, <1>8, <1>9, <1>10

(* A step played has a place among the motion's steps. *)
LEMMA WithinMotion ==
    ASSUME NEW first \in Nat, NEW len \in Nat, NEW step \in Nat, NEW from \in Nat,
           NEW count \in Nat, NEW fresh \in Nat, NEW last \in Int, NEW n \in Int,
           from >= step + 1, from >= first, count <= fresh,
           last = first + len - 1, last = from + fresh - 1,
           from <= n, n <= from + count - 1
    PROVE  n \in step + 1 .. last /\ n - first + 1 \in 1..len
OBVIOUS

(* No further than the steps it plays, which are steps taken and not yet   *)
(* played.                                                                 *)
LEMMA ForwardFacts ==
    ASSUME taken \in Seq(Input), Served, NEW m \in MotionCall, Carried(m.first, m.steps, taken)
    PROVE  /\ Forward(m) \in Nat /\ Forward(m) <= InTime(m)
           /\ Fresh(m) > 0 => Forward(m) <= Abstract!Reach(mover.step + 1, LastStep(m))
<1> DEFINE playing == FreshFrom(m) .. FreshFrom(m) + InTime(m) - 1
           ahead == {n \in playing : m.steps[n - m.first + 1] # 0}
           open == {n \in mover.step + 1 .. LastStep(m) : taken[n] # 0}
<1>1. /\ InTime(m) \in Nat /\ FreshFrom(m) \in Nat /\ LastStep(m) \in Int
      /\ InTime(m) <= Fresh(m) /\ FreshFrom(m) >= mover.step + 1 /\ mover.step \in Nat
    BY PlayFacts DEF Served, Mover
<1>2. IsFiniteSet(playing) /\ Cardinality(playing) = InTime(m)
  <2> DEFINE from == FreshFrom(m)
             to == FreshFrom(m) + InTime(m) - 1
  <2>1. from \in Int /\ to \in Int /\ to - from + 1 = InTime(m) /\ (from > to => InTime(m) = 0)
    BY <1>1
  <2> HIDE DEF from, to
  <2>2. IsFiniteSet(from..to) /\ Cardinality(from..to) = IF from > to THEN 0 ELSE to - from + 1
    BY <2>1, FS_Interval
  <2>3. Cardinality(from..to) = InTime(m)
    BY <2>1, <2>2
  <2> QED
    BY <2>2, <2>3 DEF from, to
<1>3. IsFiniteSet(ahead) /\ Cardinality(ahead) <= InTime(m) /\ Cardinality(ahead) \in Nat
    BY <1>2, FS_Subset, FS_CardinalityType
<1>4. ASSUME Fresh(m) > 0 PROVE Cardinality(ahead) <= Cardinality(open)
  <2>1. /\ m.steps # <<>> /\ LastStep(m) <= Len(taken)
        /\ LastStep(m) = FreshFrom(m) + Fresh(m) - 1 /\ Fresh(m) \in Int
    BY <1>1, <1>4, PlayFacts DEF Fresh, Most
  <2>2. FreshFrom(m) >= m.first /\ m.first \in Nat /\ m.steps \in Seq(Input)
    BY <1>1 DEF FreshFrom, Most, MotionCall
  <2>3. LastStep(m) = m.first + Len(m.steps) - 1 /\ Len(m.steps) \in Nat
    BY <2>2 DEF LastStep
  <2>4. ASSUME NEW n \in playing, m.steps[n - m.first + 1] # 0 PROVE n \in open
    <3>1. n \in mover.step + 1 .. LastStep(m) /\ n - m.first + 1 \in 1..Len(m.steps)
        <4>1. n \in Int /\ FreshFrom(m) <= n /\ n <= FreshFrom(m) + InTime(m) - 1
            BY <1>1, <2>4
        <4>2. Fresh(m) \in Nat
            BY <1>1, <1>4, <2>1
        <4> HIDE DEF playing
        <4> QED
            BY <1>1, <2>1, <2>2, <2>3, <4>1, <4>2, WithinMotion
    <3>2. m.steps[n - m.first + 1] = taken[m.first + (n - m.first + 1) - 1]
        BY <2>1, <3>1 DEF Carried
    <3>3. m.first + (n - m.first + 1) - 1 = n
        BY <2>2, <3>1
    <3> QED
        BY <2>4, <3>1, <3>2, <3>3
  <2>5. ahead \subseteq open
    BY <2>4
  <2>6. IsFiniteSet(mover.step + 1 .. LastStep(m))
    <3>1. mover.step + 1 \in Int /\ LastStep(m) \in Int
        BY <1>1
    <3> QED
        BY <3>1, FS_Interval
  <2>7. IsFiniteSet(open)
    BY <2>6, FS_Subset
  <2> HIDE DEF ahead, open
  <2> QED
    BY <2>5, <2>7, FS_Subset
<1> QED
    BY <1>3, <1>4 DEF Forward, Abstract!Reach, Abstract!Cardinality, Cardinality

(* A motion's steps move the golfer's row on: past them all, with what     *)
(* time is left.                                                           *)
LEMMA SteppedFacts ==
    ASSUME taken \in Seq(Input), Served, NEW m \in MotionCall, Carried(m.first, m.steps, taken),
           NEW far \in Int
    PROVE  /\ Stepped(m, far) \in Mover /\ Stepped(m, far).id = m.id
           /\ Stepped(m, far).step = IF m.steps = <<>> THEN mover.step ELSE Most(mover.step, LastStep(m))
           /\ Stepped(m, far).credit = Credit - InTime(m) - StartCost(m)
<1>1. mover \in Mover
    BY DEF Served
<1>2. m.id \in Nat /\ m.start \in Int
    BY DEF MotionCall
<1>3. (IF FromStart(m) THEN m.start ELSE mover.at) + far \in Int
    BY <1>1, <1>2 DEF Mover
<1>4. (IF m.steps = <<>> THEN mover.step ELSE Most(mover.step, LastStep(m))) \in Nat
  <2>1. mover.step \in Nat /\ LastStep(m) \in Int
    BY <1>1, PlayFacts DEF Mover
  <2> QED
    BY <2>1 DEF Most
<1>5. Credit - InTime(m) - StartCost(m) \in 0..Gap
  <2>1. /\ Credit \in 0..Gap /\ StartCost(m) \in Nat /\ InTime(m) \in Nat
        /\ InTime(m) + StartCost(m) <= Credit
    BY PlayFacts
  <2> QED
    BY <2>1, MotionAssumption
<1> QED
    BY <1>1, <1>2, <1>3, <1>4, <1>5 DEF Stepped, Mover

(* However the server takes a motion, it passes all its steps and pays for *)
(* no more than it played.                                                 *)
LEMMA OutcomeFacts ==
    ASSUME taken \in Seq(Input), Served, NEW m \in MotionCall, Carried(m.first, m.steps, taken),
           NEW o \in Outcomes(m)
    PROVE  /\ o.moved \in Mover /\ o.moved.id = m.id
           /\ o.moved.step = IF m.steps = <<>> THEN mover.step ELSE Most(mover.step, LastStep(m))
           /\ o.moved.credit <= Credit - InTime(m) - StartCost(m)
           /\ o.far \in 0..Forward(m)
<1> DEFINE Good(mv) ==
        /\ mv \in Mover /\ mv.id = m.id
        /\ mv.step = IF m.steps = <<>> THEN mover.step ELSE Most(mover.step, LastStep(m))
        /\ mv.credit <= Credit - InTime(m) - StartCost(m)
<1>1. Forward(m) \in Nat
    BY ForwardFacts
<1>2. Credit - InTime(m) - StartCost(m) \in Int
    BY PlayFacts
<1>3. ASSUME NEW far \in {Forward(m), Most(0, Forward(m) - 1)}
      PROVE  far \in 0..Forward(m) /\ Good(Stepped(m, far))
  <2>1. far \in 0..Forward(m)
    BY <1>1, <1>3 DEF Most
  <2> QED
    BY <1>1, <1>2, <2>1, SteppedFacts
<1>4. ASSUME NEW mv, Good(mv) PROVE Good(Claimed(mv, m.at)) /\ Good([mv EXCEPT !.at = m.at])
  <2>1. mv \in Mover /\ m.at \in Int
    BY <1>4 DEF MotionCall
  <2>2. mv.credit \in 0..Gap /\ Gap \in Nat /\ mv.at \in Int
    BY <2>1, MotionAssumption DEF Mover
  <2>3. Apart(mv.at, m.at) \in Nat
    BY <2>1, <2>2, Numbers
  <2>4. Most(0, mv.credit - Apart(mv.at, m.at)) \in 0..Gap
        /\ Most(0, mv.credit - Apart(mv.at, m.at)) <= mv.credit
    BY <2>2, <2>3 DEF Most
  <2>5. Claimed(mv, m.at) \in Mover /\ Claimed(mv, m.at).id = mv.id /\ Claimed(mv, m.at).step = mv.step
        /\ Claimed(mv, m.at).credit <= mv.credit
    BY <2>1, <2>2, <2>4 DEF Claimed, Mover
  <2>6. LET put == [mv EXCEPT !.at = m.at]
        IN  put \in Mover /\ put.id = mv.id /\ put.step = mv.step /\ put.credit = mv.credit
    BY <2>1 DEF Mover
  <2>7. Claimed(mv, m.at).credit \in Int
    BY <2>5, MotionAssumption DEF Mover
  <2> QED
    BY <1>2, <1>4, <2>2, <2>5, <2>6, <2>7
<1> HIDE DEF Good
<1> DEFINE stepped == {[moved |-> Stepped(m, far), far |-> far] :
                          far \in {Forward(m), Most(0, Forward(m) - 1)}}
<1>5. ASSUME NEW s \in stepped PROVE Good(s.moved) /\ s.far \in 0..Forward(m)
    BY <1>3
<1>6. PICK s \in stepped :
        \/ o = s
        \/ o = [s EXCEPT !.moved = Claimed(s.moved, m.at)]
        \/ o = [s EXCEPT !.moved.at = m.at]
  <2>1. CASE m.mode = "address"
    BY <2>1, Zenon DEF Outcomes
  <2>2. CASE m.mode # "address"
    BY <2>2 DEF Outcomes
  <2> QED
    BY <2>1, <2>2
<1>7. s = [moved |-> s.moved, far |-> s.far]
    OBVIOUS
<1> HIDE DEF stepped
<1>8. Good(o.moved) /\ o.far \in 0..Forward(m)
  <2>1. CASE o = s
    BY <1>5, <2>1
  <2>2. CASE o = [s EXCEPT !.moved = Claimed(s.moved, m.at)]
    <3>1. o.moved = Claimed(s.moved, m.at) /\ o.far = s.far
        BY <1>7, <2>2
    <3> QED
        BY <1>4, <1>5, <3>1
  <2>3. CASE o = [s EXCEPT !.moved.at = m.at]
    <3>1. o.moved = [s.moved EXCEPT !.at = m.at] /\ o.far = s.far
        BY <1>7, <2>3
    <3> QED
        BY <1>4, <1>5, <3>1
  <2> QED
    BY <1>6, <2>1, <2>2, <2>3
<1> QED
    BY <1>8 DEF Good

(* What an answer on its way must be. *)
LEMMA AnswerSound ==
    ASSUME down \in Seq(Event), NEW ids \in Nat, NEW answer \in Event,
           \A i \in 1..Len(down) : down[i].event = "row" => down[i].row.id <= ids,
           answer.event = "row" => answer.row.id <= ids,
           down' = Append(down, answer)
    PROVE  down' \in Seq(Event) /\ \A i \in 1..Len(down') : down'[i].event = "row" => down'[i].row.id <= ids
<1>1. down' \in Seq(Event) /\ Len(down') = Len(down) + 1 /\ Len(down) \in Nat
    OBVIOUS
<1>2. ASSUME NEW i \in 1..Len(down'), down'[i].event = "row" PROVE down'[i].row.id <= ids
  <2>1. CASE i \in 1..Len(down)
    <3>1. down'[i] = down[i]
        BY <2>1
    <3> QED
        BY <1>2, <2>1, <3>1
  <2>2. CASE i = Len(down) + 1
    <3>1. down'[i] = answer
        BY <2>2
    <3> QED
        BY <1>2, <3>1
  <2> QED
    BY <1>1, <2>1, <2>2
<1> QED
    BY <1>1, <1>2

(* What the server does to its row, the answer and the walk it pays for. *)
ServerSound ==
    /\ down' \in Seq(Event)
    /\ \A i \in 1..Len(down') : down'[i].event = "row" => down'[i].row.id <= me.sent
    /\ Served'
    /\ Abstract!WalkNext \/ UNCHANGED Abstract!walkVars

LEMMA RefusalSound ==
    ASSUME MotionInv, UNCHANGED <<me, now, taken>>,
           NEW call \in {"update_motion", "tee_up"}, Refuse(call)
    PROVE  ServerSound
<1>1. [event |-> "refusal", call |-> call] \in Event
    BY DEF Event
<1>2. down' = Append(down, [event |-> "refusal", call |-> call])
    BY DEF Refuse, Refusal
<1>3. me.sent \in Nat /\ down \in Seq(Event)
      /\ \A i \in 1..Len(down) : down[i].event = "row" => down[i].row.id <= me.sent
    BY DEF MotionInv, Sound, Game, Travelling
<1>4. [event |-> "refusal", call |-> call].event # "row"
    OBVIOUS
<1>5. /\ down' \in Seq(Event)
      /\ \A i \in 1..Len(down') : down'[i].event = "row" => down'[i].row.id <= me.sent
    BY <1>1, <1>2, <1>3, <1>4, AnswerSound
<1>6. UNCHANGED serverVars
    BY DEF Refuse
<1> QED
    BY <1>5, <1>6 DEF ServerSound, MotionInv, Served, serverVars, Abstract!walkVars

LEMMA ReachType ==
    ASSUME NEW from \in Int, NEW to \in Int
    PROVE  Abstract!Reach(from, to) \in Nat
<1> DEFINE open == {n \in from..to : taken[n] # 0}
<1>1. IsFiniteSet(from..to)
    BY FS_Interval
<1>2. Cardinality(open) \in Nat
    BY <1>1, FS_Subset, FS_CardinalityType
<1> QED
    BY <1>2 DEF Abstract!Reach, Abstract!Cardinality, Cardinality

LEMMA AcceptSound ==
    ASSUME MotionInv, UNCHANGED <<me, now, taken>>,
           NEW m \in MotionCall, Carried(m.first, m.steps, taken), m.id <= me.sent, Accept(m)
    PROVE  ServerSound
<1> DEFINE Walks ==
        /\ played' \in 0..mover'.step /\ walked' \in 0..played' /\ mover'.step <= Len(taken)
        /\ Abstract!WalkNext \/ UNCHANGED Abstract!walkVars
<1>1. PICK o \in Outcomes(m) :
        /\ mover' = o.moved /\ since' = 0
        /\ played' = played + InTime(m) /\ walked' = walked + o.far
        /\ down' = Append(down, Row(o.moved, m.mode))
    BY DEF Accept
<1>2. taken \in Seq(Input) /\ Served /\ me.sent \in Nat /\ Len(taken) \in Nat
    BY DEF MotionInv, Sound, Game
<1>3. /\ o.moved \in Mover /\ o.moved.id = m.id
      /\ o.moved.step = IF m.steps = <<>> THEN mover.step ELSE Most(mover.step, LastStep(m))
      /\ o.moved.credit <= Credit - InTime(m) - StartCost(m)
      /\ o.far \in 0..Forward(m)
    BY <1>2, OutcomeFacts
<1>4. /\ Credit \in 0..Gap /\ Credit <= mover.credit + since
      /\ StartCost(m) \in Nat /\ InTime(m) \in Nat
      /\ LastStep(m) \in Int /\ InTime(m) <= Fresh(m)
      /\ FreshFrom(m) \in Nat /\ FreshFrom(m) >= mover.step + 1
      /\ Fresh(m) > 0 => /\ m.steps # <<>> /\ LastStep(m) <= Len(taken)
                         /\ LastStep(m) = FreshFrom(m) + Fresh(m) - 1
      /\ Fresh(m) = 0 => InTime(m) = 0 /\ (LastStep(m) <= mover.step \/ m.steps = <<>>)
    BY <1>2, PlayFacts
<1>5. Forward(m) \in Nat /\ Forward(m) <= InTime(m)
      /\ (Fresh(m) > 0 => Forward(m) <= Abstract!Reach(mover.step + 1, LastStep(m)))
    BY <1>2, ForwardFacts
<1>6. Fresh(m) \in Nat
    BY <1>4 DEF Fresh, Most
<1>7. /\ mover.step \in Nat /\ mover.step <= Len(taken) /\ mover.credit \in Int /\ since \in Nat
      /\ now \in Nat /\ played \in 0..mover.step /\ walked \in 0..played
      /\ played + mover.credit + since <= Gap + now /\ Gap \in Nat
    BY <1>2, MotionAssumption DEF Served, Mover
<1>7a. /\ mover' \in Mover /\ mover'.id = m.id
       /\ mover'.step = IF m.steps = <<>> THEN mover.step ELSE Most(mover.step, LastStep(m))
       /\ mover'.credit <= Credit - InTime(m) - StartCost(m)
    BY <1>1, <1>3
<1>8. ASSUME Fresh(m) > 0 PROVE Walks
  <2>1. /\ m.steps # <<>> /\ LastStep(m) <= Len(taken)
        /\ LastStep(m) = FreshFrom(m) + Fresh(m) - 1
    BY <1>4, <1>8
  <2>2. /\ Most(mover.step, LastStep(m)) = LastStep(m)
        /\ LastStep(m) \in mover.step + 1 .. Len(taken) /\ LastStep(m) \in 1..Len(taken)
        /\ o.far \in 0..Len(taken) /\ played + InTime(m) \in 0..LastStep(m)
        /\ walked + o.far \in 0..(played + InTime(m))
    <3> DEFINE step == mover.step   len == Len(taken)   from == FreshFrom(m)   fresh == Fresh(m)
               count == InTime(m)   forward == Forward(m)   far == o.far   last == LastStep(m)
               before == played   paid == walked
    <3>1. /\ step \in Nat /\ len \in Nat /\ from \in Nat /\ fresh \in Nat /\ count \in Nat
          /\ forward \in Nat /\ far \in 0..forward /\ last \in Int
          /\ before \in 0..step /\ paid \in 0..before
          /\ fresh > 0 /\ from >= step + 1 /\ last = from + fresh - 1 /\ last <= len
          /\ count <= fresh /\ forward <= count
        BY <1>2, <1>3, <1>4, <1>5, <1>6, <1>7, <1>8, <2>1
    <3> HIDE DEF step, len, from, fresh, count, forward, far, last, before, paid
    <3>2. /\ Most(step, last) = last /\ last \in step + 1 .. len /\ last \in 1..len
          /\ far \in 0..len /\ before + count \in 0..last /\ paid + far \in 0..(before + count)
        <4>1. last >= step + 1 /\ last >= step + count /\ last \in Nat
            BY <3>1
        <4>2. Most(step, last) = last
            BY <3>1, <4>1 DEF Most
        <4>3. far <= len /\ far \in Nat
            BY <3>1, <4>1
        <4>4. before + count \in 0..last
            BY <3>1, <4>1
        <4>5. paid + far \in 0..(before + count)
            BY <3>1
        <4> QED
            BY <3>1, <4>1, <4>2, <4>3, <4>4, <4>5
    <3> QED
        BY <3>2 DEF step, len, from, fresh, count, forward, far, last, before, paid
  <2>3. mover'.step = LastStep(m)
    BY <1>7a, <2>1, <2>2
  <2>4. Abstract!PlaySteps(LastStep(m), o.far)
    <3>1. o.far \in 0..Abstract!Reach(mover.step + 1, LastStep(m))
        <4>1. mover.step + 1 \in Int /\ LastStep(m) \in Int
            BY <1>4, <1>7
        <4>2. Abstract!Reach(mover.step + 1, LastStep(m)) \in Nat
            BY <4>1, ReachType
        <4> QED
            BY <1>3, <1>5, <1>8, <4>2
    <3> QED
        BY <1>1, <2>2, <2>3, <3>1 DEF Abstract!PlaySteps
  <2>5. LastStep(m) <= Len(taken)
    BY <2>1
  <2> QED
    BY <1>1, <2>2, <2>3, <2>4, <2>5 DEF Abstract!WalkNext
<1>9. ASSUME Fresh(m) = 0 PROVE Walks
  <2>1. InTime(m) = 0 /\ o.far = 0
    BY <1>3, <1>4, <1>5, <1>9
  <2>2. m.steps # <<>> => Most(mover.step, LastStep(m)) = mover.step
    <3>1. m.steps # <<>> => LastStep(m) <= mover.step
        BY <1>4, <1>9
    <3>2. mover.step \in Int /\ LastStep(m) \in Int
        BY <1>4, <1>7
    <3> QED
        BY <3>1, <3>2 DEF Most
  <2>3. mover'.step = mover.step
    BY <1>7a, <2>2
  <2>4. played' = played /\ walked' = walked
    BY <1>1, <1>7, <2>1
  <2> QED
    BY <1>7, <2>3, <2>4 DEF Abstract!walkVars
<1>10. Walks
    BY <1>6, <1>8, <1>9
<1>11. Served'
  <2>1. mover'.credit \in Nat /\ mover.credit \in Nat /\ played \in Nat
    BY <1>2, <1>7, <1>7a, MotionAssumption DEF Served, Mover
  <2>2. played + InTime(m) + mover'.credit + 0 <= Gap + now
    <3> DEFINE credit == Credit   left == mover'.credit   saved == mover.credit
               count == InTime(m)   cost == StartCost(m)
    <3>1. /\ credit \in Nat /\ left \in Nat /\ saved \in Nat /\ count \in Nat /\ cost \in Nat
          /\ played \in Nat /\ since \in Nat /\ Gap + now \in Nat
          /\ played + saved + since <= Gap + now /\ credit <= saved + since
          /\ left <= credit - count - cost
        BY <1>4, <1>7, <1>7a, <2>1
    <3> HIDE DEF credit, left, saved, count, cost
    <3>2. played + count + left + 0 <= Gap + now
        BY <3>1
    <3> QED
        BY <3>2 DEF count, left
  <2>3. since' \in 0..now' /\ now' \in Nat
    BY <1>1, <1>7
  <2> QED
    BY <1>1, <1>10, <1>7a, <2>2, <2>3 DEF Served
<1>12. /\ Row(o.moved, m.mode) \in Event /\ Row(o.moved, m.mode).event = "row"
       /\ Row(o.moved, m.mode).row.id = m.id
    BY <1>3 DEF Row, Event, RowSent, Mover, MotionCall
<1>13. /\ down' \in Seq(Event)
       /\ \A i \in 1..Len(down') : down'[i].event = "row" => down'[i].row.id <= me.sent
    BY <1>1, <1>2, <1>12, AnswerSound DEF MotionInv, Travelling
<1> QED
    BY <1>10, <1>11, <1>13 DEF ServerSound

LEMMA TeeUpSound ==
    ASSUME MotionInv, UNCHANGED <<me, now, taken>>, TeeUpCall
    PROVE  ServerSound
<1>1. CASE Refuse("tee_up")
    BY <1>1, RefusalSound
<1>2. ASSUME NEW placed, placed = [mover EXCEPT !.at = Tee, !.credit = Credit, !.ball = TRUE],
             mover' = placed, since' = 0, down' = Append(down, Row(placed, "idle")),
             UNCHANGED <<played, walked>>
      PROVE  ServerSound
  <2>1. mover \in Mover /\ me.sent \in Nat /\ mover.id <= me.sent
    BY DEF MotionInv, Served, Sound, Game
  <2>2. /\ mover.credit \in Nat /\ since \in Nat /\ now \in Nat /\ mover.step \in Nat
        /\ played \in 0..mover.step /\ walked \in 0..played /\ mover.step <= Len(taken)
        /\ played + mover.credit + since <= Gap + now /\ Gap \in Nat
    BY <2>1, MotionAssumption DEF MotionInv, Served, Mover
  <2>3. Credit \in 0..Gap /\ Credit <= mover.credit + since
    BY <2>2 DEF Credit, Least
  <2>4. /\ mover' \in Mover /\ mover'.step = mover.step /\ mover'.id = mover.id
        /\ mover'.credit = Credit
    BY <1>2, <2>1, <2>3, MotionAssumption DEF Mover
  <2>5. played' + mover'.credit + since' <= Gap + now'
    BY <1>2, <2>2, <2>3, <2>4
  <2>6. Served'
    BY <1>2, <2>1, <2>2, <2>4, <2>5 DEF Served
  <2>7. /\ Row(placed, "idle") \in Event /\ Row(placed, "idle").row.id = mover.id
    BY <1>2, <2>4 DEF Row, Event, RowSent, Mover, Mode
  <2>8. /\ down' \in Seq(Event)
        /\ \A i \in 1..Len(down') : down'[i].event = "row" => down'[i].row.id <= me.sent
    BY <1>2, <2>1, <2>7, AnswerSound DEF MotionInv, Travelling
  <2> QED
    BY <1>2, <2>4, <2>6, <2>8 DEF ServerSound, Abstract!walkVars
<1> QED
    BY <1>1, <1>2 DEF TeeUpCall

LEMMA MotionSound ==
    ASSUME MotionInv, UNCHANGED <<me, now, taken>>,
           NEW m \in MotionCall, Carried(m.first, m.steps, taken), m.id <= me.sent, Motion(m)
    PROVE  ServerSound
<1>1. m.call = "update_motion"
    BY DEF MotionCall
<1>2. CASE Refuse(m.call)
    BY <1>1, <1>2, RefusalSound
<1>3. CASE UNCHANGED <<serverVars, down>>
    BY <1>3 DEF ServerSound, MotionInv, Served, Travelling, serverVars, Abstract!walkVars
<1>4. CASE Accept(m)
    BY <1>4, AcceptSound
<1> QED
    BY <1>2, <1>3, <1>4 DEF Motion

(* A call served is gone, or comes again later. *)
LEMMA ServedCalls ==
    ASSUME up \in Seq(Call), up # <<>>,
           up' = Tail(up) \/ up' = Append(Tail(up), Head(up))
    PROVE  up' \in Seq(Call) /\ \A i \in 1..Len(up') : \E j \in 1..Len(up) : up'[i] = up[j]
<1>1. Head(up) = up[1] /\ 1 \in 1..Len(up) /\ Head(up) \in Call /\ Len(up) \in Nat
    OBVIOUS
<1>2. /\ Tail(up) \in Seq(Call) /\ Len(Tail(up)) = Len(up) - 1
      /\ \A i \in 1..Len(Tail(up)) : Tail(up)[i] = up[i + 1]
    OBVIOUS
<1>3. CASE up' = Tail(up)
  <2>1. ASSUME NEW i \in 1..Len(up') PROVE up'[i] = up[i + 1] /\ i + 1 \in 1..Len(up)
    BY <1>1, <1>2, <1>3
  <2> QED
    BY <1>2, <1>3, <2>1
<1>4. CASE up' = Append(Tail(up), Head(up))
  <2>1. up' \in Seq(Call) /\ Len(up') = Len(up) /\ Len(Tail(up)) + 1 = Len(up)
    BY <1>1, <1>2, <1>4
  <2>2. ASSUME NEW i \in 1..Len(up') PROVE \E j \in 1..Len(up) : up'[i] = up[j]
    <3>1. CASE i \in 1..Len(Tail(up))
      <4>1. up'[i] = up[i + 1] /\ i + 1 \in 1..Len(up)
        BY <1>1, <1>2, <1>4, <3>1
      <4> QED
        BY <4>1
    <3>2. CASE i = Len(Tail(up)) + 1
      <4>1. up'[i] = up[1]
        BY <1>1, <1>2, <1>4, <3>2
      <4> QED
        BY <1>1, <4>1
    <3>3. i \in 1..Len(Tail(up)) \/ i = Len(Tail(up)) + 1
      <4>1. Len(up') = Len(Tail(up)) + 1 /\ Len(Tail(up)) \in Nat
        BY <1>2, <1>4
      <4> QED
        BY <4>1
    <3> QED
      BY <3>1, <3>2, <3>3
  <2> QED
    BY <2>1, <2>2
<1> QED
    BY <1>3, <1>4

(* The call that was next, or comes again, is still one the game sent. *)
LEMMA ServeKeeps ==
    ASSUME MotionInv, Serve
    PROVE  MotionInv' /\ (Abstract!WalkNext \/ UNCHANGED Abstract!walkVars)
<1>1. /\ UNCHANGED <<me, now, taken>> /\ up # <<>>
      /\ IF IsMotion(Head(up)) THEN Motion(Head(up)) ELSE TeeUpCall
      /\ up' = Tail(up) \/ (IsMotion(Head(up)) /\ up' = Append(Tail(up), Head(up)))
    BY DEF Serve
<1>2. /\ up \in Seq(Call) /\ AllCarried(up, taken) /\ Len(up) \in Nat
      /\ \A i \in 1..Len(up) : IsMotion(up[i]) => up[i].id <= me.sent
    BY DEF MotionInv, Travelling
<1>3. Head(up) = up[1] /\ 1 \in 1..Len(up) /\ Head(up) \in Call
    BY <1>1, <1>2
<1>4. IsMotion(Head(up)) => /\ Head(up) \in MotionCall /\ Head(up).id <= me.sent
                            /\ Carried(Head(up).first, Head(up).steps, taken)
    BY <1>2, <1>3, CallKinds DEF AllCarried
<1>5. ServerSound
  <2>1. CASE IsMotion(Head(up))
    BY <1>1, <1>4, <2>1, MotionSound
  <2>2. CASE ~IsMotion(Head(up))
    BY <1>1, <2>2, TeeUpSound
  <2> QED
    BY <2>1, <2>2
<1>6. up' \in Seq(Call) /\ \A i \in 1..Len(up') : \E j \in 1..Len(up) : up'[i] = up[j]
    BY <1>1, <1>2, ServedCalls
<1>7. Travelling'
  <2>1. AllCarried(up', taken')
    BY <1>1, <1>2, <1>6 DEF AllCarried
  <2>2. \A i \in 1..Len(up') : IsMotion(up'[i]) => up'[i].id <= me'.sent
    BY <1>1, <1>2, <1>6
  <2> QED
    BY <1>1, <1>5, <1>6, <2>1, <2>2 DEF Travelling, ServerSound
<1>8. taken' \in Seq(Input) /\ Sound(me', taken', me'.sent)
    BY <1>1 DEF MotionInv
<1> QED
    BY <1>5, <1>7, <1>8 DEF MotionInv, ServerSound

-----------------------------------------------------------------------------
(* A golfer who never turned to a ball: where game and server agree. *)

(* How far steps go that meet nothing. *)
Ahead(steps) == Cardinality({i \in 1..Len(steps) : steps[i] # 0})

(* They are where their last step ended, and were put nowhere since.       *)
AtMostOneWalk(commands) ==
    /\ Len(commands) <= 1
    /\ \A i \in 1..Len(commands) :
          IsMotion(commands[i]) /\ commands[i].placed = 0 /\ commands[i].mode # "address"
Walks(history) ==
    /\ \A sent \in history : sent.placed = 0 /\ sent.mode # "address"
    /\ \A sent, other \in history : sent.id = other.id => sent = other
OnFoot(c) ==
    /\ c.mode = "walking" /\ c.stepped \in {NoPlace, c.at} /\ "tee_up" \notin c.refused
    /\ AtMostOneWalk(c.commands) /\ Walks(c.history)

(* With nothing due, their place is that of the motion queued; or that of  *)
(* the last one sent and the steps since, while it waits for its answer;   *)
(* or the server's and the steps since, once it was answered.              *)
Queued(c) == Len(c.commands) = 1 /\ c.unsent = <<>> /\ c.commands[1].at = c.at
Waiting(c) ==
    c.commands = <<>> /\ \E sent \in c.history : sent.id = c.sent /\ c.at = sent.at + Ahead(c.unsent)
Answered(c, mv) ==
    c.commands = <<>> /\ c.acked = c.sent /\ mv.id = c.sent /\ c.at = mv.at + Ahead(c.unsent)
Placing(c, mv) == c.latest # NoMotion => Queued(c) \/ Waiting(c) \/ Answered(c, mv)

(* A motion's answer has its mode, and the last one's the server's place.  *)
Answers(history, id, mode) == \A sent \in history : sent.id = id => sent.mode = mode
Tells(row, mv) == row.id <= mv.id /\ (row.id = mv.id => row.at = mv.at)

Steady(c, mv) ==
    /\ OnFoot(c) /\ Placing(c, mv)
    /\ Answers(c.history, c.row.id, c.row.mode) /\ Tells(c.row, mv)

CallsFit(calls, history) ==
    \A i \in 1..Len(calls) : IsMotion(calls[i]) /\ Answers(history, calls[i].id, calls[i].mode)
AnswersFit(events, history, mv) ==
    \A i \in 1..Len(events) :
        /\ events[i].event = "row" => /\ Answers(history, events[i].row.id, events[i].row.mode)
                                      /\ Tells(events[i].row, mv)
        /\ events[i].event # "row" => events[i].call # "tee_up"

Counts == [turns : Nat, beats : Nat, faults : Nat]

Settled ==
    /\ Steady(me, mover)
    /\ CallsFit(up, me.history) /\ AnswersFit(down, me.history, mover)

AgreeInv == MotionInv /\ spent \in Counts /\ (spent.turns = 0 => Settled)

(* What of a history is still waited for. *)
Within(history, before) ==
    \A sent \in history : \E old \in before : sent.id = old.id /\ sent.mode = old.mode

LEMMA AheadFacts ==
    ASSUME NEW steps \in Seq(Input)
    PROVE  /\ Ahead(steps) \in Nat
           /\ (\A i \in 1..Len(steps) : steps[i] = 0) => Ahead(steps) = 0
           /\ \A input \in Input : Ahead(Append(steps, input)) = Ahead(steps) + input
<1> DEFINE open == {i \in 1..Len(steps) : steps[i] # 0}
<1>1. Len(steps) \in Nat /\ IsFiniteSet(1..Len(steps))
    BY FS_Interval
<1>2. IsFiniteSet(open) /\ Cardinality(open) \in Nat
    BY <1>1, FS_Subset, FS_CardinalityType
<1>3. ASSUME \A i \in 1..Len(steps) : steps[i] = 0 PROVE Ahead(steps) = 0
  <2>1. open = {}
    BY <1>3
  <2> QED
    BY <2>1, FS_EmptySet DEF Ahead
<1>4. ASSUME NEW input \in Input PROVE Ahead(Append(steps, input)) = Ahead(steps) + input
  <2> DEFINE more == Append(steps, input)
             last == Len(steps) + 1
             openMore == {i \in 1..Len(more) : more[i] # 0}
  <2>1. Len(more) = last /\ more[last] = input /\ \A i \in 1..Len(steps) : more[i] = steps[i]
    OBVIOUS
  <2>2. 1..last = (1..Len(steps)) \cup {last} /\ last \notin 1..Len(steps)
    BY <1>1
  <2> HIDE DEF more, last
  <2>3. CASE input = 0
    <3>1. openMore = open
        BY <2>1, <2>2, <2>3
    <3>2. Ahead(steps) = Cardinality(open) /\ Ahead(more) = Cardinality(openMore)
        BY DEF Ahead
    <3>3. Append(steps, input) = more
        BY DEF more
    <3>4. Cardinality(open) + 0 = Cardinality(open)
        BY <1>2
    <3> HIDE DEF open, openMore
    <3> QED
        BY <2>3, <3>1, <3>2, <3>3, <3>4
  <2>4. CASE input = 1
    <3>1. openMore = open \cup {last} /\ last \notin open
        BY <2>1, <2>2, <2>4
    <3> HIDE DEF open, openMore
    <3>2. Cardinality(openMore) = Cardinality(open) + 1
        BY <1>2, <3>1, FS_AddElement
    <3> QED
        BY <2>4, <3>2 DEF Ahead, more, open, openMore
  <2> QED
    BY <2>3, <2>4 DEF Input
<1> QED
    BY <1>2, <1>3, <1>4 DEF Ahead

LEMMA AheadNone == Ahead(<<>>) = 0
<1>1. {i \in 1..Len(<<>>) : <<>>[i] # 0} = {}
    OBVIOUS
<1> QED
    BY <1>1, FS_EmptySet DEF Ahead

LEMMA WithinAnswers ==
    ASSUME NEW history, NEW before, Within(history, before),
           NEW id, NEW mode, Answers(before, id, mode)
    PROVE  Answers(history, id, mode)
BY DEF Within, Answers

(* The motion that goes out at a frame's end says where they are. *)
LEMMA PushedSteady ==
    ASSUME NEW inputs \in Seq(Input), NEW ids, NEW c, Sound(c, inputs, ids),
           NEW mv, Steady(c, mv), c.commands = <<>>
    PROVE  Steady(Pushed(c), mv) /\ Pushed(c).history = c.history
<1> DEFINE walkedThere == c.unsent # <<>> /\ c.mode = "walking" /\ c.stepped # NoPlace
           motion == [call |-> "update_motion", first |-> c.first, start |-> c.start,
                      steps |-> c.unsent, mode |-> MotionMode(c), placed |-> 0,
                      at |-> IF walkedThere THEN c.stepped ELSE c.at]
           commands == Append(c.commands, motion)
           latest == [at |-> motion.at, mode |-> motion.mode]
           next == [c EXCEPT !.commands = commands, !.unsent = <<>>, !.latest = latest]
<1>1. c \in Game /\ OnFoot(c)
    BY DEF Sound, Steady
<1>2. motion.at = c.at
    BY <1>1 DEF OnFoot
<1>3. motion.mode # "address" /\ motion.placed = 0 /\ IsMotion(motion)
    BY <1>1 DEF OnFoot, MotionMode, IsMotion
<1>4. Pushed(c) = next
    BY <1>1 DEF Pushed, Game
<1> HIDE DEF motion, walkedThere
<1>5. Len(commands) = 1 /\ commands[1] = motion
    OBVIOUS
<1> HIDE DEF commands, latest
<1>6. /\ next.commands = commands /\ next.unsent = <<>> /\ next.at = c.at
      /\ next.mode = c.mode /\ next.stepped = c.stepped /\ next.history = c.history
      /\ next.refused = c.refused /\ next.row = c.row
    BY <1>1 DEF Game
<1> HIDE DEF next
<1>7. OnFoot(next)
  <2>1. AtMostOneWalk(commands)
    BY <1>3, <1>5 DEF AtMostOneWalk
  <2> QED
    BY <1>1, <1>6, <2>1 DEF OnFoot
<1>8. Queued(next)
    BY <1>2, <1>5, <1>6 DEF Queued
<1> QED
    BY <1>4, <1>6, <1>7, <1>8 DEF Steady, Placing

LEMMA WalkedSteady ==
    ASSUME NEW inputs \in Seq(Input), NEW ids, NEW c, Sound(c, inputs, ids),
           NEW mv \in Mover, Steady(c, mv), c.commands = <<>>, NEW input \in Input
    PROVE  /\ Steady(Walked(c, input), mv)
           /\ Walked(c, input).history = c.history /\ Walked(c, input).commands = <<>>
<1> DEFINE at == c.at + input
           first == IF c.unsent = <<>> THEN c.step + 1 ELSE c.first
           start == IF c.unsent = <<>> THEN c.at ELSE c.start
           unsent == Append(c.unsent, input)
           d == [c EXCEPT !.step = c.step + 1, !.first = first, !.start = start, !.unsent = unsent]
           next == [d EXCEPT !.at = at, !.moving = input, !.stepped = at]
<1>1. /\ c \in Game /\ OnFoot(c) /\ c.at \in Int /\ c.unsent \in Seq(Input)
      /\ c.history \subseteq HistoryEntry /\ mv.at \in Int /\ input \in Int
    BY DEF Sound, Steady, Game, Mover, Input
<1>2. Recorded(c, input) = d
  <2>1. (IF c.stepped # NoPlace THEN c.at - c.stepped ELSE 0) = 0
    BY <1>1 DEF OnFoot
  <2> QED
    BY <1>1, <2>1 DEF Recorded, Game
<1>3. Walked(c, input) = next
    BY <1>2 DEF Walked
<1> HIDE DEF first, start
<1>4. Ahead(unsent) = Ahead(c.unsent) + input /\ Ahead(c.unsent) \in Nat
    BY <1>1, AheadFacts
<1> HIDE DEF unsent
<1>5. /\ next.commands = c.commands /\ next.unsent = unsent /\ next.at = at
      /\ next.mode = c.mode /\ next.stepped = at /\ next.history = c.history
      /\ next.refused = c.refused /\ next.row = c.row /\ next.latest = c.latest
      /\ next.acked = c.acked /\ next.sent = c.sent
    BY <1>1 DEF Game
<1> HIDE DEF next
<1>6. OnFoot(next)
    BY <1>1, <1>5 DEF OnFoot
<1>7. Placing(next, mv)
  <2> SUFFICES ASSUME c.latest # NoMotion PROVE Waiting(next) \/ Answered(next, mv)
    BY <1>5 DEF Placing
  <2>1. Waiting(c) \/ Answered(c, mv)
    BY DEF Steady, Placing, Queued
  <2>2. ASSUME Waiting(c) PROVE Waiting(next)
    <3>1. PICK sent \in c.history : sent.id = c.sent /\ c.at = sent.at + Ahead(c.unsent)
        BY <2>2 DEF Waiting
    <3>2. sent.at \in Int
        BY <1>1 DEF HistoryEntry
    <3>3. next.at = sent.at + Ahead(next.unsent)
        BY <1>1, <1>4, <1>5, <3>1, <3>2
    <3> QED
        BY <1>5, <3>1, <3>3 DEF Waiting
  <2>3. ASSUME Answered(c, mv) PROVE Answered(next, mv)
    <3>1. next.at = mv.at + Ahead(next.unsent)
        BY <1>1, <1>4, <1>5, <2>3 DEF Answered
    <3> QED
        BY <1>5, <2>3, <3>1 DEF Answered
  <2> QED
    BY <2>1, <2>2, <2>3
<1> QED
    BY <1>3, <1>5, <1>6, <1>7 DEF Steady

LEMMA StandingSteady ==
    ASSUME NEW inputs, NEW ids, NEW c, Sound(c, inputs, ids), NEW mv, Steady(c, mv), c.commands = <<>>
    PROVE  /\ Steady(Standing(c), mv)
           /\ Standing(c).history = c.history /\ Standing(c).commands = <<>>
<1> DEFINE next == [c EXCEPT !.moving = 0]
<1>1. c \in Game
    BY DEF Sound
<1>2. /\ next.commands = c.commands /\ next.unsent = c.unsent /\ next.at = c.at
      /\ next.mode = c.mode /\ next.stepped = c.stepped /\ next.history = c.history
      /\ next.refused = c.refused /\ next.row = c.row /\ next.latest = c.latest
      /\ next.acked = c.acked /\ next.sent = c.sent
    BY <1>1 DEF Game
<1> HIDE DEF next
<1>3. OnFoot(next) /\ Placing(next, mv)
    BY <1>2 DEF Steady, OnFoot, Placing, Queued, Waiting, Answered
<1>4. Standing(c) = next
    BY DEF Standing, next
<1> QED
    BY <1>2, <1>3, <1>4 DEF Steady

(* Motions given up on: they are where the server's row has them, and what *)
(* they sent is due again.                                                 *)
LEMMA RefusedMotionSteady ==
    ASSUME NEW inputs, NEW ids, NEW c, Sound(c, inputs, ids), NEW mv, Steady(c, mv), c.commands = <<>>
    PROVE  LET d == RefusedMotion(c)
           IN  /\ Steady(d, mv) /\ d.history = {} /\ d.commands = <<>> /\ d.refused = c.refused
<1> DEFINE placed == [c EXCEPT !.at = c.row.at]
           commands == OnlyTeeUps(c.commands)
           next == [placed EXCEPT !.history = {}, !.unsent = <<>>, !.stepped = NoPlace,
                                  !.latest = NoMotion, !.commands = commands]
<1>1. c \in Game /\ OnFoot(c)
    BY DEF Sound, Steady
<1>2. commands = <<>>
  <2> DEFINE others == {j \in DOMAIN c.commands : ~IsMotion(c.commands[j])}
  <2>1. others = {}
    OBVIOUS
  <2>2. Cardinality(others) = 0
    BY <2>1, FS_EmptySet
  <2>3. commands = [i \in 1..Cardinality(others) |-> [call |-> "tee_up"]]
    BY DEF OnlyTeeUps
  <2> HIDE DEF commands, others
  <2>4. commands \in Seq(Command) /\ Len(commands) = 0
    BY <2>2, <2>3
  <2> QED
    BY <2>4
<1>3. RefusedMotion(c) = next
  <2>1. placed.commands = c.commands
    BY <1>1 DEF Game
  <2>2. Returned(c) = placed
    BY DEF Returned
  <2> HIDE DEF placed
  <2> QED
    BY <2>1, <2>2 DEF RefusedMotion, Discarded
<1> HIDE DEF commands
<1>4. /\ next.commands = commands /\ next.history = {} /\ next.stepped = NoPlace
      /\ next.latest = NoMotion /\ next.mode = c.mode /\ next.refused = c.refused
      /\ next.row = c.row
    BY <1>1 DEF Game
<1> HIDE DEF next
<1>5. AtMostOneWalk(next.commands) /\ Walks(next.history)
    BY <1>2, <1>4 DEF AtMostOneWalk, Walks
<1>6. OnFoot(next)
    BY <1>1, <1>4, <1>5 DEF OnFoot
<1>7. Answers(next.history, next.row.id, next.row.mode)
    BY <1>4 DEF Answers
<1> QED
    BY <1>2, <1>3, <1>4, <1>6, <1>7 DEF Steady, Placing

LEMMA RefusalsTakenSteady ==
    ASSUME NEW inputs, NEW ids, NEW c, Sound(c, inputs, ids), NEW mv, Steady(c, mv), c.commands = <<>>
    PROVE  LET d == RefusalsTaken(c)
           IN  /\ Steady(d, mv) /\ Within(d.history, c.history) /\ d.commands = <<>>
<1> DEFINE moved == IF "update_motion" \in c.refused THEN RefusedMotion(c) ELSE c
           next == [moved EXCEPT !.refused = {}]
<1>1. RefusalsTaken(c) = next
    BY DEF RefusalsTaken, Steady, OnFoot
<1>2. /\ Steady(moved, mv) /\ Within(moved.history, c.history) /\ moved.commands = <<>>
      /\ moved \in Game
  <2>1. CASE "update_motion" \in c.refused
    <3>1. /\ Steady(moved, mv) /\ moved.history = {} /\ moved.commands = <<>>
        BY <2>1, RefusedMotionSteady
    <3>2. Sound(moved, inputs, ids)
        BY <2>1, RefusalsTakenSound
    <3> HIDE DEF moved
    <3> QED
        BY <3>1, <3>2 DEF Within, Sound
  <2>2. CASE "update_motion" \notin c.refused
    BY <2>2 DEF Within, Sound
  <2> QED
    BY <2>1, <2>2
<1> HIDE DEF moved
<1>3. /\ next.commands = moved.commands /\ next.unsent = moved.unsent /\ next.at = moved.at
      /\ next.mode = moved.mode /\ next.stepped = moved.stepped /\ next.history = moved.history
      /\ next.refused = {} /\ next.row = moved.row /\ next.latest = moved.latest
      /\ next.acked = moved.acked /\ next.sent = moved.sent
    BY <1>2 DEF Game
<1> HIDE DEF next
<1>4. OnFoot(next) /\ Placing(next, mv)
    BY <1>2, <1>3 DEF Steady, OnFoot, Placing, Queued, Waiting, Answered
<1> QED
    BY <1>1, <1>2, <1>3, <1>4 DEF Steady

(* The row of a motion moves the golfer and what they sent since alike.    *)
LEMMA CorrectedSteady ==
    ASSUME NEW inputs, NEW ids, NEW c, Sound(c, inputs, ids), NEW mv, Steady(c, mv),
           NEW sent \in c.history
    PROVE  LET d == Corrected(c, sent)
               by == c.row.at - sent.at
           IN  /\ OnFoot(d) /\ Within(d.history, c.history)
               /\ d.at = c.at + by
               /\ \A later \in c.history : later.id > sent.id =>
                     \E moved \in d.history : moved.id = later.id /\ moved.at = later.at + by
               /\ d.row = c.row /\ d.latest = c.latest /\ d.unsent = c.unsent
               /\ d.commands = c.commands /\ d.sent = c.sent /\ d.acked = c.acked
<1> DEFINE by == c.row.at - sent.at
           at == c.at + by
           start == c.start + by
           stepped == IF c.stepped = NoPlace THEN NoPlace ELSE at
           shifted(later) == IF later.id > sent.id THEN [later EXCEPT !.at = later.at + by] ELSE later
           history == {shifted(later) : later \in c.history}
           next == [c EXCEPT !.at = at, !.history = history, !.stepped = stepped, !.start = start]
<1>1. /\ c \in Game /\ OnFoot(c) /\ Walks(c.history) /\ c.at \in Int /\ c.row.at \in Int
      /\ c.history \subseteq HistoryEntry
    BY DEF Sound, Steady, OnFoot, Game, RowSent
<1>2. by \in Int
    BY <1>1 DEF HistoryEntry
<1>3. Corrected(c, sent) = IF by = 0 THEN c ELSE next
  <2> DEFINE unnoticed == IF Newest(c.history, sent) /\ c.stepped # NoPlace THEN c.at - c.stepped ELSE 0
             putThere == sent.placed + unnoticed # 0 /\ c.row.at = sent.at + (sent.placed + unnoticed)
  <2>1. unnoticed = 0 /\ sent.placed = 0
    BY <1>1 DEF OnFoot, Walks
  <2>2. ~putThere
    BY <2>1
  <2>3. [c EXCEPT !.at = @ + by,
                  !.history = {IF later.id > sent.id THEN [later EXCEPT !.at = later.at + by] ELSE later :
                                  later \in @},
                  !.stepped = IF @ = NoPlace THEN NoPlace ELSE c.at + by,
                  !.start = @ + by] = next
    BY <1>1 DEF Game
  <2> HIDE DEF next, by
  <2>4. Corrected(c, sent) = IF by = 0 \/ putThere THEN c ELSE next
    BY <2>3 DEF Corrected, by
  <2> HIDE DEF putThere
  <2> QED
    BY <2>2, <2>4
<1>4. CASE by = 0
  <2>1. Corrected(c, sent) = c
    BY <1>3, <1>4
  <2>2. Within(c.history, c.history)
    BY DEF Within
  <2>3. \A later \in c.history : later.at + by = later.at
    BY <1>1, <1>4 DEF HistoryEntry
  <2>4. c.at = c.at + by
    BY <1>1, <1>4
  <2> HIDE DEF by
  <2> QED
    BY <1>1, <2>1, <2>2, <2>3, <2>4 DEF by
<1>5. CASE by # 0
  <2>1. Corrected(c, sent) = next
    BY <1>3, <1>5
  <2> HIDE DEF by
  <2>2. ASSUME NEW later \in c.history
        PROVE  /\ shifted(later).id = later.id /\ shifted(later).mode = later.mode
               /\ shifted(later).placed = later.placed
               /\ later.id > sent.id => shifted(later).at = later.at + by
    BY <1>1, <1>2 DEF HistoryEntry
  <2> HIDE DEF shifted
  <2>3. Within(history, c.history)
    BY <2>2 DEF Within
  <2>4. Walks(history)
    <3>1. ASSUME NEW a \in history, NEW b \in history, a.id = b.id PROVE a = b
        <4>1. PICK x \in c.history : a = shifted(x)
            OBVIOUS
        <4>2. PICK y \in c.history : b = shifted(y)
            OBVIOUS
        <4>3. x.id = y.id
            BY <2>2, <3>1, <4>1, <4>2
        <4> QED
            BY <1>1, <4>1, <4>2, <4>3 DEF Walks
    <3>2. ASSUME NEW a \in history PROVE a.placed = 0 /\ a.mode # "address"
        BY <1>1, <2>2 DEF Walks
    <3> QED
        BY <3>1, <3>2 DEF Walks
  <2>5. \A later \in c.history : later.id > sent.id =>
            \E moved \in history : moved.id = later.id /\ moved.at = later.at + by
    BY <2>2
  <2> HIDE DEF history
  <2>6. /\ next.commands = c.commands /\ next.unsent = c.unsent /\ next.at = at
        /\ next.mode = c.mode /\ next.stepped = stepped /\ next.history = history
        /\ next.refused = c.refused /\ next.row = c.row /\ next.latest = c.latest
        /\ next.acked = c.acked /\ next.sent = c.sent
    BY <1>1 DEF Game
  <2> HIDE DEF next
  <2>7. OnFoot(next)
    BY <1>1, <2>4, <2>6 DEF OnFoot
  <2> QED
    BY <2>1, <2>3, <2>5, <2>6, <2>7 DEF by
<1> QED
    BY <1>4, <1>5

(* The row that answers the last motion sent puts them where the server    *)
(* has them, and as many steps on as they took since.                      *)
LEMMA AcknowledgedSteady ==
    ASSUME NEW inputs, NEW ids, NEW c, Sound(c, inputs, ids), NEW mv \in Mover, mv.id <= ids,
           Steady(c, mv), c.commands = <<>>
    PROVE  LET d == Acknowledged(c)
           IN  /\ Steady(d, mv) /\ Within(d.history, c.history) /\ d.commands = <<>>
<1> DEFINE known == {sent \in c.history :
                        sent.id = c.row.id /\ sent.mode = c.row.mode /\ c.row.mode # "address"}
           answered == CHOOSE sent \in known : TRUE
           seen == IF c.row.id > c.acked /\ known # {} THEN Corrected(c, answered) ELSE c
           acked == Most(c.acked, c.row.id)
           history == {sent \in seen.history : sent.id > acked}
           next == [seen EXCEPT !.acked = acked, !.history = history]
<1>1. /\ c \in Game /\ OnFoot(c) /\ Walks(c.history) /\ c.history \subseteq HistoryEntry
      /\ c.at \in Int /\ c.row.at \in Int /\ c.row.id \in Nat /\ c.acked \in Nat /\ c.sent \in Nat
      /\ c.row.id <= c.sent /\ c.acked <= c.sent /\ c.sent = ids
      /\ c.unsent \in Seq(Input) /\ mv.at \in Int /\ mv.id \in Nat
    BY DEF Sound, Steady, OnFoot, Game, RowSent, Mover
<1>2. \A sent \in c.history : /\ sent.id \in Nat /\ sent.at \in Int
                              /\ c.acked < sent.id /\ sent.id <= c.sent
  <2> SUFFICES ASSUME NEW sent \in c.history
               PROVE  /\ sent.id \in Nat /\ sent.at \in Int /\ c.acked < sent.id /\ sent.id <= c.sent
    OBVIOUS
  <2>1. sent.id \in c.acked + 1 .. c.sent
    BY DEF Sound
  <2> QED
    BY <1>1, <2>1 DEF HistoryEntry
<1>3. Ahead(c.unsent) \in Nat
    BY <1>1, AheadFacts
<1>4. acked = IF c.acked < c.row.id THEN c.row.id ELSE c.acked
    BY DEF Most
<1>5. /\ answered \in c.history /\ answered.id = c.row.id
      \/ ~(c.row.id > c.acked /\ known # {})
    OBVIOUS
<1>6. /\ OnFoot(seen) /\ Within(seen.history, c.history) /\ seen \in Game
      /\ seen.row = c.row /\ seen.latest = c.latest /\ seen.unsent = c.unsent
      /\ seen.commands = <<>> /\ seen.sent = c.sent
  <2>1. CASE c.row.id > c.acked /\ known # {}
    <3>1. answered \in c.history /\ seen = Corrected(c, answered)
        BY <1>5, <2>1
    <3> HIDE DEF seen, answered
    <3>2. seen \in Game
        BY <3>1, CorrectedSound DEF Sound
    <3> QED
        BY <3>1, <3>2, CorrectedSteady
  <2>2. CASE ~(c.row.id > c.acked /\ known # {})
    <3>1. seen = c
        BY <2>2
    <3> HIDE DEF seen
    <3> QED
        BY <1>1, <3>1 DEF Within
  <2> QED
    BY <2>1, <2>2
<1>7. ASSUME c.latest # NoMotion
      PROVE  \/ \E sent \in seen.history :
                   sent.id = c.sent /\ sent.id > acked /\ seen.at = sent.at + Ahead(c.unsent)
             \/ acked = c.sent /\ mv.id = c.sent /\ seen.at = mv.at + Ahead(c.unsent)
  <2>1. Waiting(c) \/ Answered(c, mv)
    BY <1>7 DEF Steady, Placing, Queued
  <2>2. CASE c.row.id > c.acked /\ known # {}
    <3>1. answered \in c.history /\ answered.id = c.row.id /\ seen = Corrected(c, answered)
        BY <1>5, <2>2
    <3> HIDE DEF seen, answered, known
    <3>2. PICK sent \in c.history : sent.id = c.sent /\ c.at = sent.at + Ahead(c.unsent)
        BY <1>1, <1>2, <2>1, <3>1 DEF Waiting, Answered
    <3> DEFINE by == c.row.at - answered.at
    <3>3. /\ seen.at = c.at + by
          /\ \A later \in c.history : later.id > answered.id =>
                \E moved \in seen.history : moved.id = later.id /\ moved.at = later.at + by
        BY <3>1, CorrectedSteady
    <3>4. by \in Int /\ answered.at \in Int
        BY <1>1, <1>2, <3>1
    <3>5. CASE sent.id > answered.id
        <4>1. PICK moved \in seen.history : moved.id = sent.id /\ moved.at = sent.at + by
            BY <3>3, <3>5
        <4> HIDE DEF by
        <4>2. seen.at = moved.at + Ahead(c.unsent)
            BY <1>1, <1>2, <1>3, <3>2, <3>3, <3>4, <4>1
        <4>3. moved.id = c.sent /\ moved.id > acked
            BY <1>4, <2>2, <3>1, <3>2, <3>5, <4>1
        <4> QED
            BY <4>2, <4>3
    <3>6. CASE ~(sent.id > answered.id)
        <4>1. sent.id = answered.id
            BY <1>1, <1>2, <3>1, <3>2, <3>6
        <4>2. sent = answered
            BY <1>1, <3>1, <4>1 DEF Walks
        <4>3. c.row.id = c.sent /\ mv.id = c.sent /\ c.row.at = mv.at
            BY <1>1, <3>1, <3>2, <4>1 DEF Steady, Tells
        <4>4. seen.at = mv.at + Ahead(c.unsent)
            BY <1>1, <1>2, <1>3, <3>2, <3>3, <3>4, <4>2, <4>3
        <4> QED
            BY <1>4, <2>2, <4>3, <4>4
    <3> QED
        BY <3>5, <3>6
  <2>3. CASE ~(c.row.id > c.acked /\ known # {})
    <3>1. seen = c
        BY <2>3
    <3>2. CASE Waiting(c)
        <4>1. PICK sent \in c.history : sent.id = c.sent /\ c.at = sent.at + Ahead(c.unsent)
            BY <3>2 DEF Waiting
        <4>2. sent.mode # "address" /\ Answers(c.history, c.row.id, c.row.mode)
            BY <1>1 DEF Walks, Steady
        <4>3. c.row.id > c.acked => sent.id # c.row.id
            BY <2>3, <4>2 DEF Answers
        <4>4. sent.id > acked
            BY <1>1, <1>2, <1>4, <4>1, <4>3
        <4> QED
            BY <3>1, <4>1, <4>4
    <3>3. CASE Answered(c, mv)
        <4>1. acked = c.sent
            BY <1>1, <1>4, <3>3 DEF Answered
        <4> QED
            BY <3>1, <3>3, <4>1 DEF Answered
    <3> QED
        BY <2>1, <3>2, <3>3
  <2> QED
    BY <2>2, <2>3
<1>8. Acknowledged(c) = next
    BY DEF Acknowledged
<1> HIDE DEF known, answered, seen, acked
<1>9. history \subseteq seen.history
    OBVIOUS
<1>10. Within(history, c.history)
    BY <1>6, <1>9 DEF Within
<1>11. Walks(history)
    BY <1>6, <1>9 DEF OnFoot, Walks
<1>12. ASSUME c.latest # NoMotion
       PROVE  \/ \E sent \in history : sent.id = c.sent /\ seen.at = sent.at + Ahead(c.unsent)
              \/ acked = c.sent /\ mv.id = c.sent /\ seen.at = mv.at + Ahead(c.unsent)
    BY <1>7, <1>12
<1> HIDE DEF history
<1>13. /\ next.commands = <<>> /\ next.unsent = c.unsent /\ next.at = seen.at
       /\ next.mode = seen.mode /\ next.stepped = seen.stepped /\ next.history = history
       /\ next.refused = seen.refused /\ next.row = c.row /\ next.latest = c.latest
       /\ next.acked = acked /\ next.sent = c.sent
    BY <1>6 DEF Game
<1> HIDE DEF next
<1>14. OnFoot(next)
    BY <1>6, <1>11, <1>13 DEF OnFoot
<1>15. Placing(next, mv)
    BY <1>12, <1>13 DEF Placing, Waiting, Answered
<1>16. Answers(next.history, next.row.id, next.row.mode)
    BY <1>10, <1>13, WithinAnswers DEF Steady
<1> QED
    BY <1>8, <1>10, <1>13, <1>14, <1>15, <1>16 DEF Steady

LEMMA ReconciledSteady ==
    ASSUME NEW inputs, NEW ids, NEW c, Sound(c, inputs, ids), NEW mv \in Mover, mv.id <= ids,
           Steady(c, mv), c.commands = <<>>, NEW used \in Counts, NEW end \in Reconciled(c, used)
    PROVE  /\ Sound(end.game, inputs, ids)
           /\ Steady(end.game, mv) /\ Within(end.game.history, c.history)
           /\ end.game.commands = <<>>
           /\ end.used \in Counts /\ end.used.turns = used.turns
<1> DEFINE heeded == RefusalsTaken(c)
           acknowledged == Acknowledged(heeded)
<1>1. Sound(heeded, inputs, ids) /\ Sound(acknowledged, inputs, ids)
    BY RefusalsTakenSound, AcknowledgedSound
<1>2. Steady(heeded, mv) /\ Within(heeded.history, c.history) /\ heeded.commands = <<>>
    BY RefusalsTakenSteady
<1> HIDE DEF heeded
<1>3. /\ Steady(acknowledged, mv) /\ Within(acknowledged.history, heeded.history)
      /\ acknowledged.commands = <<>>
    BY <1>1, <1>2, AcknowledgedSteady
<1> HIDE DEF acknowledged
<1>4. Within(acknowledged.history, c.history)
    BY <1>2, <1>3 DEF Within
<1>5. \/ end = [game |-> acknowledged, used |-> used]
      \/ end = [game |-> RefusedMotion(acknowledged), used |-> [used EXCEPT !.faults = @ + 1]]
    BY DEF Reconciled, heeded, acknowledged
<1>6. CASE end = [game |-> acknowledged, used |-> used]
    BY <1>1, <1>3, <1>4, <1>6
<1>7. CASE end = [game |-> RefusedMotion(acknowledged), used |-> [used EXCEPT !.faults = @ + 1]]
  <2>1. end.game = RefusedMotion(acknowledged) /\ end.used = [used EXCEPT !.faults = @ + 1]
    BY <1>7
  <2>2. /\ Steady(end.game, mv) /\ end.game.history = {} /\ end.game.commands = <<>>
    BY <1>1, <1>3, <2>1, RefusedMotionSteady
  <2>3. Sound(end.game, inputs, ids)
    BY <1>1, <2>1, RefusalsTakenSound
  <2>4. end.used \in Counts /\ end.used.turns = used.turns
    BY <2>1 DEF Counts
  <2>5. Within(end.game.history, c.history)
    BY <2>2 DEF Within
  <2> QED
    BY <2>2, <2>3, <2>4, <2>5
<1> QED
    BY <1>5, <1>6, <1>7

LEMMA FinishSteady ==
    ASSUME NEW inputs \in Seq(Input), NEW ids, NEW c, Sound(c, inputs, ids),
           NEW mv \in Mover, mv.id <= ids, Steady(c, mv), c.commands = <<>>,
           NEW used \in Counts, NEW sends, Finish(c, used, sends)
    PROVE  Steady(me', mv) /\ Within(me'.history, c.history)
<1>1. PICK end \in Reconciled(c, used) : me' = IF sends THEN Pushed(end.game) ELSE end.game
    BY DEF Finish
<1>2. /\ Sound(end.game, inputs, ids)
      /\ Steady(end.game, mv) /\ Within(end.game.history, c.history)
      /\ end.game.commands = <<>>
    BY ReconciledSteady
<1>3. Steady(Pushed(end.game), mv) /\ Pushed(end.game).history = end.game.history
    BY <1>2, PushedSteady
<1> QED
    BY <1>1, <1>2, <1>3

(* Turns at the ball are never taken back. *)
LEMMA FinishCounts ==
    ASSUME NEW c, NEW used \in Counts, NEW sends, Finish(c, used, sends)
    PROVE  spent' \in Counts /\ spent'.turns = used.turns
<1>1. PICK end \in Reconciled(c, used) :
        \E beat \in BOOLEAN : spent' = [end.used EXCEPT !.beats = IF beat THEN @ + 1 ELSE @]
  <2>1. PICK end \in Reconciled(c, used) :
          spent' = [end.used EXCEPT !.beats = IF sends /\ BeatDue(end.game) THEN @ + 1 ELSE @]
    BY DEF Finish
  <2> DEFINE beat == sends /\ BeatDue(end.game)
             counted == IF beat THEN end.used.beats + 1 ELSE end.used.beats
  <2> QED
    BY <2>1
<1>2. end.used = used \/ end.used = [used EXCEPT !.faults = @ + 1]
    BY DEF Reconciled
<1>3. end.used \in Counts /\ end.used.turns = used.turns
    BY <1>2 DEF Counts
<1>4. PICK beat \in BOOLEAN : spent' = [end.used EXCEPT !.beats = IF beat THEN @ + 1 ELSE @]
    BY <1>1
<1> QED
    BY <1>3, <1>4 DEF Counts

(* What is heard is as much the server's as what was. *)
LEMMA HeardSteady ==
    ASSUME NEW inputs, NEW ids, NEW c, Sound(c, inputs, ids), NEW mv, Steady(c, mv),
           NEW events \in Seq(Event), AnswersFit(events, c.history, mv)
    PROVE  LET d == Heard(c, events)
           IN  /\ Steady(d, mv) /\ d.history = c.history /\ d.commands = c.commands
               /\ d.sent = c.sent
<1> DEFINE rows == {i \in DOMAIN events : events[i].event = "row"}
           last == CHOOSE i \in rows : \A j \in rows : j <= i
           refusals == {events[i].call : i \in DOMAIN events \ rows}
           row == IF rows = {} THEN c.row ELSE events[last].row
           next == [c EXCEPT !.row = row, !.refused = refusals]
<1>1. c \in Game /\ OnFoot(c)
    BY DEF Sound, Steady
<1>2. Answers(c.history, row.id, row.mode) /\ Tells(row, mv)
  <2>1. CASE rows = {}
    BY <2>1 DEF Steady
  <2>2. CASE rows # {}
    <3>1. rows \subseteq 1..Len(events) /\ Len(events) \in Nat
        OBVIOUS
    <3>2. \E i \in rows : \A j \in rows : j <= i
        BY <2>2, <3>1, Greatest
    <3>3. last \in rows
        BY <3>2
    <3> HIDE DEF last
    <3>4. last \in 1..Len(events) /\ events[last].event = "row"
        BY <3>1, <3>3
    <3>5. Answers(c.history, events[last].row.id, events[last].row.mode) /\ Tells(events[last].row, mv)
        BY <3>4 DEF AnswersFit
    <3> QED
        BY <2>2, <3>5
  <2> QED
    BY <2>1, <2>2
<1>3. "tee_up" \notin refusals
    BY DEF AnswersFit
<1>4. Heard(c, events) = next
    BY DEF Heard
<1> HIDE DEF row, refusals
<1>5. /\ next.commands = c.commands /\ next.unsent = c.unsent /\ next.at = c.at
      /\ next.mode = c.mode /\ next.stepped = c.stepped /\ next.history = c.history
      /\ next.refused = refusals /\ next.row = row /\ next.latest = c.latest
      /\ next.acked = c.acked /\ next.sent = c.sent
    BY <1>1 DEF Game
<1> HIDE DEF next
<1>6. OnFoot(next) /\ Placing(next, mv)
    BY <1>1, <1>3, <1>5 DEF Steady, OnFoot, Placing, Queued, Waiting, Answered
<1> QED
    BY <1>2, <1>4, <1>5, <1>6 DEF Steady

(* A motion sent waits for its answer, under an id of its own.             *)
OneMore(history, c) ==
    \A sent \in history :
        sent \in c.history \/ (sent.id = c.sent + 1 /\ sent.mode = c.commands[1].mode)

LEMMA SentSteady ==
    ASSUME NEW inputs, NEW ids \in Nat, NEW c, Sound(c, inputs, ids), NEW mv, Steady(c, mv)
    PROVE  LET d == Sent(c)
           IN  Steady(d, mv) /\ d.commands = <<>> /\ OneMore(d.history, c)
<1> DEFINE entry(i) == [id |-> Ids(c)[i], at |-> c.commands[i].at,
                        mode |-> c.commands[i].mode, placed |-> c.commands[i].placed]
           motions == {i \in DOMAIN c.commands : IsMotion(c.commands[i])}
           history == c.history \cup {entry(i) : i \in motions}
           sent == c.sent + Len(c.commands)
           next == [c EXCEPT !.history = history, !.sent = sent, !.commands = <<>>]
           first == [id |-> ids + 1, at |-> c.commands[1].at,
                     mode |-> c.commands[1].mode, placed |-> c.commands[1].placed]
<1>1. /\ c \in Game /\ OnFoot(c) /\ AtMostOneWalk(c.commands) /\ Walks(c.history)
      /\ c.commands \in Seq(Command) /\ Len(c.commands) \in Nat /\ Len(c.commands) <= 1
      /\ c.sent = ids /\ c.row.id \in Nat /\ c.row.id <= ids
    BY DEF Sound, Steady, OnFoot, AtMostOneWalk, Game, RowSent
<1>2. \A old \in c.history : old.id \in Nat /\ old.id <= ids
    BY <1>1 DEF Sound, Game, HistoryEntry
<1>3. Sent(c) = next
    BY DEF Sent
<1>4. /\ Sent(c).commands = <<>> /\ Sent(c).unsent = c.unsent /\ Sent(c).at = c.at
      /\ Sent(c).mode = c.mode /\ Sent(c).stepped = c.stepped /\ Sent(c).history = history
      /\ Sent(c).refused = c.refused /\ Sent(c).row = c.row /\ Sent(c).latest = c.latest
      /\ Sent(c).acked = c.acked /\ Sent(c).sent = sent
  <2> HIDE DEF history, sent
  <2> QED
    BY <1>1, <1>3 DEF Game
<1> HIDE DEF next
<1>5. CASE Len(c.commands) = 0
  <2>1. c.commands = <<>>
    BY <1>1, <1>5
  <2>2. motions = {}
    BY <1>1, <1>5
  <2>3. history = c.history
    BY <2>2
  <2>4. sent = c.sent
    BY <1>1, <1>5
  <2> HIDE DEF history, sent
  <2>5. OnFoot(Sent(c)) /\ Placing(Sent(c), mv)
    BY <1>1, <1>4, <2>1, <2>3, <2>4 DEF Steady, OnFoot, Placing, Queued, Waiting, Answered
  <2> QED
    BY <1>4, <2>3, <2>5 DEF Steady, OneMore
<1>6. CASE Len(c.commands) = 1
  <2>1. /\ IsMotion(c.commands[1]) /\ c.commands[1].placed = 0 /\ c.commands[1].mode # "address"
    BY <1>6, <1>1 DEF AtMostOneWalk
  <2>2. c.commands[1] \in MotionCommand
    BY <1>1, <1>6, <2>1, CommandKinds, ElementOfSeq
  <2>3. motions = {1} /\ Ids(c)[1] = ids + 1
    BY <1>1, <1>6, <2>1 DEF Ids
  <2>4. entry(1) = first
    BY <2>3
  <2>5. history = c.history \cup {first}
    BY <2>3, <2>4
  <2>6. /\ first.id = ids + 1 /\ first.at = c.commands[1].at /\ first.mode = c.commands[1].mode
        /\ first.placed = c.commands[1].placed
    OBVIOUS
  <2> HIDE DEF history, entry, first
  <2>7. Walks(history)
    <3>1. \A old \in c.history : old.id # first.id
        BY <1>2, <2>6
    <3> QED
        BY <1>1, <2>1, <2>5, <2>6, <3>1 DEF Walks
  <2>8. AtMostOneWalk(<<>>)
    BY DEF AtMostOneWalk
  <2>9. OnFoot(Sent(c))
    BY <1>1, <1>4, <2>7, <2>8 DEF OnFoot
  <2>10. Placing(Sent(c), mv)
    <3> SUFFICES ASSUME c.latest # NoMotion PROVE Waiting(Sent(c))
        BY <1>4 DEF Placing
    <3>1. c.commands # <<>>
        BY <1>6
    <3>2. c.unsent = <<>> /\ c.commands[1].at = c.at
        BY <3>1 DEF Steady, Placing, Queued, Waiting, Answered
    <3>3. Ahead(<<>>) = 0
        BY AheadNone
    <3>4. c.at \in Int
        BY <1>1 DEF Game
    <3>5. sent = ids + 1
        BY <1>1, <1>6
    <3>6. first \in history /\ first.id = sent /\ c.at = first.at + Ahead(c.unsent)
        BY <2>5, <2>6, <3>2, <3>3, <3>4, <3>5
    <3> HIDE DEF sent
    <3> QED
        BY <1>4, <3>6 DEF Waiting
  <2>11. Answers(history, c.row.id, c.row.mode)
    <3>1. first.id # c.row.id
        BY <1>1, <2>6
    <3> QED
        BY <2>5, <3>1 DEF Steady, Answers
  <2>12. OneMore(history, c)
    BY <1>1, <2>5, <2>6 DEF OneMore
  <2> QED
    BY <1>4, <2>9, <2>10, <2>11, <2>12 DEF Steady
<1>7. Len(c.commands) = 0 \/ Len(c.commands) = 1
  <2> DEFINE len == Len(c.commands)
  <2>1. len \in Nat /\ len <= 1
    BY <1>1
  <2> HIDE DEF len
  <2>2. len = 0 \/ len = 1
    BY <2>1
  <2> QED
    BY <2>2 DEF len
<1> QED
    BY <1>5, <1>6, <1>7

LEMMA NotSentSteady ==
    ASSUME NEW inputs, NEW ids, NEW c, Sound(c, inputs, ids), NEW mv, Steady(c, mv)
    PROVE  LET d == NotSent(c)
           IN  Steady(d, mv) /\ d.commands = <<>> /\ d.history = c.history
<1> DEFINE next == [c EXCEPT !.commands = <<>>, !.latest = NoMotion]
<1>1. c \in Game /\ OnFoot(c)
    BY DEF Sound, Steady
<1>2. /\ next.commands = <<>> /\ next.latest = NoMotion
      /\ next.mode = c.mode /\ next.stepped = c.stepped /\ next.history = c.history
      /\ next.refused = c.refused /\ next.row = c.row /\ next.at = c.at
    BY <1>1 DEF Game
<1> HIDE DEF next
<1>3. AtMostOneWalk(<<>>)
    BY DEF AtMostOneWalk
<1>4. OnFoot(next) /\ Placing(next, mv)
    BY <1>1, <1>2, <1>3 DEF OnFoot, Placing
<1> QED
    BY <1>2, <1>4 DEF NotSent, Steady, next

(* The calls and answers of what went before, when one more motion waits.  *)
LEMMA FitStill ==
    ASSUME NEW c, c.sent \in Nat, NEW history, OneMore(history, c),
           NEW id \in Nat, id <= c.sent, NEW mode, Answers(c.history, id, mode)
    PROVE  Answers(history, id, mode)
<1> SUFFICES ASSUME NEW sent \in history, sent.id = id PROVE sent.mode = mode
    BY DEF Answers
<1>1. sent \in c.history
    BY DEF OneMore
<1> QED
    BY <1>1 DEF Answers

LEMMA NetUpdateSteady ==
    ASSUME MotionInv, Settled, spent \in Counts, NEW n \in 0..Len(down), NEW net \in NetUpdate(n)
    PROVE  /\ Steady(net.game, mover) /\ net.game.commands = <<>>
           /\ CallsFit(up, net.game.history) /\ CallsFit(net.calls, net.game.history)
           /\ AnswersFit(down, net.game.history, mover)
           /\ net.used \in Counts /\ net.used.turns = spent.turns
<1> DEFINE events == SubSeq(down, 1, n)
           heard == Heard(me, events)
<1>1. /\ down \in Seq(Event) /\ Len(down) \in Nat /\ Sound(me, taken, me.sent)
      /\ me.sent \in Nat /\ me.commands \in Seq(Command) /\ Len(me.commands) \in Nat
    BY DEF MotionInv, Travelling, Sound, Game
<1>2. /\ events \in Seq(Event) /\ Len(events) = n
      /\ \A i \in 1..n : events[i] = down[i]
    BY <1>1, SubSeqProperties
<1> HIDE DEF events
<1>3. AnswersFit(events, me.history, mover)
  <2>1. \A i \in 1..n : i \in 1..Len(down)
    BY <1>1
  <2> QED
    BY <1>2, <2>1 DEF Settled, AnswersFit
<1>4. /\ Steady(heard, mover) /\ heard.history = me.history /\ heard.commands = me.commands
      /\ heard.sent = me.sent
    BY <1>1, <1>2, <1>3, HeardSteady DEF Settled
<1>5. Sound(heard, taken, me.sent)
  <2>1. \A i \in 1..Len(events) : events[i].event = "row" => events[i].row.id <= me.sent
    <3>1. \A i \in 1..Len(down) : down[i].event = "row" => down[i].row.id <= me.sent
        BY DEF MotionInv, Travelling
    <3>2. \A i \in 1..n : i \in 1..Len(down)
        BY <1>1
    <3> QED
        BY <1>2, <3>1, <3>2
  <2> QED
    BY <1>1, <1>2, <2>1, HeardSound
<1>6. \/ net = [game |-> Sent(heard), calls |-> Calls(me), used |-> spent]
      \/ net = [game |-> NotSent(heard), calls |-> <<>>, used |-> [spent EXCEPT !.faults = @ + 1]]
    BY DEF NetUpdate, heard, events
<1> HIDE DEF heard
<1>7. CASE net = [game |-> Sent(heard), calls |-> Calls(me), used |-> spent]
  <2>1. net.game = Sent(heard) /\ net.calls = Calls(me) /\ net.used = spent
    BY <1>7
  <2>2. /\ Steady(net.game, mover) /\ net.game.commands = <<>> /\ OneMore(net.game.history, heard)
    BY <1>1, <1>4, <1>5, <2>1, SentSteady
  <2>3. OneMore(net.game.history, me)
    BY <1>4, <2>2 DEF OneMore
  <2>4. CallsFit(up, net.game.history)
    <3>1. SUFFICES ASSUME NEW i \in 1..Len(up)
                   PROVE  IsMotion(up[i]) /\ Answers(net.game.history, up[i].id, up[i].mode)
        BY DEF CallsFit
    <3>2. IsMotion(up[i]) /\ Answers(me.history, up[i].id, up[i].mode)
        BY DEF Settled, CallsFit
    <3>3. up[i].id \in Nat /\ up[i].id <= me.sent
        <4>1. up \in Seq(Call) /\ up[i] \in Call
            BY ElementOfSeq DEF MotionInv, Travelling
        <4>2. up[i] \in MotionCall
            BY <3>2, <4>1, CallKinds
        <4> QED
            BY <3>2, <4>2 DEF MotionInv, Travelling, MotionCall
    <3>4. Answers(net.game.history, up[i].id, up[i].mode)
        BY <1>1, <2>3, <3>2, <3>3, FitStill
    <3> QED
        BY <3>2, <3>4
  <2>5. AnswersFit(down, net.game.history, mover)
    <3>1. ASSUME NEW i \in 1..Len(down), down[i].event = "row"
          PROVE  Answers(net.game.history, down[i].row.id, down[i].row.mode)
        <4>1. Answers(me.history, down[i].row.id, down[i].row.mode)
            BY <3>1 DEF Settled, AnswersFit
        <4>2. down[i] \in Event
            BY <1>1, ElementOfSeq
        <4>3. down[i].row.id \in Nat /\ down[i].row.id <= me.sent
            BY <3>1, <4>2 DEF MotionInv, Travelling, Event, RowSent
        <4> QED
            BY <1>1, <2>3, <4>1, <4>3, FitStill
    <3> QED
        BY <3>1 DEF Settled, AnswersFit
  <2>6. CallsFit(net.calls, net.game.history)
    <3>1. DOMAIN me.commands = 1..Len(me.commands) /\ Len(Calls(me)) = Len(me.commands)
          /\ Len(me.commands) <= 1
        <4>1. Calls(me) \in Seq(Call)
            BY <1>1, CallsCarried
        <4>2. DOMAIN Calls(me) = DOMAIN me.commands
            BY DEF Calls
        <4> QED
            BY <1>1, <4>1, <4>2 DEF Settled, Steady, OnFoot, AtMostOneWalk
    <3>2. SUFFICES ASSUME NEW i \in 1..Len(net.calls)
                   PROVE  /\ IsMotion(Calls(me)[1])
                          /\ Answers(net.game.history, Calls(me)[1].id, Calls(me)[1].mode)
        <4>1. \A i \in 1..Len(net.calls) : i = 1
            BY <1>1, <2>1, <3>1
        <4> QED
            BY <2>1, <4>1 DEF CallsFit
    <3>3. Len(me.commands) = 1
        <4> DEFINE len == Len(me.commands)
        <4>1. len \in Nat /\ len <= 1 /\ i \in 1..len
            BY <1>1, <2>1, <3>1
        <4> HIDE DEF len
        <4>2. len = 1
            BY <4>1
        <4> QED
            BY <4>2 DEF len
    <3>4. IsMotion(me.commands[1]) /\ me.commands[1] \in MotionCommand
        <4>1. IsMotion(me.commands[1])
            BY <3>3 DEF Settled, Steady, OnFoot, AtMostOneWalk
        <4> QED
            BY <1>1, <3>3, <4>1, CommandKinds, ElementOfSeq
    <3>5. Ids(me)[1] = me.sent + 1
        BY <3>1, <3>3 DEF Ids
    <3>6. /\ IsMotion(Calls(me)[1]) /\ Calls(me)[1].id = me.sent + 1
          /\ Calls(me)[1].mode = me.commands[1].mode
        BY <3>1, <3>3, <3>4, <3>5 DEF Calls, IsMotion
    <3>7. ASSUME NEW sent \in net.game.history, sent.id = me.sent + 1
          PROVE  sent.mode = me.commands[1].mode
        <4>1. sent \in me.history => sent.id <= me.sent
            BY <1>1 DEF Sound, Game, HistoryEntry
        <4> QED
            BY <1>1, <2>3, <3>7, <4>1 DEF OneMore
    <3> QED
        BY <3>6, <3>7 DEF Answers
  <2> QED
    BY <2>1, <2>2, <2>4, <2>5, <2>6
<1>8. CASE net = [game |-> NotSent(heard), calls |-> <<>>, used |-> [spent EXCEPT !.faults = @ + 1]]
  <2>1. net.game = NotSent(heard) /\ net.calls = <<>> /\ net.used = [spent EXCEPT !.faults = @ + 1]
    BY <1>8
  <2>2. /\ Steady(net.game, mover) /\ net.game.commands = <<>> /\ net.game.history = me.history
    BY <1>4, <1>5, <2>1, NotSentSteady
  <2>3. net.used \in Counts /\ net.used.turns = spent.turns
    BY <2>1 DEF Counts
  <2>4. CallsFit(net.calls, net.game.history)
    BY <2>1 DEF CallsFit
  <2> QED
    BY <2>2, <2>3, <2>4 DEF Settled
<1> QED
    BY <1>6, <1>7, <1>8

(* A golfer who has not turned to a ball after a frame had not before it,  *)
(* and stood or stepped in it.                                             *)
LEMMA FrameOnFoot ==
    ASSUME NEW c, NEW used \in Counts, NEW rests, NEW sends,
           IF rests THEN Rest(c, used, sends) ELSE Acts(c, used, sends)
    PROVE  /\ spent' \in Counts
           /\ spent'.turns = 0 =>
                 /\ used.turns = 0
                 /\ \/ Finish(Standing(c), used, sends) /\ taken' = taken
                    \/ \E input \in Input : /\ Finish(Walked(c, input), used, sends)
                                            /\ taken' = Append(taken, input)
<1>1. CASE Rest(c, used, sends)
    BY <1>1, FinishCounts DEF Rest
<1>2. ASSUME NEW input \in {0, 1}, Step(c, used, input, sends)
      PROVE  /\ spent' \in Counts /\ spent'.turns = used.turns
             /\ input \in Input /\ Finish(Walked(c, input), used, sends)
             /\ taken' = Append(taken, input)
    BY <1>2, FinishCounts DEF Step, Input
<1>3. /\ Turned(used) \in Counts /\ Turned(used).turns = used.turns + 1 /\ used.turns + 1 # 0
    BY DEF Turned, Counts
<1>4. ASSUME NEW d, Finish(d, Turned(used), sends) PROVE spent' \in Counts /\ spent'.turns # 0
    BY <1>3, <1>4, FinishCounts
<1>5. CASE Address(c, used, sends)
    BY <1>4, <1>5 DEF Address
<1>6. CASE StepBack(c, used, sends)
    BY <1>4, <1>6 DEF StepBack
<1>7. ASSUME NEW mode \in {"walking", "addressing"}, TeeUp(c, used, mode, sends)
      PROVE  spent' \in Counts /\ spent'.turns # 0
    BY <1>4, <1>7 DEF TeeUp
<1> QED
    BY <1>1, <1>2, <1>5, <1>6, <1>7 DEF Acts

LEMMA NetUpdateCounts ==
    ASSUME spent \in Counts, NEW n, NEW net \in NetUpdate(n)
    PROVE  net.used \in Counts /\ net.used.turns = spent.turns
<1>1. net.used = spent \/ net.used = [spent EXCEPT !.faults = @ + 1]
    BY DEF NetUpdate
<1> QED
    BY <1>1 DEF Counts

LEMMA FrameSettles ==
    ASSUME AgreeInv, NEW n \in 0..Len(down), NEW rests, NEW sends, Frame(n, rests, sends)
    PROVE  spent' \in Counts /\ (spent'.turns = 0 => Settled')
<1>1. PICK net \in NetUpdate(n) :
        /\ up' = up \o net.calls
        /\ IF rests THEN Rest(net.game, net.used, sends) ELSE Acts(net.game, net.used, sends)
    BY DEF Frame
<1>2. net.used \in Counts /\ net.used.turns = spent.turns
    BY NetUpdateCounts DEF AgreeInv
<1>3. /\ spent' \in Counts
      /\ spent'.turns = 0 =>
            /\ net.used.turns = 0
            /\ \/ Finish(Standing(net.game), net.used, sends) /\ taken' = taken
               \/ \E input \in Input : /\ Finish(Walked(net.game, input), net.used, sends)
                                       /\ taken' = Append(taken, input)
    BY <1>1, <1>2, FrameOnFoot
<1>4. SUFFICES ASSUME spent'.turns = 0 PROVE Settled'
    BY <1>3
<1>5. /\ MotionInv /\ spent \in Counts /\ Settled
    BY <1>2, <1>3, <1>4 DEF AgreeInv
<1>6. /\ Steady(net.game, mover) /\ net.game.commands = <<>>
      /\ CallsFit(up, net.game.history) /\ CallsFit(net.calls, net.game.history)
      /\ AnswersFit(down, net.game.history, mover)
    BY <1>5, NetUpdateSteady
<1>7. PICK ids \in Nat :
        /\ ids >= me.sent /\ Sound(net.game, taken, ids) /\ net.calls \in Seq(Call)
    BY <1>5, NetUpdateSound
<1>8. /\ taken \in Seq(Input) /\ up \in Seq(Call) /\ down \in Seq(Event)
      /\ mover \in Mover /\ mover.id \in Nat /\ mover.id <= me.sent /\ me.sent \in Nat
    BY <1>5 DEF MotionInv, Sound, Game, Travelling, Served, Mover
<1>9. mover.id <= ids
    BY <1>7, <1>8
<1>10. Steady(me', mover) /\ Within(me'.history, net.game.history)
  <2>1. CASE Finish(Standing(net.game), net.used, sends)
    <3>1. /\ Steady(Standing(net.game), mover) /\ Standing(net.game).commands = <<>>
          /\ Standing(net.game).history = net.game.history
        BY <1>6, <1>7, StandingSteady
    <3>2. Sound(Standing(net.game), taken, ids)
        BY <1>7, StandingSound
    <3>3. Steady(me', mover) /\ Within(me'.history, Standing(net.game).history)
        BY <1>2, <1>8, <1>9, <2>1, <3>1, <3>2, FinishSteady
    <3> QED
        BY <3>1, <3>3
  <2>2. ASSUME NEW input \in Input, Finish(Walked(net.game, input), net.used, sends)
        PROVE  Steady(me', mover) /\ Within(me'.history, net.game.history)
    <3>1. /\ Steady(Walked(net.game, input), mover) /\ Walked(net.game, input).commands = <<>>
          /\ Walked(net.game, input).history = net.game.history
        BY <1>6, <1>7, <1>8, WalkedSteady
    <3>2. /\ Sound(Walked(net.game, input), Append(taken, input), ids)
          /\ Append(taken, input) \in Seq(Input)
        BY <1>7, <1>8, WalkedSound
    <3>3. Steady(me', mover) /\ Within(me'.history, Walked(net.game, input).history)
        BY <1>2, <1>8, <1>9, <2>2, <3>1, <3>2, FinishSteady
    <3> QED
        BY <3>1, <3>3
  <2> QED
    BY <1>3, <1>4, <2>1, <2>2
<1>11. CallsFit(up', me'.history)
  <2>1. /\ Len(up) \in Nat /\ Len(net.calls) \in Nat /\ Len(up') = Len(up) + Len(net.calls)
        /\ \A i \in 1..Len(up') : up'[i] = IF i <= Len(up) THEN up[i] ELSE net.calls[i - Len(up)]
    BY <1>1, <1>7, <1>8, ConcatProperties
  <2>2. SUFFICES ASSUME NEW i \in 1..Len(up')
                 PROVE  IsMotion(up'[i]) /\ Answers(net.game.history, up'[i].id, up'[i].mode)
    BY <1>10, WithinAnswers DEF CallsFit
  <2>3. CASE i \in 1..Len(up)
    <3>1. up'[i] = up[i]
        BY <2>1, <2>3
    <3> QED
        BY <1>6, <2>3, <3>1 DEF CallsFit
  <2>4. CASE i - Len(up) \in 1..Len(net.calls)
    <3>1. up'[i] = net.calls[i - Len(up)]
        BY <2>1, <2>4
    <3> QED
        BY <1>6, <2>4, <3>1 DEF CallsFit
  <2> QED
    BY <2>1, <2>3, <2>4
<1>12. AnswersFit(down', me'.history, mover)
  <2>1. down' = SubSeq(down, n + 1, Len(down)) /\ Len(down) \in Nat
    BY <1>8 DEF Frame
  <2>2. Len(down') = Len(down) - n /\ \A i \in 1..Len(down') : down'[i] = down[n + i]
    BY <1>8, <2>1, SubSeqProperties
  <2>3. \A i \in 1..Len(down') : n + i \in 1..Len(down)
    BY <2>1, <2>2
  <2>4. AnswersFit(down', net.game.history, mover)
    BY <1>6, <2>2, <2>3 DEF AnswersFit
  <2> QED
    BY <1>10, <2>4, WithinAnswers DEF AnswersFit
<1>13. mover' = mover
    BY DEF Frame, serverVars
<1> QED
    BY <1>10, <1>11, <1>12, <1>13 DEF Settled

(* One more answer that fits. *)
LEMMA AnswerFits ==
    ASSUME down \in Seq(Event), NEW answer, NEW history, NEW mv,
           AnswersFit(down, history, mv), down' = Append(down, answer),
           answer.event = "row" => /\ Answers(history, answer.row.id, answer.row.mode)
                                   /\ Tells(answer.row, mv),
           answer.event # "row" => answer.call # "tee_up"
    PROVE  AnswersFit(down', history, mv)
<1>1. /\ Len(down) \in Nat /\ Len(down') = Len(down) + 1 /\ down'[Len(down) + 1] = answer
      /\ \A i \in 1..Len(down) : down'[i] = down[i]
    OBVIOUS
<1>2. \A i \in 1..Len(down') : i \in 1..Len(down) \/ i = Len(down) + 1
    BY <1>1
<1> QED
    BY <1>1, <1>2 DEF AnswersFit

(* Only a motion newer than all the server's rows moves the golfer there:  *)
(* theirs, if it was the last one answered, is not.                        *)
LEMMA MotionSettles ==
    ASSUME MotionInv, Settled, UNCHANGED <<me, now, taken>>,
           NEW m \in MotionCall, Carried(m.first, m.steps, taken), m.id <= me.sent,
           Answers(me.history, m.id, m.mode), Motion(m)
    PROVE  Steady(me, mover') /\ AnswersFit(down', me.history, mover')
<1>1. /\ down \in Seq(Event) /\ mover \in Mover /\ me.sent \in Nat /\ mover.id \in Nat /\ m.id \in Nat
      /\ taken \in Seq(Input) /\ Served /\ m.call = "update_motion"
    BY DEF MotionInv, Sound, Game, Travelling, Served, Mover, MotionCall
<1>2. Steady(me, mover) /\ AnswersFit(down, me.history, mover)
    BY DEF Settled
<1>3. CASE Refuse(m.call)
  <2>1. /\ down' = Append(down, [event |-> "refusal", call |-> "update_motion"])
        /\ mover' = mover
    BY <1>1, <1>3 DEF Refuse, Refusal, serverVars
  <2>2. AnswersFit(down', me.history, mover)
    BY <1>1, <1>2, <2>1, AnswerFits
  <2> QED
    BY <1>2, <2>1, <2>2
<1>4. CASE UNCHANGED <<serverVars, down>>
    BY <1>2, <1>4 DEF serverVars
<1>5. CASE Accept(m) /\ m.id > mover.id
  <2>1. PICK o \in Outcomes(m) : mover' = o.moved /\ down' = Append(down, Row(o.moved, m.mode))
    BY <1>5 DEF Accept
  <2>2. mover' \in Mover /\ mover'.id = m.id
    BY <1>1, <2>1, OutcomeFacts
  <2>3. ASSUME NEW row, row.id \in Nat, Tells(row, mover) PROVE Tells(row, mover')
    BY <1>1, <1>5, <2>2, <2>3 DEF Tells
  <2>4. Placing(me, mover')
    <3>1. ~Answered(me, mover)
        BY <1>1, <1>5 DEF Answered
    <3> QED
        BY <1>2, <3>1 DEF Steady, Placing
  <2>5. Steady(me, mover')
    <3>1. me.row.id \in Nat
        BY DEF MotionInv, Sound, Game, RowSent
    <3> QED
        BY <1>2, <2>3, <2>4, <3>1 DEF Steady
  <2>6. AnswersFit(down, me.history, mover')
    <3>1. SUFFICES ASSUME NEW i \in 1..Len(down), down[i].event = "row"
                   PROVE  Tells(down[i].row, mover')
        BY <1>2 DEF AnswersFit
    <3>2. down[i] \in Event
        BY <1>1, ElementOfSeq
    <3>3. down[i].row.id \in Nat
        BY <3>1, <3>2 DEF Event, RowSent
    <3> QED
        BY <1>2, <2>3, <3>1, <3>3 DEF AnswersFit
  <2> DEFINE answer == Row(mover', m.mode)
  <2>7. /\ answer.event = "row" /\ answer.row.id = m.id /\ answer.row.mode = m.mode
        /\ answer.row.at = mover'.at
    BY <2>2 DEF Row
  <2>8. down' = Append(down, answer)
    BY <2>1
  <2> HIDE DEF answer
  <2>9. Tells(answer.row, mover')
    BY <1>1, <2>2, <2>7 DEF Tells
  <2>10. AnswersFit(down', me.history, mover')
    BY <1>1, <2>6, <2>7, <2>8, <2>9, AnswerFits
  <2> QED
    BY <2>5, <2>10
<1>6. \/ Refuse(m.call)
      \/ UNCHANGED <<serverVars, down>>
      \/ Accept(m) /\ m.id > mover.id
    BY <1>1 DEF Motion
<1> QED
    BY <1>3, <1>4, <1>5, <1>6

LEMMA ServeSettles ==
    ASSUME AgreeInv, Serve
    PROVE  spent' \in Counts /\ (spent'.turns = 0 => Settled')
<1>1. /\ UNCHANGED <<me, now, taken>> /\ up # <<>>
      /\ IF IsMotion(Head(up)) THEN Motion(Head(up)) ELSE TeeUpCall
      /\ up' = Tail(up) \/ up' = Append(Tail(up), Head(up))
      /\ spent' = spent \/ spent' = [spent EXCEPT !.faults = @ + 1]
    BY DEF Serve
<1>2. spent \in Counts /\ spent' \in Counts /\ spent'.turns = spent.turns
    BY <1>1 DEF AgreeInv, Counts
<1>3. SUFFICES ASSUME Settled PROVE Settled'
    BY <1>2 DEF AgreeInv
<1>4. /\ MotionInv /\ up \in Seq(Call) /\ AllCarried(up, taken)
      /\ \A i \in 1..Len(up) : IsMotion(up[i]) => up[i].id <= me.sent
    BY DEF AgreeInv, MotionInv, Travelling
<1>5. Head(up) = up[1] /\ 1 \in 1..Len(up) /\ Head(up) \in Call
    BY <1>1, <1>4
<1>6. /\ IsMotion(Head(up)) /\ Answers(me.history, Head(up).id, Head(up).mode)
    BY <1>3, <1>5 DEF Settled, CallsFit
<1>7. /\ Head(up) \in MotionCall /\ Head(up).id <= me.sent
      /\ Carried(Head(up).first, Head(up).steps, taken)
    BY <1>4, <1>5, <1>6, CallKinds DEF AllCarried
<1>8. Steady(me, mover') /\ AnswersFit(down', me.history, mover')
    BY <1>1, <1>3, <1>4, <1>6, <1>7, MotionSettles
<1>9. \A i \in 1..Len(up') : \E j \in 1..Len(up) : up'[i] = up[j]
    BY <1>1, <1>4, ServedCalls
<1>10. CallsFit(up', me.history)
    BY <1>3, <1>9 DEF Settled, CallsFit
<1> QED
    BY <1>1, <1>8, <1>10 DEF Settled

-----------------------------------------------------------------------------
(* The theorems. *)

LEMMA InitSound == Init => MotionInv
<1> SUFFICES ASSUME Init PROVE MotionInv
    OBVIOUS
<1>1. taken = <<>> /\ me.sent = 0
    BY DEF Init
<1>2. Sound(me, taken, me.sent)
    BY DEF Init, Sound, Game, Carried, AllCarried, RowSent, Mode, Input, HistoryEntry
<1>3. Travelling
    BY DEF Init, Travelling, AllCarried
<1>4. Served
    BY MotionAssumption DEF Init, Served, Joined, Mover
<1> QED
    BY <1>1, <1>2, <1>3, <1>4 DEF MotionInv

(* A frame is a step the golfer takes or nothing, and a call served is     *)
(* steps played or nothing: each of Walk's steps, or a stutter.            *)
LEMMA NextKeeps ==
    ASSUME MotionInv, [Next]_vars
    PROVE  MotionInv' /\ [Abstract!WalkNext]_(Abstract!walkVars)
<1>1. CASE UNCHANGED vars
    BY <1>1 DEF vars, MotionInv, Sound, Travelling, Served, Abstract!walkVars
<1>2. ASSUME NEW n \in 0..Len(down), NEW rests \in BOOLEAN, NEW sends \in BOOLEAN,
             Frame(n, rests, sends)
      PROVE  MotionInv' /\ [Abstract!WalkNext]_(Abstract!walkVars)
  <2>1. MotionInv' /\ (taken' = taken \/ \E input \in Input : taken' = Append(taken, input))
    BY <1>2, FrameKeeps
  <2>2. mover' = mover /\ walked' = walked
    BY <1>2 DEF Frame, serverVars
  <2>3. CASE taken' = taken
    BY <2>1, <2>2, <2>3 DEF Abstract!walkVars
  <2>4. ASSUME NEW input \in Input, taken' = Append(taken, input)
        PROVE  Abstract!WalkNext
    BY <2>2, <2>4 DEF Abstract!WalkNext, Abstract!Take, Input
  <2> QED
    BY <2>1, <2>3, <2>4
<1>3. CASE Serve
    BY <1>3, ServeKeeps
<1>4. CASE Tick
  <2>1. now' = now + 1 /\ since' = since + 1
        /\ UNCHANGED <<me, up, down, mover, played, walked, taken, spent>>
    BY <1>4 DEF Tick
  <2>2. Served'
    <3>1. /\ mover \in Mover /\ now \in Nat /\ since \in 0..now /\ played \in Nat
          /\ mover.credit \in Nat /\ Gap \in Nat /\ played + mover.credit + since <= Gap + now
        BY MotionAssumption DEF MotionInv, Served, Mover
    <3>2. since' \in 0..now' /\ now' \in Nat
          /\ played + mover.credit + since' <= Gap + now'
        BY <2>1, <3>1
    <3> QED
        BY <2>1, <3>2 DEF MotionInv, Served
  <2> QED
    BY <2>1, <2>2 DEF MotionInv, Sound, Travelling, Abstract!walkVars
<1> QED
    BY <1>1, <1>2, <1>3, <1>4 DEF Next

(* What MotionTypeOK and WithinTime say of a state, MotionInv gives. *)
LEMMA InvGives == MotionInv => MotionTypeOK /\ WithinTime
<1> SUFFICES ASSUME MotionInv PROVE MotionTypeOK /\ WithinTime
    OBVIOUS
<1>1. /\ me \in Game /\ me.step = Len(taken) /\ Len(taken) \in Nat /\ me.acked <= me.sent
      /\ \A sent \in me.history : sent.id \in me.acked + 1 .. me.sent
    BY DEF MotionInv, Sound
<1>2. /\ me.at \in Int /\ me.moving \in {0, 1} /\ me.mode \in {"walking", "addressing"}
      /\ me.unsent \in Seq({0, 1}) /\ me.acked \in Nat /\ me.sent \in Nat
    BY <1>1 DEF Game, Input
<1>3. /\ mover.at \in Int /\ mover.credit \in 0..Gap /\ mover.step \in Nat /\ mover.id \in Nat
      /\ mover.id <= me.sent /\ mover.step <= Len(taken)
      /\ since \in 0..now /\ played \in 0..mover.step /\ walked \in 0..played
      /\ played + mover.credit + since <= Gap + now /\ now \in Nat
    BY DEF MotionInv, Served, Mover
<1>4. \A i \in DOMAIN up : up[i] \in Call /\ (IsMotion(up[i]) => up[i].id <= me.sent)
  <2>1. up \in Seq(Call) /\ \A i \in 1..Len(up) : IsMotion(up[i]) => up[i].id <= me.sent
    BY DEF MotionInv, Travelling
  <2> QED
    BY <2>1
<1>5. WithinTime
  <2>1. mover.credit \in Nat /\ Gap \in Nat /\ since \in Nat /\ played \in Nat
    BY <1>3, MotionAssumption
  <2> QED
    BY <1>3, <2>1 DEF WithinTime
<1>6. me.acked \in 0..me.sent /\ mover.id \in 0..me.sent /\ mover.step \in 0..me.step
    BY <1>1, <1>2, <1>3
<1> QED
    BY <1>1, <1>2, <1>3, <1>4, <1>5, <1>6 DEF MotionTypeOK

LEMMA MotionInvariant == Spec => []MotionInv
<1>1. MotionInv /\ [Next]_vars => MotionInv'
    BY NextKeeps
<1> QED
    BY <1>1, InitSound, PTL DEF Spec

(* The types of the game, the calls, the rows and the server's row, with   *)
(* no id acknowledged or answered that the game did not give out.          *)
THEOREM MotionTyped == Spec => []MotionTypeOK
BY MotionInvariant, InvGives, PTL

(* However steps are lost, sent twice or sent late, the server plays no    *)
(* more of them than the golfer had time for (play_move's credit).         *)
THEOREM StepsWithinTime == Spec => []WithinTime
BY MotionInvariant, InvGives, PTL

(* The server plays the steps a golfer took, each at most once and in      *)
(* order, and pays for no other.                                           *)
THEOREM MotionImplementsWalk == Spec => ImplementsWalk
<1>1. Init => Abstract!WalkInit
    BY DEF Init, Joined, Abstract!WalkInit
<1>2. MotionInv /\ [Next]_vars => [Abstract!WalkNext]_(Abstract!walkVars)
    BY NextKeeps
<1> QED
    BY <1>1, <1>2, MotionInvariant, PTL DEF Spec, ImplementsWalk, Abstract!WalkSpec

LEMMA InitAgrees == Init => AgreeInv
<1> SUFFICES ASSUME Init PROVE AgreeInv
    OBVIOUS
<1>1. MotionInv
    BY InitSound
<1>2. spent \in Counts
    BY DEF Init, Counts
<1>3. /\ me.commands = <<>> /\ me.history = {} /\ me.refused = {} /\ me.latest = NoMotion
      /\ me.mode = "walking" /\ me.stepped = NoPlace /\ me.row = [at |-> 0, mode |-> "idle", id |-> 0]
      /\ mover.at = 0 /\ mover.id = 0 /\ up = <<>> /\ down = <<>>
    BY DEF Init, Joined
<1>4. Steady(me, mover)
    BY <1>3 DEF Steady, OnFoot, AtMostOneWalk, Walks, Placing, Answers, Tells
<1>5. CallsFit(up, me.history) /\ AnswersFit(down, me.history, mover)
    BY <1>3 DEF CallsFit, AnswersFit
<1> QED
    BY <1>1, <1>2, <1>4, <1>5 DEF AgreeInv, Settled

LEMMA NextAgrees ==
    ASSUME AgreeInv, [Next]_vars
    PROVE  AgreeInv'
<1>1. MotionInv'
    BY NextKeeps DEF AgreeInv
<1>2. CASE UNCHANGED vars
    BY <1>1, <1>2 DEF vars, AgreeInv, Settled
<1>3. ASSUME NEW n \in 0..Len(down), NEW rests \in BOOLEAN, NEW sends \in BOOLEAN,
             Frame(n, rests, sends)
      PROVE  AgreeInv'
    BY <1>1, <1>3, FrameSettles DEF AgreeInv
<1>4. CASE Serve
    BY <1>1, <1>4, ServeSettles DEF AgreeInv
<1>5. CASE Tick
    BY <1>1, <1>5 DEF Tick, AgreeInv, Settled
<1> QED
    BY <1>2, <1>3, <1>4, <1>5 DEF Next

(* All answered and nothing due, the last motion was answered, and the     *)
(* golfer took no step on since.                                           *)
LEMMA AgreeGives == AgreeInv => Agreement
<1> SUFFICES ASSUME AgreeInv, Quiet, spent.turns = 0 PROVE me.at = mover.at
    BY DEF Agreement
<1>1. me \in Game /\ Placing(me, mover) /\ mover.at \in Int
    BY DEF AgreeInv, MotionInv, Sound, Settled, Steady, Served, Mover
<1>2. me.at \in Int /\ MotionMode(me) \in {"idle", "walk", "address"} /\ me.unsent \in Seq(Input)
    BY <1>1 DEF Game, MotionMode
<1>3. me.latest # NoMotion
    BY <1>2, MotionAssumption DEF Quiet, Due
<1>4. Answered(me, mover)
    BY <1>1, <1>3 DEF Quiet, Placing, Queued, Waiting
<1>5. Ahead(me.unsent) = 0
    BY <1>2, AheadFacts DEF Quiet
<1> QED
    BY <1>1, <1>4, <1>5 DEF Answered

(* A golfer on foot who stopped stands where the server has them, however  *)
(* their motions and the rows that answer them crossed, whatever was lost, *)
(* came twice or was given up on: reconcile_motion makes each correction   *)
(* once, to all that was sent since too, and what was given up on is due   *)
(* again.                                                                  *)
THEOREM GameAgrees == Spec => []Agreement
<1>1. AgreeInv /\ [Next]_vars => AgreeInv'
    BY NextAgrees
<1> QED
    BY <1>1, InitAgrees, AgreeGives, PTL DEF Spec
=============================================================================
