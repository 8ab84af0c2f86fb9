----------------------------- MODULE PlayProofs -----------------------------
(***************************************************************************)
(* Balls and rounds, proved for any players, courses, holes and numbers of *)
(* strokes, republishes with other numbers of holes included.              *)
(***************************************************************************)
EXTENDS Play, RoomsProofs, SequenceTheorems, FiniteSetTheorems

(* Every step of play is one of the rooms, or leaves them alone. *)
THEOREM PlayKeepsRooms == Spec => RoomsSpec
<1>1. Init => RoomsInit
    BY DEF Init
<1>2. [Next]_vars => [RoomsNext]_roomVars
  <2> SUFFICES ASSUME [Next]_vars PROVE [RoomsNext]_roomVars
    OBVIOUS
  <2>1. ASSUME NEW a \in Account, MembershipStep(a) PROVE RoomsNext
    BY <2>1 DEF MembershipStep, Join, Leave, RoomsNext
  <2>2. ASSUME NEW a \in Account, BallStep(a) PROVE UNCHANGED roomVars
    BY <2>2 DEF BallStep, TeeUp, GiveUpHole, PickUpBall, ComesToRest, TakeShot, HoleOut
  <2>3. ASSUME NEW a \in Account, NEW h \in Hole, SetFlag(a, h) PROVE UNCHANGED roomVars
    BY <2>3 DEF SetFlag
  <2>4. ASSUME NEW a \in Account, GroupStep(a) PROVE RoomsNext
    BY <2>4 DEF RoomsNext
  <2>5. CASE RepublishHoles
    BY <2>5 DEF RepublishHoles, RoomsNext
  <2>6. CASE UNCHANGED vars
    BY <2>6 DEF vars
  <2> QED
    BY <2>1, <2>2, <2>3, <2>4, <2>5, <2>6 DEF Next
<1> QED
    BY <1>1, <1>2, PTL DEF Spec, RoomsSpec

-----------------------------------------------------------------------------
(* Rounds as sequences. *)

(* A round fitted to n holes keeps their scores and has none for the rest. *)
LEMMA ResizedRound ==
    ASSUME NEW strokes \in Seq(0..MaxStrokes), NEW n \in Nat
    PROVE  /\ Resized(strokes, n) \in Seq(0..MaxStrokes)
           /\ Len(Resized(strokes, n)) = n
           /\ \A h \in 1..n : Resized(strokes, n)[h] = IF h <= Len(strokes) THEN strokes[h] ELSE 0
           /\ Unplayed(n) \in Seq(0..MaxStrokes)
           /\ Len(Unplayed(n)) = n
           /\ \A h \in 1..n : Unplayed(n)[h] = 0
<1>1. MaxStrokes \in Nat
    BY PlayAssumption
<1>2. \A h \in 1..Len(strokes) : strokes[h] \in 0..MaxStrokes
    BY ElementOfSeq
<1>3. Resized(strokes, n) \in [1..n -> 0..MaxStrokes] /\ Unplayed(n) \in [1..n -> 0..MaxStrokes]
    BY <1>1, <1>2 DEF Resized, Unplayed
<1> QED
    BY <1>1, <1>3 DEF Resized, Unplayed

(* A score put into a round. *)
LEMMA ScoredRound ==
    ASSUME NEW strokes \in Seq(0..MaxStrokes), NEW h \in 1..Len(strokes), NEW s \in 0..MaxStrokes
    PROVE  /\ [strokes EXCEPT ![h] = s] \in Seq(0..MaxStrokes)
           /\ Len([strokes EXCEPT ![h] = s]) = Len(strokes)
           /\ [strokes EXCEPT ![h] = s][h] = s
BY ExceptSeq

-----------------------------------------------------------------------------
(* Leaving and joining touch nobody else's place. *)

(* A player who neither leaves nor joins stays in a room of the same       *)
(* course: a room with someone in it does not close, nor does a joiner of  *)
(* another course get it.                                                  *)
LEMMA CourseStays ==
    ASSUME RoomsTypeOK, RoomsCountMembers, NEW a \in Account,
           LeaveRoom(a) \/ \E c \in Course : JoinCourse(a, c),
           NEW b \in Account \ {a}, member[b].room # NoRoom
    PROVE  member'[b] = member[b] /\ CourseOf(b)' = CourseOf(b)
<1> DEFINE r == member[b].room
<1>1. r \in RoomId
    BY DEF RoomsTypeOK, MemberRow, NoRoom
<1>2. b \in Others(a, r)
    BY DEF Others
<1>3. RoomsLeft(a)[r].course = room[r].course
    BY <1>1, <1>2, RoomsLeftCount
<1>4. CASE LeaveRoom(a)
    BY <1>3, <1>4 DEF LeaveRoom, RoomsTypeOK, CourseOf
<1>5. ASSUME NEW c \in Course, JoinCourse(a, c)
      PROVE  member'[b] = member[b] /\ CourseOf(b)' = CourseOf(b)
  <2>1. PICK q \in ChosenRooms(RoomsLeft(a), c) :
          /\ room' = [RoomsLeft(a) EXCEPT ![q] = [course |-> c, players |-> @.players + 1]]
          /\ member' = [member EXCEPT ![a] = [room |-> q, group |-> NoGroup]]
    BY <1>5 DEF JoinCourse
  <2>2. q \in RoomId /\ (Others(a, q) # {} => room[q].course = c)
    BY ChosenHasSpace
  <2>3. member'[b] = member[b]
    BY <2>1 DEF RoomsTypeOK
  <2>4. room'[r].course = room[r].course
    BY <1>1, <1>2, <1>3, <2>1, <2>2, RoomsLeftType
  <2> QED
    BY <2>3, <2>4 DEF CourseOf
<1> QED
    BY <1>4, <1>5

(* A joiner of c is in an open room of c. *)
LEMMA JoinerIsIn ==
    ASSUME RoomsTypeOK, RoomsCountMembers, NEW a \in Account, NEW c \in Course, JoinCourse(a, c)
    PROVE  /\ member'[a].room \in RoomId /\ member'[a].room # NoRoom
           /\ room'[member'[a].room].course = c
           /\ \A r \in RoomId : room'[r].course # RoomsLeft(a)[r].course => room'[r].course = c
           /\ c \in content
<1>1. PICK q \in ChosenRooms(RoomsLeft(a), c) :
        /\ room' = [RoomsLeft(a) EXCEPT ![q] = [course |-> c, players |-> @.players + 1]]
        /\ member' = [member EXCEPT ![a] = [room |-> q, group |-> NoGroup]]
    BY DEF JoinCourse
<1>2. q \in RoomId
    BY ChosenHasSpace
<1>3. member'[a].room = q /\ q # NoRoom
    BY <1>1, <1>2, RoomsAssumption DEF RoomsTypeOK, NoRoom
<1> QED
    BY <1>1, <1>2, <1>3, RoomsLeftType DEF JoinCourse

-----------------------------------------------------------------------------
(* The invariant, one player at a time. *)

PlayerTyped(a) ==
    /\ HasBall(a) => ball[a].room = member[a].room /\ member[a].room # NoRoom
    /\ HasBall(a) <=> ball[a].hole # 0
    /\ Len(round[a]) \in IF member[a].room = NoRoom THEN {0} ELSE Hole

BallMatchesRound(a) ==
    HasBall(a) /\ ~Practice(a) =>
        LET h == ball[a].hole
        IN  IF ball[a].inCup
            THEN \/ h > Len(round[a])
                 \/ round[a][h] = ball[a].strokes
                 \/ round[a] = Unplayed(Len(round[a]))
            ELSE ~Played(round[a], h)

TablesTyped ==
    /\ holes \in Publication
    /\ content = Published(holes)
    /\ ball \in [Account -> BallRow]
    /\ round \in [Account -> Seq(0..MaxStrokes)]
    /\ flags \subseteq RoomId \X Green
    /\ scores \in [Account -> [Course -> [Hole -> Nat]]]
    /\ completed \in [Account -> SUBSET Course]
    /\ total \in [Account -> Nat]
    /\ \A f \in flags : Open(f[1])

(* A ball may wait on its tee as far as the others' balls go. *)
TeeIsFree(b, a) ==
    b.hole # 0 /\ b.strokes = 0 /\ ~b.inCup =>
        \A c \in Account \ {a} :
            ~(ball[c].room = b.room /\ HasBall(c) /\ Waiting(c, b.hole))

PlayInv ==
    /\ RoomsTypeOK /\ RoomsCountMembers
    /\ PlayTypeOK /\ TeesSound /\ BallsMatchRounds

LEMMA InvParts ==
    /\ PlayTypeOK <=> TablesTyped /\ \A a \in Account : PlayerTyped(a)
    /\ BallsMatchRounds <=> \A a \in Account : BallMatchesRound(a)
BY DEF PlayTypeOK, TablesTyped, PlayerTyped, BallsMatchRounds, BallMatchesRound

(* A round of a player whose course is known fits that course. *)
LEMMA PresentRound ==
    ASSUME RoomsTypeOK, PlayTypeOK, NEW a \in Account, Present(a)
    PROVE  /\ CourseOf(a) \in Course /\ CourseOf(a) \in content
           /\ holes[CourseOf(a)] \in Hole
           /\ RoundNow(a) \in Seq(0..MaxStrokes)
           /\ Len(RoundNow(a)) = holes[CourseOf(a)]
           /\ \A h \in 1..holes[CourseOf(a)] :
                 RoundNow(a)[h] = IF h <= Len(round[a]) THEN round[a][h] ELSE 0
<1>1. CourseOf(a) \in content /\ content \subseteq Course
    BY DEF Present, CourseKnown, CourseOf, RoomsTypeOK
<1>2. holes[CourseOf(a)] \in 0..MaxHoles /\ holes[CourseOf(a)] # 0
    BY <1>1, PlayAssumption DEF PlayTypeOK, Published
<1>3. holes[CourseOf(a)] \in Hole
    BY <1>2, PlayAssumption DEF Hole
<1>4. round[a] \in Seq(0..MaxStrokes) /\ holes[CourseOf(a)] \in Nat
    BY <1>2, PlayAssumption DEF PlayTypeOK
<1> QED
    BY <1>1, <1>3, <1>4, ResizedRound DEF RoundNow

(* A change to one player's ball and round, of a player who stays.         *)
LEMMA OnePlayer ==
    ASSUME PlayInv, UNCHANGED <<roomVars, holes, flags>>, NEW a \in Account,
           NEW b \in BallRow, ball' = [ball EXCEPT ![a] = b],
           NEW s \in Seq(0..MaxStrokes), round' = [round EXCEPT ![a] = s],
           Len(s) \in IF member[a].room = NoRoom THEN {0} ELSE Hole,
           b # NoBall => b.room = member[a].room /\ member[a].room # NoRoom,
           b # NoBall <=> b.hole # 0,
           b # NoBall /\ ~Practice(a) =>
              IF b.inCup THEN \/ b.hole > Len(s) \/ s[b.hole] = b.strokes
                              \/ s = Unplayed(Len(s))
                         ELSE ~Played(s, b.hole),
           TeeIsFree(b, a),
           scores' \in [Account -> [Course -> [Hole -> Nat]]],
           completed' \in [Account -> SUBSET Course],
           total' \in [Account -> Nat]
    PROVE  PlayTypeOK' /\ TeesSound' /\ BallsMatchRounds'
<1>1. TablesTyped /\ \A c \in Account : PlayerTyped(c) /\ BallMatchesRound(c)
    BY InvParts DEF PlayInv
<1>2. /\ ball'[a] = b /\ round'[a] = s
      /\ \A c \in Account \ {a} : ball'[c] = ball[c] /\ round'[c] = round[c]
    BY <1>1 DEF TablesTyped
<1>3. \A c \in Account : member'[c] = member[c] /\ (Practice(c)' <=> Practice(c))
    BY DEF roomVars, Practice, CourseOf
<1>4. TablesTyped'
    BY <1>1 DEF TablesTyped, roomVars, Open, Published
<1>5. ASSUME NEW c \in Account PROVE PlayerTyped(c)' /\ BallMatchesRound(c)'
  <2>1. CASE c = a
    BY <1>2, <1>3, <2>1 DEF PlayerTyped, BallMatchesRound, HasBall
  <2>2. CASE c # a
    <3>1. ball'[c] = ball[c] /\ round'[c] = round[c] /\ PlayerTyped(c) /\ BallMatchesRound(c)
      BY <1>1, <1>2, <2>2
    <3> QED
      BY <1>3, <3>1 DEF PlayerTyped, BallMatchesRound, HasBall
  <2> QED
    BY <2>1, <2>2
<1>6. TeesSound'
  <2> SUFFICES ASSUME NEW c \in Account, NEW d \in Account, c # d, HasBall(c)', HasBall(d)',
                      ball'[c].room = ball'[d].room,
                      Waiting(c, ball[c].hole)', Waiting(d, ball[d].hole)',
                      ball'[c].hole = ball'[d].hole
               PROVE  FALSE
    BY DEF TeesSound
  <2>1. CASE c # a /\ d # a
    <3>1. ball'[c] = ball[c] /\ ball'[d] = ball[d]
      BY <1>2, <2>1
    <3> QED
      BY <3>1 DEF PlayInv, TeesSound, HasBall, Waiting
  <2>2. CASE c = a
    <3>1. ball'[c] = b /\ ball'[d] = ball[d]
      BY <1>2, <2>2
    <3> QED
      BY <2>2, <3>1 DEF TeeIsFree, HasBall, Waiting
  <2>3. CASE d = a
    <3>1. ball'[d] = b /\ ball'[c] = ball[c]
      BY <1>2, <2>3
    <3> QED
      BY <2>3, <3>1 DEF TeeIsFree, HasBall, Waiting
  <2> QED
    BY <2>1, <2>2, <2>3
<1> QED
    BY <1>4, <1>5, <1>6 DEF PlayTypeOK, TablesTyped, PlayerTyped, BallsMatchRounds, BallMatchesRound

-----------------------------------------------------------------------------
(* The players' steps. *)

LEMMA BallFacts ==
    ASSUME PlayInv, NEW a \in Account
    PROVE  /\ ball[a] \in BallRow
           /\ round[a] \in Seq(0..MaxStrokes)
           /\ PlayerTyped(a) /\ BallMatchesRound(a)
           /\ scores \in [Account -> [Course -> [Hole -> Nat]]]
           /\ completed \in [Account -> SUBSET Course]
           /\ total \in [Account -> Nat]
           /\ round = [round EXCEPT ![a] = round[a]]
           /\ NoBall \in BallRow /\ TeeIsFree(NoBall, a)
           /\ Hole \subseteq Nat \ {0} /\ MaxStrokes \in Nat
BY InvParts, PlayAssumption DEF PlayInv, TablesTyped, NoBall, Ball, BallRow, TeeIsFree, Hole

(* tee_up: the tee is free and the hole not played, so the ball waits      *)
(* alone and matches its round.                                            *)
LEMMA TeeUpKeeps ==
    ASSUME PlayInv, NEW a \in Account, NEW h \in Hole, TeeUp(a, h)
    PROVE  PlayTypeOK' /\ TeesSound' /\ BallsMatchRounds'
<1> DEFINE b == Ball(member[a].room, h, 0, TRUE, FALSE)
<1>1. /\ Present(a) /\ h \in HolesOf(a) /\ ~TeeInUse(a, h)
      /\ ~Practice(a) => ~Played(RoundNow(a), h)
      /\ round' = [round EXCEPT ![a] = RoundNow(a)]
      /\ ball' = [ball EXCEPT ![a] = b]
      /\ UNCHANGED <<roomVars, holes, flags, scores, completed, total>>
    BY DEF TeeUp
<1>2. RoundNow(a) \in Seq(0..MaxStrokes) /\ Len(RoundNow(a)) \in Hole
    BY <1>1, PresentRound DEF PlayInv
<1>3. member[a].room \in RoomId /\ member[a].room # NoRoom
    BY <1>1 DEF Present, PlayInv, RoomsTypeOK, MemberRow
<1>4. b \in BallRow /\ b # NoBall /\ b.hole # 0 /\ ~b.inCup /\ b.room = member[a].room
    BY <1>3, BallFacts DEF Ball, BallRow, NoBall
<1>5. TeeIsFree(b, a)
    BY <1>1 DEF TeeIsFree, TeeInUse, Ball
<1> HIDE DEF b
<1> QED
    BY <1>1, <1>2, <1>3, <1>4, <1>5, BallFacts, OnePlayer DEF b, Ball

(* give_up_hole and pick_up_ball: no ball. *)
LEMMA BallGoneKeeps ==
    ASSUME PlayInv, NEW a \in Account, GiveUpHole(a) \/ PickUpBall(a)
    PROVE  PlayTypeOK' /\ TeesSound' /\ BallsMatchRounds'
<1>1. /\ ball' = [ball EXCEPT ![a] = NoBall] /\ round' = round
      /\ UNCHANGED <<roomVars, holes, flags, scores, completed, total>>
    BY DEF GiveUpHole, PickUpBall
<1>2. NoBall.hole = 0
    BY DEF NoBall, Ball
<1> QED
    BY <1>1, <1>2, BallFacts, OnePlayer DEF PlayerTyped

(* A shot that does not hole, or its end: strokes only grow, so a ball     *)
(* waits on no other tee for it.                                           *)
LEMMA BallPlayedKeeps ==
    ASSUME PlayInv, NEW a \in Account,
           ComesToRest(a) \/ \E penalty \in 0..3 : TakeShot(a, penalty)
    PROVE  PlayTypeOK' /\ TeesSound' /\ BallsMatchRounds'
<1>1. PICK s \in 0..MaxStrokes, rests \in BOOLEAN :
        /\ ball' = [ball EXCEPT ![a] = [ball[a] EXCEPT !.strokes = s, !.resting = rests]]
        /\ HasBall(a)
        /\ s = ball[a].strokes \/ (s > 0 /\ ~ball[a].inCup)
        /\ round' = round
        /\ UNCHANGED <<roomVars, holes, flags, scores, completed, total>>
  <2>1. CASE ComesToRest(a)
    <3>1. ball[a].strokes \in 0..MaxStrokes /\ ball \in [Account -> BallRow]
      BY BallFacts DEF BallRow, PlayInv, PlayTypeOK
    <3>2. [ball[a] EXCEPT !.resting = TRUE] = [ball[a] EXCEPT !.strokes = ball[a].strokes, !.resting = TRUE]
      BY <3>1 DEF BallRow
    <3> QED
      BY <2>1, <3>1, <3>2 DEF ComesToRest
  <2>2. ASSUME NEW penalty \in 0..3, TakeShot(a, penalty)
        PROVE  ball[a].strokes + 1 + penalty \in 0..MaxStrokes /\ ball[a].strokes + 1 + penalty > 0
    BY <2>2, BallFacts DEF BallRow, TakeShot
  <2>3. ASSUME NEW penalty \in 0..3, TakeShot(a, penalty)
        PROVE  ball' = [ball EXCEPT ![a] = [ball[a] EXCEPT !.strokes = ball[a].strokes + 1 + penalty,
                                                           !.resting = FALSE]]
    BY <2>3, BallFacts DEF BallRow, TakeShot, PlayInv, PlayTypeOK
  <2> QED
    BY <2>1, <2>2, <2>3 DEF TakeShot, OnHole, InPlay
<1> DEFINE b == [ball[a] EXCEPT !.strokes = s, !.resting = rests]
<1>2. /\ b \in BallRow /\ b.room = ball[a].room /\ b.hole = ball[a].hole
      /\ b.inCup = ball[a].inCup /\ b.strokes = s
    BY BallFacts DEF BallRow
<1>3. ball[a].hole # 0 /\ b # NoBall
    BY <1>1, <1>2, BallFacts DEF PlayerTyped, NoBall, Ball
<1>4. TeeIsFree(b, a)
  <2> SUFFICES ASSUME s = 0, ~ball[a].inCup, NEW c \in Account \ {a},
                      ball[c].room = ball[a].room, HasBall(c), Waiting(c, ball[a].hole)
               PROVE  FALSE
    BY <1>2 DEF TeeIsFree
  <2>1. Waiting(a, ball[a].hole)
    BY <1>1 DEF Waiting
  <2> QED
    BY <1>1, <2>1 DEF PlayInv, TeesSound, Waiting
<1>5. ~Practice(a) => IF b.inCup
                      THEN \/ b.hole > Len(round[a]) \/ round[a][b.hole] = b.strokes
                           \/ round[a] = Unplayed(Len(round[a]))
                      ELSE ~Played(round[a], b.hole)
    BY <1>1, <1>2, BallFacts DEF BallMatchesRound
<1> HIDE DEF b
<1> QED
    BY <1>1, <1>2, <1>3, <1>4, <1>5, BallFacts, OnePlayer DEF PlayerTyped, b

(* take_shot of the shot that holes: the ball in its cup is its hole's     *)
(* score, or the round it ended is a new one.                              *)
LEMMA HoleOutKeeps ==
    ASSUME PlayInv, NEW a \in Account, NEW penalty \in {0, 2}, HoleOut(a, penalty)
    PROVE  PlayTypeOK' /\ TeesSound' /\ BallsMatchRounds'
<1> DEFINE h == ball[a].hole
           strokes == ball[a].strokes + 1 + penalty
           b == Ball(ball[a].room, h, strokes, TRUE, TRUE)
           after == [RoundNow(a) EXCEPT ![h] = strokes]
<1>1. /\ Present(a) /\ OnHole(a) /\ strokes <= MaxStrokes
      /\ ball' = [ball EXCEPT ![a] = b]
      /\ IF Practice(a) THEN UNCHANGED <<round, scores, completed, total>> ELSE Scored(a, h, strokes)
      /\ UNCHANGED <<roomVars, holes, flags>>
  <2>1. ball \in [Account -> BallRow]
    BY DEF PlayInv, PlayTypeOK
  <2> QED
    BY <2>1 DEF HoleOut
<1>2. strokes \in 0..MaxStrokes /\ h \in HolesOf(a) /\ h \in Hole /\ h # 0 /\ HasBall(a)
  <2>1. ball[a] \in BallRow /\ Hole \subseteq Nat \ {0} /\ h \in HolesOf(a) /\ HasBall(a)
    BY <1>1, BallFacts DEF OnHole, InPlay
  <2>2. holes[CourseOf(a)] \in Hole
    BY <1>1, PresentRound DEF PlayInv
  <2> QED
    BY <1>1, <2>1, <2>2 DEF BallRow, HolesOf, Hole
<1>3. /\ b \in BallRow /\ b # NoBall /\ b.hole = h /\ b.strokes = strokes /\ b.inCup
      /\ b.room = member[a].room /\ member[a].room # NoRoom
  <2>1. ball[a].room = member[a].room /\ member[a].room # NoRoom /\ ball[a] \in BallRow
    BY <1>2, BallFacts DEF PlayerTyped
  <2> QED
    BY <1>2, <2>1 DEF Ball, BallRow, NoBall
<1>4. TeeIsFree(b, a)
    BY <1>3 DEF TeeIsFree
<1>5. /\ RoundNow(a) \in Seq(0..MaxStrokes) /\ Len(RoundNow(a)) \in Hole /\ h \in 1..Len(RoundNow(a))
      /\ CourseOf(a) \in Course
    BY <1>1, <1>2, PresentRound DEF PlayInv, HolesOf
<1>6. after \in Seq(0..MaxStrokes) /\ Len(after) = Len(RoundNow(a)) /\ after[h] = strokes
    BY <1>2, <1>5, ScoredRound
<1> HIDE DEF b, strokes, h, after
<1>7. CASE Practice(a)
    BY <1>1, <1>2, <1>3, <1>4, <1>7, BallFacts, OnePlayer DEF PlayerTyped
<1>8. CASE ~Practice(a)
  <2>1. /\ scores' = [scores EXCEPT ![a][CourseOf(a)][h] = @ + 1]
        /\ total' = [total EXCEPT ![a] = @ + 1]
        /\ \/ /\ completed' = [completed EXCEPT ![a] = @ \cup {CourseOf(a)}]
              /\ round' = [round EXCEPT ![a] = Unplayed(Len(after))]
           \/ /\ round' = [round EXCEPT ![a] = after]
              /\ UNCHANGED completed
    BY <1>1, <1>8 DEF Scored, after
  <2>2. scores' \in [Account -> [Course -> [Hole -> Nat]]] /\ total' \in [Account -> Nat]
    BY <1>2, <1>5, <2>1, BallFacts
  <2>3. completed' \in [Account -> SUBSET Course]
    <3>1. completed[a] \cup {CourseOf(a)} \in SUBSET Course
      BY <1>5, BallFacts
    <3> QED
      BY <2>1, <3>1, BallFacts
  <2>4. Len(after) \in Nat /\ Unplayed(Len(after)) \in Seq(0..MaxStrokes) /\ Len(Unplayed(Len(after))) = Len(after)
    BY <1>5, <1>6, BallFacts, ResizedRound
  <2>5. CASE round' = [round EXCEPT ![a] = Unplayed(Len(after))]
    BY <1>1, <1>2, <1>3, <1>4, <1>5, <1>6, <2>2, <2>3, <2>4, <2>5, OnePlayer
  <2>6. CASE round' = [round EXCEPT ![a] = after]
    BY <1>1, <1>2, <1>3, <1>4, <1>5, <1>6, <2>2, <2>3, <2>6, OnePlayer
  <2> QED
    BY <2>1, <2>5, <2>6
<1> QED
    BY <1>7, <1>8

(* set_flag is of an open room; a flag changes no ball. *)
LEMMA SetFlagKeeps ==
    ASSUME PlayInv, NEW a \in Account, NEW h \in Hole, SetFlag(a, h)
    PROVE  PlayTypeOK' /\ TeesSound' /\ BallsMatchRounds'
<1>1. /\ UNCHANGED <<roomVars, holes, ball, round, scores, completed, total>>
      /\ flags' \subseteq flags \cup {<<member[a].room, h>>}
      /\ h \in Green /\ Present(a)
    BY DEF SetFlag
<1>2. member[a].room \in RoomId /\ Open(member[a].room)
    BY <1>1, RoomsAssumption DEF Present, CourseKnown, PlayInv, RoomsTypeOK, MemberRow, NoRoom, Open
<1>3. flags' \subseteq RoomId \X Green /\ \A f \in flags' : Open(f[1])
    BY <1>1, <1>2 DEF PlayInv, PlayTypeOK
<1>4. PlayTypeOK'
    BY <1>1, <1>3 DEF PlayInv, PlayTypeOK, roomVars, HasBall, Open, Published
<1> QED
    BY <1>1, <1>4 DEF PlayInv, TeesSound, BallsMatchRounds, roomVars, HasBall, Waiting, Practice, CourseOf

(* A republish changes what a course has, and no row. *)
LEMMA RepublishKeeps ==
    ASSUME PlayInv, RepublishHoles
    PROVE  PlayTypeOK' /\ TeesSound' /\ BallsMatchRounds'
<1>1. /\ UNCHANGED <<room, member, group, ball, round, flags, scores, completed, total>>
      /\ holes' \in Publication /\ content' = Published(holes')
    BY DEF RepublishHoles, Republish
<1>2. Published(holes') = Published(holes)'
    BY DEF Published
<1> QED
    BY <1>1, <1>2 DEF PlayInv, PlayTypeOK, TeesSound, BallsMatchRounds, HasBall, Waiting, Practice,
        CourseOf, Open

(* Groups keep everybody's room. *)
LEMMA GroupStepKeeps ==
    ASSUME PlayInv, NEW a \in Account, GroupStep(a), UNCHANGED playVars
    PROVE  PlayTypeOK' /\ TeesSound' /\ BallsMatchRounds'
<1>1. room' = room /\ content' = content /\ \A b \in Account : member'[b].room = member[b].room
    BY GroupStepStays DEF PlayInv, GroupStep, CreateGroup, JoinGroup, LeaveGroup
<1>2. \A b \in Account : CourseOf(b)' = CourseOf(b)
    BY <1>1 DEF CourseOf
<1> QED
    BY <1>1, <1>2 DEF PlayInv, PlayTypeOK, TeesSound, BallsMatchRounds, HasBall, Waiting, Practice,
        Open, playVars, Published

(* leave_room_state, alone or before a join: the leaver's ball and round   *)
(* go, everybody else's stay beside a room of the same course.             *)
LEMMA MembershipKeeps ==
    ASSUME PlayInv, NEW a \in Account, MembershipStep(a)
    PROVE  PlayTypeOK' /\ TeesSound' /\ BallsMatchRounds'
<1>1. PICK s \in Seq(0..MaxStrokes) :
        /\ LeaveRoom(a) \/ \E c \in Course : JoinCourse(a, c)
        /\ ball' = [ball EXCEPT ![a] = NoBall]
        /\ round' = [round EXCEPT ![a] = s]
        /\ Len(s) \in IF member'[a].room = NoRoom THEN {0} ELSE Hole
        /\ flags' = FlagsLeft(a)
        /\ UNCHANGED <<content, holes, scores, completed, total>>
  <2>1. CASE Leave(a)
    <3>1. << >> \in Seq(0..MaxStrokes) /\ Len(<< >>) = 0
      BY EmptySeq
    <3>2. member'[a].room = NoRoom
      BY <2>1 DEF Leave, LeaveRoom, NoMemberRow, PlayInv, RoomsTypeOK
    <3>3. /\ LeaveRoom(a) /\ UNCHANGED content
          /\ ball' = [ball EXCEPT ![a] = NoBall]
          /\ round' = [round EXCEPT ![a] = << >>]
          /\ flags' = FlagsLeft(a)
          /\ UNCHANGED <<holes, scores, completed, total>>
      BY <2>1 DEF Leave, LeaveRoom
    <3>4. Len(<< >>) \in IF member'[a].room = NoRoom THEN {0} ELSE Hole
      BY <3>1, <3>2
    <3> WITNESS << >> \in Seq(0..MaxStrokes)
    <3> QED
      BY <3>3, <3>4
  <2>2. ASSUME NEW c \in Course, Join(a, c)
        PROVE  /\ Unplayed(holes[c]) \in Seq(0..MaxStrokes) /\ Len(Unplayed(holes[c])) \in Hole
               /\ member'[a].room # NoRoom
    <3>1. c \in content /\ member'[a].room # NoRoom
      BY <2>2, JoinerIsIn DEF Join, PlayInv
    <3>2. holes[c] \in Hole
      BY <3>1, PlayAssumption DEF PlayInv, PlayTypeOK, Published, Hole
    <3>3. holes[c] \in Nat
      BY <3>2, BallFacts
    <3> QED
      BY <3>1, <3>2, <3>3, BallFacts, ResizedRound
  <2> QED
    BY <2>1, <2>2 DEF MembershipStep, Join, JoinCourse
<1>2. /\ ball'[a] = NoBall /\ round'[a] = s
      /\ \A c \in Account \ {a} : ball'[c] = ball[c] /\ round'[c] = round[c]
      /\ ball' \in [Account -> BallRow] /\ round' \in [Account -> Seq(0..MaxStrokes)]
    BY <1>1, BallFacts DEF PlayInv, PlayTypeOK
<1>3. \A b \in Account \ {a} : member'[b] = member[b]
    BY <1>1, Leavers DEF PlayInv
<1>4. \A b \in Account \ {a} : member[b].room # NoRoom => CourseOf(b)' = CourseOf(b)
    BY <1>1, CourseStays DEF PlayInv
<1>5. \A f \in flags' : Open(f[1])'
  <2> SUFFICES ASSUME NEW f \in flags' PROVE room'[f[1]].course # NoCourse
    BY DEF Open
  <2>1. f[1] \in RoomId /\ RoomsLeft(a)[f[1]].course # NoCourse
    BY <1>1 DEF FlagsLeft, PlayInv, PlayTypeOK
  <2>2. CASE LeaveRoom(a)
    BY <2>1, <2>2 DEF LeaveRoom
  <2>3. ASSUME NEW c \in Course, JoinCourse(a, c) PROVE room'[f[1]].course # NoCourse
    BY <2>1, <2>3, JoinerIsIn, RoomsAssumption DEF PlayInv
  <2> QED
    BY <1>1, <2>2, <2>3
<1>6. \A b \in Account : PlayerTyped(b)'
  <2> SUFFICES ASSUME NEW b \in Account PROVE PlayerTyped(b)'
    OBVIOUS
  <2>1. CASE b = a
    BY <1>1, <1>2, <2>1 DEF PlayerTyped, HasBall, NoBall, Ball
  <2>2. CASE b # a
    <3>1. ball'[b] = ball[b] /\ round'[b] = round[b] /\ member'[b] = member[b] /\ PlayerTyped(b)
      BY <1>2, <1>3, <2>2, BallFacts
    <3> QED
      BY <3>1 DEF PlayerTyped, HasBall
  <2> QED
    BY <2>1, <2>2
<1>7. TablesTyped'
  <2>1. flags' \subseteq RoomId \X Green
    BY <1>1 DEF FlagsLeft, PlayInv, PlayTypeOK
  <2>2. Published(holes)' = Published(holes)
    BY <1>1 DEF Published
  <2> QED
    BY <1>1, <1>2, <1>5, <2>1, <2>2 DEF TablesTyped, PlayInv, PlayTypeOK
<1>8. TeesSound'
  <2> SUFFICES ASSUME NEW b \in Account, NEW c \in Account, b # c, HasBall(b)', HasBall(c)',
                      ball'[b].room = ball'[c].room,
                      Waiting(b, ball[b].hole)', Waiting(c, ball[c].hole)',
                      ball'[b].hole = ball'[c].hole
               PROVE  FALSE
    BY DEF TeesSound
  <2>1. b # a /\ c # a
    BY <1>2 DEF HasBall
  <2>2. ball'[b] = ball[b] /\ ball'[c] = ball[c]
    BY <1>2, <2>1
  <2> QED
    BY <2>2 DEF PlayInv, TeesSound, HasBall, Waiting
<1>9. ASSUME NEW b \in Account PROVE BallMatchesRound(b)'
  <2>1. CASE b = a
    BY <1>2, <2>1 DEF BallMatchesRound, HasBall
  <2>2. CASE b # a
    <3>1. ball'[b] = ball[b] /\ round'[b] = round[b] /\ PlayerTyped(b) /\ BallMatchesRound(b)
      BY <1>2, <2>2, BallFacts
    <3>2. HasBall(b) => CourseOf(b)' = CourseOf(b)
      BY <1>4, <2>2, <3>1 DEF PlayerTyped
    <3> QED
      BY <3>1, <3>2 DEF BallMatchesRound, HasBall, Practice
  <2> QED
    BY <2>1, <2>2
<1> QED
    BY <1>6, <1>7, <1>8, <1>9 DEF PlayTypeOK, TablesTyped, PlayerTyped, BallsMatchRounds, BallMatchesRound

-----------------------------------------------------------------------------
(* The theorems. *)

LEMMA PlayInvInit == Init => PlayTypeOK /\ TeesSound /\ BallsMatchRounds
<1> SUFFICES ASSUME Init PROVE PlayTypeOK /\ TeesSound /\ BallsMatchRounds
    OBVIOUS
<1>1. \A a \in Account : ball[a] = NoBall /\ round[a] = << >> /\ member[a].room = NoRoom
    BY DEF Init, RoomsInit, NoMemberRow
<1>2. MaxStrokes \in Nat /\ << >> \in Seq(0..MaxStrokes) /\ Len(<< >>) = 0
    BY PlayAssumption, EmptySeq
<1>3. NoBall \in BallRow /\ NoBall.hole = 0
    BY <1>2 DEF NoBall, Ball, BallRow
<1>4. PlayTypeOK
    BY <1>1, <1>2, <1>3 DEF Init, PlayTypeOK, HasBall
<1> QED
    BY <1>1, <1>4 DEF TeesSound, BallsMatchRounds, HasBall

LEMMA PlayInvNext ==
    ASSUME PlayInv, [Next]_vars
    PROVE  PlayTypeOK' /\ TeesSound' /\ BallsMatchRounds'
<1>1. ASSUME NEW a \in Account, BallStep(a) PROVE PlayTypeOK' /\ TeesSound' /\ BallsMatchRounds'
    BY <1>1, TeeUpKeeps, BallGoneKeeps, BallPlayedKeeps, HoleOutKeeps DEF BallStep
<1>2. CASE UNCHANGED vars
    BY <1>2 DEF vars, roomVars, playVars, PlayInv, PlayTypeOK, TeesSound, BallsMatchRounds, HasBall,
        Waiting, Practice, CourseOf, Open, Published
<1> QED
    BY <1>1, <1>2, MembershipKeeps, SetFlagKeeps, GroupStepKeeps, RepublishKeeps DEF Next

LEMMA PlayInvHolds == Spec => []PlayInv
<1>1. Spec => [](RoomsTypeOK /\ RoomsCountMembers)
    BY PlayKeepsRooms, RoomsTyped, RoomsCounted, PTL
<1> DEFINE Balls == PlayTypeOK /\ TeesSound /\ BallsMatchRounds
<1>2. Init => Balls
    BY PlayInvInit
<1>3. (RoomsTypeOK /\ RoomsCountMembers) /\ Balls /\ [Next]_vars => Balls'
    BY PlayInvNext DEF PlayInv
<1>4. Spec => []Balls
    BY <1>1, <1>2, <1>3, PTL DEF Spec
<1> QED
    BY <1>1, <1>4, PTL DEF PlayInv

(* Every table of play holds rows of its type; a ball and a round are of a *)
(* room member, and no flag is out in a closed room.                       *)
THEOREM PlayTyped == Spec => []PlayTypeOK
    BY PlayInvHolds, PTL DEF PlayInv

(* However tee shots, balls given up, picked up and left follow each other *)
(* in a room, a tee has one ball waiting on it at most (tee_in_use).       *)
THEOREM TeesStaySound == Spec => []TeesSound
    BY PlayInvHolds, PTL DEF PlayInv

(* No hole is scored twice in a round: a ball in play has no score in its  *)
(* round, whatever was republished since it was teed.                      *)
THEOREM BallsStayInRounds == Spec => []BallsMatchRounds
    BY PlayInvHolds, PTL DEF PlayInv

-----------------------------------------------------------------------------
(* Scores.  A round only gains a score together with its hole_score row,   *)
(* and only a player who leaves or joins gets another course.              *)

(* Only the player who acts, and of the steps only these, change a round,  *)
(* a score or somebody's course.                                           *)
LEMMA ScoresFrame ==
    ASSUME PlayInv, Next
    PROVE  \/ \A a \in Account : /\ round'[a] = round[a]
                                 /\ scores'[a] = scores[a]
                                 /\ CourseOf(a)' = CourseOf(a)
           \/ \E a \in Account :
                 /\ \A b \in Account \ {a} : round'[b] = round[b] /\ scores'[b] = scores[b]
                 /\ MembershipStep(a) \/ (\E h \in Hole : TeeUp(a, h))
                       \/ (\E penalty \in {0, 2} : HoleOut(a, penalty))
<1>1. round \in [Account -> Seq(0..MaxStrokes)] /\ scores \in [Account -> [Course -> [Hole -> Nat]]]
    BY DEF PlayInv, PlayTypeOK
<1>2. ASSUME NEW a \in Account, MembershipStep(a)
      PROVE  \A b \in Account \ {a} : round'[b] = round[b] /\ scores'[b] = scores[b]
    BY <1>1, <1>2 DEF MembershipStep, Join, Leave
<1>3. ASSUME NEW a \in Account, NEW h \in Hole, TeeUp(a, h)
      PROVE  \A b \in Account \ {a} : round'[b] = round[b] /\ scores'[b] = scores[b]
    BY <1>1, <1>3 DEF TeeUp
<1>4. ASSUME NEW a \in Account, NEW penalty \in {0, 2}, HoleOut(a, penalty)
      PROVE  \A b \in Account \ {a} : round'[b] = round[b] /\ scores'[b] = scores[b]
  <2>1. \/ UNCHANGED <<round, scores>>
        \/ Scored(a, ball[a].hole, ball[a].strokes + 1 + penalty)
    BY <1>4 DEF HoleOut
  <2> QED
    BY <1>1, <2>1 DEF Scored
<1>5. ASSUME NEW a \in Account,
             \/ GiveUpHole(a) \/ PickUpBall(a) \/ ComesToRest(a)
             \/ \E penalty \in 0..3 : TakeShot(a, penalty)
             \/ \E h \in Hole : SetFlag(a, h)
      PROVE  UNCHANGED <<round, scores, room, member>>
    BY <1>5 DEF GiveUpHole, PickUpBall, ComesToRest, TakeShot, SetFlag, roomVars
<1>6. ASSUME NEW a \in Account, GroupStep(a), UNCHANGED playVars
      PROVE  /\ UNCHANGED <<round, scores, room>>
             /\ \A b \in Account : member'[b].room = member[b].room
    BY <1>6, GroupStepStays DEF PlayInv, playVars
<1>7. CASE RepublishHoles
    BY <1>7 DEF RepublishHoles, Republish, CourseOf
<1> QED
    BY <1>2, <1>3, <1>4, <1>5, <1>6, <1>7 DEF Next, BallStep, CourseOf

RoundScored(a) == \A h \in DOMAIN round[a] : round[a][h] > 0 => scores[a][CourseOf(a)][h] > 0

LEMMA RoundsScoredNext ==
    ASSUME PlayInv, RoundsAreScored, Next
    PROVE  RoundsAreScored'
<1>1. \A a \in Account : RoundScored(a) /\ PlayerTyped(a)
    BY BallFacts DEF RoundsAreScored, RoundScored
<1>2. SUFFICES ASSUME NEW b \in Account PROVE RoundScored(b)'
    BY DEF RoundsAreScored, RoundScored
<1>3. CASE round'[b] = round[b] /\ scores'[b] = scores[b] /\ CourseOf(b)' = CourseOf(b)
    BY <1>1, <1>3 DEF RoundScored
<1>4. ASSUME NEW a \in Account, MembershipStep(a),
             \A c \in Account \ {a} : round'[c] = round[c] /\ scores'[c] = scores[c]
      PROVE  RoundScored(b)'
  <2>1. CASE b # a
    <3>1. member[b].room # NoRoom => CourseOf(b)' = CourseOf(b)
      BY <1>4, <2>1, CourseStays DEF MembershipStep, Join, Leave, PlayInv
    <3>2. member[b].room = NoRoom => DOMAIN round[b] = {}
      <4>1. DOMAIN round[b] = 1..Len(round[b])
        BY BallFacts, LenProperties
      <4> QED
        BY <1>1, <4>1 DEF PlayerTyped
    <3> QED
      BY <1>1, <1>4, <2>1, <3>1, <3>2 DEF RoundScored
  <2>2. CASE b = a
    <3>1. \A h \in DOMAIN round'[a] : round'[a][h] = 0
      <4>1. round \in [Account -> Seq(0..MaxStrokes)]
        BY DEF PlayInv, PlayTypeOK
      <4>2. CASE Leave(a)
        BY <4>1, <4>2 DEF Leave
      <4>3. ASSUME NEW c \in Course, Join(a, c) PROVE \A h \in DOMAIN round'[a] : round'[a][h] = 0
        <5>1. round'[a] = Unplayed(holes[c])
          BY <4>1, <4>3 DEF Join
        <5> QED
          BY <5>1 DEF Unplayed
      <4> QED
        BY <1>4, <4>2, <4>3 DEF MembershipStep
    <3> QED
      BY <2>2, <3>1 DEF RoundScored
  <2> QED
    BY <2>1, <2>2
<1>5. ASSUME NEW a \in Account, NEW g \in Hole, TeeUp(a, g), b = a PROVE RoundScored(b)'
  <2>1. round'[a] = RoundNow(a) /\ scores' = scores /\ CourseOf(a)' = CourseOf(a) /\ Present(a)
    BY <1>5 DEF TeeUp, PlayInv, PlayTypeOK, roomVars, CourseOf
  <2>2. DOMAIN RoundNow(a) = 1..holes[CourseOf(a)] /\ DOMAIN round[a] = 1..Len(round[a])
    BY <2>1, PresentRound, BallFacts, LenProperties DEF PlayInv
  <2>3. \A h \in DOMAIN RoundNow(a) : RoundNow(a)[h] = IF h <= Len(round[a]) THEN round[a][h] ELSE 0
    BY <2>1, <2>2, PresentRound DEF PlayInv
  <2> QED
    BY <1>1, <1>5, <2>1, <2>2, <2>3 DEF RoundScored
<1>6. ASSUME NEW a \in Account, NEW penalty \in {0, 2}, HoleOut(a, penalty), b = a
      PROVE  RoundScored(b)'
  <2> DEFINE g == ball[a].hole
             after == [RoundNow(a) EXCEPT ![g] = ball[a].strokes + 1 + penalty]
  <2>1. /\ CourseOf(a)' = CourseOf(a) /\ Present(a) /\ g \in 1..holes[CourseOf(a)]
        /\ \/ UNCHANGED <<round, scores>>
           \/ Scored(a, g, ball[a].strokes + 1 + penalty)
    BY <1>6 DEF HoleOut, roomVars, CourseOf, OnHole, HolesOf
  <2>2. CASE UNCHANGED <<round, scores>>
    BY <1>1, <1>6, <2>1, <2>2 DEF RoundScored
  <2>3. CASE Scored(a, g, ball[a].strokes + 1 + penalty)
    <3>1. /\ scores' = [scores EXCEPT ![a][CourseOf(a)][g] = @ + 1]
          /\ round'[a] = Unplayed(Len(after)) \/ round'[a] = after
      BY <2>3 DEF Scored, PlayInv, PlayTypeOK
    <3>2. /\ DOMAIN RoundNow(a) = 1..holes[CourseOf(a)] /\ DOMAIN round[a] = 1..Len(round[a])
          /\ CourseOf(a) \in Course /\ holes[CourseOf(a)] \in Hole
          /\ \A h \in 1..holes[CourseOf(a)] :
                RoundNow(a)[h] = IF h <= Len(round[a]) THEN round[a][h] ELSE 0
      BY <2>1, PresentRound, BallFacts, LenProperties DEF PlayInv
    <3>3. g \in Hole /\ 1..holes[CourseOf(a)] \subseteq Hole
      BY <2>1, <3>2, PlayAssumption DEF Hole
    <3>4. /\ scores'[a][CourseOf(a)][g] > 0
          /\ \A h \in Hole \ {g} : scores'[a][CourseOf(a)][h] = scores[a][CourseOf(a)][h]
      BY <3>1, <3>2, <3>3, BallFacts
    <3>5. \A h \in DOMAIN after : after[h] > 0 => scores'[a][CourseOf(a)][h] > 0
      <4> SUFFICES ASSUME NEW h \in DOMAIN after, after[h] > 0 PROVE scores'[a][CourseOf(a)][h] > 0
        OBVIOUS
      <4>1. h \in 1..holes[CourseOf(a)] /\ h \in Hole
        BY <3>2, <3>3
      <4>2. h # g => after[h] = RoundNow(a)[h]
        BY <4>1
      <4> QED
        BY <1>1, <3>2, <3>4, <4>1, <4>2 DEF RoundScored
    <3>6. \A h \in DOMAIN Unplayed(Len(after)) : Unplayed(Len(after))[h] = 0
      BY DEF Unplayed
    <3> HIDE DEF after
    <3> QED
      BY <1>6, <2>1, <3>1, <3>5, <3>6 DEF RoundScored
  <2> QED
    BY <2>1, <2>2, <2>3
<1>7. ASSUME NEW a \in Account, (\E h \in Hole : TeeUp(a, h)) \/ \E penalty \in {0, 2} : HoleOut(a, penalty)
      PROVE  UNCHANGED roomVars
    BY <1>7 DEF TeeUp, HoleOut
<1> QED
    BY <1>3, <1>4, <1>5, <1>6, <1>7, ScoresFrame DEF roomVars, CourseOf

(* No score is carried into another course's round: what a round says was  *)
(* played has its hole_score row of the course the player is on.           *)
THEOREM RoundsStayScored == Spec => []RoundsAreScored
<1>1. Init => RoundsAreScored
    BY DEF Init, RoundsAreScored
<1>2. PlayInv /\ RoundsAreScored /\ [Next]_vars => RoundsAreScored'
  <2>1. CASE UNCHANGED vars
    BY <2>1 DEF vars, roomVars, playVars, RoundsAreScored, CourseOf
  <2> QED
    BY <2>1, RoundsScoredNext
<1> QED
    BY <1>1, <1>2, PlayInvHolds, PTL DEF Spec

-----------------------------------------------------------------------------
(* The count of the scores. *)

ScoresCounted(a) == IsFiniteSet(ScoreRows(a)) /\ total[a] = Cardinality(ScoreRows(a))

LEMMA OnlyHoledShotsScore ==
    ASSUME PlayInv, [Next]_vars
    PROVE  \/ UNCHANGED <<scores, total>>
           \/ \E a \in Account :
                 \E c \in Course, h \in Hole :
                     /\ scores' = [scores EXCEPT ![a][c][h] = @ + 1]
                     /\ total' = [total EXCEPT ![a] = @ + 1]
<1>1. ASSUME NEW a \in Account, NEW penalty \in {0, 2}, HoleOut(a, penalty)
      PROVE  \/ UNCHANGED <<scores, total>>
             \/ \E c \in Course, h \in Hole :
                   /\ scores' = [scores EXCEPT ![a][c][h] = @ + 1]
                   /\ total' = [total EXCEPT ![a] = @ + 1]
  <2>1. \/ UNCHANGED <<scores, total>>
        \/ Scored(a, ball[a].hole, ball[a].strokes + 1 + penalty)
    BY <1>1 DEF HoleOut
  <2>2. Present(a) /\ ball[a].hole \in 1..holes[CourseOf(a)]
    BY <1>1 DEF HoleOut, OnHole, HolesOf
  <2>3. CourseOf(a) \in Course /\ ball[a].hole \in Hole
    BY <2>2, PresentRound, PlayAssumption DEF PlayInv, Hole
  <2> QED
    BY <2>1, <2>3 DEF Scored
<1>2. ASSUME NEW a \in Account,
             \/ MembershipStep(a) \/ GiveUpHole(a) \/ PickUpBall(a) \/ ComesToRest(a)
             \/ \E penalty \in 0..3 : TakeShot(a, penalty)
             \/ \E h \in Hole : TeeUp(a, h) \/ SetFlag(a, h)
             \/ GroupStep(a) /\ UNCHANGED playVars
      PROVE  UNCHANGED <<scores, total>>
    BY <1>2 DEF MembershipStep, Join, Leave, GiveUpHole, PickUpBall, ComesToRest, TakeShot, TeeUp,
        SetFlag, playVars
<1>3. CASE RepublishHoles \/ UNCHANGED vars
    BY <1>3 DEF RepublishHoles, vars, playVars
<1> QED
    BY <1>1, <1>2, <1>3 DEF Next, BallStep

LEMMA ScoresCountedNext ==
    ASSUME PlayInv, [Next]_vars, NEW b \in Account, ScoresCounted(b)
    PROVE  ScoresCounted(b)'
<1>1. CASE scores'[b] = scores[b] /\ total'[b] = total[b]
  <2>1. ScoreRows(b)' = ScoreRows(b)
    BY <1>1 DEF ScoreRows
  <2> QED
    BY <1>1, <2>1 DEF ScoresCounted
<1>2. ASSUME NEW c \in Course, NEW h \in Hole,
             scores' = [scores EXCEPT ![b][c][h] = @ + 1],
             total' = [total EXCEPT ![b] = @ + 1]
      PROVE  ScoresCounted(b)'
  <2> DEFINE n == scores[b][c][h]
             row == << <<c, h>>, n + 1 >>
  <2>1. n \in Nat /\ total[b] \in Nat /\ total'[b] = total[b] + 1
    BY <1>2, BallFacts
  <2>2. \A d \in Course, g \in Hole :
            /\ scores[b][d][g] \in Nat
            /\ scores'[b][d][g] = IF d = c /\ g = h THEN n + 1 ELSE scores[b][d][g]
    BY <1>2, BallFacts
  <2>3. \A x : x \in ScoreRows(b)' <=> x \in ScoreRows(b) \cup {row}
    <3>1. \A x : x \in ScoreRows(b)' <=>
                   \E d \in Course, g \in Hole : \E k \in 1..scores'[b][d][g] : x = << <<d, g>>, k >>
      BY DEF ScoreRows
    <3>2. \A x : x \in ScoreRows(b) <=>
                   \E d \in Course, g \in Hole : \E k \in 1..scores[b][d][g] : x = << <<d, g>>, k >>
      BY DEF ScoreRows
    <3>3. 1..(n + 1) = 1..n \cup {n + 1}
      BY <2>1
    <3> HIDE DEF n
    <3> QED
      BY <2>1, <2>2, <3>1, <3>2, <3>3 DEF n
  <2>4. row \notin ScoreRows(b)
    BY <2>1 DEF ScoreRows
  <2> QED
    BY <2>1, <2>3, <2>4, FS_AddElement DEF ScoresCounted
<1>3. CASE \E a \in Account \ {b} :
             \E c \in Course, h \in Hole :
                 /\ scores' = [scores EXCEPT ![a][c][h] = @ + 1]
                 /\ total' = [total EXCEPT ![a] = @ + 1]
    BY <1>1, <1>3, BallFacts
<1> QED
    BY <1>1, <1>2, <1>3, OnlyHoledShotsScore

(* holes_completed is the number of the golfer's hole_score rows, and what *)
(* a round says was played has a row: a holed shot's three places agree    *)
(* whatever ends the round.                                                *)
THEOREM ScoresStaySound == Spec => []ScoresSound
<1> DEFINE Counted == \A a \in Account : ScoresCounted(a)
<1>1. Init => Counted
  <2> SUFFICES ASSUME Init, NEW a \in Account PROVE ScoresCounted(a)
    OBVIOUS
  <2>1. ScoreRows(a) = {} /\ total[a] = 0
    BY DEF Init, ScoreRows
  <2> QED
    BY <2>1, FS_EmptySet DEF ScoresCounted
<1>2. PlayInv /\ Counted /\ [Next]_vars => Counted'
    BY ScoresCountedNext
<1>3. Counted => TotalCountsScores
    BY DEF ScoresCounted, TotalCountsScores
<1> QED
    BY <1>1, <1>2, <1>3, PlayInvHolds, RoundsStayScored, PTL DEF Spec, ScoresSound

=============================================================================
