------------------------------- MODULE Menus -------------------------------
(* The screens that lead to an online round, and the round's watch over    *)
(* its connection (online_session), as functions of the client's record c. *)
(* A screen's input is a key: to accept what is selected, to accept the    *)
(* screen's other tile, or to go back.  Screens that keep nothing (help,   *)
(* settings, tours, offline play, linking) are left out, and a round is    *)
(* only whether it goes on.                                                *)
EXTENDS Net

CONSTANT CartCourse \* the courses with carts: a player is asked to take one

ASSUME MenusAssumption == CartCourse \subseteq Course

Flow == {"main", "login", "name", "picker", "transport", "joining", "shape", "playing"}

(* `course` is what the picker, the joining screen or the round is about;  *)
(* `lost` is the message that the room is lost; `shaped` that the golfer   *)
(* has picked a natural shot.                                              *)
Menu == [flow : Flow, course : Course \cup {NoCourse}, asked : BOOLEAN, lost : BOOLEAN]

(* online_session: signed in again by itself, and the room asked for again.*)
Session == [rejoining : BOOLEAN, sent : BOOLEAN]

Key == {"none", "accept", "other", "back"}

Connected(c) == c.status = "connected"
SignedIn(c) == Connected(c) /\ c.view.account
Idle(c) == c.status \in {"signed_out", "failed"}
NameKnown(c) == c.view.account /\ c.view.named

Screen(flow, course) == [flow |-> flow, course |-> course, asked |-> FALSE, lost |-> FALSE]
OpenKeepsCourse(c, flow) == [c EXCEPT !.menu = Screen(flow, c.menu.course)]
Open(c, flow) == [c EXCEPT !.menu = Screen(flow, NoCourse)]
OpenFor(c, flow, course) == [c EXCEPT !.menu = Screen(flow, course)]
ToMain(c) == Open(c, "main")

(* The course of the room that is shown, all of its rows here.             *)
RoomCourse(c) ==
    IF c.view.shown /\ c.view.ready THEN CourseOf[c.view.room] ELSE NoCourse

-----------------------------------------------------------------------------
(* Starting: a golfer's first round waits for their natural shot.          *)

StartCourse(c, course) == OpenFor(c, IF c.shaped THEN "playing" ELSE "shape", course)

(* Joins the course's room, and waits for it.                              *)
BeginCourse(c, course) == OpenFor(JoinCourse(c, course), "joining", course)

PickTransport(c, course) ==
    IF course \in CartCourse THEN OpenFor(c, "transport", course) ELSE BeginCourse(c, course)

OpenPlayOnline(c) ==
    IF SignedIn(c) /\ c.view.named THEN Open(c, "picker")
    ELSE LET login == Open(c, "login")
         IN  IF Idle(c) THEN BeginLogin(login, TRUE) ELSE login

OpenSignedIn(c) == Open(c, IF c.view.named THEN "picker" ELSE "name")

LeaveToMain(c) == ToMain(IF Idle(c) \/ Connected(c) THEN c ELSE CancelLogin(c))

-----------------------------------------------------------------------------
(* The online screens move on with the connection first; a key belongs to  *)
(* the screen it was pressed at.                                           *)

OnlineFlow == {"login", "name", "picker", "joining"}

MovesOn(c) ==
    \/ c.menu.flow # "login" /\ ~Connected(c)
    \/ c.menu.flow = "login" /\ SignedIn(c)
    \/ c.menu.flow = "name" /\ NameKnown(c)

MovedOn(c) ==
    IF ~Connected(c) THEN Open(c, "login")
    ELSE IF c.menu.flow = "login" THEN OpenSignedIn(c) ELSE Open(c, "picker")

(* What the screen asked for was refused.                                  *)
Refusals(c) ==
    CASE c.menu.flow = "joining" /\ "join" \in c.refusals -> Open(c, "picker")
      [] c.menu.flow = "name" /\ "claim" \in c.refusals -> [c EXCEPT !.menu.asked = FALSE]
      [] OTHER -> c

LoginKey(c, key) ==
    CASE key = "back" \/ (key = "other" /\ Idle(c)) -> LeaveToMain(c)
      [] key = "accept" -> IF Idle(c) THEN BeginLogin(c, FALSE) ELSE LeaveToMain(c)
      [] OTHER -> c

NameKey(c, key) ==
    CASE key = "back" -> ToMain(c)
      [] key = "accept" /\ ~c.menu.asked ->
            [ClaimName(c) EXCEPT !.menu.asked = TRUE, !.menu.lost = FALSE]
      [] OTHER -> c

PickerKey(c, key, course) ==
    CASE key = "back" -> ToMain(c)
      [] key = "accept" -> PickTransport(c, course)
      [] OTHER -> c

JoiningKey(c, key) ==
    IF key \in {"accept", "back"} THEN Open(LeaveRoom(c), "picker") ELSE c

OnlineKey(c, key, course) ==
    CASE c.menu.flow = "login" -> LoginKey(c, key)
      [] c.menu.flow = "name" -> NameKey(c, key)
      [] c.menu.flow = "picker" -> PickerKey(c, key, course)
      [] c.menu.flow = "joining" -> JoiningKey(c, key)

(* The joining screen starts its course once the room shown is one of it:  *)
(* a refusal or a key of the same frame is still heard, and the start wins.*)
OnlineMenu(c, key, course) ==
    IF MovesOn(c) THEN MovedOn(c)
    ELSE LET heard == OnlineKey(Refusals(c), key, course)
         IN  IF c.menu.flow = "joining" /\ RoomCourse(c) = c.menu.course
             THEN StartCourse(heard, c.menu.course)
             ELSE heard

MainKey(c, key) ==
    CASE key = "accept" -> OpenPlayOnline(c)
      [] key = "other" /\ SignedIn(c) -> SignOut(c)
      [] OTHER -> c

TransportKey(c, key) ==
    CASE key = "back" -> Open(c, "picker")
      [] key \in {"accept", "other"} -> BeginCourse(c, c.menu.course)
      [] OTHER -> c

(* Online the room is joined already: a shape must be picked.              *)
ShapeKey(c, key) ==
    IF key \in {"accept", "other"}
    THEN StartCourse([c EXCEPT !.shaped = TRUE], c.menu.course)
    ELSE c

(* Leaving the round leaves its room.                                      *)
ReturnToMenu(c) ==
    ToMain([LeaveRoom(c) EXCEPT !.session.rejoining = FALSE])

RoundKey(c, key) == IF key = "back" THEN ReturnToMenu(c) ELSE c

(* One frame of the menus, or of the round.                                *)
MenuFrame(c, key, course) ==
    CASE c.menu.flow \in OnlineFlow -> OnlineMenu(c, key, course)
      [] c.menu.flow = "main" -> MainKey(c, key)
      [] c.menu.flow = "transport" -> TransportKey(c, key)
      [] c.menu.flow = "shape" -> ShapeKey(c, key)
      [] c.menu.flow = "playing" -> RoundKey(c, key)

-----------------------------------------------------------------------------
(* After the connection's update: what became of the round's room.         *)

InCourseRoom(c) == c.view.shown /\ CourseOf[c.view.room] = c.menu.course

RoomLost(c) == [ReturnToMenu(c) EXCEPT !.menu.lost = TRUE]

(* The room is asked for again, once the account is known.                 *)
Rejoin(c) ==
    IF c.session.sent \/ ~c.view.account THEN c
    ELSE [JoinCourse(c, c.menu.course) EXCEPT !.session.sent = TRUE]

Restarts(c) == InCourseRoom(c) /\ c.view.ready /\ c.session.sent

WatchRejoin(c) ==
    IF "join" \in c.refusals THEN RoomLost(c)
    ELSE IF Restarts(c) THEN [c EXCEPT !.session.rejoining = FALSE] ELSE Rejoin(c)

WatchRoundOnce(c) ==
    IF c.menu.flow # "playing" THEN c
    ELSE CASE Idle(c) -> Open(ReturnToMenu(c), "login")
           [] ~Idle(c) /\ ~Connected(c) -> [c EXCEPT !.session.rejoining = TRUE]
           [] Connected(c) /\ c.session.rejoining -> WatchRejoin(c)
           [] Connected(c) /\ ~c.session.rejoining -> IF InCourseRoom(c) THEN c ELSE RoomLost(c)

WatchRound(c) ==
    IF c.menu.flow # "playing" THEN c
    ELSE CASE Idle(c) -> Open(ReturnToMenu(c), "login")
           [] ~Idle(c) /\ ~Connected(c) -> [c EXCEPT !.session = [rejoining |-> TRUE, sent |-> FALSE]]
           [] Connected(c) /\ c.session.rejoining -> WatchRejoin(c)
           [] Connected(c) /\ ~c.session.rejoining -> IF InCourseRoom(c) THEN c ELSE RoomLost(c)
=============================================================================
