-------------------------------- MODULE Net --------------------------------
(* The client's connection: the bridge (login thread, opening, connection, *)
(* event queue) and net_client over it (status, subscriptions, account,    *)
(* room).  No state of its own: functions of a client's record c, whose    *)
(* `out` collects the calls a frame sends.                                 *)
(*                                                                         *)
(* The event queue is empty between frames: net_client::update polls until *)
(* nothing is left, and what a request pushes is polled in its own frame.  *)
EXTENDS Integers, Sequences, FiniteSets

CONSTANTS
    Course, NoCourse,
    Room, NoRoom,
    CourseOf   \* the course of each room

ASSUME NetAssumption ==
    /\ NoCourse \notin Course /\ NoRoom \notin Room
    /\ CourseOf \in [Room -> Course]

Status == {"signed_out", "signing_in", "waiting", "connecting", "connected", "failed"}

(* What a connection brings, all forgotten with it.  The subscriptions of  *)
(* protocol and content are asked for or not; that of the room has an id.  *)
View == [protocol : BOOLEAN, content : BOOLEAN, account : BOOLEAN, named : BOOLEAN,
         room : Room \cup {NoRoom}, sub : Nat, shown : BOOLEAN, ready : BOOLEAN]

NoView == [protocol |-> FALSE, content |-> FALSE, account |-> FALSE, named |-> FALSE,
           room |-> NoRoom, sub |-> 0, shown |-> FALSE, ready |-> FALSE]

Send(c, call) == [c EXCEPT !.out = Append(@, call)]

-----------------------------------------------------------------------------
(* Requests.  A guest's game is anonymous: it opens its connection at once.*)

BeginLogin(c, silent) ==
    IF c.login # "none" \/ c.link # "none" THEN c
    ELSE IF c.guest
    THEN [c EXCEPT !.refused = FALSE, !.status = "connecting", !.link = "opening"]
    ELSE [c EXCEPT !.refused = FALSE, !.status = "signing_in",
                   !.login = IF silent THEN "silent" ELSE "browser"]

CancelLoginKeepsJob(c) ==
    [c EXCEPT !.link = IF @ = "opening" THEN "none" ELSE @,
              !.status = IF @ = "connected" THEN @ ELSE "signed_out"]

(* Nothing is done to a connection that is open already.                   *)
CancelLogin(c) ==
    [c EXCEPT !.login = "none",
              !.link = IF @ = "opening" THEN "none" ELSE @,
              !.status = IF @ = "connected" THEN @ ELSE "signed_out"]

Closed(c) == [c EXCEPT !.login = "none", !.link = "none", !.met = FALSE,
                          !.awaited = {}, !.out = <<>>]

ForgetSession(c) == [c EXCEPT !.view = NoView]

SignOut(c) == [ForgetSession(Closed(c)) EXCEPT !.status = "signed_out"]

(* Calls outside a connection are dropped.                                 *)
JoinCourse(c, course) ==
    IF c.status = "connected" THEN Send(c, [call |-> "join", course |-> course]) ELSE c
LeaveRoom(c) == IF c.status = "connected" THEN Send(c, [call |-> "leave"]) ELSE c
ClaimName(c) == IF c.status = "connected" THEN Send(c, [call |-> "claim"]) ELSE c

-----------------------------------------------------------------------------
(* Events.                                                                 *)

RefuseServer(c) == [ForgetSession(Closed(c)) EXCEPT !.refused = TRUE, !.status = "failed"]

(* The rows of one room at a time, under an id that nothing on its way has.*)
SubscribeRoom(c, room) ==
    LET id == CHOOSE i \in 1 .. Cardinality(c.awaited) + 1 : i \notin c.awaited
        moved == [c EXCEPT !.view.room = room, !.view.sub = 0,
                           !.view.shown = FALSE, !.view.ready = FALSE]
    IN  IF room = NoRoom THEN moved
        ELSE Send([moved EXCEPT !.view.sub = id, !.awaited = @ \cup {id}],
                  [call |-> "watch_room", id |-> id, room |-> room])

(* The version, then the content's hash, decide whether to go on.          *)
HandleProtocol(c, row) ==
    IF ~row.good THEN RefuseServer(c)
    ELSE IF c.view.content THEN c
    ELSE Send([c EXCEPT !.view.content = TRUE], [call |-> "watch_content"])

HandleContent(c, row) ==
    IF ~row.good THEN RefuseServer(c)
    ELSE IF c.status = "connected" THEN c
    ELSE Send([c EXCEPT !.status = "connected"], [call |-> "watch_account"])

(* A new account starts its progress over.                                 *)
HandleAccount(c, row) ==
    IF c.view.account THEN [c EXCEPT !.view.named = row.named]
    ELSE Send([c EXCEPT !.view = [NoView EXCEPT !.protocol = TRUE, !.content = TRUE,
                                                !.account = TRUE, !.named = row.named]],
              [call |-> "watch_self"])

(* My member row says which room I am in; the delete of another room's is  *)
(* an older one.                                                           *)
HandleMember(c, row) ==
    LET room == IF row.gone THEN NoRoom ELSE row.room
    IN  IF ~c.view.account \/ room = c.view.room \/ (row.gone /\ row.room # c.view.room) THEN c
        ELSE SubscribeRoom(c, room)

HandleRoomOfAny(c, answer) ==
    LET shows == answer.there /\ answer.room = c.view.room /\ c.status = "connected"
        answered == [c EXCEPT !.awaited = @ \ {answer.id}]
    IN  IF answer.failed THEN [answered EXCEPT !.view.ready = FALSE, !.status = "failed"]
        ELSE [answered EXCEPT !.view.shown = @ \/ shows,
                              !.view.ready = @ \/ c.view.room # NoRoom]

(* The answer to a room's subscription: its rows, whichever asked for      *)
(* them, and that all of them are here, for the last that asked.           *)
HandleRoom(c, answer) ==
    LET mine == answer.id = c.view.sub
        shows == answer.there /\ answer.room = c.view.room /\ c.status = "connected"
        answered == [c EXCEPT !.awaited = @ \ {answer.id}]
    IN  IF answer.failed
        THEN IF mine THEN [answered EXCEPT !.view.ready = FALSE, !.status = "failed"]
             ELSE answered
        ELSE [answered EXCEPT !.view.shown = @ \/ shows, !.view.ready = @ \/ mine]

(* The rows of an account that plays are read only while connected.        *)
Handle(c, event) ==
    IF c.refused THEN c
    ELSE CASE event.kind = "hello" ->
                Send([ForgetSession(c) EXCEPT !.met = TRUE, !.status = "connecting",
                                              !.view.protocol = TRUE],
                     [call |-> "watch_protocol"])
           [] event.kind = "protocol" -> HandleProtocol(c, event)
           [] event.kind = "content" -> IF c.view.content THEN HandleContent(c, event) ELSE c
           [] event.kind = "account" -> IF c.status = "connected" THEN HandleAccount(c, event) ELSE c
           [] event.kind = "member" -> IF c.status = "connected" THEN HandleMember(c, event) ELSE c
           [] event.kind = "room" -> HandleRoom(c, event)
           [] event.kind = "refused" -> [c EXCEPT !.refusals = @ \cup {event.call}]

HandleAll(c, events) ==
    LET heard[i \in 0 .. Len(events)] == IF i = 0 THEN c ELSE Handle(heard[i - 1], events[i])
    IN  heard[Len(events)]

HandleLoginUnheard(c, says) ==
    CASE says = "waiting" -> [c EXCEPT !.login = "asked", !.status = "waiting"]
      [] says = "token" -> [c EXCEPT !.login = "none", !.status = "connecting", !.link = "opening"]
      [] says = "failed" -> [c EXCEPT !.login = "none"]
      [] OTHER -> c

(* What the login thread says: that the browser waits, or how it ended.    *)
HandleLogin(c, says) ==
    CASE says = "nothing" -> c
      [] says = "waiting" -> [c EXCEPT !.login = "asked", !.status = "waiting"]
      [] says = "token" -> [c EXCEPT !.login = "none", !.status = "connecting", !.link = "opening"]
      [] says = "failed" -> [c EXCEPT !.login = "none", !.status = "failed"]

(* What a thread can say now.                                              *)
Says(c) ==
    {"nothing"} \cup (IF c.login = "none" THEN {} ELSE {"token", "failed"})
                \cup (IF c.login = "browser" THEN {"waiting"} ELSE {})

(* The opening thread is done.                                             *)
HandleOpened(c, worked) ==
    IF worked THEN [c EXCEPT !.link = "open"] ELSE [c EXCEPT !.link = "none", !.status = "failed"]

(* The connection is gone: signed in again silently if it had been up for  *)
(* long enough, or never met the server at all.                            *)
LostConnection(c, stable) ==
    LET retrying == ~c.guest /\ stable
        gone == Closed(c)
    IN  IF ~c.met THEN [gone EXCEPT !.status = "failed"]
        ELSE IF retrying
        THEN [ForgetSession(gone) EXCEPT !.status = "signing_in", !.login = "silent"]
        ELSE [ForgetSession(gone) EXCEPT !.status = "signed_out"]
=============================================================================
