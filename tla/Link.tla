-------------------------------- MODULE Link --------------------------------
(* One player's game, from its menus to a round, and the server it signs   *)
(* in to over a connection that may be lost; the player's account may be   *)
(* signed in from another game too.                                        *)
(*                                                                         *)
(* One frame of the game is app::run's: the screen's input, then the       *)
(* connection's update, then the round's watch over it.  Calls and answers *)
(* travel in order, each for as long as it likes.                          *)
EXTENDS Menus

CONSTANT MaxFlight \* bound: keys and other games wait while so much is on its way

ASSUME LinkAssumption == MaxFlight \in Nat

VARIABLES
    me,    \* the game: its connection, what that showed it, its screen and round
    up,    \* calls on their way to the server, in order
    down,  \* events on their way back, in order
    lost,  \* the connection is gone, which the game hears after them
    host   \* the server: the account's session and room, and what this game watches

vars == <<me, up, down, lost, host>>

Spare == Len(up) + Len(down) < MaxFlight

Call ==
    [call : {"join"}, course : Course] \cup [call : {"leave", "claim"}]
        \cup [call : {"watch_protocol", "watch_content", "watch_account", "watch_self"}]
        \cup [call : {"watch_room"}, id : Nat \ {0}, room : Room]

Event ==
    [kind : {"hello"}] \cup [kind : {"protocol", "content"}, good : BOOLEAN]
        \cup [kind : {"account"}, named : BOOLEAN]
        \cup [kind : {"member"}, room : Room, gone : BOOLEAN]
        \cup [kind : {"room"}, id : Nat \ {0}, room : Room, there : BOOLEAN, failed : BOOLEAN]
        \cup [kind : {"refused"}, call : {"join", "claim"}]

-----------------------------------------------------------------------------
(* A frame.                                                                *)

(* stdb_frame_tick and the events it leads to: what the threads say, the   *)
(* next `count` events, and the loss once they are all heard.              *)
Updated(c, says, opens, events, loses, stable) ==
    LET said == HandleLogin([c EXCEPT !.refusals = {}], says)
        opened == IF opens = "not_yet" THEN said ELSE HandleOpened(said, opens = "ok")
        heard == HandleAll(opened, events)
    IN  IF loses /\ heard.link = "open" THEN LostConnection(heard, stable) ELSE heard

(* Whose end it was: leaving the room ends with the session.               *)
Disconnected(h) ==
    LET live == h.session = "here"
    IN  [h EXCEPT !.session = IF live THEN "none" ELSE @, !.seat = IF live THEN NoRoom ELSE @,
                  !.greeted = FALSE, !.self = FALSE]

Frame(key, course, says, opens, count, stable) ==
    LET asked == MenuFrame(me, key, course)
        still == me.link = "open" /\ asked.link = "open"
        heard == IF still THEN SubSeq(down, 1, count) ELSE <<>>
        loses == still /\ lost /\ count = Len(down)
        next == WatchRound(Updated(asked, says, opens, heard, loses, stable))
        kept == still /\ next.link = "open"
    IN  /\ says \in Says(asked)
        /\ opens # "not_yet" => HandleLogin(asked, says).link = "opening"
        /\ stable => loses
        /\ me' = [next EXCEPT !.out = <<>>]
        /\ up' = IF kept /\ ~lost THEN up \o next.out ELSE <<>>
        /\ down' = IF kept THEN SubSeq(down, count + 1, Len(down)) ELSE <<>>
        /\ lost' = (kept /\ lost)
        /\ host' = IF me.link = "open" /\ ~kept THEN Disconnected(host) ELSE host

(* A frame without a key, in which nothing new is heard.                   *)
QuietFrame == Frame("none", NoCourse, "nothing", "not_yet", 0, FALSE)

KeyFrame(key, course) ==
    /\ Spare
    /\ \E count \in 0 .. Len(down) : Frame(key, course, "nothing", "not_yet", count, FALSE)

HearFrame ==
    \E count \in 1 .. Len(down) : Frame("none", NoCourse, "nothing", "not_yet", count, FALSE)

LoginFrame ==
    \E says \in {"waiting", "token", "failed"} :
        Frame("none", NoCourse, says, "not_yet", 0, FALSE)

OpenFrame ==
    \E opens \in {"ok", "failed"} : Frame("none", NoCourse, "nothing", opens, 0, FALSE)

(* The game hears of the loss.                                             *)
LossFrame ==
    /\ lost
    /\ \E stable \in BOOLEAN :
          Frame("none", NoCourse, "nothing", "not_yet", Len(down), stable)

GameStep ==
    \/ QuietFrame \/ HearFrame \/ LoginFrame \/ OpenFrame \/ LossFrame
    \/ \E key \in Key \ {"none"}, course \in Course : KeyFrame(key, course)

-----------------------------------------------------------------------------
(* The server.                                                             *)

Tell(events) == down' = down \o events

(* The account's member row changes: its watchers are told.                *)
Seat(room) ==
    /\ host' = [host EXCEPT !.seat = room]
    /\ Tell(IF ~host.self \/ room = host.seat THEN <<>>
            ELSE <<[kind |-> "member", room |-> IF room = NoRoom THEN host.seat ELSE room,
                    gone |-> room = NoRoom]>>)

RoomsOf(course) == {r \in Room : CourseOf[r] = course}

Live == host.session = "here"

(* The answers to one call.                                                *)
AnswerJoin(call) ==
    /\ call.call = "join"
    /\ IF Live /\ host.named
       THEN \E r \in RoomsOf(call.course) : Seat(r)
       ELSE Tell(<<[kind |-> "refused", call |-> "join"]>>) /\ UNCHANGED host

(* Nobody acts on a refused leave.                                         *)
AnswerLeave(call) ==
    /\ call.call = "leave"
    /\ IF Live THEN Seat(NoRoom) ELSE UNCHANGED <<down, host>>

AnswerClaim(call) ==
    /\ call.call = "claim"
    /\ \/ /\ Live /\ ~host.named
          /\ host' = [host EXCEPT !.named = TRUE]
          /\ Tell(<<[kind |-> "account", named |-> TRUE]>>)
       \/ Tell(<<[kind |-> "refused", call |-> "claim"]>>) /\ UNCHANGED host

AnswerWatch(call) ==
    \/ /\ call.call \in {"watch_protocol", "watch_content"}
       /\ \E good \in BOOLEAN :
             Tell(<<[kind |-> IF call.call = "watch_protocol" THEN "protocol" ELSE "content",
                     good |-> good]>>)
       /\ UNCHANGED host
    \/ /\ call.call = "watch_account"
       /\ Tell(<<[kind |-> "account", named |-> host.named]>>)
       /\ UNCHANGED host
    \/ /\ call.call = "watch_self"
       /\ host' = [host EXCEPT !.self = TRUE]
       /\ Tell(IF host.seat = NoRoom THEN <<>>
               ELSE <<[kind |-> "member", room |-> host.seat, gone |-> FALSE]>>)
    \/ /\ call.call = "watch_room"
       /\ \E there, failed \in BOOLEAN :
             /\ host.seat = call.room => there   \* others may hold the room too
             /\ failed => ~there
             /\ Tell(<<[kind |-> "room", id |-> call.id, room |-> call.room,
                        there |-> there, failed |-> failed]>>)
       /\ UNCHANGED host

HostAnswers ==
    /\ up # <<>> /\ ~lost
    /\ \/ AnswerJoin(Head(up)) \/ AnswerLeave(Head(up))
       \/ AnswerClaim(Head(up)) \/ AnswerWatch(Head(up))
    /\ up' = Tail(up)
    /\ UNCHANGED <<me, lost>>

(* client_connected takes the account over, or turns the connection away.  *)
(* Each connection of a guest's is a login of its own, with a new account. *)
HostGreets ==
    /\ me.link = "open" /\ ~host.greeted /\ ~lost
    /\ \/ /\ host' = [host EXCEPT !.session = "here", !.seat = NoRoom, !.greeted = TRUE,
                                  !.named = @ /\ ~me.guest]
          /\ down' = <<[kind |-> "hello"]>>
          /\ UNCHANGED lost
       \/ lost' = TRUE /\ UNCHANGED <<host, down>>
    /\ UNCHANGED <<me, up>>

(* A publish of another protocol or content shows to those who watch.      *)
HostRepublishes ==
    /\ host.self /\ ~lost /\ Spare
    /\ \E kind \in {"protocol", "content"} : Tell(<<[kind |-> kind, good |-> FALSE]>>)
    /\ UNCHANGED <<me, up, lost, host>>

(* The connection breaks: some of what was on its way arrives.             *)
Break ==
    /\ host.greeted /\ ~lost
    /\ \E count \in 0 .. Len(down) : down' = SubSeq(down, 1, count)
    /\ lost' = TRUE /\ up' = <<>>
    /\ host' = Disconnected(host)
    /\ UNCHANGED me

-----------------------------------------------------------------------------
(* The same account in another game: a guest's is in no other.             *)

OtherSignsIn ==
    /\ host.session # "elsewhere" /\ ~me.guest
    /\ host' = [host EXCEPT !.session = "elsewhere", !.seat = NoRoom]
    /\ Tell(IF ~host.self \/ host.seat = NoRoom THEN <<>>
            ELSE <<[kind |-> "member", room |-> host.seat, gone |-> TRUE]>>)

OtherMoves ==
    /\ host.session = "elsewhere"
    /\ \E room \in Room \cup {NoRoom} : room # host.seat /\ Seat(room)

OtherSignsOut ==
    /\ host.session = "elsewhere" /\ host.seat = NoRoom
    /\ host' = [host EXCEPT !.session = "none"]
    /\ UNCHANGED down

OtherStep ==
    /\ Spare
    /\ OtherSignsIn \/ OtherMoves \/ OtherSignsOut
    /\ UNCHANGED <<me, up, lost>>

-----------------------------------------------------------------------------
Init ==
    /\ me \in [guest : BOOLEAN, shaped : BOOLEAN,
               login : {"none"}, link : {"none"}, met : {FALSE},
               status : {"signed_out"}, refused : {FALSE}, awaited : {{}}, view : {NoView},
               menu : {Screen("main", NoCourse)},
               session : {[rejoining |-> FALSE, sent |-> FALSE]},
               refusals : {{}}, out : {<<>>}]
    /\ up = <<>> /\ down = <<>> /\ lost = FALSE
    /\ host \in [session : {"none"}, seat : {NoRoom}, named : BOOLEAN,
                 greeted : {FALSE}, self : {FALSE}]

HostStep == HostAnswers \/ HostGreets \/ HostRepublishes \/ Break

Next == GameStep \/ HostStep \/ OtherStep

Spec == Init /\ [][Next]_vars

(* Frames go on, and take far less time than keys and messages, so the     *)
(* game is again and again one that a quiet frame leaves alone, having     *)
(* polled all that came; the login thread gives up in time                 *)
(* (BROWSER_TIMEOUT), and so does a connection that opens; the server      *)
(* handles what reaches it, and a break is heard of.                       *)
Rested ==
    Updated(MenuFrame(me, "none", NoCourse), "nothing", "not_yet", <<>>, FALSE, FALSE) = me
        /\ WatchRound(me) = me

Progress ==
    /\ []<>Rested /\ []<>(down = <<>>) /\ []<>(up = <<>>) /\ []<>(~lost)
    /\ []<>(me.login = "none") /\ []<>(me.link # "opening")
    /\ []<>(me.link = "open" => host.greeted)

FairSpec == Spec /\ Progress

-----------------------------------------------------------------------------
Game ==
    [guest : BOOLEAN, shaped : BOOLEAN, login : {"none", "silent", "browser", "asked"},
     link : {"none", "opening", "open"}, met : BOOLEAN, status : Status, refused : BOOLEAN,
     awaited : SUBSET Nat, view : View, menu : Menu, session : Session,
     refusals : SUBSET {"join", "claim"}, out : Seq(Call)]

Host == [session : {"none", "here", "elsewhere"}, seat : Room \cup {NoRoom},
         named : BOOLEAN, greeted : BOOLEAN, self : BOOLEAN]

(* Each part of the game, what is on its way and the server are of their   *)
(* types, and a screen that is about a course has one.                     *)
LinkTypeOK ==
    /\ me \in Game /\ me.out = <<>> /\ IsFiniteSet(me.awaited)
    /\ (me.menu.course = NoCourse) <=> (me.menu.flow \notin {"transport", "joining", "shape", "playing"})
    /\ up \in Seq(Call) /\ down \in Seq(Event) /\ lost \in BOOLEAN
    /\ host \in Host

(* What the game waits for is under way, and what it shows is this         *)
(* connection's: a status that waits has its login thread, its opening or  *)
(* its connection; nothing is shown of an account without a connection     *)
(* that met the server; a refused server has no connection left            *)
(* (net_client::handle, tick and handle_lost_connection of the bridge).    *)
ConnectionSound ==
    /\ me.status = "signing_in" => me.login \in {"silent", "browser"}
    /\ me.status = "waiting" <=> me.login = "asked"
    /\ me.status = "connecting" => me.link # "none"
    /\ me.login # "none" => me.link = "none" /\ me.status \in {"signing_in", "waiting"}
    /\ me.view # NoView => me.link = "open" /\ me.met
    /\ Connected(me) => me.view.content
    /\ me.view.room # NoRoom => me.view.account
    /\ me.refused => me.link = "none" /\ me.status = "failed"

OnItsWay(kind) == \E i \in DOMAIN down : down[i].kind = kind

Awaits(id) ==
    \/ \E i \in DOMAIN up : up[i].call = "watch_room" /\ up[i].id = id
    \/ \E i \in DOMAIN down : down[i].kind = "room" /\ down[i].id = id

(* Once no member row is on its way the game takes its account for in the  *)
(* room the server has it in, and it has that room's rows exactly when its *)
(* own subscription was answered, whatever earlier rooms' answers and      *)
(* deletes came meanwhile (handle_row, subscribe_room).                    *)
RoomsAgree ==
    SignedIn(me) /\ ~lost =>
        /\ host.self /\ ~OnItsWay("member") => me.view.room = host.seat
        /\ me.view.room # NoRoom => (me.view.ready <=> ~Awaits(me.view.sub))
        /\ me.view.ready /\ ~OnItsWay("member") /\ host.self => me.view.shown

Rejoins == me.menu.flow = "playing" /\ me.session.rejoining
Joins == me.menu.flow = "joining"
JoinUnderWay == \E i \in DOMAIN up : up[i].call = "join"

(* A round whose connection came back, and a joining screen whose call is  *)
(* under way, wait for the room only so long while the connection is the   *)
(* account's: they play, or say why not (watch_round, follow_server).      *)
WaitsEnd ==
    /\ Rejoins /\ Live ~> ~Rejoins \/ ~Live
    /\ Joins /\ JoinUnderWay /\ Live ~> ~Joins \/ ~Live

SigningIn == me.status \in {"signing_in", "waiting", "connecting"}

(* Signing in ends, well or not, however it is cancelled and begun again,  *)
(* unless the connection breaks (begin_login, cancel_login, tick).         *)
SignInEnds == SigningIn ~> ~SigningIn \/ lost

-----------------------------------------------------------------------------
(* What comments of the code say and it does not keep.                     *)

(* "Taken out of the room while connected: this account signed in          *)
(* somewhere else" (watch_round): a round whose room is lost was so.       *)
LostOnlyElsewhere == [][me'.menu.lost /\ ~me.menu.lost => ~Live]_vars

(* "the connection or the room is gone: back to the menus": a round whose  *)
(* room is gone ends (watch_round).  It does not hold: joined by its one   *)
(* rejoin and put out again unseen, it is told of no room, nor of a loss.  *)
LostRoundsEnd ==
    me.menu.flow = "playing" /\ host.seat = NoRoom
        ~> me.menu.flow # "playing" \/ host.seat # NoRoom \/ lost
=============================================================================
