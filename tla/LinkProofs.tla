----------------------------- MODULE LinkProofs -----------------------------
(***************************************************************************)
(* The connection of a game and the room it shows, proved for any courses  *)
(* and rooms, and any number of calls and answers that cross.              *)
(***************************************************************************)
EXTENDS Link, SequenceTheorems, FiniteSetTheorems, FunctionTheorems, WellFoundedInduction, TLAPS

-----------------------------------------------------------------------------
(* The invariant: of a game c within a frame, the calls it has sent, the   *)
(* events on their way of which it has heard the first `from`, and the     *)
(* server h.                                                               *)

AboutCourse(menu) == menu.flow \in {"transport", "joining", "shape", "playing"}

(* What a game's own parts say of each other.                              *)
Fine(c) ==
    /\ c.status = "signing_in" => c.login \in {"silent", "browser"}
    /\ c.status = "waiting" <=> c.login = "asked"
    /\ c.status = "connecting" => c.link # "none"
    /\ c.login # "none" => c.link = "none" /\ c.status \in {"signing_in", "waiting"}
    /\ c.view # NoView => c.link = "open" /\ c.met
    /\ c.met => c.link = "open"
    /\ c.status = "connected" => c.view.content
    /\ c.view.account => c.view.content
    /\ c.view.room # NoRoom => c.view.account
    /\ c.view.room = NoRoom <=> c.view.sub = 0
    /\ c.view.shown \/ c.view.ready => c.view.room # NoRoom
    /\ c.refused => c.link = "none" /\ c.status = "failed"

SoundGame == {c \in Game : Fine(c) /\ IsFiniteSet(c.awaited)
                           /\ (c.menu.course # NoCourse <=> AboutCourse(c.menu))}

Asks(calls, what) == \E i \in 1..Len(calls) : calls[i].call = what
Comes(events, from, kind) == \E k \in from + 1..Len(events) : events[k].kind = kind

(* Before the server is met nothing was sent, and its greeting comes first.*)
Unmet(c, calls, events, from, h) ==
    c.link = "open" /\ ~c.met =>
        /\ calls = <<>> /\ ~h.self
        /\ from < Len(events) => events[from + 1].kind = "hello"

(* The server greets once.                                                 *)
Greeted(c, events, from, h) ==
    IF c.met THEN h.greeted /\ ~Comes(events, from, "hello")
    ELSE Len(events) = from + (IF h.greeted THEN 1 ELSE 0)

(* Until it is connected one thing is asked or answered at a time; then    *)
(* only bad versions can come; and without an account nothing is seen of   *)
(* its rows.                                                               *)
Stages(c, calls, events, from, h) ==
    /\ c.met /\ ~Connected(c) /\ ~c.view.account => Len(calls) + Len(events) <= from + 1
    /\ Connected(c) \/ c.view.account =>
          /\ ~Asks(calls, "watch_protocol") /\ ~Asks(calls, "watch_content")
          /\ \A k \in from + 1..Len(events) : events[k].kind \in {"protocol", "content"} => ~events[k].good
    /\ ~c.view.account =>
          /\ ~h.self
          /\ ~Asks(calls, "watch_self") /\ ~Asks(calls, "watch_room")
          /\ ~Comes(events, from, "member") /\ ~Comes(events, from, "room")

RoomTold(event) == IF event.gone THEN NoRoom ELSE event.room

(* Shown `room` after `from` events, a game is shown `last` after k.       *)
Seen(room, events, from, k, last) ==
    \/ /\ \A i \in from + 1..k : events[i].kind # "member"
       /\ last = room
    \/ \E j \in from + 1..k :
          /\ events[j].kind = "member" /\ RoomTold(events[j]) = last
          /\ \A i \in j + 1..k : events[i].kind # "member"

(* What the game is shown ends at the server's, and only the room shown is *)
(* taken away.                                                             *)
Seated(c, events, from, h) ==
    /\ IF h.self THEN Seen(c.view.room, events, from, Len(events), h.seat)
       ELSE c.view.room = NoRoom /\ ~Comes(events, from, "member")
    /\ \A k \in from + 1..Len(events) :
          events[k].kind = "member" /\ events[k].gone => Seen(c.view.room, events, from, k - 1, events[k].room)

WatchCalls(calls) == {i \in 1..Len(calls) : calls[i].call = "watch_room"}
Answers(events, from) == {k \in from + 1..Len(events) : events[k].kind = "room"}

(* Each of the ids under way is one subscription's.                        *)
IdsApart(c, calls, events, from) ==
    /\ \A i \in WatchCalls(calls) :
          /\ calls[i].id \in c.awaited
          /\ \A j \in WatchCalls(calls) : calls[i].id = calls[j].id => i = j
    /\ \A k \in Answers(events, from) :
          /\ events[k].id \in c.awaited
          /\ \A j \in Answers(events, from) : events[k].id = events[j].id => k = j
          /\ \A i \in WatchCalls(calls) : calls[i].id # events[k].id

UnderWay(id, calls, events, from) ==
    \/ \E i \in WatchCalls(calls) : calls[i].id = id
    \/ \E k \in Answers(events, from) : events[k].id = id

(* The last subscription is of the room that is shown, ready once it is    *)
(* answered; an answer without the room is of one left before it comes.    *)
Subscribed(c, calls, events, from) ==
    /\ c.view.room # NoRoom => (c.view.ready <=> ~UnderWay(c.view.sub, calls, events, from))
    /\ c.view.ready => c.view.shown
    /\ \A i \in WatchCalls(calls) : calls[i].id = c.view.sub => calls[i].room = c.view.room
    /\ \A k \in Answers(events, from) : events[k].id = c.view.sub =>
          /\ events[k].room = c.view.room
          /\ events[k].there \/ events[k].failed
                \/ \E j \in from + 1..k - 1 : events[j].kind = "member" /\ RoomTold(events[j]) # c.view.room

Rooms(c, calls, events, from, h) ==
    SignedIn(c) =>
        /\ Seated(c, events, from, h)
        /\ IdsApart(c, calls, events, from) /\ Subscribed(c, calls, events, from)

Joined(c, calls, events, from, h) ==
    c.link = "open" =>
        /\ Greeted(c, events, from, h) /\ Stages(c, calls, events, from, h)
        /\ Rooms(c, calls, events, from, h)

TypeInv ==
    /\ me \in SoundGame /\ me.out = <<>>
    /\ up \in Seq(Call) /\ down \in Seq(Event) /\ lost \in BOOLEAN /\ host \in Host

(* Without a connection nothing is on its way.                             *)
Apart == me.link # "open" => up = <<>> /\ down = <<>> /\ ~lost /\ ~host.greeted /\ ~host.self

LinkInv ==
    /\ TypeInv /\ Apart /\ Unmet(me, up, down, 0, host)
    /\ ~lost => Joined(me, up, down, 0, host)

-----------------------------------------------------------------------------
(* The menus and the round's watch: they may close a connection; while it  *)
(* stays they leave what it showed, and send nothing of their own but      *)
(* joins, leaves and claims.                                               *)

Extends(s, t) ==
    /\ Len(s) <= Len(t) /\ \A i \in 1..Len(s) : t[i] = s[i]
    /\ \A i \in Len(s) + 1..Len(t) : t[i].call \in {"join", "leave", "claim"}

Moves(c, d) ==
    /\ d \in SoundGame
    /\ d.link = "open" => c.link = "open"
    /\ d.met => c.met
    /\ d.link = "open" =>
          /\ d.view = c.view /\ d.awaited = c.awaited /\ d.met = c.met /\ d.refused = c.refused
          /\ Connected(d) <=> Connected(c)
          /\ Extends(c.out, d.out)
          /\ ~Connected(c) => d.out = c.out

LEMMA Stays == ASSUME NEW c \in SoundGame PROVE Moves(c, c)
BY DEF Moves, Extends, SoundGame, Game

LEMMA MovesSound == ASSUME NEW c, NEW d, Moves(c, d) PROVE d \in SoundGame
BY DEF Moves

LEMMA MovesOnward ==
    ASSUME NEW c \in SoundGame, NEW d, NEW e, Moves(c, d), Moves(d, e)
    PROVE  Moves(c, e)
<1>1. ASSUME Extends(c.out, d.out), Extends(d.out, e.out) PROVE Extends(c.out, e.out)
  <2>1. c.out \in Seq(Call) /\ d.out \in Seq(Call)
    BY DEF Moves, SoundGame, Game
  <2> QED
    BY <1>1, <2>1 DEF Extends
<1> QED
    BY <1>1 DEF Moves

LEMMA Screens ==
    ASSUME NEW flow \in Flow, NEW course \in Course \cup {NoCourse},
           course # NoCourse <=> flow \in {"transport", "joining", "shape", "playing"}
    PROVE  Screen(flow, course) \in Menu /\ Screen(flow, course).course = course
           /\ (course # NoCourse <=> AboutCourse(Screen(flow, course)))
BY DEF Screen, Menu, AboutCourse

LEMMA Rescreened ==
    ASSUME NEW c \in SoundGame, NEW menu \in Menu, menu.course # NoCourse <=> AboutCourse(menu)
    PROVE  Moves(c, [c EXCEPT !.menu = menu])
<1> DEFINE d == [c EXCEPT !.menu = menu]
<1>1. c \in Game
    BY DEF SoundGame
<1>2. /\ d \in Game /\ d.menu = menu /\ d.status = c.status /\ d.login = c.login /\ d.link = c.link
      /\ d.view = c.view /\ d.met = c.met /\ d.refused = c.refused /\ d.awaited = c.awaited
      /\ d.out = c.out
    BY <1>1 DEF Game
<1> HIDE DEF d
<1>3. d \in SoundGame
    BY <1>2 DEF SoundGame, Fine
<1>4. Extends(c.out, c.out)
    BY <1>1 DEF Extends, Game
<1> QED
    BY <1>2, <1>3, <1>4 DEF Moves, Connected, d

LEMMA Opened ==
    ASSUME NEW c \in SoundGame, NEW flow \in Flow, NEW course \in Course \cup {NoCourse},
           course # NoCourse <=> flow \in {"transport", "joining", "shape", "playing"}
    PROVE  Moves(c, OpenFor(c, flow, course)) /\ OpenFor(c, flow, course).menu.course = course
<1>1. Screen(flow, course) \in Menu /\ Screen(flow, course).course = course
      /\ (course # NoCourse <=> AboutCourse(Screen(flow, course)))
    BY Screens
<1> DEFINE menu == Screen(flow, course)
<1>2. menu.course # NoCourse <=> AboutCourse(menu)
    BY <1>1
<1> HIDE DEF menu
<1>3. menu \in Menu
    BY <1>1 DEF menu
<1>4. Moves(c, [c EXCEPT !.menu = menu])
    BY <1>2, <1>3, Rescreened
<1>5. [c EXCEPT !.menu = menu].menu = menu
    BY DEF SoundGame, Game
<1> QED
    BY <1>1, <1>4, <1>5 DEF menu, OpenFor

LEMMA Menued ==
    ASSUME NEW c \in SoundGame, NEW flow \in {"main", "login", "name", "picker"}
    PROVE  Moves(c, Open(c, flow))
<1>1. flow \in Flow /\ ~(flow \in {"transport", "joining", "shape", "playing"})
    BY DEF Flow
<1>2. Moves(c, OpenFor(c, flow, NoCourse))
    BY <1>1, Opened
<1> QED
    BY <1>2 DEF Open, OpenFor

LEMMA Sent ==
    ASSUME NEW c \in SoundGame, NEW call \in Call,
           call.call \in {"join", "leave", "claim"}, Connected(c)
    PROVE  Moves(c, Send(c, call)) /\ Send(c, call).menu = c.menu
<1> DEFINE out == Append(c.out, call)
           d == [c EXCEPT !.out = out]
<1>1. c \in Game /\ c.out \in Seq(Call)
    BY DEF SoundGame, Game
<1>2. out \in Seq(Call) /\ Extends(c.out, out)
    BY <1>1 DEF Extends
<1> HIDE DEF out
<1>3. /\ d \in Game /\ d.menu = c.menu /\ d.status = c.status /\ d.login = c.login /\ d.link = c.link
      /\ d.view = c.view /\ d.met = c.met /\ d.refused = c.refused /\ d.awaited = c.awaited
      /\ d.out = out
    BY <1>1, <1>2 DEF Game
<1>4. Send(c, call) = d
    BY DEF Send, out
<1> HIDE DEF d
<1>5. d \in SoundGame
    BY <1>3 DEF SoundGame, Fine
<1> QED
    BY <1>2, <1>3, <1>4, <1>5 DEF Moves, Connected

LEMMA Calls ==
    /\ \A course \in Course : [call |-> "join", course |-> course] \in Call
    /\ [call |-> "leave"] \in Call /\ [call |-> "claim"] \in Call
BY DEF Call

LEMMA Called ==
    ASSUME NEW c \in SoundGame
    PROVE  /\ \A course \in Course : Moves(c, JoinCourse(c, course)) /\ JoinCourse(c, course).menu = c.menu
           /\ Moves(c, LeaveRoom(c)) /\ LeaveRoom(c).menu = c.menu
           /\ Moves(c, ClaimName(c)) /\ ClaimName(c).menu = c.menu
<1>1. Moves(c, c)
    BY Stays
<1>2. ASSUME NEW course \in Course, Connected(c)
      PROVE  LET call == [call |-> "join", course |-> course]
             IN  Moves(c, Send(c, call)) /\ Send(c, call).menu = c.menu
  <2> DEFINE call == [call |-> "join", course |-> course]
  <2>1. call \in Call /\ call.call \in {"join", "leave", "claim"}
    BY Calls
  <2> HIDE DEF call
  <2> QED
    BY <1>2, <2>1, Sent DEF call
<1>3. ASSUME NEW what \in {"leave", "claim"}, Connected(c)
      PROVE  Moves(c, Send(c, [call |-> what])) /\ Send(c, [call |-> what]).menu = c.menu
  <2> DEFINE call == [call |-> what]
  <2>1. call \in Call /\ call.call \in {"join", "leave", "claim"}
    BY Calls
  <2> HIDE DEF call
  <2> QED
    BY <1>3, <2>1, Sent DEF call
<1> QED
    BY <1>1, <1>2, <1>3 DEF JoinCourse, LeaveRoom, ClaimName, Connected

LEMMA SessionSet ==
    ASSUME NEW c \in SoundGame, NEW session \in Session
    PROVE  Moves(c, [c EXCEPT !.session = session]) /\ [c EXCEPT !.session = session].menu = c.menu
<1> DEFINE d == [c EXCEPT !.session = session]
<1>1. c \in Game
    BY DEF SoundGame
<1>2. /\ d \in Game /\ d.menu = c.menu /\ d.status = c.status /\ d.login = c.login /\ d.link = c.link
      /\ d.view = c.view /\ d.met = c.met /\ d.refused = c.refused /\ d.awaited = c.awaited
      /\ d.out = c.out
    BY <1>1 DEF Game
<1> HIDE DEF d
<1>3. d \in SoundGame
    BY <1>2 DEF SoundGame, Fine
<1>4. Extends(c.out, c.out)
    BY <1>1 DEF Extends, Game
<1> QED
    BY <1>2, <1>3, <1>4 DEF Moves, Connected, d

LEMMA Rejoining ==
    ASSUME NEW c \in SoundGame, NEW is \in BOOLEAN
    PROVE  LET rejoins == [c EXCEPT !.session.rejoining = is]
               sends == [c EXCEPT !.session.sent = is]
           IN  /\ Moves(c, rejoins) /\ rejoins.menu = c.menu
               /\ Moves(c, sends) /\ sends.menu = c.menu
<1>1. c \in Game /\ c.session \in Session
    BY DEF SoundGame, Game
<1> DEFINE s1 == [c.session EXCEPT !.rejoining = is]
           s2 == [c.session EXCEPT !.sent = is]
<1>2. s1 \in Session /\ s2 \in Session
    BY <1>1 DEF Session
<1>3. [c EXCEPT !.session.rejoining = is] = [c EXCEPT !.session = s1]
    BY <1>1 DEF Game
<1>4. [c EXCEPT !.session.sent = is] = [c EXCEPT !.session = s2]
    BY <1>1 DEF Game
<1> HIDE DEF s1, s2
<1> QED
    BY <1>2, <1>3, <1>4, SessionSet

LEMMA Shaped ==
    ASSUME NEW c \in SoundGame, NEW is \in BOOLEAN
    PROVE  Moves(c, [c EXCEPT !.shaped = is]) /\ [c EXCEPT !.shaped = is].menu = c.menu
<1> DEFINE d == [c EXCEPT !.shaped = is]
<1>1. c \in Game
    BY DEF SoundGame
<1>2. /\ d \in Game /\ d.menu = c.menu /\ d.status = c.status /\ d.login = c.login /\ d.link = c.link
      /\ d.view = c.view /\ d.met = c.met /\ d.refused = c.refused /\ d.awaited = c.awaited
      /\ d.out = c.out
    BY <1>1 DEF Game
<1> HIDE DEF d
<1>3. d \in SoundGame
    BY <1>2 DEF SoundGame, Fine
<1>4. Extends(c.out, c.out)
    BY <1>1 DEF Extends, Game
<1> QED
    BY <1>2, <1>3, <1>4 DEF Moves, Connected, d

(* What a game's connection becomes without one that is open.              *)
LEMMA Disconnects ==
    ASSUME NEW c \in SoundGame, NEW d \in Game, d.link # "open", d.met => c.met,
           d.menu = c.menu, d.awaited = c.awaited, Fine(d)
    PROVE  Moves(c, d)
BY DEF Moves, SoundGame

LEMMA LoginBegun ==
    ASSUME NEW c \in SoundGame, NEW silent \in BOOLEAN, Idle(c)
    PROVE  Moves(c, BeginLogin(c, silent))
<1>1. CASE c.login # "none" \/ c.link # "none"
    BY <1>1, Stays DEF BeginLogin
<1>2. CASE c.login = "none" /\ c.link = "none"
  <2>1. c \in Game /\ c.view = NoView /\ ~c.met
    BY <1>2 DEF SoundGame, Fine
  <2> DEFINE no == FALSE
             connecting == "connecting"
             opening == "opening"
             signing == "signing_in"
             login == IF silent THEN "silent" ELSE "browser"
             d == [c EXCEPT !.refused = no, !.status = connecting, !.link = opening]
             e == [c EXCEPT !.refused = no, !.status = signing, !.login = login]
  <2>3. /\ connecting \in Status /\ signing \in Status /\ login \in {"silent", "browser"}
        /\ no \in BOOLEAN /\ opening \in {"none", "opening", "open"}
    BY DEF Status
  <2>4. BeginLogin(c, silent) = IF c.guest THEN d ELSE e
    BY <1>2 DEF BeginLogin
  <2>5. connecting = "connecting" /\ opening = "opening" /\ signing = "signing_in" /\ ~no
    OBVIOUS
  <2> HIDE DEF no, connecting, opening, signing, login
  <2>6. Moves(c, d)
    <3>1. /\ d \in Game /\ d.menu = c.menu /\ d.awaited = c.awaited /\ d.met = c.met
          /\ d.view = c.view /\ d.login = c.login /\ d.status = connecting /\ d.link = opening
          /\ d.refused = no
      BY <2>1, <2>3 DEF Game
    <3> HIDE DEF d
    <3>2. Fine(d)
      BY <3>1, <1>2, <2>1, <2>5 DEF SoundGame, Fine, NoView
    <3> QED
      BY <3>1, <3>2, <2>5, Disconnects
  <2>7. Moves(c, e)
    <3>1. /\ e \in Game /\ e.menu = c.menu /\ e.awaited = c.awaited /\ e.met = c.met
          /\ e.view = c.view /\ e.login = login /\ e.status = signing /\ e.link = c.link
          /\ e.refused = no
      BY <2>1, <2>3 DEF Game
    <3> HIDE DEF e
    <3>2. Fine(e)
      BY <3>1, <2>3, <2>5, <1>2, <2>1 DEF SoundGame, Fine, NoView
    <3> QED
      BY <3>1, <3>2, <1>2, Disconnects
  <2> QED
    BY <2>4, <2>6, <2>7
<1> QED
    BY <1>1, <1>2 DEF SoundGame, Game

LEMMA LoginCancelled ==
    ASSUME NEW c \in SoundGame, ~Connected(c), ~Idle(c)
    PROVE  Moves(c, CancelLogin(c)) /\ CancelLogin(c).menu = c.menu
<1> DEFINE link == IF c.link = "opening" THEN "none" ELSE c.link
           none == "none"
           out == "signed_out"
           d == [c EXCEPT !.login = none, !.link = link, !.status = out]
<1>1. c \in Game /\ link \in {"none", "opening", "open"} /\ out \in Status
      /\ none \in {"none", "silent", "browser", "asked"}
    BY DEF SoundGame, Game, Status
<1>2. CancelLogin(c) = d
    BY <1>1 DEF CancelLogin, Connected
<1>3. (link = "open" <=> c.link = "open") /\ none = "none" /\ out = "signed_out"
    OBVIOUS
<1> HIDE DEF link, none, out
<1>4. /\ d \in Game /\ d.menu = c.menu /\ d.awaited = c.awaited /\ d.met = c.met
      /\ d.view = c.view /\ d.login = none /\ d.status = out /\ d.link = link
      /\ d.refused = c.refused /\ d.out = c.out
    BY <1>1 DEF Game
<1> HIDE DEF d
<1>5. ~c.refused
    BY DEF SoundGame, Fine, Idle
<1>6. Fine(d)
    BY <1>3, <1>4, <1>5 DEF SoundGame, Fine, Connected
<1>7. d \in SoundGame
    BY <1>4, <1>6 DEF SoundGame
<1>8. Extends(c.out, c.out)
    BY <1>1 DEF Extends, Game
<1> QED
    BY <1>2, <1>3, <1>4, <1>7, <1>8 DEF Moves, Connected

(* A connection closed, with what it showed or not.                        *)
LEMMA ClosedOff ==
    ASSUME NEW c \in SoundGame
    PROVE  LET gone == Closed(c)
           IN  /\ gone \in Game /\ gone.menu = c.menu /\ gone.login = "none" /\ gone.link = "none"
               /\ ~gone.met /\ gone.awaited = {} /\ gone.view = c.view /\ gone.status = c.status
               /\ gone.refused = c.refused
<1> DEFINE none == "none"
           no == FALSE
           calls == <<>>
           d == [c EXCEPT !.login = none, !.link = none, !.met = no, !.awaited = {}, !.out = calls]
<1>1. /\ c \in Game /\ none \in {"none", "silent", "browser", "asked"} /\ no \in BOOLEAN
      /\ none \in {"none", "opening", "open"} /\ calls \in Seq(Call)
    BY DEF SoundGame
<1>2. Closed(c) = d
    BY DEF Closed
<1> HIDE DEF none, no, calls
<1>3. /\ d \in Game /\ d.menu = c.menu /\ d.login = none /\ d.link = none
      /\ d.met = no /\ d.awaited = {} /\ d.view = c.view /\ d.status = c.status
      /\ d.refused = c.refused
    BY <1>1 DEF Game
<1> QED
    BY <1>2, <1>3 DEF none, no

LEMMA NoViewIsView == NoView \in View /\ NoView.room = NoRoom /\ NoView.sub = 0
                      /\ ~NoView.content /\ ~NoView.account /\ ~NoView.shown /\ ~NoView.ready
<1> DEFINE no == FALSE
           v == [protocol |-> no, content |-> no, account |-> no, named |-> no,
                 room |-> NoRoom, sub |-> 0, shown |-> no, ready |-> no]
<1>1. no \in BOOLEAN /\ NoView = v /\ ~no
    BY DEF NoView
<1> HIDE DEF no
<1> QED
    BY <1>1 DEF View

LEMMA Forgets ==
    ASSUME NEW c \in SoundGame
    PROVE  LET gone == ForgetSession(Closed(c))
           IN  /\ gone \in Game /\ gone.menu = c.menu /\ gone.login = "none" /\ gone.link = "none"
               /\ ~gone.met /\ gone.awaited = {} /\ gone.view = NoView /\ gone.refused = c.refused
<1> DEFINE gone == Closed(c)
           g == [gone EXCEPT !.view = NoView]
<1>1. /\ gone \in Game /\ gone.menu = c.menu /\ gone.login = "none" /\ gone.link = "none"
      /\ ~gone.met /\ gone.awaited = {} /\ gone.refused = c.refused
    BY ClosedOff
<1> HIDE DEF gone
<1>2. /\ g \in Game /\ g.menu = c.menu /\ g.login = "none" /\ g.link = "none"
      /\ ~g.met /\ g.awaited = {} /\ g.view = NoView /\ g.refused = c.refused
    BY <1>1, NoViewIsView DEF Game
<1> QED
    BY <1>2 DEF ForgetSession, gone

(* What a game is that closed its connection and forgot it.                *)
LEMMA Forgotten ==
    ASSUME NEW c \in SoundGame, NEW d \in Game,
           d.menu = c.menu, d.link = "none", ~d.met, d.awaited = {}, d.view = NoView,
           d.status \in {"signed_out", "failed", "signing_in"},
           d.login = IF d.status = "signing_in" THEN "silent" ELSE "none",
           d.refused => d.status = "failed"
    PROVE  Moves(c, d)
<1>1. Fine(d)
    BY NoViewIsView DEF Fine
<1>2. IsFiniteSet(d.awaited)
    BY FS_EmptySet
<1>3. d \in SoundGame
    BY <1>1, <1>2 DEF SoundGame
<1> QED
    BY <1>3 DEF Moves

LEMMA SignedOut ==
    ASSUME NEW c \in SoundGame, ~c.refused
    PROVE  Moves(c, SignOut(c))
<1> DEFINE gone == ForgetSession(Closed(c))
           status == "signed_out"
           d == [gone EXCEPT !.status = status]
<1>1. status \in Status /\ status = "signed_out"
    BY DEF Status
<1>2. /\ gone \in Game /\ gone.menu = c.menu /\ gone.login = "none" /\ gone.link = "none"
      /\ ~gone.met /\ gone.awaited = {} /\ gone.view = NoView /\ gone.refused = c.refused
    BY Forgets
<1>3. SignOut(c) = d
    BY DEF SignOut
<1> HIDE DEF gone, status
<1>4. /\ d \in Game /\ d.menu = c.menu /\ d.login = "none" /\ d.link = "none" /\ d.status = status
      /\ ~d.met /\ d.awaited = {} /\ d.view = NoView /\ ~d.refused
    BY <1>1, <1>2 DEF Game
<1> HIDE DEF d
<1>5. Moves(c, d)
    BY <1>1, <1>4, Forgotten
<1> QED
    BY <1>3, <1>5

LEMMA Marked ==
    ASSUME NEW c \in SoundGame, NEW asked \in BOOLEAN, NEW lostIt \in BOOLEAN
    PROVE  LET asks == [c EXCEPT !.menu.asked = asked]
               loses == [c EXCEPT !.menu.lost = lostIt]
               both == [c EXCEPT !.menu.asked = asked, !.menu.lost = lostIt]
           IN  /\ Moves(c, asks) /\ asks.menu.flow = c.menu.flow
               /\ Moves(c, loses) /\ Moves(c, both)
<1>1. c \in Game /\ c.menu \in Menu /\ (c.menu.course # NoCourse <=> AboutCourse(c.menu))
    BY DEF SoundGame, Game
<1> DEFINE m1 == [c.menu EXCEPT !.asked = asked]
           m2 == [c.menu EXCEPT !.lost = lostIt]
           m3 == [c.menu EXCEPT !.asked = asked, !.lost = lostIt]
<1>2. /\ m1 \in Menu /\ m1.flow = c.menu.flow /\ m1.course = c.menu.course
      /\ m2 \in Menu /\ m2.flow = c.menu.flow /\ m2.course = c.menu.course
      /\ m3 \in Menu /\ m3.flow = c.menu.flow /\ m3.course = c.menu.course
    BY <1>1 DEF Menu
<1>3. /\ [c EXCEPT !.menu.asked = asked] = [c EXCEPT !.menu = m1]
      /\ [c EXCEPT !.menu.lost = lostIt] = [c EXCEPT !.menu = m2]
      /\ [c EXCEPT !.menu.asked = asked, !.menu.lost = lostIt] = [c EXCEPT !.menu = m3]
      /\ [c EXCEPT !.menu = m1].menu = m1
    BY <1>1 DEF Game, Menu
<1> HIDE DEF m1, m2, m3
<1>4. /\ m1.course # NoCourse <=> AboutCourse(m1)
      /\ m2.course # NoCourse <=> AboutCourse(m2)
      /\ m3.course # NoCourse <=> AboutCourse(m3)
    BY <1>1, <1>2 DEF AboutCourse
<1> QED
    BY <1>2, <1>3, <1>4, Rescreened

LEMMA CourseStarted ==
    ASSUME NEW c \in SoundGame, NEW course \in Course
    PROVE  Moves(c, StartCourse(c, course)) /\ Moves(c, BeginCourse(c, course))
           /\ Moves(c, PickTransport(c, course))
<1>1. course \in Course \cup {NoCourse} /\ course # NoCourse
    BY NetAssumption
<1>2. \A d \in SoundGame, flow \in {"transport", "joining", "shape", "playing"} :
          Moves(d, OpenFor(d, flow, course))
    BY <1>1, Opened DEF Flow
<1>3. Moves(c, StartCourse(c, course))
    BY <1>2 DEF StartCourse
<1>4. Moves(c, BeginCourse(c, course))
  <2> DEFINE d == JoinCourse(c, course)
  <2>1. Moves(c, d)
    BY Called
  <2>2. Moves(d, OpenFor(d, "joining", course))
    BY <1>2, <2>1, MovesSound
  <2> QED
    BY <2>1, <2>2, MovesOnward DEF BeginCourse
<1> QED
    BY <1>2, <1>3, <1>4 DEF PickTransport

LEMMA PlayOnlineOpened == ASSUME NEW c \in SoundGame PROVE Moves(c, OpenPlayOnline(c))
<1>1. \A flow \in {"login", "picker"} : Moves(c, Open(c, flow))
    BY Menued
<1> DEFINE d == Open(c, "login")
<1>2. Moves(c, d) /\ d \in SoundGame
    BY <1>1, MovesSound
<1>3. Idle(d) <=> Idle(c)
    BY DEF Open, Idle, SoundGame, Game
<1> HIDE DEF d
<1>4. ASSUME Idle(c) PROVE Moves(c, BeginLogin(d, TRUE))
    BY <1>2, <1>3, <1>4, LoginBegun, MovesOnward
<1> QED
    BY <1>1, <1>2, <1>4 DEF OpenPlayOnline, d

LEMMA LeftToMain == ASSUME NEW c \in SoundGame PROVE Moves(c, LeaveToMain(c))
<1> DEFINE d == IF Idle(c) \/ Connected(c) THEN c ELSE CancelLogin(c)
<1>1. Moves(c, d)
    BY Stays, LoginCancelled
<1> HIDE DEF d
<1>2. Moves(d, Open(d, "main"))
    BY <1>1, MovesSound, Menued
<1> QED
    BY <1>1, <1>2, MovesOnward DEF LeaveToMain, ToMain, d

LEMMA ReturnedToMenu ==
    ASSUME NEW c \in SoundGame
    PROVE  Moves(c, ReturnToMenu(c)) /\ Moves(c, RoomLost(c)) /\ Moves(c, Open(ReturnToMenu(c), "login"))
<1> DEFINE d == LeaveRoom(c)
           no == FALSE
           yes == TRUE
           e == [d EXCEPT !.session.rejoining = no]
           f == Open(e, "main")
<1>1. Moves(c, d) /\ no \in BOOLEAN /\ yes \in BOOLEAN
    BY Called
<1>2. f = ReturnToMenu(c) /\ RoomLost(c) = [f EXCEPT !.menu.lost = yes]
    BY DEF ReturnToMenu, RoomLost, ToMain
<1> HIDE DEF d, no, yes
<1>3. Moves(d, e)
    BY <1>1, MovesSound, Rejoining
<1> HIDE DEF e
<1>4. Moves(e, f)
    BY <1>3, MovesSound, Menued
<1>5. Moves(c, f)
    BY <1>1, <1>3, <1>4, MovesOnward
<1> HIDE DEF f
<1>6. Moves(f, [f EXCEPT !.menu.lost = yes]) /\ Moves(f, Open(f, "login"))
    BY <1>1, <1>5, Marked, MovesSound, Menued
<1> QED
    BY <1>2, <1>5, <1>6, MovesOnward

LEMMA RefusalsTold ==
    ASSUME NEW c \in SoundGame, c.menu.flow \in OnlineFlow
    PROVE  Moves(c, Refusals(c)) /\ Refusals(c).menu.flow \in OnlineFlow
<1> DEFINE no == FALSE
           asks == [c EXCEPT !.menu.asked = no]
<1>1. no \in BOOLEAN
    OBVIOUS
<1>2. Refusals(c) \in {Open(c, "picker"), asks, c}
    BY DEF Refusals
<1> HIDE DEF no
<1>3. Moves(c, asks) /\ asks.menu.flow = c.menu.flow
    BY <1>1, Marked
<1>4. Moves(c, Open(c, "picker")) /\ Open(c, "picker").menu.flow = "picker"
    BY Menued DEF Open, Screen, SoundGame, Game
<1> HIDE DEF asks
<1> QED
    BY <1>2, <1>3, <1>4, Stays DEF OnlineFlow

LEMMA OnlineKeyed ==
    ASSUME NEW c \in SoundGame, NEW key \in Key, NEW course, key # "none" => course \in Course,
           c.menu.flow \in OnlineFlow
    PROVE  Moves(c, OnlineKey(c, key, course))
<1>1. Moves(c, c)
    BY Stays
<1>2. \A flow \in {"main", "picker"} : Moves(c, Open(c, flow))
    BY Menued
<1>3. Moves(c, LoginKey(c, key))
    BY <1>1, LeftToMain, LoginBegun DEF LoginKey
<1>4. Moves(c, NameKey(c, key))
  <2> DEFINE d == ClaimName(c)
             yes == TRUE
             no == FALSE
             e == [d EXCEPT !.menu.asked = yes, !.menu.lost = no]
  <2>1. Moves(c, d) /\ yes \in BOOLEAN /\ no \in BOOLEAN
    BY Called
  <2>2. NameKey(c, key) \in {Open(c, "main"), e, c}
    BY DEF NameKey, ToMain
  <2> HIDE DEF d, yes, no
  <2>3. Moves(d, e)
    BY <2>1, MovesSound, Marked
  <2> HIDE DEF e
  <2> QED
    BY <1>1, <1>2, <2>1, <2>2, <2>3, MovesOnward
<1>5. Moves(c, PickerKey(c, key, course))
    BY <1>1, <1>2, CourseStarted DEF PickerKey, ToMain
<1>6. Moves(c, JoiningKey(c, key))
  <2> DEFINE d == LeaveRoom(c)
  <2>1. Moves(c, d)
    BY Called
  <2> HIDE DEF d
  <2>2. Moves(c, Open(d, "picker"))
    BY <2>1, MovesSound, Menued, MovesOnward
  <2> QED
    BY <1>1, <2>2 DEF JoiningKey, d
<1> QED
    BY <1>3, <1>4, <1>5, <1>6 DEF OnlineKey, OnlineFlow

LEMMA OnlineMenued ==
    ASSUME NEW c \in SoundGame, NEW key \in Key, NEW course, key # "none" => course \in Course,
           c.menu.flow \in OnlineFlow
    PROVE  Moves(c, OnlineMenu(c, key, course))
<1>1. CASE MovesOn(c)
  <2>1. \A flow \in {"login", "picker", "name"} : Moves(c, Open(c, flow))
    BY Menued
  <2> QED
    BY <1>1, <2>1 DEF OnlineMenu, MovedOn, OpenSignedIn
<1>2. CASE ~MovesOn(c)
  <2> DEFINE d == Refusals(c)
             heard == OnlineKey(d, key, course)
  <2>1. Moves(c, d) /\ d.menu.flow \in OnlineFlow
    BY RefusalsTold
  <2> HIDE DEF d
  <2>2. Moves(c, heard)
    BY <2>1, MovesSound, OnlineKeyed, MovesOnward
  <2> HIDE DEF heard
  <2>3. ASSUME c.menu.flow = "joining" PROVE Moves(c, StartCourse(heard, c.menu.course))
    <3>1. c.menu.course \in Course
      BY <2>3 DEF SoundGame, AboutCourse, Game, Menu
    <3> QED
      BY <2>2, <3>1, MovesSound, CourseStarted, MovesOnward
  <2> QED
    BY <1>2, <2>2, <2>3 DEF OnlineMenu, heard, d
<1> QED
    BY <1>1, <1>2

LEMMA MenuFramed ==
    ASSUME NEW c \in SoundGame, NEW key \in Key, NEW course, key # "none" => course \in Course
    PROVE  Moves(c, MenuFrame(c, key, course))
<1>1. Moves(c, c) /\ c.menu \in Menu
    BY Stays DEF SoundGame, Game
<1>2. CASE c.menu.flow \in OnlineFlow
    BY <1>2, OnlineMenued DEF MenuFrame, OnlineFlow
<1>3. CASE c.menu.flow = "main"
  <2>1. SignedIn(c) => Moves(c, SignOut(c))
    BY SignedOut DEF SignedIn, Connected, SoundGame, Fine
  <2>2. Moves(c, MainKey(c, key))
    BY <1>1, <2>1, PlayOnlineOpened DEF MainKey
  <2> QED
    BY <1>3, <2>2 DEF MenuFrame, OnlineFlow
<1>4. CASE c.menu.flow = "transport"
  <2>1. c.menu.course \in Course
    BY <1>4 DEF SoundGame, AboutCourse, Game, Menu
  <2>2. Moves(c, Open(c, "picker"))
    BY Menued
  <2>3. Moves(c, TransportKey(c, key))
    BY <1>1, <2>1, <2>2, CourseStarted DEF TransportKey
  <2> QED
    BY <1>4, <2>3 DEF MenuFrame, OnlineFlow
<1>5. CASE c.menu.flow = "shape"
  <2>1. c.menu.course \in Course
    BY <1>5 DEF SoundGame, AboutCourse, Game, Menu
  <2> DEFINE yes == TRUE
             d == [c EXCEPT !.shaped = yes]
  <2>2. yes \in BOOLEAN /\ ShapeKey(c, key) \in {StartCourse(d, c.menu.course), c}
    BY DEF ShapeKey
  <2> HIDE DEF yes
  <2>3. Moves(c, d)
    BY <2>2, Shaped
  <2> HIDE DEF d
  <2>4. Moves(c, StartCourse(d, c.menu.course))
    BY <2>1, <2>3, MovesSound, CourseStarted, MovesOnward
  <2> QED
    BY <1>1, <1>5, <2>2, <2>4 DEF MenuFrame, OnlineFlow
<1>6. CASE c.menu.flow = "playing"
    BY <1>1, <1>6, ReturnedToMenu DEF MenuFrame, OnlineFlow, RoundKey
<1> QED
    BY <1>1, <1>2, <1>3, <1>4, <1>5, <1>6 DEF Menu, Flow, OnlineFlow

LEMMA RoundWatched == ASSUME NEW c \in SoundGame PROVE Moves(c, WatchRound(c))
<1>1. Moves(c, c)
    BY Stays
<1>2. CASE c.menu.flow # "playing"
  <2>1. WatchRound(c) = c
    BY <1>2 DEF WatchRound
  <2> QED
    BY <1>1, <2>1
<1>3. CASE c.menu.flow = "playing"
  <2>1. Moves(c, RoomLost(c)) /\ Moves(c, Open(ReturnToMenu(c), "login"))
    BY ReturnedToMenu
  <2> DEFINE yes == TRUE
             no == FALSE
             session == [rejoining |-> yes, sent |-> no]
             rejoins == [c EXCEPT !.session = session]
             stops == [c EXCEPT !.session.rejoining = no]
             d == JoinCourse(c, c.menu.course)
             sends == [d EXCEPT !.session.sent = yes]
  <2>2. yes \in BOOLEAN /\ no \in BOOLEAN
    OBVIOUS
  <2>3. c.menu.course \in Course
    BY <1>3 DEF SoundGame, AboutCourse, Game, Menu
  <2>4. Moves(c, d)
    BY <2>3, Called
  <2>5. WatchRound(c) \in {Open(ReturnToMenu(c), "login"), rejoins, RoomLost(c), stops, c, sends}
    BY <1>3 DEF WatchRound, WatchRejoin, Rejoin
  <2> HIDE DEF yes, no, d
  <2>6. session \in Session
    BY <2>2 DEF Session
  <2> HIDE DEF session
  <2>7. Moves(c, rejoins)
    BY <2>6, SessionSet
  <2>8. Moves(c, stops)
    BY <2>2, Rejoining
  <2>9. Moves(d, sends)
    BY <2>2, <2>4, MovesSound, Rejoining
  <2> HIDE DEF rejoins, stops, sends
  <2>10. Moves(c, sends)
    BY <2>4, <2>9, MovesOnward
  <2> QED
    BY <1>1, <2>1, <2>5, <2>7, <2>8, <2>10
<1> QED
    BY <1>2, <1>3

-----------------------------------------------------------------------------
(* The handlers, of a game whose connection is open.                       *)

LEMMA Events ==
    ASSUME NEW e \in Event
    PROVE  /\ e.kind \in {"hello", "protocol", "content", "account", "member", "room", "refused"}
           /\ e.kind \in {"protocol", "content"} => e.good \in BOOLEAN
           /\ e.kind = "account" => e.named \in BOOLEAN
           /\ e.kind = "member" => e.room \in Room /\ e.gone \in BOOLEAN
           /\ e.kind = "room" =>
                 /\ e.id \in Nat /\ e.id # 0 /\ e.room \in Room
                 /\ e.there \in BOOLEAN /\ e.failed \in BOOLEAN
           /\ e.kind = "refused" => e.call \in {"join", "claim"}
BY DEF Event

FineView(view) ==
    /\ view.account => view.content
    /\ view.room # NoRoom => view.account
    /\ view.room = NoRoom <=> view.sub = 0
    /\ view.shown \/ view.ready => view.room # NoRoom

OpenStatus == {"signed_out", "connecting", "connected", "failed"}

LEMMA OpenIs ==
    ASSUME NEW c \in SoundGame, c.link = "open"
    PROVE  /\ c \in Game /\ c.status \in OpenStatus /\ c.login = "none" /\ ~c.refused
           /\ FineView(c.view) /\ c.view \in View /\ c.out \in Seq(Call)
           /\ c.awaited \in SUBSET Nat /\ IsFiniteSet(c.awaited)
<1>1. c \in Game /\ Fine(c) /\ IsFiniteSet(c.awaited)
    BY DEF SoundGame
<1>2. c.status \in Status /\ c.view \in View /\ c.out \in Seq(Call) /\ c.awaited \in SUBSET Nat
      /\ c.login \in {"none", "silent", "browser", "asked"}
    BY <1>1 DEF Game
<1>3. c.login = "none" /\ ~c.refused /\ FineView(c.view)
    BY <1>1, <1>2 DEF Fine, FineView
<1>4. c.status \in OpenStatus
    BY <1>1, <1>2, <1>3 DEF Fine, Status, OpenStatus
<1> QED
    BY <1>1, <1>2, <1>3, <1>4

With(c, status, awaited, view, out) ==
    [c EXCEPT !.status = status, !.awaited = awaited, !.view = view, !.out = out]

LEMMA WithKeeps ==
    ASSUME NEW c \in SoundGame, c.link = "open", c.met,
           NEW status \in OpenStatus, NEW awaited \in SUBSET Nat, IsFiniteSet(awaited),
           NEW view \in View, FineView(view), status = "connected" => view.content,
           NEW out \in Seq(Call)
    PROVE  LET d == With(c, status, awaited, view, out)
           IN  /\ d \in SoundGame /\ d.link = "open" /\ d.met /\ d.status = status
               /\ d.awaited = awaited /\ d.view = view /\ d.out = out
<1> DEFINE d == With(c, status, awaited, view, out)
<1>1. c \in Game /\ c.login = "none" /\ ~c.refused
    BY OpenIs
<1>2. status \in Status
    BY DEF OpenStatus, Status
<1>3. /\ d \in Game /\ d.link = c.link /\ d.login = c.login /\ d.refused = c.refused
      /\ d.menu = c.menu /\ d.met = c.met /\ d.status = status
      /\ d.awaited = awaited /\ d.view = view /\ d.out = out
    BY <1>1, <1>2 DEF Game, With
<1> HIDE DEF d
<1>4. Fine(d)
    BY <1>1, <1>3 DEF Fine, FineView, OpenStatus
<1>5. d \in SoundGame
    BY <1>3, <1>4 DEF SoundGame
<1> QED
    BY <1>3, <1>5 DEF d

(* Refused, a game has no connection and hears nothing more.               *)
TurnedAway(d) == d \in SoundGame /\ d.link = "none" /\ d.refused

LEMMA ServerRefused == ASSUME NEW c \in SoundGame PROVE TurnedAway(RefuseServer(c))
<1> DEFINE gone == ForgetSession(Closed(c))
           status == "failed"
           yes == TRUE
           d == [gone EXCEPT !.refused = yes, !.status = status]
<1>1. status \in Status /\ status = "failed" /\ yes \in BOOLEAN /\ yes
    BY DEF Status
<1>2. /\ gone \in Game /\ gone.menu = c.menu /\ gone.login = "none" /\ gone.link = "none"
      /\ ~gone.met /\ gone.awaited = {} /\ gone.view = NoView
    BY Forgets
<1>3. RefuseServer(c) = d
    BY DEF RefuseServer
<1> HIDE DEF gone, status, yes
<1>4. /\ d \in Game /\ d.menu = c.menu /\ d.login = "none" /\ d.link = "none" /\ d.status = status
      /\ ~d.met /\ d.awaited = {} /\ d.view = NoView /\ d.refused = yes
    BY <1>1, <1>2 DEF Game
<1> HIDE DEF d
<1>5. Moves(c, d)
    BY <1>1, <1>4, Forgotten
<1> QED
    BY <1>1, <1>3, <1>4, <1>5, MovesSound DEF TurnedAway

(* What the invariant looks at is left as it is.                           *)
Alike(c, d) ==
    /\ d \in SoundGame /\ d.link = c.link /\ d.met = c.met /\ d.status = c.status
    /\ d.view.account = c.view.account /\ d.view.room = c.view.room /\ d.view.sub = c.view.sub
    /\ d.view.shown = c.view.shown /\ d.view.ready = c.view.ready
    /\ d.awaited = c.awaited /\ d.out = c.out

LEMMA Untouched == ASSUME NEW c \in SoundGame PROVE Alike(c, c)
BY DEF Alike

LEMMA HelloHandled ==
    ASSUME NEW c \in SoundGame, c.link = "open", NEW e \in Event, e.kind = "hello"
    PROVE  LET d == Handle(c, e)
           IN  /\ d \in SoundGame /\ d.link = "open" /\ d.met
               /\ ~Connected(d) /\ ~d.view.account
               /\ d.out = Append(c.out, [call |-> "watch_protocol"])
<1> DEFINE yes == TRUE
           meets == [c EXCEPT !.met = yes]
           status == "connecting"
           view == [NoView EXCEPT !.protocol = yes]
           call == [call |-> "watch_protocol"]
           out == Append(c.out, call)
           d == With(meets, status, c.awaited, view, out)
<1>1. /\ c \in Game /\ c.awaited \in SUBSET Nat /\ IsFiniteSet(c.awaited)
      /\ c.out \in Seq(Call) /\ ~c.refused /\ yes \in BOOLEAN /\ yes
    BY OpenIs
<1>2. status \in OpenStatus /\ status # "connected"
    BY DEF OpenStatus
<1>3. call \in Call
    BY DEF Call
<1>4. Handle(c, e) = d
    BY <1>1 DEF Handle, Send, ForgetSession, With, Game
<1> HIDE DEF yes, call, status
<1>5. view \in View /\ FineView(view) /\ ~view.account
    BY <1>1, NoViewIsView DEF View, FineView
<1>6. out \in Seq(Call)
    BY <1>1, <1>3
<1> HIDE DEF view, out
<1>7. /\ meets \in Game /\ meets.met = yes /\ meets.link = c.link /\ meets.login = c.login
      /\ meets.status = c.status /\ meets.view = c.view /\ meets.refused = c.refused
      /\ meets.awaited = c.awaited /\ meets.menu = c.menu
    BY <1>1 DEF Game
<1> HIDE DEF meets
<1>8. meets \in SoundGame /\ meets.met /\ meets.link = "open" /\ (status = "connected" => view.content)
    BY <1>1, <1>2, <1>7 DEF SoundGame, Fine
<1>9. /\ d \in SoundGame /\ d.link = "open" /\ d.met /\ d.status = status
      /\ d.view = view /\ d.out = out
    BY <1>1, <1>2, <1>5, <1>6, <1>7, <1>8, WithKeeps
<1> HIDE DEF d
<1> QED
    BY <1>2, <1>4, <1>5, <1>9 DEF Connected, out, call

LEMMA ProtocolHandled ==
    ASSUME NEW c \in SoundGame, c.link = "open", c.met, NEW e \in Event, e.kind = "protocol"
    PROVE  LET d == Handle(c, e)
           IN  \/ TurnedAway(d)
               \/ d = c
               \/ /\ e.good /\ ~Connected(c) /\ ~c.view.account /\ ~c.view.content
                  /\ d \in SoundGame /\ d.link = "open" /\ d.met /\ ~Connected(d) /\ ~d.view.account
                  /\ d.out = Append(c.out, [call |-> "watch_content"])
<1> DEFINE yes == TRUE
           view == [c.view EXCEPT !.content = yes]
           call == [call |-> "watch_content"]
           out == Append(c.out, call)
           d == With(c, c.status, c.awaited, view, out)
<1>1. /\ c \in Game /\ c.awaited \in SUBSET Nat /\ IsFiniteSet(c.awaited) /\ c.status \in OpenStatus
      /\ c.out \in Seq(Call) /\ ~c.refused /\ c.view \in View /\ FineView(c.view)
      /\ yes \in BOOLEAN /\ yes
    BY OpenIs
<1>2. call \in Call
    BY DEF Call
<1>3. Handle(c, e) = HandleProtocol(c, e)
    BY <1>1 DEF Handle
<1>4. CASE ~e.good
    BY <1>3, <1>4, ServerRefused DEF HandleProtocol
<1>5. CASE e.good /\ c.view.content
    BY <1>3, <1>5 DEF HandleProtocol
<1>6. CASE e.good /\ ~c.view.content
  <2>1. HandleProtocol(c, e) = d
    BY <1>1, <1>6 DEF HandleProtocol, Send, With, Game, View
  <2>2. ~Connected(c) /\ ~c.view.account
    BY <1>1, <1>6 DEF SoundGame, Fine, Connected
  <2> HIDE DEF yes, call
  <2>3. view \in View /\ view.content = yes /\ view.account = c.view.account /\ view.room = c.view.room
        /\ view.sub = c.view.sub /\ view.shown = c.view.shown /\ view.ready = c.view.ready
    BY <1>1 DEF View
  <2>4. out \in Seq(Call)
    BY <1>1, <1>2
  <2> HIDE DEF view, out
  <2>5. FineView(view) /\ (c.status = "connected" => view.content)
    BY <1>1, <2>2, <2>3 DEF FineView, Connected
  <2>7. view \in View
    BY <2>3
  <2>6. /\ d \in SoundGame /\ d.link = "open" /\ d.met /\ d.status = c.status
        /\ d.view = view /\ d.out = out
    BY <1>1, <2>4, <2>5, <2>7, WithKeeps
  <2> HIDE DEF d
  <2> QED
    BY <1>3, <1>6, <2>1, <2>2, <2>3, <2>6 DEF Connected, out, call
<1> QED
    BY <1>4, <1>5, <1>6

LEMMA ContentHandled ==
    ASSUME NEW c \in SoundGame, c.link = "open", c.met, NEW e \in Event, e.kind = "content"
    PROVE  LET d == Handle(c, e)
           IN  \/ TurnedAway(d)
               \/ d = c
               \/ /\ e.good /\ ~Connected(c)
                  /\ d \in SoundGame /\ d.link = "open" /\ d.met /\ Connected(d)
                  /\ d.view = c.view
                  /\ d.out = Append(c.out, [call |-> "watch_account"])
<1> DEFINE connected == "connected"
           call == [call |-> "watch_account"]
           out == Append(c.out, call)
           d == With(c, connected, c.awaited, c.view, out)
<1>1. /\ c \in Game /\ c.awaited \in SUBSET Nat /\ IsFiniteSet(c.awaited)
      /\ c.out \in Seq(Call) /\ ~c.refused /\ c.view \in View /\ FineView(c.view)
    BY OpenIs
<1>2. call \in Call /\ connected \in OpenStatus
    BY DEF Call, OpenStatus
<1>3. Handle(c, e) = IF c.view.content THEN HandleContent(c, e) ELSE c
    BY <1>1 DEF Handle
<1>4. CASE ~c.view.content \/ (e.good /\ Connected(c))
    BY <1>3, <1>4 DEF HandleContent, Connected
<1>5. CASE c.view.content /\ ~e.good
    BY <1>3, <1>5, ServerRefused DEF HandleContent
<1>6. CASE c.view.content /\ e.good /\ ~Connected(c)
  <2>1. HandleContent(c, e) = d
    BY <1>1, <1>6 DEF HandleContent, Send, With, Game, Connected
  <2> HIDE DEF call, connected
  <2>2. out \in Seq(Call)
    BY <1>1, <1>2
  <2> HIDE DEF out
  <2>3. /\ d \in SoundGame /\ d.link = "open" /\ d.met /\ d.status = connected
        /\ d.view = c.view /\ d.out = out
    BY <1>1, <1>2, <1>6, <2>2, WithKeeps
  <2> HIDE DEF d
  <2> QED
    BY <1>3, <1>6, <2>1, <2>3 DEF Connected, connected, out, call
<1> QED
    BY <1>4, <1>5, <1>6

LEMMA AccountHandled ==
    ASSUME NEW c \in SoundGame, c.link = "open", c.met, NEW e \in Event, e.kind = "account"
    PROVE  LET d == Handle(c, e)
           IN  \/ Alike(c, d)
               \/ /\ Connected(c) /\ ~c.view.account
                  /\ d \in SoundGame /\ d.link = "open" /\ d.met /\ Connected(d)
                  /\ d.view.account /\ d.view.room = NoRoom /\ ~d.view.ready
                  /\ d.view.sub = 0 /\ d.awaited = c.awaited
                  /\ d.out = Append(c.out, [call |-> "watch_self"])
<1>1. /\ c \in Game /\ c.awaited \in SUBSET Nat /\ IsFiniteSet(c.awaited) /\ c.status \in OpenStatus
      /\ c.out \in Seq(Call) /\ ~c.refused /\ c.view \in View /\ FineView(c.view)
    BY OpenIs
<1>2. Handle(c, e) = IF Connected(c) THEN HandleAccount(c, e) ELSE c
    BY <1>1 DEF Handle, Connected
<1>3. e.named \in BOOLEAN
    BY Events
<1>4. CASE ~Connected(c)
    BY <1>2, <1>4, Untouched
<1>5. CASE Connected(c) /\ c.view.account
  <2> DEFINE view == [c.view EXCEPT !.named = e.named]
             d == With(c, c.status, c.awaited, view, c.out)
  <2>1. HandleAccount(c, e) = d
    BY <1>1, <1>5 DEF HandleAccount, With, Game
  <2>2. view \in View /\ view.content = c.view.content /\ view.account = c.view.account
        /\ view.room = c.view.room
        /\ view.sub = c.view.sub /\ view.shown = c.view.shown /\ view.ready = c.view.ready
    BY <1>1, <1>3 DEF View
  <2> HIDE DEF view
  <2>3. FineView(view) /\ (c.status = "connected" => view.content)
    BY <1>1, <2>2 DEF FineView, SoundGame, Fine
  <2>4. /\ d \in SoundGame /\ d.link = "open" /\ d.met /\ d.status = c.status
        /\ d.awaited = c.awaited /\ d.view = view /\ d.out = c.out
    BY <1>1, <2>2, <2>3, WithKeeps
  <2> HIDE DEF d
  <2> QED
    BY <1>2, <1>5, <2>1, <2>2, <2>4 DEF Alike
<1>6. CASE Connected(c) /\ ~c.view.account
  <2> DEFINE yes == TRUE
             view == [NoView EXCEPT !.protocol = yes, !.content = yes, !.account = yes,
                                    !.named = e.named]
             call == [call |-> "watch_self"]
             out == Append(c.out, call)
             d == With(c, c.status, c.awaited, view, out)
  <2>1. HandleAccount(c, e) = d
    BY <1>1, <1>6 DEF HandleAccount, Send, With, Game
  <2>2. call \in Call /\ yes \in BOOLEAN /\ yes
    BY DEF Call
  <2> HIDE DEF yes, call
  <2>3. view \in View /\ view.content = yes /\ view.account = yes /\ view.room = NoRoom
        /\ view.sub = 0 /\ ~view.shown /\ ~view.ready
    BY <1>3, <2>2, NoViewIsView DEF View
  <2>4. out \in Seq(Call)
    BY <1>1, <2>2
  <2> HIDE DEF view, out
  <2>5. FineView(view) /\ (c.status = "connected" => view.content)
    BY <2>2, <2>3 DEF FineView
  <2>7. view \in View
    BY <2>3
  <2>6. /\ d \in SoundGame /\ d.link = "open" /\ d.met /\ d.status = c.status
        /\ d.awaited = c.awaited /\ d.view = view /\ d.out = out
    BY <1>1, <2>4, <2>5, <2>7, WithKeeps
  <2> HIDE DEF d
  <2> QED
    BY <1>2, <1>6, <2>1, <2>2, <2>3, <2>6 DEF Connected, out, call
<1> QED
    BY <1>4, <1>5, <1>6

LEMMA FreshId ==
    ASSUME NEW awaited \in SUBSET Nat, IsFiniteSet(awaited)
    PROVE  \E i \in 1..Cardinality(awaited) + 1 : i \notin awaited
<1> DEFINE n == Cardinality(awaited)
<1>1. n \in Nat
    BY FS_CardinalityType
<1>2. IsFiniteSet(1..n + 1) /\ Cardinality(1..n + 1) = n + 1
    BY <1>1, FS_Interval
<1>3. 1..n + 1 \subseteq awaited => n + 1 <= n
    BY <1>2, FS_Subset
<1> QED
    BY <1>1, <1>3

LEMMA RoomSubscribed ==
    ASSUME NEW c \in SoundGame, c.link = "open", c.met, SignedIn(c), NEW room \in Room \cup {NoRoom}
    PROVE  LET d == SubscribeRoom(c, room)
           IN  /\ d \in SoundGame /\ d.link = "open" /\ d.met /\ SignedIn(d)
               /\ d.view.room = room /\ ~d.view.ready
               /\ room = NoRoom => d.view.sub = 0 /\ d.awaited = c.awaited /\ d.out = c.out
               /\ room # NoRoom =>
                     /\ d.view.sub \in Nat /\ d.view.sub # 0 /\ d.view.sub \notin c.awaited
                     /\ d.awaited = c.awaited \cup {d.view.sub}
                     /\ d.out = Append(c.out, [call |-> "watch_room", id |-> d.view.sub, room |-> room])
<1> DEFINE fresh == CHOOSE i \in 1 .. Cardinality(c.awaited) + 1 : i \notin c.awaited
           id == IF room = NoRoom THEN 0 ELSE fresh
           no == FALSE
           view == [c.view EXCEPT !.room = room, !.sub = id, !.shown = no, !.ready = no]
           awaited == IF room = NoRoom THEN c.awaited ELSE c.awaited \cup {id}
           call == [call |-> "watch_room", id |-> id, room |-> room]
           out == IF room = NoRoom THEN c.out ELSE Append(c.out, call)
           d == With(c, c.status, awaited, view, out)
<1>1. /\ c \in Game /\ c.awaited \in SUBSET Nat /\ IsFiniteSet(c.awaited) /\ c.status \in OpenStatus
      /\ c.out \in Seq(Call) /\ c.view \in View /\ FineView(c.view)
    BY OpenIs
<1>2. fresh \in Nat \ {0} /\ fresh \notin c.awaited
  <2>1. Cardinality(c.awaited) \in Nat
    BY <1>1, FS_CardinalityType
  <2>2. \E i \in 1..Cardinality(c.awaited) + 1 : i \notin c.awaited
    BY <1>1, FreshId
  <2> QED
    BY <2>1, <2>2
<1>3. SubscribeRoom(c, room) = d
  <2> DEFINE moved == [c EXCEPT !.view.room = room, !.view.sub = 0,
                                !.view.shown = no, !.view.ready = no]
             none == [c.view EXCEPT !.room = room, !.sub = 0, !.shown = no, !.ready = no]
             asks == [moved EXCEPT !.view.sub = fresh, !.awaited = moved.awaited \cup {fresh}]
  <2>1. SubscribeRoom(c, room) = IF room = NoRoom THEN moved
                                 ELSE Send(asks, [call |-> "watch_room", id |-> fresh, room |-> room])
    BY DEF SubscribeRoom
  <2> HIDE DEF fresh, no
  <2>3. moved = [c EXCEPT !.view = none]
    BY <1>1 DEF Game, View
  <2>4. room = NoRoom => none = view
    BY DEF id
  <2>6. moved.view = none /\ moved.awaited = c.awaited
    BY <1>1, <2>3 DEF Game
  <2>7. asks = [moved EXCEPT !.view = [none EXCEPT !.sub = fresh], !.awaited = c.awaited \cup {fresh}]
    BY <2>6
  <2>8. room # NoRoom => view = [none EXCEPT !.sub = fresh] /\ id = fresh
    BY <1>1 DEF View, id
  <2> HIDE DEF moved, none, asks, view, id
  <2>9. CASE room = NoRoom
    BY <1>1, <2>1, <2>3, <2>4, <2>9 DEF With, Game
  <2>10. CASE room # NoRoom
    <3>1. asks = [c EXCEPT !.view = view, !.awaited = c.awaited \cup {id}]
      BY <1>1, <2>3, <2>7, <2>8, <2>10 DEF Game
    <3>2. SubscribeRoom(c, room) = Send(asks, call)
      BY <2>1, <2>8, <2>10
    <3> HIDE DEF call
    <3>3. d = With(c, c.status, c.awaited \cup {id}, view, Append(c.out, call))
      BY <2>10
    <3> DEFINE sent == Append(c.out, call)
               all == c.awaited \cup {id}
    <3>4. asks.out = c.out
      BY <1>1, <3>1 DEF Game
    <3>5. SubscribeRoom(c, room) = [asks EXCEPT !.out = sent]
      BY <3>2, <3>4 DEF Send
    <3> HIDE DEF sent, all, d
    <3>6. asks = [c EXCEPT !.view = view, !.awaited = all]
      BY <3>1 DEF all
    <3>7. d = With(c, c.status, all, view, sent)
      BY <3>3 DEF all, sent
    <3> QED
      BY <1>1, <3>5, <3>6, <3>7 DEF With, Game
  <2> QED
    BY <2>9, <2>10
<1> HIDE DEF fresh, no
<1>4. no \in BOOLEAN /\ ~no
    BY DEF no
<1>5. /\ id \in Nat /\ (id = 0 <=> room = NoRoom)
      /\ room # NoRoom => id \notin c.awaited
    BY <1>2
<1> HIDE DEF id
<1>6. view \in View /\ view.content = c.view.content /\ view.account = c.view.account
      /\ view.room = room /\ view.sub = id /\ view.shown = no /\ view.ready = no
    BY <1>1, <1>4, <1>5 DEF View
<1>7. view \in View /\ view.content /\ view.account /\ ~view.ready
    BY <1>4, <1>6, <1>1 DEF SoundGame, Fine, SignedIn, Connected
<1> HIDE DEF view
<1>8. FineView(view)
    BY <1>4, <1>5, <1>6, <1>7 DEF FineView
<1>9. room # NoRoom => call \in Call
  <2>1. room # NoRoom => room \in Room /\ id \in Nat \ {0}
    BY <1>5
  <2> QED
    BY <2>1 DEF Call
<1> HIDE DEF call
<1>10. out \in Seq(Call) /\ awaited \in SUBSET Nat
    BY <1>1, <1>5, <1>9
<1>11. IsFiniteSet(awaited)
    BY <1>1, FS_AddElement
<1>12. (room = NoRoom => awaited = c.awaited /\ out = c.out)
      /\ (room # NoRoom => awaited = c.awaited \cup {id} /\ out = Append(c.out, call))
    OBVIOUS
<1> HIDE DEF awaited, out
<1>13. /\ d \in SoundGame /\ d.link = "open" /\ d.met /\ d.status = c.status
       /\ d.awaited = awaited /\ d.view = view /\ d.out = out
    BY <1>1, <1>7, <1>8, <1>10, <1>11, WithKeeps
<1> HIDE DEF d
<1>14. SignedIn(d) /\ ~d.view.ready /\ d.view.room = room /\ d.view.sub = id
    BY <1>6, <1>7, <1>13 DEF SignedIn, Connected
<1> QED
    BY <1>3, <1>5, <1>12, <1>13, <1>14 DEF call

LEMMA MemberHandled ==
    ASSUME NEW c \in SoundGame, c.link = "open", c.met, NEW e \in Event, e.kind = "member"
    PROVE  LET told == RoomTold(e)
               d == Handle(c, e)
           IN  \/ d = c /\ (~SignedIn(c) \/ told = c.view.room \/ (e.gone /\ e.room # c.view.room))
               \/ SignedIn(c) /\ told \in Room \cup {NoRoom} /\ told # c.view.room
                  /\ d = SubscribeRoom(c, told)
<1>1. ~c.refused /\ e.room \in Room
    BY OpenIs, Events
<1>2. Handle(c, e) = IF Connected(c) THEN HandleMember(c, e) ELSE c
    BY <1>1 DEF Handle, Connected
<1> QED
    BY <1>1, <1>2 DEF HandleMember, RoomTold, SignedIn

LEMMA RoomHandled ==
    ASSUME NEW c \in SoundGame, c.link = "open", c.met, NEW e \in Event, e.kind = "room"
    PROVE  LET mine == e.id = c.view.sub
               d == Handle(c, e)
           IN  /\ d \in SoundGame /\ d.link = "open" /\ d.met /\ d.out = c.out
               /\ d.awaited = c.awaited \ {e.id}
               /\ d.view.account = c.view.account /\ d.view.room = c.view.room
               /\ d.view.sub = c.view.sub
               /\ ~Connected(c) => ~Connected(d)
               /\ Connected(d) =>
                     /\ (d.view.ready <=> c.view.ready \/ mine) /\ (c.view.shown => d.view.shown)
                     /\ mine => ~e.failed /\ (e.there /\ e.room = c.view.room => d.view.shown)
<1>1. /\ c \in Game /\ c.awaited \in SUBSET Nat /\ IsFiniteSet(c.awaited) /\ c.status \in OpenStatus
      /\ c.out \in Seq(Call) /\ ~c.refused /\ c.view \in View /\ FineView(c.view)
    BY OpenIs
<1>2. /\ e.id \in Nat /\ e.id # 0 /\ e.room \in Room
      /\ e.there \in BOOLEAN /\ e.failed \in BOOLEAN
    BY Events
<1> DEFINE mine == e.id = c.view.sub
           shows == e.there /\ e.room = c.view.room /\ c.status = "connected"
           failing == e.failed /\ mine
           shown == IF e.failed THEN c.view.shown ELSE c.view.shown \/ shows
           ready == IF e.failed THEN (IF mine THEN FALSE ELSE c.view.ready) ELSE c.view.ready \/ mine
           status == IF failing THEN "failed" ELSE c.status
           view == [c.view EXCEPT !.shown = shown, !.ready = ready]
           awaited == c.awaited \ {e.id}
           d == With(c, status, awaited, view, c.out)
<1>3. Handle(c, e) = HandleRoom(c, e)
    BY <1>1 DEF Handle
<1>4. HandleRoom(c, e) = d
  <2>1. CASE failing
    <3> DEFINE no == FALSE
               ending == "failed"
               answered == [c EXCEPT !.awaited = c.awaited \ {e.id}]
               gone == [c.view EXCEPT !.ready = no]
    <3>1. HandleRoom(c, e) = [answered EXCEPT !.view.ready = no, !.status = ending]
      BY <2>1 DEF HandleRoom
    <3>2. view = [c.view EXCEPT !.shown = c.view.shown, !.ready = no] /\ status = ending
      BY <2>1
    <3> HIDE DEF no, ending, view, status
    <3>3. view = gone
      BY <1>1, <3>2 DEF View
    <3>4. answered.view = c.view
      BY <1>1 DEF Game
    <3>5. HandleRoom(c, e) = [answered EXCEPT !.view = gone, !.status = ending]
      BY <3>1, <3>4
    <3> HIDE DEF gone
    <3> QED
      BY <1>1, <3>2, <3>3, <3>5 DEF With, Game
  <2>2. CASE e.failed /\ ~mine
    BY <1>1, <2>2 DEF HandleRoom, With, Game, View
  <2>3. CASE ~e.failed
    BY <1>1, <2>3 DEF HandleRoom, With, Game, View
  <2> QED
    BY <2>1, <2>2, <2>3
<1>5. shown \in BOOLEAN /\ ready \in BOOLEAN /\ status \in OpenStatus
    BY <1>1 DEF View, OpenStatus
<1>6. mine => c.view.room # NoRoom
    BY <1>1, <1>2 DEF FineView
<1>7. shown \/ ready => c.view.room # NoRoom
    BY <1>1, <1>2, <1>6, NetAssumption DEF FineView
<1>8. awaited \in SUBSET Nat /\ IsFiniteSet(awaited)
    BY <1>1, FS_RemoveElement
<1>9. /\ status = "connected" => Connected(c) /\ ~failing
      /\ status = "connected" =>
            /\ (ready <=> c.view.ready \/ mine) /\ (c.view.shown => shown)
            /\ mine => ~e.failed /\ (e.there /\ e.room = c.view.room => shown)
    BY <1>1, <1>2 DEF View, Connected
<1> HIDE DEF shown, ready, status
<1>10. view \in View /\ view.content = c.view.content /\ view.account = c.view.account
      /\ view.room = c.view.room /\ view.sub = c.view.sub /\ view.shown = shown /\ view.ready = ready
    BY <1>1, <1>5 DEF View
<1> HIDE DEF view
<1>11. FineView(view) /\ (status = "connected" => view.content)
    BY <1>1, <1>7, <1>9, <1>10 DEF FineView, SoundGame, Fine, Connected
<1>12. view \in View
    BY <1>10
<1> HIDE DEF awaited
<1>13. /\ d \in SoundGame /\ d.link = "open" /\ d.met /\ d.status = status
       /\ d.awaited = awaited /\ d.view = view /\ d.out = c.out
    BY <1>1, <1>5, <1>8, <1>11, <1>12, WithKeeps
<1> HIDE DEF d
<1> QED
    BY <1>3, <1>4, <1>9, <1>10, <1>13 DEF Connected, awaited

LEMMA RefusalHandled ==
    ASSUME NEW c \in SoundGame, c.link = "open", NEW e \in Event, e.kind = "refused"
    PROVE  Alike(c, Handle(c, e))
<1>1. c \in Game /\ ~c.refused
    BY OpenIs
<1>2. c.refusals \in SUBSET {"join", "claim"} /\ e.call \in {"join", "claim"}
    BY <1>1, Events DEF Game
<1> DEFINE refusals == c.refusals \cup {e.call}
           d == [c EXCEPT !.refusals = refusals]
<1>3. Handle(c, e) = d /\ refusals \in SUBSET {"join", "claim"}
    BY <1>1, <1>2 DEF Handle, Game
<1> HIDE DEF refusals
<1>4. /\ d \in Game /\ d.menu = c.menu /\ d.status = c.status /\ d.login = c.login /\ d.link = c.link
      /\ d.view = c.view /\ d.met = c.met /\ d.refused = c.refused /\ d.awaited = c.awaited
      /\ d.out = c.out
    BY <1>1, <1>3 DEF Game
<1> HIDE DEF d
<1>5. d \in SoundGame
    BY <1>4 DEF SoundGame, Fine
<1> QED
    BY <1>3, <1>4, <1>5 DEF Alike

-----------------------------------------------------------------------------
(* What is known of a game while the server has not been lost is kept as   *)
(* it hears the next event.                                                *)

LEMMA SeenOn ==
    ASSUME NEW events \in Seq(Event), NEW from \in Nat, NEW k \in Nat, from < k,
           NEW room, NEW last, Seen(room, events, from, k, last)
    PROVE  LET e == events[from + 1]
           IN  Seen(IF e.kind = "member" THEN RoomTold(e) ELSE room, events, from + 1, k, last)
<1> DEFINE e == events[from + 1]
           now == IF e.kind = "member" THEN RoomTold(e) ELSE room
<1>1. CASE (\A i \in from + 1..k : events[i].kind # "member") /\ last = room
  <2>1. now = room /\ \A i \in from + 1 + 1..k : events[i].kind # "member"
    BY <1>1
  <2> QED
    BY <1>1, <2>1 DEF Seen
<1>2. ASSUME NEW j \in from + 1..k, events[j].kind = "member", RoomTold(events[j]) = last,
             \A i \in j + 1..k : events[i].kind # "member"
      PROVE  Seen(now, events, from + 1, k, last)
  <2>1. CASE j = from + 1
    <3>1. now = last
      BY <1>2, <2>1
    <3> QED
      BY <1>2, <2>1, <3>1 DEF Seen
  <2>2. CASE j \in from + 1 + 1..k
    BY <1>2, <2>2 DEF Seen
  <2> QED
    BY <2>1, <2>2
<1> QED
    BY <1>1, <1>2 DEF Seen

Hears(c, calls, events, from, h) ==
    /\ c \in SoundGame /\ c.link = "open"
    /\ calls \in Seq(Call) /\ events \in Seq(Event) /\ from \in Nat /\ from < Len(events)
    /\ Greeted(c, events, from, h) /\ Stages(c, calls, events, from, h)
    /\ Rooms(c, calls, events, from, h)

LEMMA NextEvent ==
    ASSUME NEW c, NEW calls, NEW events, NEW from, NEW h, Hears(c, calls, events, from, h)
    PROVE  events[from + 1] \in Event /\ from + 1 \in 1..Len(events)
BY DEF Hears

LEMMA GreetedOn ==
    ASSUME NEW c, NEW calls, NEW events, NEW from, NEW h, Hears(c, calls, events, from, h), c.met,
           NEW d, d.met
    PROVE  Greeted(d, events, from + 1, h)
BY DEF Hears, Greeted, Comes

LEMMA StagesOn ==
    ASSUME NEW c, NEW calls, NEW events, NEW from, NEW h, Hears(c, calls, events, from, h), c.met,
           NEW d, d.met, Connected(d) <=> Connected(c), d.view.account <=> c.view.account
    PROVE  Stages(d, calls, events, from + 1, h)
BY DEF Hears, Stages, Comes

LEMMA SeatedOn ==
    ASSUME NEW c, NEW calls, NEW events, NEW from, NEW h, Hears(c, calls, events, from, h),
           Seated(c, events, from, h), NEW d,
           LET e == events[from + 1]
           IN  d.view.room = IF e.kind = "member" THEN RoomTold(e) ELSE c.view.room
    PROVE  Seated(d, events, from + 1, h)
<1> DEFINE e == events[from + 1]
           room == c.view.room
           now == IF e.kind = "member" THEN RoomTold(e) ELSE room
           n == Len(events)
<1>1. events \in Seq(Event) /\ from \in Nat /\ n \in Nat /\ from < n
    BY DEF Hears
<1>2. d.view.room = now
    OBVIOUS
<1>3. ASSUME NEW k \in Nat, from < k, NEW last, Seen(room, events, from, k, last)
      PROVE  Seen(now, events, from + 1, k, last)
    BY <1>1, <1>3, SeenOn
<1>4. CASE h.self
  <2>1. Seen(room, events, from, n, h.seat)
    BY <1>4 DEF Seated
  <2> QED
    BY <1>1, <1>2, <1>3, <1>4, <2>1 DEF Seated
<1>5. CASE ~h.self
  <2>1. room = NoRoom /\ \A i \in from + 1..n : events[i].kind # "member"
    BY <1>5 DEF Seated, Comes
  <2>2. now = NoRoom /\ \A i \in from + 1 + 1..n : events[i].kind # "member"
    BY <1>1, <2>1
  <2> QED
    BY <1>1, <1>2, <1>5, <2>2 DEF Seated, Comes
<1>6. ASSUME NEW k \in from + 1 + 1..n, events[k].kind = "member", events[k].gone
      PROVE  Seen(now, events, from + 1, k - 1, events[k].room)
  <2>1. Seen(room, events, from, k - 1, events[k].room)
    BY <1>1, <1>6 DEF Seated
  <2> QED
    BY <1>1, <1>3, <2>1
<1> HIDE DEF now
<1> QED
    BY <1>2, <1>4, <1>5, <1>6 DEF Seated

LEMMA IdsApartOn ==
    ASSUME NEW c, NEW calls, NEW events, NEW from, NEW h, Hears(c, calls, events, from, h),
           IdsApart(c, calls, events, from), NEW d,
           d.awaited = c.awaited \/ (events[from + 1].kind = "room"
                                     /\ d.awaited = c.awaited \ {events[from + 1].id})
    PROVE  IdsApart(d, calls, events, from + 1)
<1>1. Answers(events, from + 1) \subseteq Answers(events, from) /\ from + 1 \notin Answers(events, from + 1)
    BY DEF Answers, Hears
<1>2. events[from + 1].kind = "room" => from + 1 \in Answers(events, from)
    BY DEF Answers, Hears
<1> QED
    BY <1>1, <1>2 DEF IdsApart

LEMMA QuietHeard ==
    ASSUME NEW c, NEW calls, NEW events, NEW from, NEW h, Hears(c, calls, events, from, h), c.met,
           NEW d, Alike(c, d),
           SignedIn(c) => events[from + 1].kind \notin {"member", "room"}
    PROVE  Joined(d, calls, events, from + 1, h)
<1>1. Greeted(d, events, from + 1, h) /\ Stages(d, calls, events, from + 1, h)
    BY GreetedOn, StagesOn DEF Alike, Connected
<1>2. ASSUME SignedIn(d) PROVE Seated(d, events, from + 1, h) /\ IdsApart(d, calls, events, from + 1)
                               /\ Subscribed(d, calls, events, from + 1)
  <2>1. SignedIn(c) /\ events[from + 1].kind \notin {"member", "room"}
    BY <1>2 DEF SignedIn, Connected, Alike
  <2>2. Seated(c, events, from, h) /\ IdsApart(c, calls, events, from)
        /\ Subscribed(c, calls, events, from)
    BY <2>1 DEF Hears, Rooms
  <2>3. Seated(d, events, from + 1, h) /\ IdsApart(d, calls, events, from + 1)
    BY <2>1, <2>2, SeatedOn, IdsApartOn DEF Alike
  <2>4. Answers(events, from + 1) = Answers(events, from)
    BY <2>1 DEF Answers, Hears
  <2>5. \A k \in Answers(events, from) : \A j \in from + 1..k - 1 :
            events[j].kind = "member" => j \in from + 1 + 1..k - 1
    BY <2>1 DEF Hears, Answers
  <2>6. Subscribed(d, calls, events, from + 1)
    BY <2>2, <2>4, <2>5 DEF Subscribed, UnderWay, Alike
  <2> QED
    BY <2>3, <2>6
<1> QED
    BY <1>1, <1>2 DEF Joined, Rooms

(* Heard with its connection still there, a game keeps what is known.      *)
Heard(d, calls, events, from, h) ==
    \/ TurnedAway(d)
    \/ d \in SoundGame /\ d.link = "open" /\ d.met /\ Joined(d, calls, events, from, h)

LEMMA Appended ==
    ASSUME NEW calls \in Seq(Call), NEW call \in Call, NEW what
    PROVE  LET all == Append(calls, call)
           IN  /\ all \in Seq(Call) /\ Len(all) = Len(calls) + 1
               /\ Asks(all, what) <=> Asks(calls, what) \/ call.call = what
               /\ \A i \in WatchCalls(all) :
                     IF i = Len(calls) + 1 THEN all[i] = call /\ call.call = "watch_room"
                     ELSE i \in WatchCalls(calls) /\ all[i] = calls[i]
               /\ \A i \in WatchCalls(calls) : i \in WatchCalls(all) /\ all[i] = calls[i]
               /\ call.call = "watch_room" =>
                     Len(calls) + 1 \in WatchCalls(all) /\ all[Len(calls) + 1] = call
<1> DEFINE all == Append(calls, call)
<1>1. /\ all \in Seq(Call) /\ Len(all) = Len(calls) + 1 /\ Len(calls) \in Nat
      /\ \A i \in 1..Len(calls) : all[i] = calls[i]
      /\ all[Len(calls) + 1] = call
    OBVIOUS
<1> HIDE DEF all
<1>2. Asks(all, what) <=> Asks(calls, what) \/ call.call = what
    BY <1>1 DEF Asks
<1>3. \A i \in WatchCalls(all) :
          IF i = Len(calls) + 1 THEN all[i] = call /\ call.call = "watch_room"
          ELSE i \in WatchCalls(calls) /\ all[i] = calls[i]
    BY <1>1 DEF WatchCalls
<1>4. \A i \in WatchCalls(calls) : i \in WatchCalls(all) /\ all[i] = calls[i]
    BY <1>1 DEF WatchCalls
<1>5. call.call = "watch_room" => Len(calls) + 1 \in WatchCalls(all)
    BY <1>1 DEF WatchCalls
<1> QED
    BY <1>1, <1>2, <1>3, <1>4, <1>5 DEF all

LEMMA WatchesAreCalls ==
    \A what \in {"watch_protocol", "watch_content", "watch_account", "watch_self"} : [call |-> what] \in Call
BY DEF Call

LEMMA HelloHeard ==
    ASSUME NEW c, NEW calls, NEW events, NEW from, NEW h, Hears(c, calls, events, from, h),
           Unmet(c, calls, events, from, h), events[from + 1].kind = "hello"
    PROVE  LET d == Handle(c, events[from + 1])
           IN  d.out = Append(c.out, [call |-> "watch_protocol"])
               /\ Heard(d, Append(calls, [call |-> "watch_protocol"]), events, from + 1, h)
<1> DEFINE e == events[from + 1]
           call == [call |-> "watch_protocol"]
           all == Append(calls, call)
           d == Handle(c, e)
<1>1. /\ e \in Event /\ c \in SoundGame /\ c.link = "open" /\ calls \in Seq(Call)
      /\ events \in Seq(Event) /\ from \in Nat /\ from < Len(events)
    BY NextEvent DEF Hears
<1>2. /\ d \in SoundGame /\ d.link = "open" /\ d.met
      /\ ~Connected(d) /\ ~d.view.account /\ d.out = Append(c.out, call)
    BY <1>1, HelloHandled
<1> HIDE DEF d
<1>3. ~c.met
    BY <1>1 DEF Hears, Greeted, Comes
<1>4. calls = <<>> /\ ~h.self /\ h.greeted /\ Len(events) = from + 1
    BY <1>1, <1>3 DEF Unmet, Hears, Greeted
<1>5. Greeted(d, events, from + 1, h)
    BY <1>1, <1>2, <1>4 DEF Greeted, Comes
<1>6. call \in Call /\ call.call = "watch_protocol"
    BY WatchesAreCalls
<1> HIDE DEF call
<1>7. Len(all) = 1 /\ \A what : Asks(all, what) <=> what = "watch_protocol"
    BY <1>1, <1>4, <1>6, Appended DEF Asks
<1> HIDE DEF all
<1>8. Stages(d, all, events, from + 1, h)
    BY <1>1, <1>2, <1>4, <1>7 DEF Stages, Comes
<1>9. Rooms(d, all, events, from + 1, h)
    BY <1>2 DEF Rooms, SignedIn
<1> QED
    BY <1>2, <1>5, <1>8, <1>9 DEF Heard, Joined, d, all, call

LEMMA ProtocolHeard ==
    ASSUME NEW c, NEW calls, NEW events, NEW from, NEW h, Hears(c, calls, events, from, h), c.met,
           events[from + 1].kind = "protocol"
    PROVE  LET d == Handle(c, events[from + 1])
           IN  \/ TurnedAway(d)
               \/ d.out = c.out /\ Heard(d, calls, events, from + 1, h)
               \/ d.out = Append(c.out, [call |-> "watch_content"])
                  /\ Heard(d, Append(calls, [call |-> "watch_content"]), events, from + 1, h)
<1> DEFINE e == events[from + 1]
           call == [call |-> "watch_content"]
           all == Append(calls, call)
           d == Handle(c, e)
<1>1. /\ e \in Event /\ c \in SoundGame /\ c.link = "open" /\ calls \in Seq(Call)
      /\ events \in Seq(Event) /\ from \in Nat /\ from < Len(events)
    BY NextEvent DEF Hears
<1>2. ASSUME d = c PROVE Heard(d, calls, events, from + 1, h)
  <2>1. Joined(c, calls, events, from + 1, h)
    BY <1>1, QuietHeard, Untouched
  <2> QED
    BY <1>1, <1>2, <2>1 DEF Heard
<1>3. ASSUME e.good, ~Connected(c), ~c.view.account, d \in SoundGame, d.link = "open", d.met,
             ~Connected(d), ~d.view.account
      PROVE  Heard(d, all, events, from + 1, h)
  <2> HIDE DEF d
  <2>1. Len(calls) = 0 /\ Len(events) = from + 1 /\ ~h.self
    BY <1>1, <1>3 DEF Hears, Stages
  <2>2. Greeted(d, events, from + 1, h)
    BY <1>3, GreetedOn
  <2>3. call \in Call /\ call.call = "watch_content"
    BY WatchesAreCalls
  <2> HIDE DEF call
  <2>4. Len(all) = 1 /\ \A what : Asks(all, what) <=> what = "watch_content"
    BY <1>1, <2>1, <2>3, Appended DEF Asks
  <2> HIDE DEF all
  <2>5. Stages(d, all, events, from + 1, h)
    BY <1>1, <1>3, <2>1, <2>4 DEF Stages, Comes
  <2>6. Rooms(d, all, events, from + 1, h)
    BY <1>3 DEF Rooms, SignedIn
  <2> QED
    BY <1>3, <2>2, <2>5, <2>6 DEF Heard, Joined
<1> QED
    BY <1>1, <1>2, <1>3, ProtocolHandled

LEMMA ContentHeard ==
    ASSUME NEW c, NEW calls, NEW events, NEW from, NEW h, Hears(c, calls, events, from, h), c.met,
           events[from + 1].kind = "content"
    PROVE  LET d == Handle(c, events[from + 1])
           IN  \/ TurnedAway(d)
               \/ d.out = c.out /\ Heard(d, calls, events, from + 1, h)
               \/ d.out = Append(c.out, [call |-> "watch_account"])
                  /\ Heard(d, Append(calls, [call |-> "watch_account"]), events, from + 1, h)
<1> DEFINE e == events[from + 1]
           call == [call |-> "watch_account"]
           all == Append(calls, call)
           d == Handle(c, e)
<1>1. /\ e \in Event /\ c \in SoundGame /\ c.link = "open" /\ calls \in Seq(Call)
      /\ events \in Seq(Event) /\ from \in Nat /\ from < Len(events)
    BY NextEvent DEF Hears
<1>2. ASSUME d = c PROVE Heard(d, calls, events, from + 1, h)
  <2>1. Joined(c, calls, events, from + 1, h)
    BY <1>1, QuietHeard, Untouched
  <2> QED
    BY <1>1, <1>2, <2>1 DEF Heard
<1>3. ASSUME e.good, ~Connected(c), d \in SoundGame, d.link = "open", d.met,
             Connected(d), d.view = c.view
      PROVE  Heard(d, all, events, from + 1, h)
  <2> HIDE DEF d
  <2>1. ~c.view.account
    BY <1>1, <1>3 DEF Hears, Stages
  <2>2. Len(calls) = 0 /\ Len(events) = from + 1 /\ ~h.self
    BY <1>1, <1>3, <2>1 DEF Hears, Stages
  <2>3. Greeted(d, events, from + 1, h)
    BY <1>3, GreetedOn
  <2>4. call \in Call /\ call.call = "watch_account"
    BY WatchesAreCalls
  <2> HIDE DEF call
  <2>5. Len(all) = 1 /\ \A what : Asks(all, what) <=> what = "watch_account"
    BY <1>1, <2>2, <2>4, Appended DEF Asks
  <2> HIDE DEF all
  <2>6. Stages(d, all, events, from + 1, h)
    BY <1>1, <1>3, <2>1, <2>2, <2>5 DEF Stages, Comes
  <2>7. Rooms(d, all, events, from + 1, h)
    BY <1>3, <2>1 DEF Rooms, SignedIn
  <2> QED
    BY <1>3, <2>3, <2>6, <2>7 DEF Heard, Joined
<1> QED
    BY <1>1, <1>2, <1>3, ContentHandled

LEMMA AccountHeard ==
    ASSUME NEW c, NEW calls, NEW events, NEW from, NEW h, Hears(c, calls, events, from, h), c.met,
           events[from + 1].kind = "account"
    PROVE  LET d == Handle(c, events[from + 1])
           IN  \/ d.out = c.out /\ Heard(d, calls, events, from + 1, h)
               \/ d.out = Append(c.out, [call |-> "watch_self"])
                  /\ Heard(d, Append(calls, [call |-> "watch_self"]), events, from + 1, h)
<1> DEFINE e == events[from + 1]
           call == [call |-> "watch_self"]
           all == Append(calls, call)
           d == Handle(c, e)
<1>1. /\ e \in Event /\ c \in SoundGame /\ c.link = "open" /\ calls \in Seq(Call)
      /\ events \in Seq(Event) /\ from \in Nat /\ from < Len(events)
    BY NextEvent DEF Hears
<1>2. ASSUME Alike(c, d) PROVE Heard(d, calls, events, from + 1, h)
  <2> HIDE DEF d
  <2>1. Joined(d, calls, events, from + 1, h)
    BY <1>2, QuietHeard
  <2> QED
    BY <1>1, <1>2, <2>1 DEF Heard, Alike
<1>3. ASSUME Connected(c), ~c.view.account, d \in SoundGame, d.link = "open", d.met,
             Connected(d), d.view.account, d.view.room = NoRoom, ~d.view.ready
      PROVE  Heard(d, all, events, from + 1, h)
  <2> HIDE DEF d
  <2>1. /\ ~h.self /\ ~Asks(calls, "watch_room") /\ ~Comes(events, from, "member")
        /\ ~Comes(events, from, "room")
        /\ ~Asks(calls, "watch_protocol") /\ ~Asks(calls, "watch_content")
        /\ \A k \in from + 1..Len(events) : events[k].kind \in {"protocol", "content"} => ~events[k].good
    BY <1>3 DEF Hears, Stages
  <2>2. Greeted(d, events, from + 1, h)
    BY <1>3, GreetedOn
  <2>3. call \in Call /\ call.call = "watch_self"
    BY WatchesAreCalls
  <2> HIDE DEF call
  <2>4. \A what : Asks(all, what) <=> Asks(calls, what) \/ what = "watch_self"
    BY <1>1, <2>3, Appended
  <2> HIDE DEF all
  <2>5. Stages(d, all, events, from + 1, h)
    BY <1>1, <1>3, <2>1, <2>4 DEF Stages
  <2>6. ~Comes(events, from + 1, "member") /\ ~Comes(events, from + 1, "room")
        /\ ~Asks(all, "watch_room")
    BY <1>1, <2>1, <2>4 DEF Comes
  <2>7. Answers(events, from + 1) = {} /\ WatchCalls(all) = {}
    BY <2>6 DEF Comes, Asks, Answers, WatchCalls
  <2>8. Seated(d, events, from + 1, h)
    BY <1>3, <2>1, <2>6 DEF Seated, Comes
  <2>9. IdsApart(d, all, events, from + 1) /\ Subscribed(d, all, events, from + 1)
    BY <1>3, <2>7 DEF IdsApart, Subscribed
  <2> QED
    BY <1>3, <2>2, <2>5, <2>8, <2>9 DEF Heard, Joined, Rooms
<1>4. Alike(c, d) => d.out = c.out
    BY DEF Alike
<1> QED
    BY <1>1, <1>2, <1>3, <1>4, AccountHandled

LEMMA WatchRoomCall ==
    \A id \in Nat \ {0}, room \in Room : [call |-> "watch_room", id |-> id, room |-> room] \in Call
BY DEF Call

LEMMA CallIds ==
    ASSUME NEW calls \in Seq(Call)
    PROVE  \A i \in WatchCalls(calls) : calls[i].id \in Nat \ {0} /\ calls[i].room \in Room
<1>1. \A call \in Call : call.call = "watch_room" => call.id \in Nat \ {0} /\ call.room \in Room
    BY DEF Call
<1> QED
    BY <1>1 DEF WatchCalls

(* A golfer's own row, of a game that shows a room or none.                *)
LEMMA MemberShown ==
    ASSUME NEW c, NEW calls, NEW events, NEW from, NEW h, Hears(c, calls, events, from, h), c.met,
           events[from + 1].kind = "member", SignedIn(c)
    PROVE  LET e == events[from + 1]
               told == RoomTold(e)
               d == Handle(c, e)
           IN  told \in Room \cup {NoRoom}
               /\ \/ d = c /\ told = c.view.room
                  \/ told # c.view.room /\ d = SubscribeRoom(c, told)
<1> DEFINE e == events[from + 1]
           d == Handle(c, e)
<1>1. /\ e \in Event /\ c \in SoundGame /\ c.link = "open" /\ events \in Seq(Event)
      /\ from \in Nat /\ from < Len(events) /\ from + 1 \in from + 1..Len(events)
    BY NextEvent DEF Hears
<1>2. Seated(c, events, from, h)
    BY DEF Hears, Rooms
<1>3. e.room \in Room /\ RoomTold(e) \in Room \cup {NoRoom}
    BY <1>1, Events DEF RoomTold
<1>4. e.gone => e.room = c.view.room
  <2>1. e.gone => Seen(c.view.room, events, from, from, e.room)
    BY <1>1, <1>2 DEF Seated
  <2> QED
    BY <1>1, <2>1 DEF Seen
<1> QED
    BY <1>1, <1>3, <1>4, MemberHandled

LEMMA MemberHeard ==
    ASSUME NEW c, NEW calls, NEW events, NEW from, NEW h, Hears(c, calls, events, from, h), c.met,
           events[from + 1].kind = "member"
    PROVE  LET d == Handle(c, events[from + 1])
           IN  \/ d.out = c.out /\ Heard(d, calls, events, from + 1, h)
               \/ \E call \in Call :
                     d.out = Append(c.out, call) /\ Heard(d, Append(calls, call), events, from + 1, h)
<1> DEFINE e == events[from + 1]
           told == RoomTold(e)
           d == Handle(c, e)
<1>1. /\ e \in Event /\ c \in SoundGame /\ c.link = "open" /\ calls \in Seq(Call)
      /\ events \in Seq(Event) /\ from \in Nat /\ from < Len(events)
    BY NextEvent DEF Hears
<1>2. CASE ~SignedIn(c)
  <2>1. d = c
    BY <1>1, <1>2, MemberHandled
  <2>2. Joined(c, calls, events, from + 1, h)
    BY <1>1, <1>2, QuietHeard, Untouched
  <2> QED
    BY <1>1, <2>1, <2>2 DEF Heard
<1>3. CASE SignedIn(c)
  <2>1. /\ told \in Room \cup {NoRoom}
        /\ \/ d = c /\ told = c.view.room
           \/ told # c.view.room /\ d = SubscribeRoom(c, told)
    BY <1>3, MemberShown
  <2>2. Seated(c, events, from, h) /\ IdsApart(c, calls, events, from)
        /\ Subscribed(c, calls, events, from)
    BY <1>3 DEF Hears, Rooms
  <2>3. Answers(events, from + 1) = Answers(events, from)
    BY <1>1 DEF Answers
  <2> HIDE DEF d
  <2>4. CASE d = c /\ told = c.view.room
    <3>1. Seated(d, events, from + 1, h) /\ IdsApart(d, calls, events, from + 1)
      BY <1>1, <2>2, <2>4, SeatedOn, IdsApartOn
    <3>2. \A k \in Answers(events, from) : \A j \in from + 1..k - 1 :
              events[j].kind = "member" /\ RoomTold(events[j]) # c.view.room => j \in from + 1 + 1..k - 1
      BY <1>1, <2>4 DEF Answers
    <3>3. Subscribed(d, calls, events, from + 1)
      BY <2>2, <2>3, <2>4, <3>2 DEF Subscribed, UnderWay
    <3>4. Greeted(d, events, from + 1, h) /\ Stages(d, calls, events, from + 1, h)
      BY <2>4, GreetedOn, StagesOn
    <3>5. Joined(d, calls, events, from + 1, h)
      BY <3>1, <3>3, <3>4 DEF Joined, Rooms
    <3> QED
      BY <1>1, <2>4, <3>5 DEF Heard, d
  <2>5. CASE told # c.view.room /\ d = SubscribeRoom(c, told)
    <3> DEFINE id == d.view.sub
               call == [call |-> "watch_room", id |-> id, room |-> told]
               all == Append(calls, call)
    <3>1. /\ d \in SoundGame /\ d.link = "open" /\ d.met /\ SignedIn(d)
          /\ d.view.room = told /\ ~d.view.ready
          /\ told = NoRoom => id = 0 /\ d.awaited = c.awaited /\ d.out = c.out
          /\ told # NoRoom =>
                /\ id \in Nat /\ id # 0 /\ id \notin c.awaited
                /\ d.awaited = c.awaited \cup {id}
                /\ d.out = Append(c.out, call)
      BY <1>1, <1>3, <2>1, <2>5, RoomSubscribed
    <3>2. Seated(d, events, from + 1, h)
      BY <1>1, <2>2, <3>1, SeatedOn
    <3>3. Greeted(d, events, from + 1, h) /\ Stages(d, calls, events, from + 1, h)
      BY <1>3, <3>1, GreetedOn, StagesOn DEF SignedIn
    <3>4. CASE told = NoRoom
      <4>1. IdsApart(d, calls, events, from + 1)
        BY <1>1, <2>2, <3>1, <3>4, IdsApartOn
      <4>2. \A k \in Answers(events, from) : events[k].id # 0
        BY <1>1, Events DEF Answers
      <4>3. Subscribed(d, calls, events, from + 1)
        BY <1>1, <2>3, <3>1, <3>4, <4>2, CallIds DEF Subscribed
      <4> QED
        BY <3>1, <3>2, <3>3, <3>4, <4>1, <4>3 DEF Heard, Joined, Rooms, d
    <3>5. CASE told # NoRoom
      <4>1. call \in Call
        <5>1. told \in Room /\ id \in Nat \ {0}
          BY <2>1, <3>1, <3>5
        <5> QED
          BY <5>1, WatchRoomCall
      <4>2. call.call = "watch_room" /\ call.id = id /\ call.room = told
        OBVIOUS
      <4> HIDE DEF call, id, told
      <4>3. /\ \A i \in WatchCalls(all) :
                  IF i = Len(calls) + 1 THEN all[i] = call
                  ELSE i \in WatchCalls(calls) /\ all[i] = calls[i]
            /\ Len(calls) + 1 \in WatchCalls(all) /\ all[Len(calls) + 1] = call
            /\ \A what : Asks(all, what) <=> Asks(calls, what) \/ what = "watch_room"
            /\ Len(all) = Len(calls) + 1
        <5>1. ASSUME NEW what PROVE Asks(all, what) <=> Asks(calls, what) \/ what = "watch_room"
          BY <1>1, <4>1, <4>2, Appended
        <5>2. /\ \A i \in WatchCalls(all) :
                    IF i = Len(calls) + 1 THEN all[i] = call /\ call.call = "watch_room"
                    ELSE i \in WatchCalls(calls) /\ all[i] = calls[i]
              /\ call.call = "watch_room" =>
                    Len(calls) + 1 \in WatchCalls(all) /\ all[Len(calls) + 1] = call
              /\ Len(all) = Len(calls) + 1
          BY <1>1, <4>1, Appended
        <5> HIDE DEF all
        <5> QED
          BY <4>2, <5>1, <5>2
      <4> HIDE DEF all
      <4>4. Stages(d, all, events, from + 1, h)
        BY <3>1, <3>3, <4>3 DEF Stages, SignedIn
      <4>5. /\ d.awaited = c.awaited \cup {id} /\ id \notin c.awaited
            /\ \A i \in WatchCalls(calls) : calls[i].id # id
            /\ \A k \in Answers(events, from) : events[k].id # id
        BY <2>2, <3>1, <3>5 DEF IdsApart
      <4>6. IdsApart(d, all, events, from + 1)
        BY <2>2, <2>3, <4>2, <4>3, <4>5 DEF IdsApart
      <4>7. Subscribed(d, all, events, from + 1)
        <5>1. UnderWay(id, all, events, from + 1)
          BY <4>2, <4>3 DEF UnderWay
        <5>2. d.view.sub = id
          BY DEF id
        <5> QED
          BY <2>3, <3>1, <4>2, <4>3, <4>5, <5>1, <5>2 DEF Subscribed
      <4>8. Joined(d, all, events, from + 1, h)
        BY <3>2, <3>3, <4>4, <4>6, <4>7 DEF Joined, Rooms
      <4>9. d.out = Append(c.out, call)
        BY <3>1, <3>5
      <4>10. Heard(d, all, events, from + 1, h)
        BY <3>1, <4>8 DEF Heard
      <4> QED
        BY <4>1, <4>9, <4>10 DEF d, all
    <3> QED
      BY <3>4, <3>5
  <2> QED
    BY <2>1, <2>4, <2>5 DEF d
<1> QED
    BY <1>2, <1>3

LEMMA RoomHeard ==
    ASSUME NEW c, NEW calls, NEW events, NEW from, NEW h, Hears(c, calls, events, from, h), c.met,
           events[from + 1].kind = "room"
    PROVE  LET d == Handle(c, events[from + 1])
           IN  d.out = c.out /\ Heard(d, calls, events, from + 1, h)
<1> DEFINE e == events[from + 1]
           mine == e.id = c.view.sub
           d == Handle(c, e)
<1>1. /\ e \in Event /\ c \in SoundGame /\ c.link = "open" /\ calls \in Seq(Call)
      /\ events \in Seq(Event) /\ from \in Nat /\ from < Len(events)
    BY NextEvent DEF Hears
<1>2. /\ d \in SoundGame /\ d.link = "open" /\ d.met /\ d.out = c.out
      /\ d.awaited = c.awaited \ {e.id}
      /\ d.view.account = c.view.account /\ d.view.room = c.view.room
      /\ d.view.sub = c.view.sub
      /\ ~Connected(c) => ~Connected(d)
      /\ Connected(d) =>
            /\ (d.view.ready <=> c.view.ready \/ mine) /\ (c.view.shown => d.view.shown)
            /\ mine => ~e.failed /\ (e.there /\ e.room = c.view.room => d.view.shown)
    BY <1>1, RoomHandled
<1> HIDE DEF d
<1>3. Greeted(d, events, from + 1, h)
    BY <1>2, GreetedOn
<1>4. c.view.account
    BY <1>1 DEF Hears, Stages, Comes
<1>5. Stages(d, calls, events, from + 1, h)
    BY <1>1, <1>2, <1>4 DEF Hears, Stages
<1>6. ASSUME SignedIn(d)
      PROVE  /\ Seated(d, events, from + 1, h) /\ IdsApart(d, calls, events, from + 1)
             /\ Subscribed(d, calls, events, from + 1)
  <2>1. Connected(d) /\ SignedIn(c)
    BY <1>2, <1>6 DEF SignedIn
  <2>2. Seated(c, events, from, h) /\ IdsApart(c, calls, events, from)
        /\ Subscribed(c, calls, events, from)
    BY <2>1 DEF Hears, Rooms
  <2>3. Seated(d, events, from + 1, h) /\ IdsApart(d, calls, events, from + 1)
    BY <1>1, <1>2, <2>2, SeatedOn, IdsApartOn
  <2>4. Answers(events, from) = Answers(events, from + 1) \cup {from + 1}
        /\ from + 1 \notin Answers(events, from + 1)
    BY <1>1 DEF Answers
  <2>5. \A k \in Answers(events, from) : \A j \in from + 1..k - 1 :
            events[j].kind = "member" => j \in from + 1 + 1..k - 1
    BY <1>1 DEF Answers
  <2>6. d.view.room # NoRoom =>
            (d.view.ready <=> ~UnderWay(d.view.sub, calls, events, from + 1))
    <3>1. CASE mine
      <4>1. ~UnderWay(d.view.sub, calls, events, from + 1)
        BY <1>2, <2>2, <2>4, <3>1 DEF IdsApart, UnderWay
      <4> QED
        BY <1>2, <2>1, <3>1, <4>1
    <3>2. CASE ~mine
      <4>1. UnderWay(d.view.sub, calls, events, from + 1) <=> UnderWay(c.view.sub, calls, events, from)
        BY <1>2, <2>4, <3>2 DEF UnderWay
      <4> QED
        BY <1>2, <2>1, <2>2, <3>2, <4>1 DEF Subscribed
    <3> QED
      BY <3>1, <3>2
  <2>7. mine => e.room = c.view.room /\ (e.there \/ e.failed)
    BY <1>1, <2>2, <2>4 DEF Subscribed
  <2>8. d.view.ready => d.view.shown
    BY <1>2, <2>1, <2>2, <2>7 DEF Subscribed
  <2>9. Subscribed(d, calls, events, from + 1)
    BY <1>2, <2>2, <2>4, <2>5, <2>6, <2>8 DEF Subscribed
  <2> QED
    BY <2>3, <2>9
<1>7. Joined(d, calls, events, from + 1, h)
    BY <1>3, <1>5, <1>6 DEF Joined, Rooms
<1> QED
    BY <1>2, <1>7 DEF Heard, d

LEMMA EventHeard ==
    ASSUME NEW c, NEW calls, NEW events, NEW from, NEW h, Hears(c, calls, events, from, h),
           Unmet(c, calls, events, from, h)
    PROVE  LET d == Handle(c, events[from + 1])
           IN  \/ TurnedAway(d)
               \/ d.out = c.out /\ Heard(d, calls, events, from + 1, h)
               \/ \E call \in Call :
                     d.out = Append(c.out, call) /\ Heard(d, Append(calls, call), events, from + 1, h)
<1> DEFINE e == events[from + 1]
           d == Handle(c, e)
<1>1. /\ e \in Event /\ c \in SoundGame /\ c.link = "open" /\ from < Len(events)
      /\ from \in Nat /\ Len(events) \in Nat
    BY NextEvent DEF Hears
<1>2. CASE e.kind = "hello"
    BY <1>2, HelloHeard, WatchesAreCalls
<1>3. CASE e.kind # "hello"
  <2>1. c.met
    BY <1>1, <1>3 DEF Unmet
  <2>2. CASE e.kind = "protocol"
    BY <2>1, <2>2, ProtocolHeard, WatchesAreCalls
  <2>3. CASE e.kind = "content"
    BY <2>1, <2>3, ContentHeard, WatchesAreCalls
  <2>4. CASE e.kind = "account"
    BY <2>1, <2>4, AccountHeard, WatchesAreCalls
  <2>5. CASE e.kind = "member"
    BY <2>1, <2>5, MemberHeard
  <2>6. CASE e.kind = "room"
    BY <2>1, <2>6, RoomHeard
  <2>7. CASE e.kind = "refused"
    <3>1. Alike(c, d)
      BY <1>1, <2>7, RefusalHandled
    <3> HIDE DEF d
    <3>2. Joined(d, calls, events, from + 1, h)
      BY <2>1, <2>7, <3>1, QuietHeard
    <3>3. d.out = c.out /\ Heard(d, calls, events, from + 1, h)
      BY <1>1, <2>1, <3>1, <3>2 DEF Heard, Alike
    <3> QED
      BY <3>3 DEF d
  <2> QED
    BY <1>1, <1>3, <2>2, <2>3, <2>4, <2>5, <2>6, <2>7, Events
<1> QED
    BY <1>2, <1>3

-----------------------------------------------------------------------------
(* All the events of a frame.                                              *)

LEMMA UpTo ==
    ASSUME NEW n \in Nat, NEW P, 0 \in P, \A i \in 1..n : i - 1 \in P => i \in P
    PROVE  \A i \in 0..n : i \in P
<1> SUFFICES ASSUME NEW m \in 0..n, m \notin P PROVE FALSE
    OBVIOUS
<1> DEFINE Out == {i \in Nat : i \in 0..n /\ i \notin P}
<1>1. m \in Out
    OBVIOUS
<1>2. PICK k \in Out : \A l \in Out : ~(<<l, k>> \in OpToRel(<, Nat))
    BY <1>1, WFMin, NatLessThanWellFounded
<1>3. \A l \in Out : ~(l < k)
    BY <1>2 DEF OpToRel
<1>4. k # 0 /\ k \in 1..n /\ k - 1 \notin Out
    BY <1>3
<1> QED
    BY <1>4

(* A recursive function over the places of a sequence exists.              *)
FoldOf(f, S, n, c, H) ==
    f \in [0..n -> S] /\ f[0] = c /\ \A i \in 1..n : f[i] = H[<<f[i - 1], i>>]

LEMMA FoldRuns ==
    ASSUME NEW S, NEW n \in Nat, NEW c \in S, NEW H \in [S \X (1..n) -> S]
    PROVE  \E f : FoldOf(f, S, n, c, H)
<1> DEFINE Runs(f, k) == f \in [0..k -> S] /\ f[0] = c /\ \A i \in 1..k : f[i] = H[<<f[i - 1], i>>]
           P == {k \in 0..n : \E f : Runs(f, k)}
<1>1. 0 \in P
  <2>1. \E f : Runs(f, 0)
    <3> WITNESS [i \in 0..0 |-> c]
    <3> QED
      OBVIOUS
  <2> HIDE DEF Runs
  <2> QED
    BY <2>1
<1>2. ASSUME NEW k \in 1..n, k - 1 \in P PROVE k \in P
  <2>1. PICK f : Runs(f, k - 1)
    BY <1>2
  <2> DEFINE last == H[<<f[k - 1], k>>]
             g == [i \in 0..k |-> IF i = k THEN last ELSE f[i]]
  <2>2. last \in S
    BY <2>1
  <2>3. g \in [0..k -> S]
    BY <2>1, <2>2
  <2>4. g[0] = c
    BY <2>1
  <2>5. ASSUME NEW i \in 1..k PROVE g[i] = H[<<g[i - 1], i>>]
    <3>1. g[i - 1] = f[i - 1] /\ i - 1 \in 0..(k - 1)
      OBVIOUS
    <3>2. CASE i = k
      <4>1. g[i] = last
        BY <3>2
      <4> HIDE DEF g
      <4> QED
        BY <4>1, <3>1, <3>2
    <3>3. CASE i # k
      <4>1. i \in 1..(k - 1) /\ g[i] = f[i]
        BY <3>3
      <4> HIDE DEF g
      <4> QED
        BY <4>1, <3>1, <2>1
    <3> QED
      BY <3>2, <3>3
  <2> HIDE DEF g
  <2>6. Runs(g, k)
    BY <2>3, <2>4, <2>5
  <2> QED
    BY <2>6
<1>3. \A k \in 1..n : k - 1 \in P => k \in P
    BY <1>2
<1>4. n \in P
  <2> HIDE DEF P
  <2>1. \A i \in 0..n : i \in P
    BY <1>1, <1>3, UpTo
  <2> QED
    BY <2>1
<1> QED
    BY <1>4 DEF FoldOf


(* Of the first i events heard, by a game that may be told it lost its     *)
(* connection once all are.                                                *)
Listens(x, sent, events, i, gone, h) ==
    \/ TurnedAway(x)
    \/ /\ x \in SoundGame /\ x.link = "open"
       /\ Unmet(x, sent \o x.out, events, i, h)
       /\ ~gone => Joined(x, sent \o x.out, events, i, h)

LEMMA Concats ==
    ASSUME NEW s \in Seq(Call), NEW t \in Seq(Call), NEW call \in Call
    PROVE  s \o t \in Seq(Call) /\ s \o Append(t, call) = Append(s \o t, call)
<1>1. s \o Append(t, call) \in Seq(Call) /\ Append(s \o t, call) \in Seq(Call) /\ s \o t \in Seq(Call)
    OBVIOUS
<1> DEFINE u == s \o Append(t, call)
           v == Append(s \o t, call)
<1>2. Len(u) = Len(v) /\ \A i \in 1..Len(u) : u[i] = v[i]
    OBVIOUS
<1>3. u = v
  <2> HIDE DEF u, v
  <2> QED
    BY <1>1, <1>2, SeqEqual DEF u, v
<1> QED
    BY <1>1, <1>3

(* Lost or not, a game hears on.                                           *)
LEMMA EventTaken ==
    ASSUME NEW x \in SoundGame, x.link = "open", NEW e \in Event, x.met \/ e.kind = "hello"
    PROVE  LET d == Handle(x, e) IN TurnedAway(d) \/ (d \in SoundGame /\ d.link = "open" /\ d.met)
<1> DEFINE d == Handle(x, e)
           IsUp(y) == y \in SoundGame /\ y.link = "open" /\ y.met
<1>1. CASE e.kind = "hello"
    BY <1>1, HelloHandled
<1>2. CASE e.kind # "hello"
  <2>1. x.met /\ IsUp(x) /\ \A y : Alike(x, y) => IsUp(y)
    BY <1>2 DEF Alike
  <2>2. CASE e.kind = "protocol"
    BY <2>1, <2>2, ProtocolHandled
  <2>3. CASE e.kind = "content"
    BY <2>1, <2>3, ContentHandled
  <2>4. CASE e.kind = "account"
    BY <2>1, <2>4, AccountHandled
  <2>5. CASE e.kind = "member"
    <3> DEFINE told == RoomTold(e)
    <3>1. ASSUME SignedIn(x), told \in Room \cup {NoRoom} PROVE IsUp(SubscribeRoom(x, told))
      BY <2>1, <3>1, RoomSubscribed
    <3>2. d = x \/ (SignedIn(x) /\ told \in Room \cup {NoRoom} /\ d = SubscribeRoom(x, told))
      BY <2>1, <2>5, MemberHandled
    <3> HIDE DEF told, d
    <3>3. IsUp(d)
      BY <2>1, <3>1, <3>2
    <3> QED
      BY <3>3 DEF d
  <2>6. CASE e.kind = "room"
    BY <2>1, <2>6, RoomHandled
  <2>7. CASE e.kind = "refused"
    BY <2>1, <2>7, RefusalHandled
  <2> QED
    BY <1>2, <2>2, <2>3, <2>4, <2>5, <2>6, <2>7, Events
<1> QED
    BY <1>1, <1>2

LEMMA ListensOn ==
    ASSUME NEW x, NEW sent \in Seq(Call), NEW events \in Seq(Event), NEW i \in 1..Len(events),
           NEW gone, NEW h, Listens(x, sent, events, i - 1, gone, h)
    PROVE  Listens(Handle(x, events[i]), sent, events, i, gone, h)
<1> DEFINE e == events[i]
           d == Handle(x, e)
           calls == sent \o x.out
<1>1. i - 1 \in Nat /\ i - 1 < Len(events) /\ i - 1 + 1 = i /\ e \in Event
    OBVIOUS
<1>2. CASE TurnedAway(x)
  <2>1. d = x
    BY <1>2 DEF TurnedAway, Handle
  <2> QED
    BY <1>2, <2>1 DEF Listens
<1>3. CASE ~TurnedAway(x)
  <2>1. /\ x \in SoundGame /\ x.link = "open" /\ Unmet(x, calls, events, i - 1, h)
        /\ ~gone => Joined(x, calls, events, i - 1, h)
    BY <1>3 DEF Listens
  <2>2. calls \in Seq(Call) /\ x.out \in Seq(Call)
    BY <2>1, OpenIs
  <2>3. x.met \/ e.kind = "hello"
    BY <1>1, <2>1 DEF Unmet
  <2>4. TurnedAway(d) \/ (d \in SoundGame /\ d.link = "open" /\ d.met)
    BY <1>1, <2>1, <2>3, EventTaken
  <2>5. CASE gone
    BY <2>4, <2>5 DEF Listens, Unmet
  <2>6. CASE ~gone
    <3> HIDE DEF calls
    <3>1. Hears(x, calls, events, i - 1, h)
      BY <1>1, <2>1, <2>2, <2>6 DEF Hears, Joined
    <3>2. \/ TurnedAway(d)
          \/ d.out = x.out /\ Heard(d, calls, events, i, h)
          \/ \E call \in Call :
                d.out = Append(x.out, call) /\ Heard(d, Append(calls, call), events, i, h)
      BY <1>1, <2>1, <3>1, EventHeard
    <3>3. \A call \in Call : sent \o Append(x.out, call) = Append(calls, call)
      BY <2>2, Concats DEF calls
    <3> HIDE DEF d
    <3>4. TurnedAway(d) \/ Heard(d, sent \o d.out, events, i, h)
      BY <3>2, <3>3 DEF calls
    <3>5. Listens(d, sent, events, i, gone, h)
      BY <3>4 DEF Listens, Heard, Unmet
    <3> QED
      BY <3>5 DEF d
  <2> QED
    BY <2>5, <2>6
<1> QED
    BY <1>2, <1>3

LEMMA AllHeard ==
    ASSUME NEW c \in SoundGame, NEW sent \in Seq(Call), NEW events \in Seq(Event),
           NEW count \in 0..Len(events), NEW gone, NEW h,
           Listens(c, sent, events, 0, gone, h)
    PROVE  Listens(HandleAll(c, SubSeq(events, 1, count)), sent, events, count, gone, h)
<1> DEFINE first == SubSeq(events, 1, count)
           Step(x, i) == IF Handle(x, events[i]) \in SoundGame THEN Handle(x, events[i]) ELSE c
           H == [xi \in SoundGame \X (1..count) |-> Step(xi[1], xi[2])]
           heard[i \in 0..count] == IF i = 0 THEN c ELSE Handle(heard[i - 1], first[i])
<1>1. count \in Nat /\ Len(first) = count /\ \A i \in 1..count : first[i] = events[i] /\ i \in 1..Len(events)
    OBVIOUS
<1>2. H \in [SoundGame \X (1..count) -> SoundGame]
      /\ \A x \in SoundGame, i \in 1..count : H[<<x, i>>] = Step(x, i)
  <2>1. \A x, i : Step(x, i) \in SoundGame
    OBVIOUS
  <2> HIDE DEF Step
  <2> QED
    BY <2>1
<1>3. PICK f : FoldOf(f, SoundGame, count, c, H)
  <2> HIDE DEF H, heard, Step, first
  <2> QED
    BY <1>1, <1>2, FoldRuns
<1>4. f[0] = c /\ \A i \in 1..count : f[i - 1] \in SoundGame /\ f[i] = Step(f[i - 1], i)
  <2> HIDE DEF H, Step
  <2>1. \A i \in 1..count : f[i - 1] \in SoundGame
    BY <1>3 DEF FoldOf
  <2> QED
    BY <1>2, <1>3, <2>1 DEF FoldOf
<1> DEFINE P == {i \in 0..count : Listens(f[i], sent, events, i, gone, h)}
<1>5. 0 \in P
    BY <1>4
<1>6. ASSUME NEW i \in 1..count, Listens(f[i - 1], sent, events, i - 1, gone, h)
      PROVE  f[i] = Handle(f[i - 1], events[i]) /\ Listens(f[i], sent, events, i, gone, h)
  <2>1. Listens(Handle(f[i - 1], events[i]), sent, events, i, gone, h)
    BY <1>1, <1>6, ListensOn
  <2>2. Handle(f[i - 1], events[i]) \in SoundGame
    BY <2>1 DEF Listens, TurnedAway
  <2>3. f[i] = Handle(f[i - 1], events[i])
    BY <1>4, <2>2
  <2> QED
    BY <2>1, <2>3
<1>7. \A i \in 0..count : i \in P
  <2>1. \A i \in 1..count : i - 1 \in P => i \in P
    BY <1>6
  <2> HIDE DEF P
  <2> QED
    BY <1>1, <1>5, <2>1, UpTo
<1>8. \A i \in 1..count : f[i] = Handle(f[i - 1], first[i])
  <2> SUFFICES ASSUME NEW i \in 1..count PROVE f[i] = Handle(f[i - 1], first[i])
    OBVIOUS
  <2>1. i - 1 \in P
    BY <1>7
  <2> QED
    BY <1>1, <1>6, <2>1
<1>9. f = [i \in 0..count |-> IF i = 0 THEN c ELSE Handle(f[i - 1], first[i])]
  <2> HIDE DEF first, P, H, Step, heard
  <2> QED
    BY <1>1, <1>3, <1>4, <1>8 DEF FoldOf
<1>10. heard = [i \in 0..count |-> IF i = 0 THEN c ELSE Handle(heard[i - 1], first[i])]
  <2> HIDE DEF first, P, H, Step
  <2> QED
    BY <1>9
<1> DEFINE Q == {i \in 0..count : Listens(heard[i], sent, events, i, gone, h)}
<1>11. heard[0] = c /\ \A i \in 1..count : heard[i] = Handle(heard[i - 1], events[i])
  <2> HIDE DEF heard, first, P, Q, H, Step
  <2> QED
    BY <1>1, <1>10
<1> HIDE DEF heard
<1>12. 0 \in Q /\ \A i \in 1..count : i - 1 \in Q => i \in Q
    BY <1>1, <1>11, ListensOn
<1>13. count \in Q
  <2> HIDE DEF Q, P, first, H, Step
  <2>1. \A i \in 0..count : i \in Q
    BY <1>1, <1>12, UpTo
  <2> QED
    BY <1>1, <2>1
<1>14. HandleAll(c, first) = heard[count]
    BY <1>1 DEF HandleAll, heard
<1> QED
    BY <1>13, <1>14

-----------------------------------------------------------------------------
(* The menus and the watch over the round leave what is known; the rest of *)
(* the events is heard in the frames to come.                              *)

LEMMA ExtendsAfter ==
    ASSUME NEW sent \in Seq(Call), NEW s \in Seq(Call), NEW t \in Seq(Call), Extends(s, t)
    PROVE  Extends(sent \o s, sent \o t)
<1>1. /\ Len(sent \o s) = Len(sent) + Len(s) /\ Len(sent \o t) = Len(sent) + Len(t)
      /\ Len(sent) \in Nat /\ Len(s) \in Nat /\ Len(t) \in Nat
    OBVIOUS
<1>2. \A i \in 1..Len(sent) + Len(s) :
          (sent \o s)[i] = IF i <= Len(sent) THEN sent[i] ELSE s[i - Len(sent)]
    OBVIOUS
<1>3. \A i \in 1..Len(sent) + Len(t) :
          (sent \o t)[i] = IF i <= Len(sent) THEN sent[i] ELSE t[i - Len(sent)]
    OBVIOUS
<1> DEFINE a == sent \o s
           b == sent \o t
<1> HIDE DEF a, b
<1>4. \A i \in 1..Len(a) : b[i] = a[i]
    BY <1>1, <1>2, <1>3 DEF Extends, a, b
<1>5. \A i \in Len(a) + 1..Len(b) : b[i].call \in {"join", "leave", "claim"}
  <2> SUFFICES ASSUME NEW i \in Len(a) + 1..Len(b) PROVE b[i].call \in {"join", "leave", "claim"}
    OBVIOUS
  <2>1. b[i] = t[i - Len(sent)] /\ i - Len(sent) \in Len(s) + 1..Len(t)
    BY <1>1, <1>3 DEF a, b
  <2> QED
    BY <2>1 DEF Extends
<1> QED
    BY <1>1, <1>4, <1>5 DEF Extends, a, b

LEMMA ExtendsAsks ==
    ASSUME NEW calls \in Seq(Call), NEW all \in Seq(Call), Extends(calls, all)
    PROVE  /\ \A what \in {"watch_protocol", "watch_content", "watch_self", "watch_room"} :
                 Asks(all, what) => Asks(calls, what)
           /\ WatchCalls(all) = WatchCalls(calls) /\ \A i \in WatchCalls(calls) : all[i] = calls[i]
<1>1. /\ Len(calls) \in Nat /\ Len(all) \in Nat /\ Len(calls) <= Len(all)
      /\ \A i \in 1..Len(all) :
            \/ i \in 1..Len(calls) /\ all[i] = calls[i]
            \/ i \notin 1..Len(calls) /\ all[i].call \in {"join", "leave", "claim"}
      /\ \A i \in 1..Len(calls) : i \in 1..Len(all) /\ all[i] = calls[i]
    BY DEF Extends
<1> QED
    BY <1>1 DEF Asks, WatchCalls

LEMMA MovesKeep ==
    ASSUME NEW c \in SoundGame, NEW d, Moves(c, d), d.link = "open", NEW sent \in Seq(Call),
           NEW events \in Seq(Event), NEW from \in Nat, NEW gone, NEW h,
           Listens(c, sent, events, from, gone, h)
    PROVE  Listens(d, sent, events, from, gone, h)
<1> DEFINE calls == sent \o c.out
           all == sent \o d.out
<1>1. /\ d \in SoundGame /\ c.link = "open"
      /\ d.view = c.view /\ d.awaited = c.awaited /\ d.met = c.met
      /\ Connected(d) <=> Connected(c)
      /\ Extends(c.out, d.out)
      /\ ~Connected(c) => d.out = c.out
    BY DEF Moves
<1>2. c.out \in Seq(Call) /\ d.out \in Seq(Call)
    BY <1>1, OpenIs
<1>3. /\ calls \in Seq(Call) /\ all \in Seq(Call) /\ Extends(calls, all)
      /\ ~Connected(c) => all = calls
  <2>1. calls \in Seq(Call) /\ all \in Seq(Call)
    BY <1>2
  <2>2. Extends(calls, all)
    BY <1>1, <1>2, ExtendsAfter
  <2>3. ~Connected(c) => all = calls
    BY <1>1
  <2> QED
    BY <2>1, <2>2, <2>3
<1>4. /\ Unmet(c, calls, events, from, h)
      /\ ~gone => Joined(c, calls, events, from, h)
    BY <1>1 DEF Listens, TurnedAway
<1>5. ~c.met => ~Connected(c)
    BY DEF SoundGame, Fine, NoView, Connected
<1> HIDE DEF calls, all
<1>6. Unmet(d, all, events, from, h)
    BY <1>1, <1>3, <1>4, <1>5 DEF Unmet
<1>7. ASSUME Joined(c, calls, events, from, h) PROVE Joined(d, all, events, from, h)
  <2>1. Greeted(c, events, from, h) /\ Stages(c, calls, events, from, h)
        /\ Rooms(c, calls, events, from, h)
    BY <1>1, <1>7 DEF Joined
  <2>2. Greeted(d, events, from, h)
    BY <1>1, <2>1 DEF Greeted
  <2>3. \A what \in {"watch_protocol", "watch_content", "watch_self", "watch_room"} :
            Asks(all, what) => Asks(calls, what)
    BY <1>3, ExtendsAsks
  <2>4. Stages(d, all, events, from, h)
    BY <1>1, <1>3, <2>1, <2>3 DEF Stages
  <2>5. WatchCalls(all) = WatchCalls(calls) /\ \A i \in WatchCalls(calls) : all[i] = calls[i]
    BY <1>3, ExtendsAsks
  <2>6. ASSUME SignedIn(d)
        PROVE  Seated(d, events, from, h) /\ IdsApart(d, all, events, from)
               /\ Subscribed(d, all, events, from)
    <3>1. Seated(c, events, from, h) /\ IdsApart(c, calls, events, from)
          /\ Subscribed(c, calls, events, from)
      BY <1>1, <2>1, <2>6 DEF Rooms, SignedIn
    <3> QED
      BY <1>1, <2>5, <3>1 DEF Seated, IdsApart, Subscribed, UnderWay
  <2> QED
    BY <2>2, <2>4, <2>6 DEF Joined, Rooms
<1> QED
    BY <1>1, <1>4, <1>6, <1>7 DEF Listens, all

LEMMA Rest ==
    ASSUME NEW events \in Seq(Event), NEW count \in 0..Len(events)
    PROVE  LET rest == SubSeq(events, count + 1, Len(events))
           IN  /\ rest \in Seq(Event) /\ Len(rest) = Len(events) - count
               /\ \A i \in 1..Len(rest) : rest[i] = events[count + i]
OBVIOUS

LEMMA SeenShifts ==
    ASSUME NEW events \in Seq(Event), NEW count \in 0..Len(events), NEW rest \in Seq(Event),
           Len(rest) = Len(events) - count, \A i \in 1..Len(rest) : rest[i] = events[count + i],
           NEW k \in 0..Len(rest), NEW room, NEW last, Seen(room, events, count, count + k, last)
    PROVE  Seen(room, rest, 0, k, last)
<1>1. \A i \in 1..k : rest[i] = events[count + i] /\ count + i \in count + 1..count + k
    OBVIOUS
<1>2. CASE (\A i \in count + 1..count + k : events[i].kind # "member") /\ last = room
    BY <1>1, <1>2 DEF Seen
<1>3. ASSUME NEW j \in count + 1..count + k, events[j].kind = "member", RoomTold(events[j]) = last,
             \A i \in j + 1..count + k : events[i].kind # "member"
      PROVE  Seen(room, rest, 0, k, last)
  <2> DEFINE l == j - count
  <2>1. l \in 0 + 1..k /\ rest[l] = events[j]
    BY <1>1
  <2>2. \A i \in l + 1..k : count + i \in j + 1..count + k /\ rest[i] = events[count + i]
    BY <1>1
  <2>3. \A i \in l + 1..k : rest[i].kind # "member"
    BY <1>3, <2>2
  <2> HIDE DEF l
  <2> QED
    BY <1>3, <2>1, <2>3 DEF Seen
<1> QED
    BY <1>2, <1>3 DEF Seen

LEMMA RestKnown ==
    ASSUME NEW c, NEW d, d.link = c.link, d.met = c.met, d.status = c.status, d.view = c.view,
           d.awaited = c.awaited, NEW calls \in Seq(Call),
           NEW events \in Seq(Event), NEW count \in 0..Len(events), NEW h
    PROVE  LET rest == SubSeq(events, count + 1, Len(events))
           IN  /\ Unmet(c, calls, events, count, h) => Unmet(d, calls, rest, 0, h)
               /\ Joined(c, calls, events, count, h) => Joined(d, calls, rest, 0, h)
<1> DEFINE rest == SubSeq(events, count + 1, Len(events))
           n == Len(rest)
<1>1. /\ rest \in Seq(Event) /\ Len(rest) = Len(events) - count
      /\ \A i \in 1..Len(rest) : rest[i] = events[count + i]
    BY Rest
<1> HIDE DEF rest
<1>2. /\ count \in Nat /\ Len(events) \in Nat /\ n \in Nat
      /\ \A i \in 1..n : rest[i] = events[count + i] /\ count + i \in count + 1..Len(events)
    BY <1>1
<1>3. Unmet(c, calls, events, count, h) => Unmet(d, calls, rest, 0, h)
    BY <1>1, <1>2 DEF Unmet
<1>4. ASSUME Joined(c, calls, events, count, h), d.link = "open"
      PROVE  Greeted(d, rest, 0, h) /\ Stages(d, calls, rest, 0, h) /\ Rooms(d, calls, rest, 0, h)
  <2>1. Greeted(c, events, count, h) /\ Stages(c, calls, events, count, h)
        /\ Rooms(c, calls, events, count, h)
    BY <1>4 DEF Joined
  <2>2. \A kind : Comes(rest, 0, kind) => Comes(events, count, kind)
    BY <1>2 DEF Comes
  <2>3. Greeted(d, rest, 0, h)
    BY <1>1, <1>2, <2>1, <2>2 DEF Greeted
  <2>4. Stages(d, calls, rest, 0, h)
    <3>1. c.met /\ ~Connected(c) /\ ~c.view.account => Len(calls) + n <= 1
      BY <1>1, <1>2, <2>1 DEF Stages
    <3> QED
      BY <1>2, <2>1, <2>2, <3>1 DEF Stages, Connected
  <2>5. ASSUME SignedIn(d)
        PROVE  Seated(d, rest, 0, h) /\ IdsApart(d, calls, rest, 0) /\ Subscribed(d, calls, rest, 0)
    <3>1. Seated(c, events, count, h) /\ IdsApart(c, calls, events, count)
          /\ Subscribed(c, calls, events, count)
      BY <2>1, <2>5 DEF Rooms, SignedIn, Connected
    <3>2. ASSUME NEW k \in 0..n, NEW last, Seen(c.view.room, events, count, count + k, last)
          PROVE  Seen(d.view.room, rest, 0, k, last)
      BY <1>1, <3>2, SeenShifts
    <3>3. Seated(d, rest, 0, h)
      <4>1. h.self => Seen(d.view.room, rest, 0, n, h.seat)
        <5>1. count + n = Len(events)
          BY <1>1, <1>2
        <5> QED
          BY <1>2, <3>1, <3>2, <5>1 DEF Seated
      <4>2. ASSUME NEW k \in 1..n, rest[k].kind = "member", rest[k].gone
            PROVE  Seen(d.view.room, rest, 0, k - 1, rest[k].room)
        <5>1. Seen(c.view.room, events, count, count + k - 1, rest[k].room)
          BY <1>2, <3>1, <4>2 DEF Seated
        <5>2. k - 1 \in 0..n /\ count + (k - 1) = count + k - 1
          BY <1>2
        <5> QED
          BY <3>2, <5>1, <5>2
      <4> QED
        BY <2>2, <3>1, <4>1, <4>2 DEF Seated
    <3>4. /\ \A k \in Answers(rest, 0) : count + k \in Answers(events, count) /\ rest[k] = events[count + k]
          /\ \A k \in Answers(events, count) : k - count \in Answers(rest, 0) /\ rest[k - count] = events[k]
      <4>1. ASSUME NEW k \in Answers(rest, 0)
            PROVE  count + k \in Answers(events, count) /\ rest[k] = events[count + k]
        BY <1>2 DEF Answers
      <4>2. ASSUME NEW k \in Answers(events, count)
            PROVE  k - count \in Answers(rest, 0) /\ rest[k - count] = events[k]
        <5>1. k - count \in 1..n /\ count + (k - count) = k /\ events[k].kind = "room"
          BY <1>1, <1>2 DEF Answers
        <5>2. rest[k - count] = events[k]
          BY <1>2, <5>1
        <5> QED
          BY <5>1, <5>2 DEF Answers
      <4> QED
        BY <4>1, <4>2
    <3>5. IdsApart(d, calls, rest, 0)
      <4>1. \A j, k \in Answers(rest, 0) : count + j = count + k => j = k
        BY <1>2 DEF Answers
      <4>2. ASSUME NEW k \in Answers(rest, 0)
            PROVE  /\ rest[k].id \in d.awaited
                   /\ \A j \in Answers(rest, 0) : rest[k].id = rest[j].id => k = j
                   /\ \A i \in WatchCalls(calls) : calls[i].id # rest[k].id
        <5>1. /\ count + k \in Answers(events, count) /\ rest[k] = events[count + k]
              /\ \A j \in Answers(rest, 0) :
                    count + j \in Answers(events, count) /\ rest[j] = events[count + j]
          BY <3>4
        <5>2. ASSUME NEW j \in Answers(rest, 0), rest[k].id = rest[j].id PROVE k = j
          <6>1. events[count + k].id = events[count + j].id
            BY <5>1, <5>2
          <6>2. count + k = count + j
            BY <3>1, <5>1, <6>1 DEF IdsApart
          <6> QED
            BY <4>1, <6>2
        <5> QED
          BY <3>1, <5>1, <5>2 DEF IdsApart
      <4> QED
        BY <3>1, <4>2 DEF IdsApart
    <3>6. \A id : UnderWay(id, calls, rest, 0) <=> UnderWay(id, calls, events, count)
      BY <3>4 DEF UnderWay
    <3>7. Subscribed(d, calls, rest, 0)
      <4>1. ASSUME NEW k \in Answers(rest, 0), NEW j \in count + 1..count + k - 1
            PROVE  j - count \in 1..k - 1 /\ rest[j - count] = events[j]
        BY <1>1, <1>2 DEF Answers
      <4>2. ASSUME NEW k \in Answers(rest, 0), rest[k].id = d.view.sub
            PROVE  /\ rest[k].room = d.view.room
                   /\ rest[k].there \/ rest[k].failed
                         \/ \E j \in 1..k - 1 : rest[j].kind = "member" /\ RoomTold(rest[j]) # d.view.room
        <5>1. count + k \in Answers(events, count) /\ rest[k] = events[count + k]
          BY <3>4
        <5> DEFINE l == count + k
        <5>2. l \in Answers(events, count) /\ events[l].id = c.view.sub
          BY <4>2, <5>1
        <5> HIDE DEF l
        <5>3. /\ events[l].room = c.view.room
              /\ events[l].there \/ events[l].failed
                    \/ \E j \in count + 1..l - 1 :
                          events[j].kind = "member" /\ RoomTold(events[j]) # c.view.room
          BY <3>1, <5>2 DEF Subscribed
        <5>4. \A j \in count + 1..l - 1 : j - count \in 1..k - 1 /\ rest[j - count] = events[j]
          <6> SUFFICES ASSUME NEW j \in count + 1..l - 1
                       PROVE  j - count \in 1..k - 1 /\ rest[j - count] = events[j]
            OBVIOUS
          <6>1. j \in count + 1..count + k - 1
            BY <1>2 DEF l, Answers
          <6> QED
            BY <4>1, <6>1
        <5>5. rest[k] = events[l]
          BY <5>1 DEF l
        <5> QED
          BY <5>3, <5>4, <5>5
      <4>3. 0 + 1 = 1
        OBVIOUS
      <4> QED
        BY <3>1, <3>6, <4>2, <4>3 DEF Subscribed
    <3> QED
      BY <3>3, <3>5, <3>7
  <2> QED
    BY <2>3, <2>4, <2>5 DEF Rooms
<1> QED
    BY <1>3, <1>4 DEF Joined, rest

-----------------------------------------------------------------------------
(* What the threads say, and the loss of a connection.                     *)

(* A game whose connection is yet to meet the server, if there is one.     *)
Fresh(c) == c \in SoundGame /\ ~c.met

LEMMA FreshMade ==
    ASSUME NEW c \in SoundGame, ~c.met, NEW d \in Game, ~d.met,
           d.menu = c.menu, d.view = c.view, d.awaited = c.awaited, Fine(d)
    PROVE  Fresh(d)
BY DEF Fresh, SoundGame

LEMMA RefusalsForgotten ==
    ASSUME NEW c \in SoundGame
    PROVE  LET d == [c EXCEPT !.refusals = {}]
           IN  Moves(c, d) /\ d.link = c.link /\ d.met = c.met /\ d.login = c.login /\ d.out = c.out
<1> DEFINE none == {}
           d == [c EXCEPT !.refusals = none]
<1>1. c \in Game /\ none \in SUBSET {"join", "claim"}
    BY DEF SoundGame
<1> HIDE DEF none
<1>2. /\ d \in Game /\ d.menu = c.menu /\ d.status = c.status /\ d.login = c.login /\ d.link = c.link
      /\ d.view = c.view /\ d.met = c.met /\ d.refused = c.refused /\ d.awaited = c.awaited
      /\ d.out = c.out
    BY <1>1 DEF Game
<1> HIDE DEF d
<1>3. d \in SoundGame
    BY <1>2 DEF SoundGame, Fine
<1>4. Extends(c.out, c.out)
    BY <1>1 DEF Extends, Game
<1> QED
    BY <1>2, <1>3, <1>4 DEF Moves, Connected, d, none

LEMMA LoginHandled ==
    ASSUME NEW c \in SoundGame, c.link # "open", NEW says \in Says(c)
    PROVE  Fresh(HandleLogin(c, says)) /\ HandleLogin(c, says).link # "open"
<1>1. /\ c \in Game /\ Fine(c) /\ ~c.met /\ c.view = NoView
      /\ c.login \in {"none", "silent", "browser", "asked"} /\ c.status \in Status
    BY DEF SoundGame, Fine, Game
<1>2. CASE says = "nothing"
    BY <1>1, <1>2 DEF HandleLogin, Fresh
<1>3. CASE says # "nothing"
  <2>1. c.login # "none" /\ says \in {"waiting", "token", "failed"}
    BY <1>3 DEF Says
  <2>2. c.link = "none" /\ ~c.refused
    BY <1>1, <2>1 DEF Fine
  <2> DEFINE asked == "asked"
             none == "none"
             waiting == "waiting"
             connecting == "connecting"
             failed == "failed"
             opening == "opening"
             w == [c EXCEPT !.login = asked, !.status = waiting]
             t == [c EXCEPT !.login = none, !.status = connecting, !.link = opening]
             f == [c EXCEPT !.login = none, !.status = failed]
             d == HandleLogin(c, says)
  <2>3. d \in {w, t, f}
    BY <2>1 DEF HandleLogin
  <2>4. /\ asked = "asked" /\ none = "none" /\ waiting = "waiting" /\ connecting = "connecting"
        /\ failed = "failed" /\ opening = "opening"
        /\ waiting \in Status /\ connecting \in Status /\ failed \in Status
    BY DEF Status
  <2> HIDE DEF asked, none, waiting, connecting, failed, opening
  <2>5. /\ w \in Game /\ w.menu = c.menu /\ w.view = c.view /\ w.awaited = c.awaited /\ w.met = c.met
        /\ w.refused = c.refused /\ w.link = c.link /\ w.login = asked /\ w.status = waiting
    BY <1>1, <2>4 DEF Game
  <2>6. /\ t \in Game /\ t.menu = c.menu /\ t.view = c.view /\ t.awaited = c.awaited /\ t.met = c.met
        /\ t.refused = c.refused /\ t.link = opening /\ t.login = none /\ t.status = connecting
    BY <1>1, <2>4 DEF Game
  <2>7. /\ f \in Game /\ f.menu = c.menu /\ f.view = c.view /\ f.awaited = c.awaited /\ f.met = c.met
        /\ f.refused = c.refused /\ f.link = c.link /\ f.login = none /\ f.status = failed
    BY <1>1, <2>4 DEF Game
  <2> HIDE DEF w, t, f
  <2>8. Fine(w) /\ Fine(t) /\ Fine(f)
    BY <1>1, <2>2, <2>4, <2>5, <2>6, <2>7, NoViewIsView DEF Fine
  <2>9. Fresh(w) /\ Fresh(t) /\ Fresh(f)
    BY <1>1, <2>5, <2>6, <2>7, <2>8, FreshMade
  <2> HIDE DEF d
  <2>10. Fresh(d) /\ d.link # "open"
    BY <2>2, <2>3, <2>4, <2>5, <2>6, <2>7, <2>9
  <2> QED
    BY <2>10 DEF d
<1> QED
    BY <1>2, <1>3

LEMMA OpeningHandled ==
    ASSUME NEW c, Fresh(c), c.link = "opening", NEW worked \in BOOLEAN
    PROVE  Fresh(HandleOpened(c, worked))
<1>1. /\ c \in Game /\ Fine(c) /\ ~c.met /\ c.view = NoView /\ c.login = "none" /\ ~c.refused
      /\ c.status \in Status
    BY DEF SoundGame, Fine, Game, Fresh
<1> DEFINE open == "open"
           none == "none"
           failed == "failed"
           o == [c EXCEPT !.link = open]
           f == [c EXCEPT !.link = none, !.status = failed]
           d == HandleOpened(c, worked)
<1>2. /\ open = "open" /\ none = "none" /\ failed = "failed" /\ failed \in Status
      /\ d \in {o, f}
    BY DEF HandleOpened, Status
<1> HIDE DEF open, none, failed
<1>3. /\ o \in Game /\ o.menu = c.menu /\ o.view = c.view /\ o.awaited = c.awaited /\ o.met = c.met
      /\ o.refused = c.refused /\ o.link = open /\ o.login = c.login /\ o.status = c.status
    BY <1>1, <1>2 DEF Game
<1>4. /\ f \in Game /\ f.menu = c.menu /\ f.view = c.view /\ f.awaited = c.awaited /\ f.met = c.met
      /\ f.refused = c.refused /\ f.link = none /\ f.login = c.login /\ f.status = failed
    BY <1>1, <1>2 DEF Game
<1> HIDE DEF o, f
<1>5. Fine(o) /\ Fine(f)
    BY <1>1, <1>2, <1>3, <1>4, NoViewIsView DEF Fine
<1>6. Fresh(o) /\ Fresh(f)
  <2>1. c \in SoundGame
    BY DEF Fresh
  <2> QED
    BY <1>1, <1>3, <1>4, <1>5, <2>1, FreshMade
<1> HIDE DEF d
<1>7. Fresh(d)
    BY <1>2, <1>6
<1> QED
    BY <1>7 DEF d

LEMMA ConnectionLost ==
    ASSUME NEW c \in SoundGame, c.link = "open", NEW stable
    PROVE  LostConnection(c, stable) \in SoundGame /\ LostConnection(c, stable).link = "none"
<1> DEFINE gone == Closed(c)
           failed == "failed"
           out == "signed_out"
           signing == "signing_in"
           silent == "silent"
           cleared == ForgetSession(gone)
           f == [gone EXCEPT !.status = failed]
           r == [cleared EXCEPT !.status = signing, !.login = silent]
           o == [cleared EXCEPT !.status = out]
           d == LostConnection(c, stable)
<1>1. /\ failed = "failed" /\ out = "signed_out" /\ signing = "signing_in" /\ silent = "silent"
      /\ failed \in Status /\ out \in Status /\ signing \in Status
      /\ silent \in {"none", "silent", "browser", "asked"}
    BY DEF Status
<1>2. d = (IF ~c.met THEN f ELSE IF ~c.guest /\ stable THEN r ELSE o)
    BY DEF LostConnection
<1>3. /\ gone \in Game /\ gone.menu = c.menu /\ gone.login = "none" /\ gone.link = "none"
      /\ ~gone.met /\ gone.awaited = {} /\ gone.view = c.view
      /\ gone.refused = c.refused
    BY ClosedOff
<1>4. /\ cleared \in Game /\ cleared.menu = c.menu /\ cleared.login = "none" /\ cleared.link = "none"
      /\ ~cleared.met /\ cleared.awaited = {} /\ cleared.view = NoView /\ cleared.refused = c.refused
    BY Forgets
<1>5. ~c.refused /\ (~c.met => c.view = NoView)
    BY DEF SoundGame, Fine
<1> HIDE DEF gone, cleared, failed, out, signing, silent, d
<1>6. /\ f \in Game /\ f.menu = c.menu /\ f.login = "none" /\ f.link = "none"
      /\ ~f.met /\ f.awaited = {} /\ f.view = c.view /\ ~f.refused /\ f.status = failed
    BY <1>1, <1>3, <1>5 DEF Game
<1>7. /\ r \in Game /\ r.menu = c.menu /\ r.login = silent /\ r.link = "none"
      /\ ~r.met /\ r.awaited = {} /\ r.view = NoView /\ ~r.refused /\ r.status = signing
    BY <1>1, <1>4, <1>5 DEF Game
<1>8. /\ o \in Game /\ o.menu = c.menu /\ o.login = "none" /\ o.link = "none"
      /\ ~o.met /\ o.awaited = {} /\ o.view = NoView /\ ~o.refused /\ o.status = out
    BY <1>1, <1>4, <1>5 DEF Game
<1> HIDE DEF f, r, o
<1>9. (~c.met => Moves(c, f)) /\ Moves(c, r) /\ Moves(c, o)
    BY <1>1, <1>5, <1>6, <1>7, <1>8, Forgotten
<1>10. d \in SoundGame /\ d.link = "none"
    BY <1>2, <1>6, <1>7, <1>8, <1>9, MovesSound
<1> QED
    BY <1>10 DEF d

LEMMA NoneHeard == ASSUME NEW c PROVE HandleAll(c, <<>>) = c
<1> DEFINE none == <<>>
           heard[i \in 0..0] == IF i = 0 THEN c ELSE Handle(heard[i - 1], none[i])
<1>1. heard = [i \in 0..0 |-> IF i = 0 THEN c ELSE Handle(heard[i - 1], none[i])]
  <2> DEFINE f == [i \in 0..0 |-> c]
  <2>1. f = [i \in 0..0 |-> IF i = 0 THEN c ELSE Handle(f[i - 1], none[i])]
    OBVIOUS
  <2> QED
    BY <2>1
<1>2. heard[0] = c
  <2> HIDE DEF heard
  <2> QED
    BY <1>1
<1>3. Len(none) = 0
    OBVIOUS
<1>4. HandleAll(c, none) = heard[0]
    BY <1>3 DEF HandleAll, heard
<1> QED
    BY <1>2, <1>4

-----------------------------------------------------------------------------
(* A frame.                                                                *)

LEMMA SaysNothing ==
    ASSUME NEW c \in SoundGame, NEW d \in SoundGame, d.login = c.login, d.link = c.link, NEW says \in Says(c)
    PROVE  /\ says \in Says(d) /\ HandleLogin(d, says).link = HandleLogin(c, says).link
           /\ c.link = "open" => says = "nothing" /\ HandleLogin(d, says) = d
<1>1. says \in Says(d)
    BY DEF Says
<1>2. c \in Game /\ d \in Game
    BY DEF SoundGame
<1>3. says \in {"nothing", "waiting", "token", "failed"}
    BY DEF Says
<1>4. HandleLogin(d, says).link = HandleLogin(c, says).link
  <2>1. CASE says = "nothing"
    BY <2>1 DEF HandleLogin
  <2>2. CASE says = "waiting"
    BY <1>2, <2>2 DEF HandleLogin, Game
  <2>3. CASE says = "token"
    BY <1>2, <2>3 DEF HandleLogin, Game
  <2>4. CASE says = "failed"
    BY <1>2, <2>4 DEF HandleLogin, Game
  <2> QED
    BY <1>3, <2>1, <2>2, <2>3, <2>4
<1>5. c.link = "open" => says = "nothing"
    BY OpenIs DEF Says
<1>6. says = "nothing" => HandleLogin(d, says) = d
    BY DEF HandleLogin
<1> QED
    BY <1>1, <1>4, <1>5, <1>6

(* What the game is before it is told of the loss.                         *)
Polled(c, says, opens, events) ==
    LET said == HandleLogin([c EXCEPT !.refusals = {}], says)
        opened == IF opens = "not_yet" THEN said ELSE HandleOpened(said, opens = "ok")
    IN  HandleAll(opened, events)

LEMMA PolledThenLost ==
    ASSUME NEW c, NEW says, NEW opens, NEW events, NEW loses, NEW stable
    PROVE  LET p == Polled(c, says, opens, events)
               u == Updated(c, says, opens, events, loses, stable)
           IN  u = p \/ (p.link = "open" /\ u = LostConnection(p, stable))
BY Zenon DEF Polled, Updated

LEMMA LostAnyway ==
    ASSUME NEW c, NEW says, NEW opens, NEW events, NEW loses, NEW stable,
           Polled(c, says, opens, events) \in SoundGame
    PROVE  LET p == Polled(c, says, opens, events)
               u == Updated(c, says, opens, events, loses, stable)
           IN  u \in SoundGame /\ (u.link = "open" => u = p) /\ (u.met => u.link = "open")
<1> DEFINE p == Polled(c, says, opens, events)
           u == Updated(c, says, opens, events, loses, stable)
           l == LostConnection(p, stable)
<1>1. u = p \/ (p.link = "open" /\ u = l)
    BY PolledThenLost
<1>2. p.link = "open" => l \in SoundGame /\ l.link = "none"
    BY ConnectionLost
<1>3. p \in SoundGame
    OBVIOUS
<1> HIDE DEF p, u, l
<1>4. u \in SoundGame /\ (u.link = "open" => u = p)
    BY <1>1, <1>2, <1>3
<1>5. u.met => u.link = "open"
    BY <1>4 DEF SoundGame, Fine
<1> QED
    BY <1>4, <1>5 DEF p, u

LEMMA PolledApart ==
    ASSUME NEW c \in SoundGame, c.link # "open", NEW says \in Says(c),
           NEW opens \in {"not_yet", "ok", "failed"},
           opens # "not_yet" => HandleLogin(c, says).link = "opening"
    PROVE  Fresh(Polled(c, says, opens, <<>>))
<1> DEFINE r == [c EXCEPT !.refusals = {}]
           said == HandleLogin(r, says)
           worked == opens = "ok"
           other == HandleOpened(said, worked)
<1>1. r \in SoundGame /\ r.link = c.link /\ r.login = c.login
    BY RefusalsForgotten, MovesSound
<1> HIDE DEF r
<1>2. says \in Says(r) /\ said.link = HandleLogin(c, says).link
    BY <1>1, SaysNothing
<1>3. Fresh(said)
    BY <1>1, <1>2, LoginHandled
<1>4. worked \in BOOLEAN
    OBVIOUS
<1> HIDE DEF said, worked
<1>5. opens # "not_yet" => Fresh(other)
    BY <1>2, <1>3, <1>4, OpeningHandled
<1> HIDE DEF other
<1>6. CASE opens = "not_yet"
  <2>1. Polled(c, says, opens, <<>>) = HandleAll(said, <<>>)
    BY <1>6 DEF Polled, said, r
  <2> QED
    BY <1>3, <2>1, NoneHeard
<1>7. CASE opens # "not_yet"
  <2>1. Polled(c, says, opens, <<>>) = HandleAll(other, <<>>)
    BY <1>7 DEF Polled, said, r, other, worked
  <2> QED
    BY <1>5, <1>7, <2>1, NoneHeard
<1> QED
    BY <1>6, <1>7

LEMMA PolledOnline ==
    ASSUME NEW c \in SoundGame, c.link = "open", NEW says \in Says(c), NEW opens,
           opens # "not_yet" => HandleLogin(c, says).link = "opening",
           NEW sent \in Seq(Call), NEW events \in Seq(Event), NEW count \in 0..Len(events),
           NEW gone, NEW h, Listens(c, sent, events, 0, gone, h)
    PROVE  Listens(Polled(c, says, opens, SubSeq(events, 1, count)), sent, events, count, gone, h)
<1> DEFINE r == [c EXCEPT !.refusals = {}]
<1>1. r \in SoundGame /\ r.link = c.link /\ r.login = c.login /\ Moves(c, r)
    BY RefusalsForgotten, MovesSound
<1>2. Listens(r, sent, events, 0, gone, h)
    BY <1>1, MovesKeep
<1> HIDE DEF r
<1>3. HandleLogin(c, says) = c /\ HandleLogin(r, says) = r
    BY <1>1, SaysNothing
<1>4. opens = "not_yet"
    BY <1>3
<1>5. Polled(c, says, opens, SubSeq(events, 1, count)) = HandleAll(r, SubSeq(events, 1, count))
    BY <1>3, <1>4 DEF Polled, r
<1> QED
    BY <1>1, <1>2, <1>5, AllHeard

LEMMA Emptied ==
    ASSUME NEW c \in SoundGame
    PROVE  LET d == [c EXCEPT !.out = <<>>]
           IN  /\ d \in SoundGame /\ d.out = <<>> /\ d.link = c.link /\ d.met = c.met
               /\ d.status = c.status /\ d.view = c.view /\ d.awaited = c.awaited
<1> DEFINE none == <<>>
           d == [c EXCEPT !.out = none]
<1>1. c \in Game /\ none \in Seq(Call)
    BY DEF SoundGame
<1> HIDE DEF none
<1>2. /\ d \in Game /\ d.menu = c.menu /\ d.status = c.status /\ d.login = c.login /\ d.link = c.link
      /\ d.view = c.view /\ d.met = c.met /\ d.refused = c.refused /\ d.awaited = c.awaited
      /\ d.out = none
    BY <1>1 DEF Game
<1> HIDE DEF d
<1>3. d \in SoundGame
    BY <1>2 DEF SoundGame, Fine
<1> QED
    BY <1>2, <1>3 DEF d, none

LEMMA HostGone ==
    ASSUME NEW h \in Host
    PROVE  Disconnected(h) \in Host /\ ~Disconnected(h).greeted /\ ~Disconnected(h).self
BY DEF Disconnected, Host

(* A game whose connection goes on, with what it still has to hear.        *)
LEMMA OnwardKnown ==
    ASSUME NEW next \in SoundGame, next.link = "open", NEW sent \in Seq(Call),
           NEW events \in Seq(Event), NEW count \in 0..Len(events), NEW gone, NEW h,
           Listens(next, sent, events, count, gone, h)
    PROVE  LET d == [next EXCEPT !.out = <<>>]
               calls == sent \o next.out
               rest == SubSeq(events, count + 1, Len(events))
           IN  /\ calls \in Seq(Call) /\ rest \in Seq(Event)
               /\ Unmet(d, calls, rest, 0, h) /\ (~gone => Joined(d, calls, rest, 0, h))
               /\ (gone => Unmet(d, <<>>, rest, 0, h))
<1> DEFINE d == [next EXCEPT !.out = <<>>]
           calls == sent \o next.out
           rest == SubSeq(events, count + 1, Len(events))
<1>1. next.out \in Seq(Call)
    BY OpenIs
<1>2. calls \in Seq(Call) /\ rest \in Seq(Event)
    BY <1>1
<1>3. Unmet(next, calls, events, count, h) /\ (~gone => Joined(next, calls, events, count, h))
    BY DEF Listens, TurnedAway
<1>4. /\ d.link = next.link /\ d.met = next.met
      /\ d.status = next.status /\ d.view = next.view /\ d.awaited = next.awaited
    BY Emptied
<1> HIDE DEF calls, d
<1>5. /\ Unmet(next, calls, events, count, h) => Unmet(d, calls, rest, 0, h)
      /\ Joined(next, calls, events, count, h) => Joined(d, calls, rest, 0, h)
    BY <1>2, <1>4, RestKnown
<1>6. Unmet(d, <<>>, rest, 0, h)
    BY <1>3, <1>5 DEF Unmet
<1> QED
    BY <1>2, <1>3, <1>5, <1>6 DEF calls, d

LEMMA NothingKnown ==
    ASSUME NEW c \in SoundGame, ~c.met, NEW h, ~h.greeted, ~h.self
    PROVE  Unmet(c, <<>>, <<>>, 0, h) /\ Joined(c, <<>>, <<>>, 0, h)
<1>1. ~Connected(c) /\ ~c.view.account /\ ~SignedIn(c)
    BY DEF SoundGame, Fine, NoView, Connected, SignedIn
<1>2. Len(<<>>) = 0 /\ \A i \in 1..Len(<<>>) : FALSE
    OBVIOUS
<1> QED
    BY <1>1, <1>2 DEF Unmet, Joined, Greeted, Stages, Rooms, Asks, Comes

LEMMA FrameKeeps ==
    ASSUME LinkInv, NEW key \in Key, NEW course, key # "none" => course \in Course,
           NEW says, NEW opens \in {"not_yet", "ok", "failed"}, NEW count \in 0..Len(down), NEW stable,
           Frame(key, course, says, opens, count, stable)
    PROVE  LinkInv'
<1> DEFINE asked == MenuFrame(me, key, course)
           still == me.link = "open" /\ asked.link = "open"
           heard == IF still THEN SubSeq(down, 1, count) ELSE <<>>
           loses == still /\ lost /\ count = Len(down)
           polled == Polled(asked, says, opens, heard)
           updated == Updated(asked, says, opens, heard, loses, stable)
           next == WatchRound(updated)
           kept == still /\ next.link = "open"
           emptied == [next EXCEPT !.out = <<>>]
           calls == up \o next.out
           rest == SubSeq(down, count + 1, Len(down))
<1>1. /\ me \in SoundGame /\ me.out = <<>> /\ up \in Seq(Call) /\ down \in Seq(Event)
      /\ lost \in BOOLEAN /\ host \in Host
      /\ Apart /\ Unmet(me, up, down, 0, host) /\ (~lost => Joined(me, up, down, 0, host))
    BY DEF LinkInv, TypeInv
<1>2. /\ says \in Says(asked)
      /\ opens # "not_yet" => HandleLogin(asked, says).link = "opening"
      /\ me' = emptied
      /\ up' = IF kept /\ ~lost THEN calls ELSE <<>>
      /\ down' = IF kept THEN rest ELSE <<>>
      /\ lost' = (kept /\ lost)
      /\ host' = IF me.link = "open" /\ ~kept THEN Disconnected(host) ELSE host
    BY DEF Frame
<1>3. Moves(me, asked) /\ asked \in SoundGame
    BY <1>1, MenuFramed, MovesSound
<1> HIDE DEF asked
<1>5. CASE still
  <2>1. Listens(asked, up, down, 0, lost, host)
    <3>1. up \o me.out = up
      BY <1>1
    <3>2. Listens(me, up, down, 0, lost, host)
      BY <1>1, <1>5, <3>1 DEF Listens
    <3> QED
      BY <1>1, <1>3, <1>5, <3>2, MovesKeep
  <2>2. Listens(polled, up, down, count, lost, host)
    BY <1>1, <1>2, <1>3, <1>5, <2>1, PolledOnline
  <2>3. polled \in SoundGame
    BY <2>2 DEF Listens, TurnedAway
  <2>4. updated \in SoundGame /\ (updated.link = "open" => updated = polled)
    BY <2>3, LostAnyway
  <2> HIDE DEF polled, updated
  <2>5. Moves(updated, next)
    BY <2>4, RoundWatched
  <2>6. next \in SoundGame /\ (next.link = "open" => updated.link = "open")
    BY <2>5 DEF Moves
  <2>7. next.link = "open" => Listens(next, up, down, count, lost, host)
    BY <1>1, <2>2, <2>4, <2>5, <2>6, MovesKeep
  <2> HIDE DEF next
  <2>8. emptied \in SoundGame /\ emptied.out = <<>> /\ emptied.link = next.link
    BY <2>6, Emptied
  <2>9. CASE next.link = "open"
    <3>1. /\ me' = emptied /\ up' = (IF ~lost THEN calls ELSE <<>>) /\ down' = rest
          /\ lost' = lost /\ host' = host
      BY <1>1, <1>2, <1>5, <2>9
    <3>2. /\ calls \in Seq(Call) /\ rest \in Seq(Event)
          /\ Unmet(emptied, calls, rest, 0, host) /\ (~lost => Joined(emptied, calls, rest, 0, host))
          /\ (lost => Unmet(emptied, <<>>, rest, 0, host))
      BY <1>1, <2>6, <2>7, <2>9, OnwardKnown
    <3> HIDE DEF emptied, calls, rest
    <3>3. TypeInv' /\ Apart'
      BY <1>1, <2>8, <2>9, <3>1, <3>2 DEF TypeInv, Apart
    <3>4. Unmet(me', up', down', 0, host') /\ (~lost' => Joined(me', up', down', 0, host'))
      BY <3>1, <3>2
    <3> QED
      BY <3>3, <3>4 DEF LinkInv
  <2>10. CASE next.link # "open"
    <3>1. /\ me' = emptied /\ up' = <<>> /\ down' = <<>> /\ ~lost' /\ lost' \in BOOLEAN
          /\ host' = Disconnected(host)
      BY <1>1, <1>2, <1>5, <2>10
    <3> HIDE DEF emptied
    <3> QED
      BY <1>1, <2>8, <2>10, <3>1, HostGone DEF LinkInv, TypeInv, Apart, Unmet, Joined
  <2> QED
    BY <2>9, <2>10
<1>6. CASE ~still
  <2>1. asked.link # "open"
    BY <1>3, <1>6 DEF Moves
  <2>2. heard = <<>>
    BY <1>6
  <2>3. Fresh(polled)
    BY <1>2, <1>3, <2>1, <2>2, PolledApart
  <2>4. updated \in SoundGame /\ (updated.link = "open" => updated = polled) /\ (updated.met => updated.link = "open")
    BY <2>3, LostAnyway DEF Fresh
  <2>5. ~updated.met
    BY <2>3, <2>4 DEF Fresh
  <2> HIDE DEF polled, updated
  <2>6. Moves(updated, next)
    BY <2>4, RoundWatched
  <2>7. next \in SoundGame /\ ~next.met
    BY <2>5, <2>6 DEF Moves
  <2> HIDE DEF next
  <2>8. emptied \in SoundGame /\ emptied.out = <<>> /\ ~emptied.met /\ emptied.view = next.view
    BY <2>7, Emptied
  <2>9. /\ me' = emptied /\ up' = <<>> /\ down' = <<>> /\ ~lost' /\ lost' \in BOOLEAN
        /\ host' = IF me.link = "open" THEN Disconnected(host) ELSE host
    BY <1>2, <1>6
  <2>10. host' \in Host /\ ~host'.greeted /\ ~host'.self
    BY <1>1, <2>9, HostGone DEF Apart
  <2> HIDE DEF emptied
  <2>11. TypeInv' /\ Apart'
    BY <2>8, <2>9, <2>10 DEF TypeInv, Apart
  <2>12. Unmet(emptied, <<>>, <<>>, 0, host') /\ Joined(emptied, <<>>, <<>>, 0, host')
    BY <2>8, <2>10, NothingKnown
  <2> QED
    BY <2>9, <2>11, <2>12 DEF LinkInv
<1> QED
    BY <1>5, <1>6

LEMMA GameKeeps == ASSUME LinkInv, GameStep PROVE LinkInv'
<1> DEFINE opened == {"not_yet", "ok", "failed"}
<1>1. Len(down) \in Nat /\ 0 \in 0..Len(down) /\ Len(down) \in 0..Len(down)
      /\ \A count \in 1..Len(down) : count \in 0..Len(down)
    BY DEF LinkInv, TypeInv
<1>2. "none" \in Key /\ "not_yet" \in opened /\ "ok" \in opened /\ "failed" \in opened
    BY DEF Key
<1> HIDE DEF opened
<1>3. ASSUME NEW key \in Key, NEW course, key # "none" => course \in Course,
             NEW says, NEW opens \in opened, NEW count \in 0..Len(down), NEW stable,
             Frame(key, course, says, opens, count, stable)
      PROVE  LinkInv'
    BY <1>3, FrameKeeps DEF opened
<1>4. CASE QuietFrame
    BY <1>1, <1>2, <1>3, <1>4 DEF QuietFrame
<1>5. CASE HearFrame
    BY <1>1, <1>2, <1>3, <1>5 DEF HearFrame
<1>6. CASE LoginFrame
    BY <1>1, <1>2, <1>3, <1>6 DEF LoginFrame
<1>7. CASE OpenFrame
    BY <1>1, <1>2, <1>3, <1>7 DEF OpenFrame
<1>8. CASE LossFrame
    BY <1>1, <1>2, <1>3, <1>8 DEF LossFrame
<1>9. ASSUME NEW key \in Key \ {"none"}, NEW course \in Course, KeyFrame(key, course) PROVE LinkInv'
    BY <1>1, <1>2, <1>3, <1>9 DEF KeyFrame
<1> QED
    BY <1>4, <1>5, <1>6, <1>7, <1>8, <1>9 DEF GameStep

-----------------------------------------------------------------------------
(* The server: it takes the first call on its way, and tells of one event  *)
(* after those that are on theirs.                                         *)

LEMMA Grown ==
    ASSUME NEW events \in Seq(Event), NEW e \in Event
    PROVE  LET all == Append(events, e)
           IN  /\ all \in Seq(Event) /\ Len(all) = Len(events) + 1 /\ all[Len(all)] = e
               /\ \A i \in 1..Len(events) : all[i] = events[i]
               /\ \A kind : Comes(all, 0, kind) <=> Comes(events, 0, kind) \/ e.kind = kind
               /\ Answers(all, 0) = Answers(events, 0) \cup (IF e.kind = "room" THEN {Len(all)} ELSE {})
<1> DEFINE all == Append(events, e)
<1>1. /\ all \in Seq(Event) /\ Len(all) = Len(events) + 1 /\ all[Len(all)] = e
      /\ Len(events) \in Nat /\ \A i \in 1..Len(events) : all[i] = events[i]
    OBVIOUS
<1> HIDE DEF all
<1>2. \A kind : Comes(all, 0, kind) <=> Comes(events, 0, kind) \/ e.kind = kind
    BY <1>1 DEF Comes
<1>3. Answers(all, 0) = Answers(events, 0) \cup (IF e.kind = "room" THEN {Len(all)} ELSE {})
    BY <1>1 DEF Answers
<1> QED
    BY <1>1, <1>2, <1>3 DEF all

LEMMA SeenGrown ==
    ASSUME NEW events \in Seq(Event), NEW e \in Event, NEW k \in 0..Len(events), NEW room, NEW last
    PROVE  Seen(room, Append(events, e), 0, k, last) <=> Seen(room, events, 0, k, last)
<1> DEFINE all == Append(events, e)
<1>1. \A i \in 1..Len(events) : all[i] = events[i]
    OBVIOUS
<1> HIDE DEF all
<1>2. \A i \in 0 + 1..k : i \in 1..Len(events)
    OBVIOUS
<1>3. Seen(room, all, 0, k, last) <=> Seen(room, events, 0, k, last)
    BY <1>1, <1>2 DEF Seen
<1> QED
    BY <1>3 DEF all

LEMMA Taken ==
    ASSUME NEW calls \in Seq(Call), calls # <<>>
    PROVE  LET rest == Tail(calls)
           IN  /\ rest \in Seq(Call) /\ Head(calls) \in Call /\ Len(rest) = Len(calls) - 1
               /\ Asks(calls, Head(calls).call)
               /\ \A what : Asks(rest, what) => Asks(calls, what)
               /\ \A i \in WatchCalls(rest) : i + 1 \in WatchCalls(calls) /\ calls[i + 1] = rest[i]
               /\ \A i \in WatchCalls(calls) : i # 1 => i - 1 \in WatchCalls(rest) /\ rest[i - 1] = calls[i]
               /\ Head(calls) = calls[1] /\ (1 \in WatchCalls(calls) <=> Head(calls).call = "watch_room")
<1> DEFINE rest == Tail(calls)
<1>1. /\ rest \in Seq(Call) /\ Head(calls) \in Call /\ Len(rest) = Len(calls) - 1
      /\ Len(calls) \in Nat /\ 1 \in 1..Len(calls) /\ calls[1] = Head(calls)
      /\ \A i \in 1..Len(rest) : rest[i] = calls[i + 1] /\ i + 1 \in 1..Len(calls)
      /\ \A i \in 1..Len(calls) : i # 1 => i - 1 \in 1..Len(rest) /\ rest[i - 1] = calls[i]
    OBVIOUS
<1> HIDE DEF rest
<1>2. Asks(calls, Head(calls).call) /\ \A what : Asks(rest, what) => Asks(calls, what)
    BY <1>1 DEF Asks
<1>3. \A i \in WatchCalls(rest) : i + 1 \in WatchCalls(calls) /\ calls[i + 1] = rest[i]
    BY <1>1 DEF WatchCalls
<1>4. \A i \in WatchCalls(calls) : i # 1 => i - 1 \in WatchCalls(rest) /\ rest[i - 1] = calls[i]
    BY <1>1 DEF WatchCalls
<1>5. 1 \in WatchCalls(calls) <=> Head(calls).call = "watch_room"
    BY <1>1 DEF WatchCalls
<1> QED
    BY <1>1, <1>2, <1>3, <1>4, <1>5 DEF rest

Ids(c, calls, events) == IdsApart(c, calls, events, 0) /\ Subscribed(c, calls, events, 0)

LEMMA CallDropped ==
    ASSUME NEW c, NEW calls \in Seq(Call), calls # <<>>, Head(calls).call # "watch_room",
           NEW events \in Seq(Event), Ids(c, calls, events)
    PROVE  Ids(c, Tail(calls), events)
<1> DEFINE rest == Tail(calls)
<1>1. /\ \A i \in WatchCalls(rest) : i + 1 \in WatchCalls(calls) /\ calls[i + 1] = rest[i]
      /\ \A i \in WatchCalls(calls) : i - 1 \in WatchCalls(rest) /\ rest[i - 1] = calls[i]
    BY Taken
<1> HIDE DEF rest
<1>2. \A i, j \in WatchCalls(rest) : i + 1 = j + 1 => i = j
    BY DEF WatchCalls
<1>3. IdsApart(c, rest, events, 0)
    BY <1>1, <1>2 DEF Ids, IdsApart
<1>4. \A id : UnderWay(id, rest, events, 0) <=> UnderWay(id, calls, events, 0)
    BY <1>1 DEF UnderWay
<1>5. Subscribed(c, rest, events, 0)
    BY <1>1, <1>4 DEF Ids, Subscribed
<1> QED
    BY <1>3, <1>5 DEF Ids, rest

LEMMA EventTold ==
    ASSUME NEW c, NEW calls \in Seq(Call), NEW events \in Seq(Event), NEW e \in Event,
           e.kind # "room", Ids(c, calls, events)
    PROVE  Ids(c, calls, Append(events, e))
<1> DEFINE all == Append(events, e)
<1>1. /\ Answers(all, 0) = Answers(events, 0)
      /\ \A i \in 1..Len(events) : all[i] = events[i]
  <2>1. /\ Answers(all, 0) = Answers(events, 0) \cup (IF e.kind = "room" THEN {Len(all)} ELSE {})
        /\ \A i \in 1..Len(events) : all[i] = events[i]
    BY Grown
  <2> HIDE DEF all
  <2> QED
    BY <2>1
<1> HIDE DEF all
<1>2. \A k \in Answers(events, 0) : all[k] = events[k] /\ \A j \in 0 + 1..k - 1 : all[j] = events[j]
    BY <1>1 DEF Answers
<1>3. IdsApart(c, calls, all, 0)
    BY <1>1, <1>2 DEF Ids, IdsApart
<1>4. \A id : UnderWay(id, calls, all, 0) <=> UnderWay(id, calls, events, 0)
    BY <1>1, <1>2 DEF UnderWay
<1>5. Subscribed(c, calls, all, 0)
    BY <1>1, <1>2, <1>4 DEF Ids, Subscribed
<1> QED
    BY <1>3, <1>5 DEF Ids, all

LEMMA RoomAnswered ==
    ASSUME NEW c \in SoundGame, NEW calls \in Seq(Call), calls # <<>>, Head(calls).call = "watch_room",
           NEW events \in Seq(Event), Ids(c, calls, events), NEW h, Seated(c, events, 0, h),
           NEW e \in Event, e.kind = "room", e.id = Head(calls).id, e.room = Head(calls).room,
           h.seat = e.room => e.there
    PROVE  Ids(c, Tail(calls), Append(events, e))
<1> DEFINE rest == Tail(calls)
           all == Append(events, e)
           n == Len(all)
<1>1. /\ \A i \in WatchCalls(rest) : i + 1 \in WatchCalls(calls) /\ calls[i + 1] = rest[i]
      /\ \A i \in WatchCalls(calls) : i # 1 => i - 1 \in WatchCalls(rest) /\ rest[i - 1] = calls[i]
      /\ 1 \in WatchCalls(calls) /\ Head(calls) = calls[1]
    BY Taken
<1>2. /\ Answers(all, 0) = Answers(events, 0) \cup {n} /\ n = Len(events) + 1 /\ all[n] = e
      /\ \A i \in 1..Len(events) : all[i] = events[i]
    BY Grown
<1> HIDE DEF rest, all, n
<1>3. /\ \A k \in Answers(events, 0) : all[k] = events[k] /\ \A j \in 0 + 1..k - 1 : all[j] = events[j]
      /\ n \notin Answers(events, 0) /\ \A j \in 0 + 1..n - 1 : all[j] = events[j]
    BY <1>2 DEF Answers
<1>4. \A i \in WatchCalls(rest) : i + 1 # 1 /\ \A j \in WatchCalls(rest) : i + 1 = j + 1 => i = j
    BY DEF WatchCalls
<1>5. IdsApart(c, rest, all, 0)
    BY <1>1, <1>2, <1>3, <1>4 DEF Ids, IdsApart
<1>6. \A id : UnderWay(id, rest, all, 0) <=> UnderWay(id, calls, events, 0)
    BY <1>1, <1>2, <1>3 DEF UnderWay
<1>7. ASSUME e.id = c.view.sub
      PROVE  /\ e.room = c.view.room
             /\ e.there \/ e.failed
                   \/ \E j \in 0 + 1..n - 1 : all[j].kind = "member" /\ RoomTold(all[j]) # c.view.room
  <2>1. e.room = c.view.room
    BY <1>1, <1>7 DEF Ids, Subscribed
  <2>2. c.view.room # NoRoom
    <3>1. e.id # 0
      BY Events
    <3> QED
      BY <1>7, <3>1 DEF SoundGame, Fine
  <2>3. h.self /\ Seen(c.view.room, events, 0, Len(events), h.seat)
    BY <2>2 DEF Seated
  <2>4. CASE h.seat = c.view.room
    BY <2>1, <2>4
  <2>5. CASE h.seat # c.view.room
    <3>1. PICK j \in 0 + 1..Len(events) : events[j].kind = "member" /\ RoomTold(events[j]) = h.seat
      BY <2>3, <2>5 DEF Seen
    <3>2. j \in 0 + 1..n - 1 /\ all[j] = events[j]
      BY <1>2, <1>3
    <3> QED
      BY <2>1, <2>5, <3>1, <3>2
  <2> QED
    BY <2>4, <2>5
<1>8. Subscribed(c, rest, all, 0)
    BY <1>1, <1>2, <1>3, <1>6, <1>7 DEF Ids, Subscribed
<1> QED
    BY <1>5, <1>8 DEF Ids, rest, all

(* What the game is shown ends at the server's seat, whatever it tells.    *)
LEMMA SeatTold ==
    ASSUME NEW c, NEW events \in Seq(Event), NEW h, Seated(c, events, 0, h), h.self,
           NEW e \in Event, NEW seat,
           IF e.kind = "member" THEN RoomTold(e) = seat /\ (e.gone => e.room = h.seat) ELSE seat = h.seat,
           NEW h2, h2.self, h2.seat = seat
    PROVE  Seated(c, Append(events, e), 0, h2)
<1> DEFINE all == Append(events, e)
           n == Len(events)
           room == c.view.room
<1>1. /\ Len(all) = n + 1 /\ all[n + 1] = e /\ n \in Nat
      /\ \A i \in 1..n : all[i] = events[i]
    BY Grown
<1>2. \A k \in 0..n : \A last : Seen(room, all, 0, k, last) <=> Seen(room, events, 0, k, last)
    BY SeenGrown
<1>3. Seen(room, events, 0, n, h.seat)
    BY DEF Seated
<1> HIDE DEF all
<1>4. Seen(room, all, 0, n + 1, seat)
  <2>1. CASE e.kind = "member"
    <3>1. n + 1 \in 0 + 1..n + 1 /\ \A i \in n + 1 + 1..n + 1 : all[i].kind # "member"
      BY <1>1
    <3> QED
      BY <1>1, <2>1, <3>1 DEF Seen
  <2>2. CASE e.kind # "member"
    <3>1. Seen(room, all, 0, n, seat)
      BY <1>1, <1>2, <1>3, <2>2
    <3>2. \A i \in 0 + 1..n + 1 : i \in 0 + 1..n \/ i = n + 1
      BY <1>1
    <3>3. CASE (\A i \in 0 + 1..n : all[i].kind # "member") /\ seat = room
      BY <1>1, <2>2, <3>2, <3>3 DEF Seen
    <3>4. ASSUME NEW j \in 0 + 1..n, all[j].kind = "member", RoomTold(all[j]) = seat,
                 \A i \in j + 1..n : all[i].kind # "member"
          PROVE  Seen(room, all, 0, n + 1, seat)
      <4>1. \A i \in j + 1..n + 1 : all[i].kind # "member"
        BY <1>1, <2>2, <3>4
      <4>2. j \in 0 + 1..n + 1
        BY <1>1
      <4> QED
        BY <3>4, <4>1, <4>2 DEF Seen
    <3> QED
      BY <3>1, <3>3, <3>4 DEF Seen
  <2> QED
    BY <2>1, <2>2
<1>5. ASSUME NEW k \in 0 + 1..n + 1, all[k].kind = "member", all[k].gone
      PROVE  Seen(room, all, 0, k - 1, all[k].room)
  <2>1. k - 1 \in 0..n
    BY <1>1
  <2>2. Seen(room, events, 0, k - 1, all[k].room)
    <3>1. CASE k = n + 1
      BY <1>1, <1>3, <1>5, <3>1
    <3>2. CASE k # n + 1
      <4>1. k \in 0 + 1..n /\ all[k] = events[k]
        BY <1>1, <3>2
      <4> QED
        BY <1>5, <4>1 DEF Seated
    <3> QED
      BY <3>1, <3>2
  <2> QED
    BY <1>2, <2>1, <2>2
<1>6. Seen(room, all, 0, Len(all), h2.seat)
    BY <1>1, <1>4
<1> HIDE DEF room, n
<1>7. Seated(c, all, 0, h2)
    BY <1>1, <1>5, <1>6 DEF Seated, room
<1> QED
    BY <1>7 DEF all

(* Another event than the account's row shows of no seat.                  *)
LEMMA SeatUntold ==
    ASSUME NEW c, NEW events \in Seq(Event), NEW h, Seated(c, events, 0, h),
           NEW e \in Event, e.kind # "member", NEW h2, h2.self = h.self, h2.self => h2.seat = h.seat,
           h.self \in BOOLEAN
    PROVE  Seated(c, Append(events, e), 0, h2)
<1>1. CASE h.self
    BY <1>1, SeatTold
<1>2. CASE ~h.self
  <2> DEFINE all == Append(events, e)
  <2>1. c.view.room = NoRoom /\ ~Comes(events, 0, "member")
    BY <1>2 DEF Seated
  <2>2. Comes(all, 0, "member") <=> Comes(events, 0, "member") \/ e.kind = "member"
    BY Grown
  <2> HIDE DEF all
  <2>3. ~Comes(all, 0, "member")
    BY <2>1, <2>2
  <2>4. Seated(c, all, 0, h2)
    BY <1>2, <2>1, <2>3 DEF Seated, Comes
  <2> QED
    BY <2>4 DEF all
<1> QED
    BY <1>1, <1>2

LEMMA StagesAnswered ==
    ASSUME NEW c \in SoundGame, c.met, NEW calls \in Seq(Call), calls # <<>>, NEW events \in Seq(Event),
           NEW h, Stages(c, calls, events, 0, h),
           NEW h2, h2.self => h.self \/ Head(calls).call = "watch_self", NEW all,
           \/ all = events
           \/ \E e \in Event :
                 /\ all = Append(events, e)
                 /\ e.kind \in {"protocol", "content"} => Head(calls).call \in {"watch_protocol", "watch_content"}
                 /\ e.kind = "member" => h.self \/ Head(calls).call = "watch_self"
                 /\ e.kind = "room" => Head(calls).call = "watch_room"
    PROVE  Stages(c, Tail(calls), all, 0, h2)
<1> DEFINE rest == Tail(calls)
           call == Head(calls).call
<1>1. /\ Len(rest) = Len(calls) - 1 /\ Asks(calls, call) /\ Len(calls) \in Nat /\ Len(events) \in Nat
      /\ \A what : Asks(rest, what) => Asks(calls, what)
    BY Taken
<1>2. /\ c.met /\ ~Connected(c) /\ ~c.view.account => Len(calls) + Len(events) <= 1
      /\ Connected(c) \/ c.view.account =>
            /\ ~Asks(calls, "watch_protocol") /\ ~Asks(calls, "watch_content")
            /\ \A k \in 1..Len(events) : events[k].kind \in {"protocol", "content"} => ~events[k].good
      /\ ~c.view.account =>
            /\ ~h.self
            /\ ~Asks(calls, "watch_self") /\ ~Asks(calls, "watch_room")
            /\ ~Comes(events, 0, "member") /\ ~Comes(events, 0, "room")
    BY DEF Stages
<1> HIDE DEF rest
<1>3. CASE all = events
  <2>1. Stages(c, rest, events, 0, h2)
    BY <1>1, <1>2 DEF Stages
  <2> QED
    BY <1>3, <2>1 DEF rest
<1>4. ASSUME NEW e \in Event, all = Append(events, e),
             e.kind \in {"protocol", "content"} => call \in {"watch_protocol", "watch_content"},
             e.kind = "member" => h.self \/ call = "watch_self",
             e.kind = "room" => call = "watch_room"
      PROVE  Stages(c, rest, all, 0, h2)
  <2>1. /\ Len(all) = Len(events) + 1 /\ all[Len(all)] = e
        /\ \A i \in 1..Len(events) : all[i] = events[i]
        /\ \A kind : Comes(all, 0, kind) <=> Comes(events, 0, kind) \/ e.kind = kind
    BY <1>4, Grown
  <2> HIDE DEF call
  <2>2. c.met /\ ~Connected(c) /\ ~c.view.account => Len(rest) + Len(all) <= 1
    BY <1>1, <1>2, <2>1
  <2>3. Connected(c) \/ c.view.account =>
            /\ ~Asks(rest, "watch_protocol") /\ ~Asks(rest, "watch_content")
            /\ \A k \in 1..Len(all) : all[k].kind \in {"protocol", "content"} => ~all[k].good
    <3>1. Connected(c) \/ c.view.account => e.kind \notin {"protocol", "content"}
      BY <1>1, <1>2, <1>4
    <3>2. \A k \in 1..Len(all) : k \in 1..Len(events) \/ k = Len(all)
      BY <1>1, <2>1
    <3> QED
      BY <1>1, <1>2, <2>1, <3>1, <3>2
  <2>4. ~c.view.account =>
            /\ ~h2.self
            /\ ~Asks(rest, "watch_self") /\ ~Asks(rest, "watch_room")
            /\ ~Comes(all, 0, "member") /\ ~Comes(all, 0, "room")
    BY <1>1, <1>2, <1>4, <2>1 DEF call
  <2> QED
    BY <2>2, <2>3, <2>4 DEF Stages
<1> QED
    BY <1>3, <1>4 DEF rest

LEMMA StagesTold ==
    ASSUME NEW c \in SoundGame, c.view.account, NEW calls \in Seq(Call), NEW events \in Seq(Event),
           NEW h, Stages(c, calls, events, 0, h), NEW h2, NEW e \in Event,
           e.kind \in {"protocol", "content"} => ~e.good
    PROVE  Stages(c, calls, Append(events, e), 0, h2)
<1> DEFINE all == Append(events, e)
<1>1. /\ Len(all) = Len(events) + 1 /\ all[Len(all)] = e /\ Len(events) \in Nat
      /\ \A i \in 1..Len(events) : all[i] = events[i]
    BY Grown
<1> HIDE DEF all
<1>2. \A k \in 1..Len(all) : k \in 1..Len(events) \/ k = Len(all)
    BY <1>1
<1>3. Stages(c, calls, all, 0, h2)
    BY <1>1, <1>2 DEF Stages
<1> QED
    BY <1>3 DEF all

(* What the server does to the account: told of, or what nobody watches.   *)
Untold(h, h2) ==
    /\ h2 \in Host /\ h2.greeted = h.greeted /\ h2.self = h.self
    /\ h.self => h2.seat = h.seat

Told(h, h2, e) ==
    /\ e \in Event /\ h2 \in Host /\ h2.greeted = h.greeted /\ h2.self = h.self
    /\ IF e.kind = "member" THEN h.self /\ RoomTold(e) = h2.seat /\ (e.gone => e.room = h.seat)
       ELSE h.self => h2.seat = h.seat

LEMMA SeatMoves ==
    ASSUME host \in Host, down \in Seq(Event), NEW room \in Room \cup {NoRoom}, Seat(room)
    PROVE  \/ Untold(host, host') /\ down' = down
           \/ \E e \in Event : Told(host, host', e) /\ e.kind = "member" /\ down' = Append(down, e)
<1>1. /\ host' \in Host /\ host'.seat = room /\ host'.greeted = host.greeted /\ host'.self = host.self
      /\ host.seat \in Room \cup {NoRoom} /\ host.self \in BOOLEAN
    BY DEF Seat, Host
<1> DEFINE about == IF room = NoRoom THEN host.seat ELSE room
           e == [kind |-> "member", room |-> about, gone |-> room = NoRoom]
<1>2. CASE ~host.self \/ room = host.seat
  <2>1. down' = down \o <<>>
    BY <1>2 DEF Seat, Tell
  <2>2. down' = down
    BY <2>1
  <2> QED
    BY <1>1, <1>2, <2>2 DEF Untold
<1>3. CASE host.self /\ room # host.seat
  <2>1. down' = down \o <<e>>
    BY <1>3 DEF Seat, Tell
  <2>2. about \in Room
    BY <1>1, <1>3
  <2>3. e \in Event
    BY <2>2 DEF Event
  <2>4. e.kind = "member" /\ RoomTold(e) = room /\ (e.gone => e.room = host.seat)
    BY DEF RoomTold
  <2> HIDE DEF e
  <2>5. down' = Append(down, e)
    BY <2>1, <2>3
  <2> QED
    BY <1>1, <1>3, <2>3, <2>4, <2>5 DEF Told
<1> QED
    BY <1>1, <1>2, <1>3

LEMMA ToldKept ==
    ASSUME NEW c \in SoundGame, c.link = "open", c.met, NEW calls \in Seq(Call), NEW events \in Seq(Event),
           NEW h \in Host, Joined(c, calls, events, 0, h), NEW h2, NEW e, Told(h, h2, e),
           e.kind \notin {"hello", "room"}
    PROVE  /\ Greeted(c, Append(events, e), 0, h2)
           /\ SignedIn(c) => Seated(c, Append(events, e), 0, h2) /\ Ids(c, calls, Append(events, e))
<1>1. /\ e \in Event /\ h2.greeted = h.greeted /\ h2.self = h.self /\ h.self \in BOOLEAN
      /\ IF e.kind = "member" THEN h.self /\ RoomTold(e) = h2.seat /\ (e.gone => e.room = h.seat)
         ELSE h.self => h2.seat = h.seat
    BY DEF Told, Host
<1>2. Greeted(c, events, 0, h)
      /\ (SignedIn(c) => Seated(c, events, 0, h) /\ Ids(c, calls, events))
    BY DEF Joined, Rooms, Ids
<1> DEFINE all == Append(events, e)
<1>3. Comes(all, 0, "hello") <=> Comes(events, 0, "hello") \/ e.kind = "hello"
    BY <1>1, Grown
<1>4. Greeted(c, all, 0, h2)
  <2> HIDE DEF all
  <2> QED
    BY <1>1, <1>2, <1>3 DEF Greeted
<1>5. SignedIn(c) => Seated(c, all, 0, h2)
    BY <1>1, <1>2, SeatTold, SeatUntold
<1>6. SignedIn(c) => Ids(c, calls, all)
    BY <1>1, <1>2, EventTold
<1> QED
    BY <1>4, <1>5, <1>6

LEMMA UntoldKept ==
    ASSUME NEW c \in SoundGame, c.link = "open", c.met, NEW calls \in Seq(Call), NEW events \in Seq(Event),
           NEW h \in Host, Joined(c, calls, events, 0, h), NEW h2, Untold(h, h2)
    PROVE  /\ Greeted(c, events, 0, h2)
           /\ SignedIn(c) => Seated(c, events, 0, h2) /\ Ids(c, calls, events)
BY DEF Joined, Rooms, Ids, Untold, Greeted, Seated

LEMMA ServerEvents ==
    /\ \A call \in {"join", "claim"} : [kind |-> "refused", call |-> call] \in Event
    /\ \A kind \in {"protocol", "content"}, good \in BOOLEAN : [kind |-> kind, good |-> good] \in Event
    /\ \A named \in BOOLEAN : [kind |-> "account", named |-> named] \in Event
    /\ \A room \in Room, gone \in BOOLEAN : [kind |-> "member", room |-> room, gone |-> gone] \in Event
    /\ \A id \in Nat \ {0}, room \in Room, there \in BOOLEAN, failed \in BOOLEAN :
          [kind |-> "room", id |-> id, room |-> room, there |-> there, failed |-> failed] \in Event
    /\ [kind |-> "hello"] \in Event
BY DEF Event

LEMMA OneTold ==
    ASSUME down \in Seq(Event), NEW e \in Event, Tell(<<e>>)
    PROVE  down' = Append(down, e)
BY DEF Tell

LEMMA NoneTold == ASSUME down \in Seq(Event), Tell(<<>>) PROVE down' = down
BY DEF Tell

(* An answer to anything but a watch of the account's row or of a room.    *)
PlainAnswer(call) ==
    \/ Untold(host, host') /\ down' = down
    \/ \E e \in Event :
          /\ Told(host, host', e) /\ down' = Append(down, e)
          /\ e.kind \notin {"hello", "room"}
          /\ e.kind \in {"protocol", "content"} => call.call \in {"watch_protocol", "watch_content"}

LEMMA PlainlyAnswered ==
    ASSUME host \in Host, down \in Seq(Event), NEW call \in Call,
           call.call \notin {"watch_self", "watch_room"},
           AnswerJoin(call) \/ AnswerLeave(call) \/ AnswerClaim(call) \/ AnswerWatch(call)
    PROVE  PlainAnswer(call)
<1>1. ASSUME NEW room \in Room \cup {NoRoom}, Seat(room) PROVE PlainAnswer(call)
    BY <1>1, SeatMoves DEF PlainAnswer
<1>2. Untold(host, host)
    BY DEF Untold
<1>3. ASSUME NEW e \in Event, e.kind \notin {"hello", "room", "member"},
             e.kind \in {"protocol", "content"} => call.call \in {"watch_protocol", "watch_content"},
             Tell(<<e>>), host' = host
      PROVE  PlainAnswer(call)
  <2>1. Told(host, host', e)
    BY <1>3 DEF Told
  <2>2. down' = Append(down, e)
    BY <1>3, OneTold
  <2> QED
    BY <1>3, <2>1, <2>2 DEF PlainAnswer
<1>4. CASE AnswerJoin(call)
  <2>1. CASE Live /\ host.named
    BY <1>1, <1>4, <2>1 DEF AnswerJoin, RoomsOf
  <2>2. CASE ~(Live /\ host.named)
    <3> DEFINE e == [kind |-> "refused", call |-> "join"]
    <3>1. e \in Event /\ e.kind = "refused"
      BY ServerEvents
    <3>2. Tell(<<e>>) /\ host' = host
      BY <1>4, <2>2 DEF AnswerJoin
    <3> HIDE DEF e
    <3> QED
      BY <1>3, <3>1, <3>2
  <2> QED
    BY <2>1, <2>2
<1>5. CASE AnswerLeave(call)
  <2>1. CASE Live
    BY <1>1, <1>5, <2>1 DEF AnswerLeave
  <2>2. CASE ~Live
    BY <1>2, <1>5, <2>2 DEF AnswerLeave, PlainAnswer
  <2> QED
    BY <2>1, <2>2
<1>6. CASE AnswerClaim(call)
  <2>1. ASSUME host' = [host EXCEPT !.named = TRUE], Tell(<<[kind |-> "account", named |-> TRUE]>>)
        PROVE  PlainAnswer(call)
    <3> DEFINE e == [kind |-> "account", named |-> TRUE]
    <3>1. e \in Event /\ e.kind = "account"
      BY ServerEvents
    <3>2. host' \in Host /\ host'.greeted = host.greeted /\ host'.self = host.self /\ host'.seat = host.seat
      BY <2>1 DEF Host
    <3>3. Tell(<<e>>)
      BY <2>1
    <3> HIDE DEF e
    <3>4. Told(host, host', e)
      BY <3>1, <3>2 DEF Told
    <3>5. down' = Append(down, e)
      BY <3>1, <3>3, OneTold
    <3> QED
      BY <3>1, <3>4, <3>5 DEF PlainAnswer
  <2>2. ASSUME host' = host, Tell(<<[kind |-> "refused", call |-> "claim"]>>)
        PROVE  PlainAnswer(call)
    <3> DEFINE e == [kind |-> "refused", call |-> "claim"]
    <3>1. e \in Event /\ e.kind = "refused"
      BY ServerEvents
    <3>2. Tell(<<e>>)
      BY <2>2
    <3> HIDE DEF e
    <3> QED
      BY <1>3, <2>2, <3>1, <3>2
  <2> QED
    BY <1>6, <2>1, <2>2 DEF AnswerClaim
<1>7. CASE AnswerWatch(call)
  <2>1. ASSUME call.call \in {"watch_protocol", "watch_content"}, NEW good \in BOOLEAN,
               Tell(<<[kind |-> IF call.call = "watch_protocol" THEN "protocol" ELSE "content",
                       good |-> good]>>), host' = host
        PROVE  PlainAnswer(call)
    <3> DEFINE kind == IF call.call = "watch_protocol" THEN "protocol" ELSE "content"
               e == [kind |-> kind, good |-> good]
    <3>1. kind \in {"protocol", "content"} /\ Tell(<<e>>)
      BY <2>1
    <3> HIDE DEF kind
    <3>2. e \in Event /\ e.kind = kind
      BY <3>1, ServerEvents
    <3> HIDE DEF e
    <3> QED
      BY <1>3, <2>1, <3>1, <3>2
  <2>2. ASSUME call.call = "watch_account", Tell(<<[kind |-> "account", named |-> host.named]>>),
               host' = host
        PROVE  PlainAnswer(call)
    <3> DEFINE named == host.named
               e == [kind |-> "account", named |-> named]
    <3>1. named \in BOOLEAN /\ Tell(<<e>>)
      BY <2>2 DEF Host
    <3> HIDE DEF named
    <3>2. e \in Event /\ e.kind = "account"
      BY <3>1, ServerEvents
    <3> HIDE DEF e
    <3> QED
      BY <1>3, <2>2, <3>1, <3>2
  <2> QED
    BY <1>7, <2>1, <2>2 DEF AnswerWatch
<1> QED
    BY <1>4, <1>5, <1>6, <1>7

(* The account's row is watched: the room it is in, if any, is told.       *)
LEMMA SelfAnswered ==
    ASSUME NEW c \in SoundGame, c.link = "open", c.met, NEW calls \in Seq(Call), calls # <<>>,
           Head(calls).call = "watch_self", NEW events \in Seq(Event),
           NEW h \in Host, Joined(c, calls, events, 0, h),
           NEW h2 \in Host, h2.self, h2.seat = h.seat, h2.greeted = h.greeted, NEW all,
           \/ h.seat = NoRoom /\ all = events
           \/ \E e \in Event : /\ e.kind = "member" /\ e.room = h.seat /\ ~e.gone
                               /\ all = Append(events, e)
    PROVE  Joined(c, Tail(calls), all, 0, h2)
<1>1. /\ Greeted(c, events, 0, h) /\ Stages(c, calls, events, 0, h)
      /\ SignedIn(c) => Seated(c, events, 0, h) /\ Ids(c, calls, events)
    BY DEF Joined, Rooms, Ids
<1>2. /\ Greeted(c, all, 0, h2)
      /\ SignedIn(c) => Seated(c, all, 0, h2) /\ Ids(c, calls, all)
  <2>1. CASE h.seat = NoRoom /\ all = events
    <3>1. Greeted(c, all, 0, h2)
      BY <1>1, <2>1 DEF Greeted
    <3>2. ASSUME SignedIn(c) PROVE Seated(c, all, 0, h2)
      <4>1. Seen(c.view.room, events, 0, Len(events), h.seat)
        <5>1. CASE h.self
          BY <1>1, <3>2, <5>1 DEF Seated
        <5>2. CASE ~h.self
          BY <1>1, <2>1, <3>2, <5>2 DEF Seated, Comes, Seen
        <5> QED
          BY <5>1, <5>2
      <4> QED
        BY <1>1, <2>1, <3>2, <4>1 DEF Seated
    <3> QED
      BY <1>1, <2>1, <3>1, <3>2
  <2>2. ASSUME NEW e \in Event, e.kind = "member", e.room = h.seat, ~e.gone, all = Append(events, e)
        PROVE  /\ Greeted(c, all, 0, h2)
               /\ SignedIn(c) => Seated(c, all, 0, h2) /\ Ids(c, calls, all)
    <3>1. Greeted(c, all, 0, h2)
      <4>1. Comes(all, 0, "hello") <=> Comes(events, 0, "hello") \/ e.kind = "hello"
        BY <2>2, Grown
      <4> QED
        BY <1>1, <2>2, <4>1 DEF Greeted
    <3>2. SignedIn(c) => Ids(c, calls, all)
      BY <1>1, <2>2, EventTold
    <3>3. ASSUME SignedIn(c) PROVE Seated(c, all, 0, h2)
      <4>1. RoomTold(e) = h.seat
        BY <2>2 DEF RoomTold
      <4>2. CASE h.self
        BY <1>1, <2>2, <3>3, <4>1, <4>2, SeatTold
      <4>3. CASE ~h.self
        <5>1. c.view.room = NoRoom /\ ~Comes(events, 0, "member")
          BY <1>1, <3>3, <4>3 DEF Seated
        <5>2. /\ Len(all) = Len(events) + 1 /\ all[Len(all)] = e /\ Len(events) \in Nat
              /\ \A i \in 1..Len(events) : all[i] = events[i]
          BY <2>2, Grown
        <5>3. \A k \in 0 + 1..Len(all) : all[k].kind = "member" => k = Len(all)
          BY <5>1, <5>2 DEF Comes
        <5>4. Len(all) \in 0 + 1..Len(all) /\ \A i \in Len(all) + 1..Len(all) : all[i].kind # "member"
          BY <5>2
        <5>5. Seen(c.view.room, all, 0, Len(all), h2.seat)
          BY <2>2, <4>1, <5>2, <5>4 DEF Seen
        <5> QED
          BY <2>2, <5>2, <5>3, <5>5 DEF Seated
      <4> QED
        BY <4>2, <4>3 DEF Host
    <3> QED
      BY <3>1, <3>2, <3>3
  <2> QED
    BY <2>1, <2>2
<1>3. SignedIn(c) => Ids(c, Tail(calls), all)
  <2>1. all \in Seq(Event)
    OBVIOUS
  <2> QED
    BY <1>2, <2>1, CallDropped
<1>4. Stages(c, Tail(calls), all, 0, h2)
  <2>1. \/ all = events
        \/ \E e \in Event :
              /\ all = Append(events, e)
              /\ e.kind \in {"protocol", "content"} => Head(calls).call \in {"watch_protocol", "watch_content"}
              /\ e.kind = "member" => h.self \/ Head(calls).call = "watch_self"
              /\ e.kind = "room" => Head(calls).call = "watch_room"
    OBVIOUS
  <2> QED
    BY <1>1, <2>1, StagesAnswered
<1> QED
    BY <1>2, <1>3, <1>4 DEF Joined, Rooms, Ids

LEMMA PlainlyKept ==
    ASSUME NEW c \in SoundGame, c.link = "open", c.met, NEW calls \in Seq(Call), calls # <<>>,
           Head(calls).call # "watch_room", host \in Host, down \in Seq(Event),
           Joined(c, calls, down, 0, host), PlainAnswer(Head(calls))
    PROVE  Joined(c, Tail(calls), down', 0, host')
<1>1. Stages(c, calls, down, 0, host)
    BY DEF Joined
<1>2. CASE Untold(host, host') /\ down' = down
  <2>1. /\ Greeted(c, down, 0, host')
        /\ SignedIn(c) => Seated(c, down, 0, host') /\ Ids(c, calls, down)
    BY <1>2, UntoldKept
  <2>2. SignedIn(c) => Ids(c, Tail(calls), down)
    BY <2>1, CallDropped
  <2>3. host'.self => host.self
    BY <1>2 DEF Untold
  <2>4. Stages(c, Tail(calls), down', 0, host')
    BY <1>1, <1>2, <2>3, StagesAnswered
  <2> QED
    BY <1>2, <2>1, <2>2, <2>4 DEF Joined, Rooms, Ids
<1>3. ASSUME NEW e \in Event, Told(host, host', e), down' = Append(down, e),
             e.kind \notin {"hello", "room"},
             e.kind \in {"protocol", "content"} => Head(calls).call \in {"watch_protocol", "watch_content"}
      PROVE  Joined(c, Tail(calls), down', 0, host')
  <2>1. /\ Greeted(c, down', 0, host')
        /\ SignedIn(c) => Seated(c, down', 0, host') /\ Ids(c, calls, down')
    BY <1>3, ToldKept
  <2>2. down' \in Seq(Event)
    BY <1>3
  <2>3. SignedIn(c) => Ids(c, Tail(calls), down')
    BY <2>1, <2>2, CallDropped
  <2>4. (host'.self => host.self) /\ (e.kind = "member" => host.self)
    BY <1>3 DEF Told
  <2>5. Stages(c, Tail(calls), down', 0, host')
    BY <1>1, <1>3, <2>4, StagesAnswered
  <2> QED
    BY <2>1, <2>3, <2>5 DEF Joined, Rooms, Ids
<1> QED
    BY <1>2, <1>3 DEF PlainAnswer

LEMMA RoomKept ==
    ASSUME NEW c \in SoundGame, c.link = "open", c.met, NEW calls \in Seq(Call), calls # <<>>,
           Head(calls).call = "watch_room", NEW events \in Seq(Event), NEW h \in Host,
           Joined(c, calls, events, 0, h), NEW e \in Event, e.kind = "room",
           e.id = Head(calls).id, e.room = Head(calls).room, h.seat = e.room => e.there
    PROVE  Joined(c, Tail(calls), Append(events, e), 0, h)
<1> DEFINE all == Append(events, e)
<1>1. /\ Greeted(c, events, 0, h) /\ Stages(c, calls, events, 0, h) /\ h.self \in BOOLEAN
      /\ SignedIn(c) => Seated(c, events, 0, h) /\ Ids(c, calls, events)
    BY DEF Joined, Rooms, Ids, Host
<1>2. Comes(all, 0, "hello") <=> Comes(events, 0, "hello") \/ e.kind = "hello"
    BY Grown
<1>3. Greeted(c, all, 0, h)
  <2> HIDE DEF all
  <2> QED
    BY <1>1, <1>2 DEF Greeted
<1>4. SignedIn(c) => Seated(c, all, 0, h)
    BY <1>1, SeatUntold
<1>5. SignedIn(c) => Ids(c, Tail(calls), all)
    BY <1>1, RoomAnswered
<1>6. Stages(c, Tail(calls), all, 0, h)
    BY <1>1, StagesAnswered
<1> QED
    BY <1>3, <1>4, <1>5, <1>6 DEF Joined, Rooms, Ids

-----------------------------------------------------------------------------
(* The server's steps.                                                     *)

LEMMA AnswersKeep == ASSUME LinkInv, HostAnswers PROVE LinkInv'
<1> DEFINE call == Head(up)
           rest == Tail(up)
<1>1. /\ me \in SoundGame /\ me.out = <<>> /\ up \in Seq(Call) /\ down \in Seq(Event)
      /\ lost \in BOOLEAN /\ host \in Host
      /\ Apart /\ Unmet(me, up, down, 0, host) /\ (~lost => Joined(me, up, down, 0, host))
    BY DEF LinkInv, TypeInv
<1>2. /\ up # <<>> /\ ~lost /\ up' = rest /\ me' = me /\ lost' = lost
      /\ AnswerJoin(call) \/ AnswerLeave(call) \/ AnswerClaim(call) \/ AnswerWatch(call)
    BY DEF HostAnswers
<1>3. me.link = "open" /\ me.met /\ Joined(me, up, down, 0, host)
    BY <1>1, <1>2 DEF Apart, Unmet
<1>4. call \in Call /\ rest \in Seq(Call)
    BY <1>1, <1>2, Taken
<1>5. Joined(me, rest, down', 0, host') /\ down' \in Seq(Event) /\ host' \in Host
  <2>1. CASE call.call \notin {"watch_self", "watch_room"}
    <3>1. PlainAnswer(call)
      BY <1>1, <1>2, <1>4, <2>1, PlainlyAnswered
    <3>2. Joined(me, rest, down', 0, host')
      BY <1>1, <1>2, <1>3, <2>1, <3>1, PlainlyKept
    <3>3. down' \in Seq(Event) /\ host' \in Host
      BY <1>1, <3>1 DEF PlainAnswer, Told, Untold
    <3> QED
      BY <3>2, <3>3
  <2>2. CASE call.call = "watch_self"
    <3> DEFINE seat == host.seat
               e == [kind |-> "member", room |-> seat, gone |-> FALSE]
    <3>1. /\ host' = [host EXCEPT !.self = TRUE]
          /\ Tell(IF seat = NoRoom THEN <<>> ELSE <<e>>)
      BY <1>2, <2>2 DEF AnswerJoin, AnswerLeave, AnswerClaim, AnswerWatch
    <3>2. host' \in Host /\ host'.self /\ host'.seat = seat /\ host'.greeted = host.greeted
          /\ seat \in Room \cup {NoRoom}
      BY <1>1, <3>1 DEF Host
    <3> HIDE DEF seat
    <3>3. seat # NoRoom => e \in Event /\ e.kind = "member" /\ e.room = seat /\ ~e.gone
      BY <3>2 DEF Event
    <3> HIDE DEF e
    <3>4. \/ seat = NoRoom /\ down' = down
          \/ \E x \in Event : /\ x.kind = "member" /\ x.room = seat /\ ~x.gone
                              /\ down' = Append(down, x)
      <4>1. CASE seat = NoRoom
        BY <1>1, <3>1, <4>1, NoneTold
      <4>2. CASE seat # NoRoom
        <5>1. Tell(<<e>>)
          BY <3>1, <4>2
        <5>2. down' = Append(down, e)
          BY <1>1, <3>3, <4>2, <5>1, OneTold
        <5> QED
          BY <3>3, <4>2, <5>2
      <4> QED
        BY <4>1, <4>2
    <3>5. Joined(me, rest, down', 0, host')
      BY <1>1, <1>2, <1>3, <2>2, <3>2, <3>4, SelfAnswered DEF seat
    <3> QED
      BY <1>1, <3>2, <3>4, <3>5
  <2>3. CASE call.call = "watch_room"
    <3>1. PICK there \in BOOLEAN, failed \in BOOLEAN :
              /\ host.seat = call.room => there
              /\ Tell(<<[kind |-> "room", id |-> call.id, room |-> call.room,
                         there |-> there, failed |-> failed]>>)
              /\ host' = host
      BY <1>2, <2>3 DEF AnswerJoin, AnswerLeave, AnswerClaim, AnswerWatch
    <3> DEFINE id == call.id
               room == call.room
               e == [kind |-> "room", id |-> id, room |-> room, there |-> there, failed |-> failed]
    <3>2. id \in Nat \ {0} /\ room \in Room
      BY <1>4, <2>3 DEF Call
    <3>3. Tell(<<e>>)
      BY <3>1
    <3>4. host.seat = room => there
      BY <3>1
    <3> HIDE DEF id, room
    <3>5. e \in Event /\ e.kind = "room" /\ e.id = id /\ e.room = room /\ (host.seat = e.room => e.there)
      BY <3>2, <3>4, ServerEvents
    <3> HIDE DEF e
    <3>6. down' = Append(down, e)
      BY <1>1, <3>3, <3>5, OneTold
    <3>7. Joined(me, rest, Append(down, e), 0, host)
      BY <1>1, <1>2, <1>3, <2>3, <3>5, RoomKept DEF id, room
    <3> QED
      BY <1>1, <3>1, <3>5, <3>6, <3>7
  <2> QED
    BY <2>1, <2>2, <2>3
<1>6. TypeInv' /\ Apart'
    BY <1>1, <1>2, <1>3, <1>4, <1>5 DEF TypeInv, Apart
<1>7. Unmet(me, rest, down', 0, host')
    BY <1>3 DEF Unmet
<1> QED
    BY <1>2, <1>5, <1>6, <1>7 DEF LinkInv

LEMMA GreetsKeep == ASSUME LinkInv, HostGreets PROVE LinkInv'
<1>1. /\ me \in SoundGame /\ me.out = <<>> /\ up \in Seq(Call) /\ down \in Seq(Event)
      /\ lost \in BOOLEAN /\ host \in Host
      /\ Apart /\ Unmet(me, up, down, 0, host) /\ (~lost => Joined(me, up, down, 0, host))
    BY DEF LinkInv, TypeInv
<1>2. me.link = "open" /\ ~host.greeted /\ ~lost /\ me' = me /\ up' = up
    BY DEF HostGreets
<1>3. Greeted(me, down, 0, host)
    BY <1>1, <1>2 DEF Joined
<1>4. ~me.met
    BY <1>2, <1>3 DEF Greeted
<1>5. /\ up = <<>> /\ down = <<>> /\ ~host.self /\ ~Connected(me) /\ ~me.view.account
      /\ ~SignedIn(me)
  <2>1. up = <<>> /\ ~host.self
    BY <1>1, <1>2, <1>4 DEF Unmet
  <2>2. Len(down) = 0
    BY <1>2, <1>3, <1>4 DEF Greeted
  <2>3. ~Connected(me) /\ ~me.view.account
    BY <1>1, <1>4 DEF SoundGame, Fine, NoView, Connected
  <2> QED
    BY <1>1, <2>1, <2>2, <2>3 DEF SignedIn
<1> DEFINE hello == [kind |-> "hello"]
<1>6. CASE /\ host' = [host EXCEPT !.session = "here", !.seat = NoRoom, !.greeted = TRUE,
                                   !.named = @ /\ ~me.guest]
           /\ down' = <<hello>> /\ lost' = lost
  <2>1. me.guest \in BOOLEAN
    BY <1>1 DEF SoundGame, Game
  <2>2. host' \in Host /\ host'.greeted /\ host'.self = host.self
    BY <1>1, <1>6, <2>1 DEF Host
  <2>3. hello \in Event /\ hello.kind = "hello"
    BY ServerEvents
  <2> HIDE DEF hello
  <2>4. down' \in Seq(Event) /\ Len(down') = 1 /\ down'[1] = hello
    BY <1>6, <2>3
  <2>5. TypeInv' /\ Apart'
    BY <1>1, <1>2, <1>6, <2>2, <2>4 DEF TypeInv, Apart
  <2>6. Unmet(me, up, down', 0, host')
    BY <1>5, <2>2, <2>3, <2>4 DEF Unmet
  <2>7. Greeted(me, down', 0, host')
    BY <1>4, <2>2, <2>4 DEF Greeted
  <2>8. Stages(me, up, down', 0, host')
    <3>1. \A what : ~Asks(up, what)
      BY <1>5 DEF Asks
    <3>2. ~Comes(down', 0, "member") /\ ~Comes(down', 0, "room")
      BY <2>3, <2>4 DEF Comes
    <3> QED
      BY <1>4, <1>5, <2>2, <3>1, <3>2 DEF Stages
  <2>9. Joined(me, up, down', 0, host')
    BY <1>5, <2>7, <2>8 DEF Joined, Rooms
  <2> QED
    BY <1>2, <2>5, <2>6, <2>9 DEF LinkInv
<1>7. CASE lost' = TRUE /\ host' = host /\ down' = down
    BY <1>1, <1>2, <1>7 DEF LinkInv, TypeInv, Apart, Unmet
<1> QED
    BY <1>6, <1>7 DEF HostGreets

LEMMA RepublishesKeep == ASSUME LinkInv, HostRepublishes PROVE LinkInv'
<1>1. /\ me \in SoundGame /\ me.out = <<>> /\ up \in Seq(Call) /\ down \in Seq(Event)
      /\ lost \in BOOLEAN /\ host \in Host
      /\ Apart /\ Unmet(me, up, down, 0, host) /\ (~lost => Joined(me, up, down, 0, host))
    BY DEF LinkInv, TypeInv
<1>2. PICK kind \in {"protocol", "content"} : Tell(<<[kind |-> kind, good |-> FALSE]>>)
    BY DEF HostRepublishes
<1>3. host.self /\ ~lost /\ me' = me /\ up' = up /\ lost' = lost /\ host' = host
    BY DEF HostRepublishes
<1>4. me.link = "open" /\ me.met /\ Joined(me, up, down, 0, host)
    BY <1>1, <1>3 DEF Apart, Unmet
<1> DEFINE e == [kind |-> kind, good |-> FALSE]
<1>5. e \in Event /\ e.kind = kind /\ ~e.good
    BY ServerEvents
<1>6. Tell(<<e>>)
    BY <1>2
<1> HIDE DEF e
<1>7. down' = Append(down, e)
    BY <1>1, <1>5, <1>6, OneTold
<1>8. e.kind \notin {"hello", "room"} /\ Told(host, host, e)
    BY <1>1, <1>5 DEF Told
<1>9. /\ Greeted(me, Append(down, e), 0, host)
      /\ SignedIn(me) => Seated(me, Append(down, e), 0, host) /\ Ids(me, up, Append(down, e))
    BY <1>1, <1>4, <1>8, ToldKept
<1>10. Stages(me, up, Append(down, e), 0, host)
  <2>1. me.view.account /\ Stages(me, up, down, 0, host)
    BY <1>3, <1>4 DEF Joined, Stages
  <2> QED
    BY <1>1, <1>5, <2>1, StagesTold
<1>11. Joined(me, up, down', 0, host)
    BY <1>7, <1>9, <1>10 DEF Joined, Rooms, Ids
<1>12. Unmet(me, up, down', 0, host)
    BY <1>4 DEF Unmet
<1>13. TypeInv' /\ Apart'
    BY <1>1, <1>3, <1>4, <1>5, <1>7 DEF TypeInv, Apart
<1> QED
    BY <1>3, <1>11, <1>12, <1>13 DEF LinkInv

LEMMA BreakKeeps == ASSUME LinkInv, Break PROVE LinkInv'
<1>1. /\ me \in SoundGame /\ me.out = <<>> /\ up \in Seq(Call) /\ down \in Seq(Event)
      /\ lost \in BOOLEAN /\ host \in Host
      /\ Apart /\ Unmet(me, up, down, 0, host)
    BY DEF LinkInv, TypeInv
<1>2. PICK count \in 0..Len(down) : down' = SubSeq(down, 1, count)
    BY DEF Break
<1>3. /\ host.greeted /\ lost' = TRUE /\ up' = <<>> /\ host' = Disconnected(host) /\ me' = me
    BY DEF Break
<1>4. /\ down' \in Seq(Event) /\ Len(down') \in 0..Len(down)
      /\ 0 < Len(down') => 0 < Len(down) /\ down'[1] = down[1]
    BY <1>1, <1>2
<1>5. host' \in Host /\ ~host'.self
    BY <1>1, <1>3, HostGone
<1>6. me.link = "open"
    BY <1>1, <1>3 DEF Apart
<1>7. Unmet(me, <<>>, down', 0, host')
    BY <1>1, <1>4, <1>5 DEF Unmet
<1> QED
    BY <1>1, <1>3, <1>4, <1>5, <1>6, <1>7 DEF LinkInv, TypeInv, Apart

(* The other game's steps are told as the account's row changes.           *)
LEMMA OthersTold ==
    ASSUME host \in Host, down \in Seq(Event), OtherSignsIn \/ OtherMoves \/ OtherSignsOut
    PROVE  \/ Untold(host, host') /\ down' = down
           \/ \E e \in Event : Told(host, host', e) /\ e.kind = "member" /\ down' = Append(down, e)
<1>1. CASE OtherSignsIn
  <2> DEFINE seat == host.seat
             e == [kind |-> "member", room |-> seat, gone |-> TRUE]
  <2>1. /\ host' = [host EXCEPT !.session = "elsewhere", !.seat = NoRoom]
        /\ Tell(IF ~host.self \/ seat = NoRoom THEN <<>> ELSE <<e>>)
    BY <1>1 DEF OtherSignsIn
  <2>2. /\ host' \in Host /\ host'.seat = NoRoom /\ host'.self = host.self
        /\ host'.greeted = host.greeted /\ seat \in Room \cup {NoRoom}
    BY <2>1 DEF Host
  <2> HIDE DEF seat
  <2>3. CASE ~host.self \/ seat = NoRoom
    <3>1. down' = down
      BY <2>1, <2>3, NoneTold
    <3> QED
      BY <2>2, <2>3, <3>1 DEF Untold, seat
  <2>4. CASE host.self /\ seat # NoRoom
    <3>1. e \in Event /\ e.kind = "member" /\ e.room = seat /\ e.gone
      BY <2>2, <2>4 DEF Event
    <3>2. Tell(<<e>>)
      BY <2>1, <2>4
    <3> HIDE DEF e
    <3>3. down' = Append(down, e)
      BY <3>1, <3>2, OneTold
    <3>4. Told(host, host', e)
      BY <2>2, <2>4, <3>1 DEF Told, RoomTold, seat
    <3> QED
      BY <3>1, <3>3, <3>4
  <2> QED
    BY <2>3, <2>4
<1>2. CASE OtherMoves
  <2>1. PICK room \in Room \cup {NoRoom} : Seat(room)
    BY <1>2 DEF OtherMoves
  <2> QED
    BY <2>1, SeatMoves
<1>3. CASE OtherSignsOut
  <2>1. host' = [host EXCEPT !.session = "none"] /\ down' = down
    BY <1>3 DEF OtherSignsOut
  <2>2. host' \in Host /\ host'.seat = host.seat /\ host'.self = host.self /\ host'.greeted = host.greeted
    BY <2>1 DEF Host
  <2> QED
    BY <2>1, <2>2 DEF Untold
<1> QED
    BY <1>1, <1>2, <1>3

LEMMA OthersKeep == ASSUME LinkInv, OtherStep PROVE LinkInv'
<1>1. /\ me \in SoundGame /\ me.out = <<>> /\ up \in Seq(Call) /\ down \in Seq(Event)
      /\ lost \in BOOLEAN /\ host \in Host
      /\ Apart /\ Unmet(me, up, down, 0, host) /\ (~lost => Joined(me, up, down, 0, host))
    BY DEF LinkInv, TypeInv
<1>2. me' = me /\ up' = up /\ lost' = lost
    BY DEF OtherStep
<1>3. \/ Untold(host, host') /\ down' = down
      \/ \E e \in Event : Told(host, host', e) /\ e.kind = "member" /\ down' = Append(down, e)
    BY <1>1, OthersTold DEF OtherStep
<1>4. /\ down' \in Seq(Event) /\ host' \in Host /\ host'.self = host.self /\ host'.greeted = host.greeted
      /\ ~host.self => down' = down
    BY <1>1, <1>3 DEF Told, Untold
<1>5. TypeInv' /\ Apart' /\ Unmet(me, up, down', 0, host')
    BY <1>1, <1>2, <1>4 DEF TypeInv, Apart, Unmet
<1>6. ASSUME ~lost PROVE Joined(me, up, down', 0, host')
  <2>1. CASE me.link # "open"
    BY <2>1 DEF Joined
  <2>2. CASE me.link = "open" /\ ~host.self
    <3>1. down' = down /\ Untold(host, host')
      BY <1>3, <1>4, <2>2 DEF Told
    <3> QED
      BY <1>1, <1>6, <2>2, <3>1 DEF Joined, Greeted, Stages, Rooms, Seated, Untold
  <2>3. CASE me.link = "open" /\ host.self
    <3>1. me.met /\ Joined(me, up, down, 0, host)
      BY <1>1, <1>6, <2>3 DEF Unmet
    <3>2. me.view.account /\ Stages(me, up, down, 0, host)
      BY <2>3, <3>1 DEF Joined, Stages
    <3>3. CASE Untold(host, host') /\ down' = down
      <4>1. Stages(me, up, down, 0, host')
        BY <3>2 DEF Stages
      <4> QED
        BY <1>1, <2>3, <3>1, <3>3, <4>1, UntoldKept DEF Joined, Rooms, Ids
    <3>4. ASSUME NEW e \in Event, Told(host, host', e), e.kind = "member", down' = Append(down, e)
          PROVE  Joined(me, up, down', 0, host')
      <4>1. /\ Greeted(me, down', 0, host')
            /\ SignedIn(me) => Seated(me, down', 0, host') /\ Ids(me, up, down')
        BY <1>1, <2>3, <3>1, <3>4, ToldKept
      <4>2. Stages(me, up, down', 0, host')
        BY <1>1, <3>2, <3>4, StagesTold
      <4> QED
        BY <4>1, <4>2 DEF Joined, Rooms, Ids
    <3> QED
      BY <1>3, <3>3, <3>4
  <2> QED
    BY <1>1, <2>1, <2>2, <2>3 DEF Host
<1> QED
    BY <1>2, <1>5, <1>6 DEF LinkInv

-----------------------------------------------------------------------------
(* The invariant, and what it is for.                                      *)

LEMMA LinkBegins == Init => LinkInv
<1> SUFFICES ASSUME Init PROVE LinkInv
    OBVIOUS
<1>1. /\ me.guest \in BOOLEAN /\ me.shaped \in BOOLEAN
      /\ me.login = "none" /\ me.link = "none" /\ ~me.met /\ me.status = "signed_out" /\ ~me.refused
      /\ me.awaited = {} /\ me.view = NoView /\ me.menu = Screen("main", NoCourse)
      /\ me.session = [rejoining |-> FALSE, sent |-> FALSE] /\ me.refusals = {} /\ me.out = <<>>
      /\ up = <<>> /\ down = <<>> /\ ~lost /\ lost \in BOOLEAN
      /\ host \in Host /\ ~host.greeted /\ ~host.self
    BY DEF Init, Host
<1>2. me \in Game
  <2>1. me.menu \in Menu
    BY <1>1 DEF Screen, Menu, Flow
  <2>2. me.session \in Session
    BY <1>1 DEF Session
  <2>3. me.view \in View
    BY <1>1, NoViewIsView
  <2>4. me.status \in Status
    BY <1>1 DEF Status
  <2>5. me.out \in Seq(Call) /\ me.awaited \in SUBSET Nat
    BY <1>1
  <2>6. me = [guest |-> me.guest, shaped |-> me.shaped, login |-> me.login, link |-> me.link,
              met |-> me.met, status |-> me.status, refused |-> me.refused, awaited |-> me.awaited,
              view |-> me.view, menu |-> me.menu, session |-> me.session,
              refusals |-> me.refusals, out |-> me.out]
    BY DEF Init
  <2>7. me.met \in BOOLEAN /\ me.refused \in BOOLEAN
    BY DEF Init
  <2> QED
    BY <1>1, <2>1, <2>2, <2>3, <2>4, <2>5, <2>6, <2>7 DEF Game
<1>3. Fine(me)
    BY <1>1, NoViewIsView DEF Fine, NoView
<1>4. me.menu.course = NoCourse /\ ~AboutCourse(me.menu)
    BY <1>1 DEF Screen, AboutCourse
<1>5. IsFiniteSet(me.awaited)
    BY <1>1, FS_EmptySet
<1>6. TypeInv /\ Apart
  <2>1. me \in SoundGame
    BY <1>2, <1>3, <1>4, <1>5 DEF SoundGame
  <2>2. /\ me.out = <<>> /\ up = <<>> /\ down = <<>> /\ ~lost /\ lost \in BOOLEAN
        /\ host \in Host /\ ~host.greeted /\ ~host.self
    BY <1>1
  <2>3. up \in Seq(Call) /\ down \in Seq(Event)
    BY <2>2
  <2> QED
    BY <2>1, <2>2, <2>3 DEF TypeInv, Apart
<1>7. Unmet(me, up, down, 0, host) /\ Joined(me, up, down, 0, host)
    BY <1>1 DEF Unmet, Joined
<1> QED
    BY <1>6, <1>7 DEF LinkInv

LEMMA LinkStays == LinkInv /\ [Next]_vars => LinkInv'
<1> SUFFICES ASSUME LinkInv, [Next]_vars PROVE LinkInv'
    OBVIOUS
<1>1. CASE GameStep
    BY <1>1, GameKeeps
<1>2. CASE HostAnswers
    BY <1>2, AnswersKeep
<1>3. CASE HostGreets
    BY <1>3, GreetsKeep
<1>4. CASE HostRepublishes
    BY <1>4, RepublishesKeep
<1>5. CASE Break
    BY <1>5, BreakKeeps
<1>6. CASE OtherStep
    BY <1>6, OthersKeep
<1>7. CASE UNCHANGED vars
    BY <1>7 DEF vars, LinkInv, TypeInv, Apart, Unmet, Joined
<1> QED
    BY <1>1, <1>2, <1>3, <1>4, <1>5, <1>6, <1>7 DEF Next, HostStep

LEMMA LinkInvTyped == LinkInv => LinkTypeOK
BY DEF LinkInv, TypeInv, SoundGame, AboutCourse, LinkTypeOK

LEMMA LinkInvSound == LinkInv => ConnectionSound
BY DEF LinkInv, TypeInv, SoundGame, Fine, Connected, ConnectionSound

LEMMA LinkInvAgrees == LinkInv => RoomsAgree
<1> SUFFICES ASSUME LinkInv, SignedIn(me), ~lost
             PROVE  /\ host.self /\ ~OnItsWay("member") => me.view.room = host.seat
                    /\ me.view.room # NoRoom => (me.view.ready <=> ~Awaits(me.view.sub))
                    /\ me.view.ready /\ ~OnItsWay("member") /\ host.self => me.view.shown
    BY DEF RoomsAgree
<1>1. me \in SoundGame /\ up \in Seq(Call) /\ down \in Seq(Event) /\ Joined(me, up, down, 0, host)
    BY DEF LinkInv, TypeInv
<1>2. me.link = "open"
    BY <1>1 DEF SoundGame, Fine, NoView, SignedIn
<1>3. Seated(me, down, 0, host) /\ Subscribed(me, up, down, 0)
    BY <1>1, <1>2 DEF Joined, Rooms
<1>4. DOMAIN up = 1..Len(up) /\ DOMAIN down = 1..Len(down) /\ 0 + 1 = 1
    BY <1>1
<1>5. ASSUME host.self, ~OnItsWay("member") PROVE me.view.room = host.seat
    BY <1>3, <1>4, <1>5 DEF Seated, Seen, OnItsWay
<1>6. UnderWay(me.view.sub, up, down, 0) <=> Awaits(me.view.sub)
    BY <1>4 DEF UnderWay, Awaits, WatchCalls, Answers
<1> QED
    BY <1>3, <1>5, <1>6 DEF Subscribed

LEMMA LinkInvariant == Spec => []LinkInv
BY LinkBegins, LinkStays, PTL DEF Spec

(* LinkTypeOK for any courses, rooms and number of crossing messages: the  *)
(* game, the calls and events on their way and the server stay of their    *)
(* types, and a screen that is about a course has one.                     *)
THEOREM LinkTyped == Spec => []LinkTypeOK
BY LinkInvariant, LinkInvTyped, PTL

(* ConnectionSound: whatever the login thread, the opening, the keys and   *)
(* the server do in whatever order, a status that waits has what it waits  *)
(* for, and nothing is shown of an account without its connection          *)
(* (net_client::handle, tick, handle_lost_connection).                     *)
THEOREM ConnectionStaysSound == Spec => []ConnectionSound
BY LinkInvariant, LinkInvSound, PTL

(* RoomsAgree: however calls, answers and rows cross, and whoever else     *)
(* moves the account, the game ends at the room the server has it in, and  *)
(* its subscription to that room is ready exactly when it was answered     *)
(* (handle_row, subscribe_room).                                           *)
THEOREM RoomsStayAgreed == Spec => []RoomsAgree
BY LinkInvariant, LinkInvAgrees, PTL
=============================================================================
