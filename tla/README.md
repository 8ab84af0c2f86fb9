# Specifications of golfplusplus

TLA+ specifications of golfplusplus, an online golf game in C++: a client that
simulates and draws, and a SpacetimeDB module (`server/golfpp_module`) that
owns what the players share. The specifications model the server module's
tables and reducers, which many players write at once, and the client's side
of what crosses the network: its connection and menus, its motion, and its
ball, each played ahead of the server and put right by it. TLC checks them on
small instances; TLAPS proves the results listed under *Proofs* for every value
of the constants. Paths below are relative to the repository.

## The system

### How it runs

A server module is a set of tables and of *reducers*. The host runs each
reducer as one transaction: it is atomic, no two interleave, and one that
returns `Err` changes nothing. So a reducer is one action here, its `Err`
returns are its guards, and a refused call is no step. What interleaves is the
order of the calls: of the players', of the host's connects and disconnects, of
the schedules the module leaves with the host (a tow, a code's expiry, the
ledger's roll-up), and of a *republish*, which puts a new module with other
content over the running database. No row is removed by a republish, so every
reducer may find rows of a course, a hole or a cart spec that is gone.

A client is one loop of frames (`app.cpp`, `event_loop.cpp`). A frame takes the
screen's input, then `net_client::update` sends what was queued and polls the
Rust bridge (`net/client_bridge`) until nothing is left, then the game goes on.
Clients subscribe to views of the tables, play ahead of the server, and take
back what it refuses or shows otherwise. Calls and rows of one connection
travel in order, each for as long as it likes; so what interleaves in a client
is frames, keys, the login and opening threads, calls, and answers to calls
that were made before something else happened. A motion is numbered and
acknowledged by the row it comes back in; a shot carries its stroke.

### Components

| Component | State | Operations | What is hard | What makes it correct | Status |
|---|---|---|---|---|---|
| Rooms and groups (`lib.cpp`, `play_rules`, `module_cache`) | `room`, `room_member`, `golf_group` | join a course, leave, create/join/leave a group, republish | counters beside rows; many ways out of a room; a course gone with players in it | counts equal members; rooms fill before others open; a group has its leader and its room | `Lobby`, `Rooms`, proved |
| Carts, bags, rides (`lib.cpp`, `cart_rules`, `movement_rules`) | `golf_cart`, `player_bag`, `ride_motion`, `motion_state`, `cart_tow` | take and leave the wheel, board, leave, move, tip, sink, right, strap a bag, the scheduled tow | rows that name other accounts; a cart that goes over under two people; schedules that outlive what they were for | nobody sits twice or in an overturned cart; no ride outlives its wheel; a bag is on a cart that is there; a sunk cart is towed | `Carts`, proved but for liveness |
| Accounts, sessions, link codes (`lib.cpp`, `account_rules`) | `player`, `account_login`, `session`, `link_code` and its expiry, budgets and attempts, `server_config` | connect, disconnect, claim a name, make and redeem a code, configure, expire | overlapping connections of one login; moving a login while its account may be deleted; schedules racing use | one live session; an account has a login; a named account is never deleted; a code goes away | `Accounts`, proved but for liveness |
| Balls, shots, rounds, flags (`lib.cpp`, `play_rules`, `round_state`, `net_types.h`) | `ball`, `green_flag`, `hole_score`, `completed_course`, `golfer_progress`, `round_strokes` | tee up, give up, hit, hole out, pick up, flag, republish | the order of these; one tee for two; other numbers of holes after a republish | one ball waits on a tee; a hole is scored once a round; counts equal scores | `Play`, proved |
| Progress ledger (`lib.cpp`, `progress_rollup`) | `xp_award`, `xp_rollup`, `golfer_skill`, `collected`, `item_use`, `running_effect` | collect, earn, use, roll up | a roll-up drops the keys that stop an award twice | a skill is its awards and roll-ups; an event pays once, in its month | `Purse`, `Ledger`, proved while collectibles keep their kinds |
| Movement by input (`movement_rules`) | `motion_state`, time credit | play a numbered motion, tee a golfer up | lost, repeated, late motions; credit of time | a step is played at most once, and only with time for it | `Walk`, `Motion` on foot, proved but for liveness |
| Interest views (`interest_rules.h`) | none | queries | – | – | not modelled: pure queries |
| Content (`server_content`, `module_cache`) | which courses there are | load | a republish | – | its one state is `content` and `holes` |
| Connection and sign-in (`net_client`, `online_session`, `client_bridge`) | handshake state, login thread, subscriptions, the round's watch | connect, sign in, cancel, subscribe, lose, retry, rejoin | a late answer of an older connection or subscription; another game of the same account | what is shown is this connection's; signing in ends; a lost round is back or says so | `Net`, `Link`, proved but for liveness |
| Room replica (`room_rows`, `bridge_rows`) | the rows of the room | merge rows of several subscriptions | an update as delete and insert in either order | the replica is the server's rows once quiet | not modelled, see *What the models leave out* |
| Motion sync and prediction (`motion_sync`, `sync_reconciliation`, `cart_prediction`, `ride_sync`, `online_play`) | steps not sent, motions not answered, predicted place | record, send, acknowledge, correct, refuse | prediction against a row of an earlier moment | game and server agree once nothing is under way; every motion is answered | `Motion` on foot |
| A golfer's ball online (`online_play`, `game_state`, `course_session`, `address_play`, `group_round`, `round_state`) | ball, round, mode, swing, shot, prompt | tee up, address, swing, strike, give up, pick up, next round | calls, refusals and rows that cross; all refusals of a frame before its shots | the ball played is the one the server has; a swing and a hole end | `MyBall`, proved but for liveness |
| Offline course play (`course_session`, `mode_dispatch`, `save_manager`, ...) | modes, saves | play, save, load | sequence of modes | – | its modes and ball in `MyBall`; saves not modelled |
| Application, menus, settings | screens | keys | a screen waiting for what the connection no longer brings | a screen moves on or says why | the online screens in `Menus` |
| Simulation (`physics`, `shot_simulation`, `movement_step`) | none kept | flight, ground, carts | floating point | numeric | not modelled: its outcomes are choices of the models |
| Rendering, audio, profiling, platform, tooling | output | – | – | – | not modelled |

How they interact: every other part of the server hangs on `room_member`.
A member of a room whose course is known (`caller_member`, *Present* in the
models) may play; `leave_room_state` ends everything of a member at once: it
is called by `leave_room`, by `join_course`, by a disconnect, by a newer
session, by an account's deletion, and by any reducer of a member whose course
a republish dropped. The rooms are therefore the base module, and each other
module conjoins its own part of that step with the rooms' action. The clients'
modules have one game and as much of the server as answers it: the rules of
`Rooms` and `Accounts` in `Link` (a join puts the account in a room of the
course; a newer session ends the older), of `Play` in `MyBall`, and `play_move`
in `Motion`.

## The modules

```
Lobby                         what a player may rely on of rooms (abstract)
  ^ implemented by
Rooms ---- RoomsProofs, MCRooms
  ^ EXTENDS
  |-- Carts ----- CartsProofs, MCCarts
  |-- Accounts -- AccountsProofs, MCAccounts
  `-- Play ------ PlayProofs, MCPlay

Purse                         what a golfer may rely on of XP (abstract)
  ^ implemented by
Ledger --- LedgerProofs, MCLedger

Walk                          movement by input as the docs promise it (abstract)
  ^ implemented by
Motion --- MotionProofs, MCMotion

Net <- Menus <- Link --- LinkProofs, MCLink      (each EXTENDS the one before)

MyBall --- MyBallProofs
```

`Rooms`. `room`, `member` and `group` are the three tables as functions from
their key, a key without a row holding the row of zeroes. `JoinCourse` is
`join_course` whole: out of any room (`leave_room_state`), the fullest room
with space or a new one (`choose_room`), into it. `LeaveRoom` is
`leave_room_state`. When a group's leader leaves, the index may yield any other
member first, so `GroupsLeft` is a set of tables. `Republish` changes
`content`. Ids of closed rooms are used again: `RoomsCountMembers` and
`GroupsSound` say that no row names a closed one, so the fresh ids of the code
are no different.

`Lobby` knows no counters and no rows: a player is at a room or none, a step
moves one player into a room that has space by the players really there, and an
empty room plays nothing. `ImplementsLobby` is the refinement, with
`at[a] = member[a].room` and `plays[r] = room[r].course`.

`Carts` adds carts, bags, the motions' modes, ride motions and tows. A
motion (`update_motion`) is kept by what it does to the cart: nothing
(`MoveOn`), off the wheel (`StepOff`), tipped or sunk (`GoOver`). Positions
are left out, so whatever a check of reach could refuse is possible. `tow` is,
by owner, the seconds left of each scheduled tow in the order made; `TowCart`
is the schedule's reducer and `Tick` a second. A bag's row is kept canonical:
off a cart it names no cart, and its golfer's own cart by its owner where the
row has 0. Motions "idle", "walk", "address" and "swing" are one mode, "foot";
left and right side down are one condition, "tipped".

`Accounts` adds identities, connections, logins, sessions, names and codes.
`SignUp` and `SignIn` are `client_connected`, the three `Disconnect` actions
`client_disconnected` of a guest, of another login, and of a connection that is
no live session. Progress is abstracted to having a name: its rows are only
made for members of a room, whose accounts have names. Rate windows are counts
that an hour empties (`BudgetLapses`, `AttemptsLapse`), and a code's time is
whether it has lapsed. That `redeem_link_code` runs `leave_room_state` for the
account it leaves is left out: that account has no name, and `SessionsSound`
says that only players with a name are in a room.

`Play` adds balls, rounds, scores, completions and flags, and `holes`, how
many holes each course has in the published content. `TakeShot` is a stroke
that does not hole, with its penalty; `HoleOut` one that does, and the score,
the count, and on the round's last hole the completion and the fresh round.
A ball's flight time is whether it rests. `tee_up`'s `give_up` argument is
folded in: a call without it is refused where a call with it is not.

`Ledger` is what pays XP. `awards`, `rollup`, `skill` and `collected` are the
tables of those names, and `plays` and `day` the time: an event of play
(`TakeShot`, `Move`, `UseItem`) has a key no other has, since its key is the
time. Whether an event happens (reach, requirements, a course's being there) and
how much it pays (levels, effects running) is any choice, within `Gains`. `Claim`
has the kinds of collectible with their rows and cooldowns; its key is the
collectible for a one-off and the claim's number else. `RollUp` is `roll_up_xp`.
It is the one reducer without a caller, so nothing stops it while the content
does not load: the tuning it then reads through a null pointer is any number
(`Cutoffs`). It is stated without rooms: that `golfer_progress` counts holes as
rounds score them is `Play`'s `ScoresSound`.

`Purse` knows no ledger: an event pays a golfer once, into skills and a month,
and nothing but deletion touches what is earned. `ImplementsPurse` is the
refinement: an event has paid if `plays`, a claim count or a one-off's row says
so, whether or not its award is still there, and the XP of a month is its awards
and its roll-up. So the key that stops a second payment may go, and a roll-up
must be invisible.

`Motion` is a golfer on foot and their row. `me` is the game: where it predicts
the golfer, the steps not sent (`motion_sync.unsent`), the commands queued for
the next frame, the motions not answered (`history`) and where the last step
ended (`stepped`). A frame is `net_client`'s update (`NetUpdate`: rows and
refusals heard, commands sent or dropped), what the golfer does (`Step`, `TeeUp`,
`Address`, `StepBack`, or `Rest`), `take_refusals`, `reconcile_motion` and
`sync_motion`, in that order. `Serve` is `update_motion` with `play_move`, or
`tee_up`; a motion may be answered and come again. Places are numbers on a
line and a step goes 0 or 1, so corrections, placements and claims add up as
vectors do. `Outcomes` are all ways the server may take a motion: a step may
meet what the prediction did not (a tree, another golfer), and a claim at the
ball may pass on slack.

`Walk` knows the steps a golfer took, how many the server has passed and how
far it walked for them: it passes each at most once, in order, and no walk is
paid for but theirs. `ImplementsWalk` is the refinement, `done` being
`mover.step`.

`Net` has no variables: it is `net_client` and the bridge as functions of a
game's record (`BeginLogin`, `CancelLogin`, `Handle` of each event,
`LostConnection`). A room's subscription has an id, since answers of earlier
ones are still on their way when a later one is asked for: the least that none
of those has, where the code counts up. `Menus` adds the
screens (`Flow`) and `online_session`'s watch over a round (`WatchRound`).
`Link` runs them: a frame is the screen's input, the connection's update, then
the watch. The server answers calls in order; the account may sign in, move and
sign out in another game; the connection breaks with any of what was on its
way lost; a publish of another protocol or content shows to those connected.

`MyBall` is a golfer's ball twice: as the game plays it (ball, round, mode,
swing, the shot that plays, and whether the server was seen to have the ball
in play) and as the server has it. A frame takes what the player does, then all
refusals it heard, then the shots, then follows the row (`Online`).

A definition in each of these that stands before the one it resembles and
differs from it in one point (`RoomsLeftOpen` beside `RoomsLeft`,
`BoardCartKeepsSeat` beside `BoardCart`) is that definition with a plausible
mistake in it. No specification uses it; substituted for the right one it
breaks the property that PROJECT.json names, which is how each property was
seen to be able to fail.

## The runs

| Run | Instance | Distinct states | Shows |
|---|---|---|---|
| `rooms` | 5 players, 2 courses, 3 rooms of 4, 2 groups of 3 | 6,459 | types and capacity, `RoomsCountMembers`, `GroupsSound`, `RoomsFillBeforeNewOnesOpen`, `ImplementsLobby` |
| `seats` | 3 players, 1 room, republishes | 114,530 | `CartsTypeOK`, `SeatsSound`, `RidesSound` |
| `bags` | 2 players, 2 rooms, tows of 1 s, 1 pending | 139,841 | `BagsSound`, `SunkCartHasTow`, `SunkCartTowed` (liveness) |
| `accounts` | 3 accounts and logins, 2 connections, 1 name, 2 codes | 421,574 | `SessionsSound`, `AccountsHaveLogins`, `CodesSound`, `NamedAccountsStay`, `SessionsTakeTheirRooms`, `FailuresStick`, `CodesGoAway` (liveness) |
| `play` | 2 players, a course of 0 to 2 holes, a practice ground of 1 | 499,107 | `PlayTypeOK`, `TeesSound`, `BallsMatchRounds`, `ScoresSound` |
| `ledger` | 1 golfer, 2 skills, 2 collectibles, 4 days, months of 2 | 11,415 | `LedgerTypeOK`, `SkillIsAwardsAndRollups`, `RepeatablesWait`, `ImplementsPurse` |
| `motion` | steps, ticks, turns at the ball, heartbeats and faults, 3 in all | 378,552 | `MotionTypeOK`, `Agreement`, `WithinTime`, `ImplementsWalk`, `GetsHeard` (liveness) |
| `link` | 2 courses with a room each, 2 messages on their way | 69,850 | `LinkTypeOK`, `ConnectionSound`, `RoomsAgree`, `WaitsEnd`, `SignInEnds` (liveness) |
| `my_ball` | 2 holes, 3 strokes, 3 messages on their way | 262,783 | `BallTypeOK`, `BallIsServers`, `SwingsAndHolesEnd` (liveness) |
| `roll_up_blind` | as `ledger` | violation | `AwardsKeepDetail`, see *Findings* |
| `steps_refused` | as `motion`, steps and ticks, 7 in all, nothing lost | violation | `NoneRefused`, see *Findings* |
| `holed_unseen` | as `my_ball` | violation | `HoledShotsPlay`, see *Findings* |

Why these bounds are enough to meet the interesting cases. `rooms`: five
players do not fit a room of four nor four a group of three, so both capacities
are met and passed by one; two courses and three rooms let a course have two
rooms while the other has one. `seats`: three players are a driver, a rider,
and one who takes a seat that one of them leaves; each of them also has a cart.
`bags`: two players on two carts have four seats for two bags, and two rooms
separate a cart from a bag that stayed; a pending tow outlives its owner's
leaving and meets the next cart. `accounts`: two connections overlap for one login; with three
logins one account can have two of them while a guest keeps a third; the one
name decides which accounts have progress; every limit is one an hour, so the
second use is refused. `play`: two players meet on one tee; a course of two
holes has a round with a first and a last hole, and modules of 0, 1 and 2
holes shrink and grow it between. `ledger`: every row, key and index of the
ledger is of one golfer, so one is enough; awards are kept a day, so within
four days of two months one month's awards are rolled up at once and in two
runs, while others of it stay and the next month has begun; the repeatable
collectible is claimed twice. `motion`: the bound is on all that makes new
messages together, and three of them are enough for a motion sent twice or
refused while another is on its way and a third is unsent, with its row heard
before, between and after; time for one step may be saved up, so credit is at
its least and at its cap, and a motion may carry two steps, so three do not
fit; the tee is two steps away and a reach of one makes it in and out of reach.
`link`: one course with carts and one without take both ways through the
screens, a room each lets a late answer be of the wrong room, and two messages
are enough for an answer to cross with a newer call. `my_ball`: two holes make
a ball of another hole and a round that ends; three strokes hold a penalty and
a holed shot after it; a call, its answer and a call between them are three
(with four, 1,798,279 states, everything held too).

Bounds in guards, each a constant: `MaxTows` (tows pending for one owner;
each asks for another sinking), `MaxStrokes` (strokes of one ball), `MaxScores`
(holes completed by all golfers), `MaxXp`, `MaxPlays`, `MaxClaims` and `LastDay`
(what an event pays, a golfer's events and claims, the days), `MaxTurns` (what
`Spare` of `Motion` counts) and `MaxFlight` (messages on their way while keys and
other games act). Numbers of accounts, rooms and groups are
sizes of the sets; when all ids are in use the model refuses what the code
would not, which the runs' sets are large enough to avoid or which only ends
a behaviour early. Accounts, courses, connections and codes are interchangeable
where they are declared symmetric: no constant, bound or initial state tells
them apart (the owner's identity is left out of the symmetry). No liveness run
uses symmetry.

Two runs use a part of the next-state relation, defined in `MCCarts`: `SeatNext`
has everything but bags' and groups' actions, which change no seat, and
`BagNext` everything but groups and republishes. `BagsSound` and `SunkCartHasTow`
are false with republishes in the way *Findings* tells, and are stated without.

## Fairness

Only the host and time are fair; no player is obliged to do anything.
`Carts!FairSpec` has weak fairness of `Tick` and of each owner's `TowCart`:
`cart_tow` is a scheduled table, and the host runs a due row of it without
being asked. `AccountsFairSpec` has it of `CodeLapses` (time) and of
`ExpireLinkCode` (the schedule of `link_code_expiry`). `SunkCartTowed` and
`CodesGoAway` then hold whatever the players do in between: an earlier
sinking's tow may come due first, the cart may leave and return, the code may
be replaced or its account deleted.

`Motion!FairSpec`: the server answers what reaches it (weak fairness of `Serve`),
and the game hears what has come again and again (`[]<>(down = <<>>)`):
`net_client::update` polls the queue empty in each frame (net_client.cpp:276).
The golfer need not do anything. `MyBall!FairSpec` says the same of both
queues, and that a shot and a swing's strike take their time and no more and
results are left. `Link`'s `Progress`: frames take far less time than keys and
messages do, so the game is again and again one that a frame without input
leaves as it is; queues empty; the login thread gives up in time
(`BROWSER_TIMEOUT`, login.rs:30), and so does a connection that opens; the
server greets or drops a connection, and a break is heard of. What is not
assumed: that a login or a connection works, that a player presses a key, or
that a connection holds.

## Proofs

The proof modules hold for every finite set of accounts, every set of courses,
rooms, groups, logins, connections, codes and collectibles, every positive
capacity, every number of holes, and every tee, reach and time that may be
saved up, and any number of messages on their way. Their assumptions are
`RoomsAssumption`, `CartsAssumption`, `PlayAssumption`, `AccountsAssumption`,
`MotionAssumption`, `LedgerAssumption`, `MyBallAssumption`, `NetAssumption`,
`MenusAssumption`, `LinkAssumption` and no other. `NoMotion`, which stands for
a `latest` motion that there is none of, is assumed to be no motion.

`RoomsProofs`. *RoomsTyped* is inductive by itself; *RoomsCounted* needs the
types and argues by cardinality: leaving takes one from exactly the room the
player is counted in, and the chosen room has space after that. It is what
makes the guard `player_count < room_capacity` mean space. *GroupsStaySound*
needs all of these: that a group's last member is found by a count of one only
follows once the count is of its members. *LeadersKeepGroups* and *RoomsFill*
are action properties from those invariants. *RoomsImplementLobby* maps each
action: `JoinCourse` to `Enter`, `LeaveRoom` to `Leave`, the others to a
stutter.

`CartsProofs`. *CartsKeepRooms* shows that every step of `Carts` is one of
`Rooms` or leaves them alone, so all of the above holds for carts too. Types,
seats and rides are not inductive each for itself: that an overturned cart is
empty keeps rides out of it, that a rider is in the cart's room lets
`leave_passenger_seat` look only there, and that `mode = "cart"` means the
wheel is what lets `update_ride` show a seat moving. `CartsInv` is their
conjunction with the rooms' types; there is a lemma for each action, and
*CartsTyped*, *SeatsStaySound* and *RidesStaySound* follow. Republishes are
included.

Its last part is over `FairSpec`, whose steps are all but the republish: that the
content stays whole, so a member's course is always known, and with it
`BagsInv`: a bag on a cart is on one that is there. *BagsStaySound* and
*SunkCartsHaveTows* follow.

`PlayProofs`. *PlayKeepsRooms* as for carts. Types, tees and rounds are
inductive only over the rooms' own invariant: a ball belongs to a member, and
that a room with someone in it does not close and goes to no joiner of another
course, which is what the counts prove, is why a ball's hole stays one of its
course. *TeesStaySound*, *BallsStayInRounds* and *RoundsStayScored* follow,
through republishes with other numbers of holes. *ScoresStaySound* adds the
count: a player's scores are rows (`ScoreRows`), their number is a cardinality,
and a hole's first score in a round adds one row to them as it adds one to the
count.

`AccountsProofs`. Types, sessions, logins and codes are inductive only
together: that a guest has one login and no code is what makes its deletion
leave nothing behind, that a session is of one of its account's logins is what
makes a disconnect end the right one, and a login that moves takes its session
along. Over these, *AccountsKeepRooms*; over the rooms, that only players
signed in and named are in one. *SessionsEndRooms*, *NamedStay* and
*FailuresStay* are action properties from those.

`MotionProofs`. `MotionInv` says of the game that what it carries is what was
taken: the steps not sent, queued, on their way and repeated have the numbers
and inputs of `taken` (`Carried`), and ids acknowledged, answered or waited for
are ones it gave out; of the server that the steps it played, the time left and
the time since are within the time there was. Each function a frame is built
from has a lemma that it keeps a game sound (`Sound`), and a frame is their
chain (`FrameKeeps`). For the server, `PlayFacts` and `ForwardFacts` say what
`play_move`'s arithmetic gives: no step before the last one played, none
without credit, no further than the steps. *StepsWithinTime* and
*MotionImplementsWalk* follow, for any lag, loss, repeat and refusal. Where a
greatest element is needed it is found by `WFMin` over the numbers.

*GameAgrees* (`Agreement`) needs more, `AgreeInv`: while the golfer has not
turned to a ball, once one of their motions is out (`latest`), where they stand
is explained. It is the place of the motion queued (`Queued`), or that of the
last one sent and the steps since while that waits for its answer (`Waiting`),
or the server's and the steps since once it was answered (`Answered`). For a row
to lead from the second to the third, the last motion's row must have the
server's place and every row an id no newer (`Tells`), a row must match the
motion it answers, or `reconcile_motion` would forget that motion and correct
nothing (`Answers`), and nobody may have been put anywhere between steps, or a
correction could be taken for that (`OnFoot`). A refusal, or calls the bridge
does not take, leave nothing to explain: all is due again. With nothing due or
on its way, only the third is left, with no step ahead.

`LedgerProofs`. *AwardsStayUnique* is `pay_award`'s own check, carried through
roll-ups. *RepeatablesDoWait* needs the holes at the last claim (`WaitInv`): the
next is `Cooldown` after it. A sum of XP is the number of its points
(`Points`), so no sum needs induction: `LedgerInv` has the types and
`PointsKept`, that a skill has as many points as its awards and roll-ups, and a
roll-up is a bijection between the points of the awards it takes and the points
its months gain (`MonthsGrow`). *LedgerTyped* and *SkillStaysWhole* follow.
*LedgerImplementsPurse* maps a payment to `Earn`, a deletion to `Forget` and all
else to a stutter; that the event paid is a new one follows from its key: `plays`
before the event, a claim's number, or a one-off without a row. It is proved
under `KindsStay`, that a collectible's kind is the same in all contents that
have it, since without it a one-off's row can be overwritten (lib.cpp:937) and
its key come again; the other four theorems allow the change.

`MyBallProofs`. A frame hears any number of messages, as a recursive function
over them: that such a function exists, and that what each message keeps the
whole frame keeps, is proved by `WFMin` over its places. `BallInv` is four
parts. `TypeInv` has the types and what lives together: a swing only over a ball
addressed, a shot only of a ball in play, strokes that the server had. `RowInv`:
the last row heard or on its way is the server's ball. `TeeInv`: a ball teed up
and not yet seen there has its call on its way with only shots behind it, or that
call's refusal coming, or the server's golfer on its hole with only shots still
to serve. `ShotInv` says the same of a ball swung at, whose last call is its
shot. None holds without the others: a refusal makes the game adopt the row it
heard, so that row must be the last one, and a shot that is refused must not
leave a newer tee-up behind it. *BallTyped* and *BallStaysServers* follow.

`LinkProofs`. The invariant speaks of a game *within* a frame: of what it has
sent, the events on their way of which it heard the first so many, and the
server; so each event heard, each screen and each step of the server has a lemma
that keeps it, and a frame is their chain (`MenuFramed`, `AllHeard`,
`RoundWatched`, `FrameKeeps`). `SoundGame` is what the game's own parts say of
each other: no account without its content, no room without its account, no
status that waits for nothing. `Unmet`: before the server's greeting nothing was
sent, and the greeting is the first to come. `Stages`: until it is connected one
thing is asked or answered at a time, and nothing of an account's rows comes
before the account. `Seated`: the member rows on their way end at the seat the
server has, and each delete is of the room shown by then; without that, the
client's rule that the delete of another room is an older one could drop the one
that matters. `IdsApart` and `Subscribed`: of the subscriptions under way no two
have one id, the last one's is that of the room shown, and an answer in which
that room has no row comes only behind a member row that takes it away.
*LinkTyped*, *ConnectionStaysSound* and *RoomsStayAgreed* follow, for any
screens, keys and breaks, and another game of the same account. While the
connection is lost but not yet known to be, only the types, `Apart` and `Unmet`
are claimed: what was on its way may be cut off anywhere.

Each inductive invariant was first checked by TLC on the instance of its run.

Only model-checked: liveness (`SunkCartTowed`, `CodesGoAway`, `GetsHeard`,
`WaitsEnd`, `SignInEnds`, `SwingsAndHolesEnd`), which is out of the prover's
reach. Every invariant and action property of a passing run is a theorem.

## Findings

Three runs end in a violation, each a disagreement of the code with what its
comments or docs say:

* `holed_unseen`. `take_shot` writes a holed shot and the ball in its cup in one
  transaction, so one frame of the client hears both. `take_room_events` makes
  the shot the swing's answer, and `follow_server_hole`, which waits only for a
  shot that plays already, completes the hole: the swing and its answer are
  dropped. The hole is scored with the club at its top and the shot never seen.
* `steps_refused`. Standing still records steps, and nothing is sent while
  nothing changes. After a time the next motion carries more steps than the
  server takes, which refuses it, where the docs say that steps beyond the time
  saved up are passed over.
* `roll_up_blind`. `caller` refuses every call while the content does not load,
  so that "a republish with broken content must not let reducers read through
  it"; `roll_up_xp` has no caller, is scheduled, and reads
  `cached_content()->tuning` all the same. What it finds is its cutoff: awards of
  today may lose the detail that is kept for `xp_award_keep_days`. No XP is lost
  and none is paid twice (`ImplementsPurse` holds with it).

Further counterexamples, of what one would expect or a smaller comment says. The
configurations are kept and TLC finds each; they are no part of the runs above:

* `MCBagLeft.cfg` (`BagSetDownWithItsCart`). `leave_room_state` sets the bags on
  a leaver's cart down only when the room's course is in the content. If a
  republish dropped it and another brings it back, another golfer's bag is
  strapped to a cart that is gone, until they leave the room.
* `MCRoundStuck.cfg` (`RoundHasAHoleLeft`). A round is finished only by a holed
  shot. When a republish leaves a course with no other holes than those a player
  has played this round, every tee is refused and the round does not end until
  they leave.
* `MCTeedMoved.cfg` (`TeedGolferStays`). A golfer stood to their ball by a tee-up
  is moved by the very row that shows them there: a placement that no step has
  noted yet reads as a correction of the walk before
  (sync_reconciliation.cpp:175).
* `MCRejoinStuck.cfg` (`LostRoundsEnd`). A round that was joined by its one rejoin
  and put out of its room again unseen goes on without a room: it is told of
  no room, nor of a loss.
* `MCRoundLost.cfg` (`LostOnlyElsewhere`). A round whose room is gone for another
  reason is taken for one "signed in somewhere else"
  (online_session.cpp:106-107).

Seen while modelling, and in the models:

* `leave_room_state` keeps the leaver's pending `cart_tow`, and `tow_cart` checks
  only that a cart of theirs is sunk now: who leaves with a sunk cart, joins
  again and sinks the new one has it towed on the old one's schedule, before
  the `tow_seconds` that the table's comment promises.
* A course accepted on the transport screen in the frame in which the connection
  becomes usable is not joined; joining waits until it is cancelled.
* A room subscription that fails leaves the status failed with the connection
  open, and a retry then does nothing.
* A refusal of an older tee-up that is heard after a newer one was made adopts the
  server's ball over it: the game's strokes are then behind, and every swing is
  refused for its number until the next tee-up; or the server has a ball in play
  that the game lacks, until the next refusal.
* When the row of a tee-up and of the shot that holed it are heard in one frame,
  the game never saw the ball in play, and giving up loses the score here.
* A swing that was dropped has its late answer taken for a new swing's.
* On the results screen rows are heard and not followed: a ball that the server
  has put on another hole meanwhile stays in play until the first frame of the
  next round follows its row. So `BallIsServers` is of the ball that following
  the row last heard leaves.

## What the models leave out

Everywhere: positions, reach and floating-point simulation; wording; the views;
refused calls, which are no steps (that a stroke sent twice plays once is the
server's guard, and `MyBall` has its client's side).

Server: the club in hand (`take_club`, `set_golfer`); reports of a link's
outcome; a republish in `AccountsNext`, since nothing of an account depends on
content; a republish that makes a one-off collectible repeatable (its next claim
overwrites the one-off's row in `store_progress`, lib.cpp:937, and a claim may
pay again after a republish back): the `ledger` run's contents have, lack or
break a collectible and keep its kind. A course whose content is there but
unreadable is as if dropped.

`Motion`: driving, riding and what items do to speed. After a refused tee-up
`return_to_server` puts the golfer back without discarding the history, which is
why `Agreement` is of golfers who did not turn at the ball; and a short walk
that is not yet sent and is corrected back stays unsent, which is why it is
not claimed that all falls quiet.

`Link`: linking a login to an account, names and link codes, the help, settings
and tour screens, offline play, a course that does not load on the client. Rows
and calls of one poll are applied together, so their order in the bridge is left
out; a subscription's id is used again once answered.

`MyBall`: where the ball and the golfer are (what is in reach is a choice, but
balls of two holes are never in one reach), penalties' size, corrections of the
ball's place, and the silent `Ok` of a hole given up before.

Not modelled at all, with the reason in PROJECT.json: the room replica, whose
result hangs on which callbacks the SDK's row cache fires for a row of a view or
of two subscriptions, which is not in this repository; the views and content
loading, which are pure; the simulation, rendering and the rest.

## Plan

Done: `Rooms` with `Lobby`, `Carts`, `Accounts`, `Play`, `Ledger` with `Purse`,
`Motion` with `Walk`, `Net`, `Menus` and `Link`, `MyBall`, each with its proofs.
What remains:

1. The client's claims (net_client.cpp:494-499): a refusal takes the oldest
   pending one off, which is right while answers keep the calls' order and
   progress is delivered between them.
2. Driving: `cart_prediction` and `ride_sync` against a cart's row and its
   driver's, which acknowledge one motion in different frames.
3. The merging of rows, once the SDK's callbacks are known; saves offline.
