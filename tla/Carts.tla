------------------------------- MODULE Carts -------------------------------
(***************************************************************************)
(* The golf carts of a room, over its members (Rooms): who sits where, the *)
(* bags strapped on, the ride motion a rider alone sees, and the tow of a  *)
(* sunk cart (lib.cpp golf_cart, player_bag, ride_motion, motion_state and *)
(* cart_tow; cart_rules; play_rules check_bag_move).                       *)
(*                                                                         *)
(* Positions are left out: any seat, bag or cart may be within reach.  Of  *)
(* a motion's steps only what they do to the cart is kept: nothing, off    *)
(* the wheel, or over (tipped or sunk).  The motions "idle", "walk",       *)
(* "address" and "swing" are all "foot".                                   *)
(***************************************************************************)
EXTENDS Rooms, Sequences

CONSTANTS
    CartCourse,     \* the courses that have carts
    TowSeconds,     \* the cart spec's tow_seconds
    MaxTows         \* bound: tows scheduled at once for one owner

ASSUME CartsAssumption ==
    /\ CartCourse \subseteq Course
    /\ TowSeconds \in Nat
    /\ MaxTows \in Nat

VARIABLES
    cart,   \* table golf_cart, by owner
    bag,    \* table player_bag, by account
    mode,   \* motion_state's mode, by account; "none" with no row
    ride,   \* table ride_motion: the owner driving each rider, or NoAccount
    tow     \* table cart_tow: the seconds left of each owner's scheduled tows

cartVars == <<cart, bag, mode, ride, tow>>
vars == <<roomVars, cartVars>>

-----------------------------------------------------------------------------

Condition == {"upright", "tipped", "sunk"}
Seat == {"driver", "passenger"}
Mode == {"none", "foot", "cart", "ride"}

CartRow ==
    [room : RoomId \cup {NoRoom}, driver : Account \cup {NoAccount},
     passenger : Account \cup {NoAccount}, condition : Condition]
CartIn(r, d, p, c) == [room |-> r, driver |-> d, passenger |-> p, condition |-> c]
EmptyCart(r, c) == CartIn(r, NoAccount, NoAccount, c)
NoCart == EmptyCart(NoRoom, "upright")

(* A bag names the owner of the cart it is strapped to, its golfer for     *)
(* their own (the row's cart_owner 0).                                     *)
BagRow ==
    [room : RoomId \cup {NoRoom}, place : {"on_cart", "on_back", "on_ground"},
     cart : Account \cup {NoAccount}, seat : Seat]
BagAt(r, place) == [room |-> r, place |-> place, cart |-> NoAccount, seat |-> "driver"]
BagOnCart(r, o, s) == [room |-> r, place |-> "on_cart", cart |-> o, seat |-> s]
NoBag == BagAt(NoRoom, "on_back")

HasCart(a) == cart[a].room # NoRoom
Driving(a) == HasCart(a) /\ cart[a].driver = a
Riding(a, o) == cart[o].room = member[a].room /\ cart[o].passenger = a
StrappedOn(b, o) == bag[b].place = "on_cart" /\ bag[b].cart = o
Sunk(o) == HasCart(o) /\ cart[o].condition = "sunk"

(* bag_spot_taken: a bag other than a's behind that seat of o's cart. *)
SpotTaken(a, o, s) ==
    \E b \in Account \ {a} : bag[b].room = member[a].room /\ StrappedOn(b, o) /\ bag[b].seat = s

-----------------------------------------------------------------------------
(* leave_passenger_seat: p out of any passenger seat of room r's carts,    *)
(* and their ride motion gone.                                             *)
OutOfSeat(carts, r, p) ==
    [o \in Account |-> IF carts[o].room = r /\ carts[o].passenger = p
                       THEN [carts[o] EXCEPT !.passenger = NoAccount] ELSE carts[o]]

RidesWithout(riders) == [a \in Account |-> IF a \in riders THEN NoAccount ELSE ride[a]]

(* set_down_bags_from: every bag strapped on o's cart is on the ground. *)
BagsSetDown(r, o) ==
    [b \in Account |-> IF bag[b].room = r /\ StrappedOn(b, o)
                       THEN BagAt(r, "on_ground") ELSE bag[b]]

(* leave_room_state, on the tables of this module: a out of any seat, a's  *)
(* rider out of a's cart, the bags on it set down (when the room's course  *)
(* is known), a's rows gone.                                               *)
CartsLeft(a) ==
    LET r == member[a].room
    IN  [OutOfSeat(OutOfSeat(cart, r, a), r, cart[a].passenger) EXCEPT ![a] = NoCart]

RidesLeft(a) == RidesWithout({a, cart[a].passenger})

BagsLeftStrapped(a) == [bag EXCEPT ![a] = NoBag]
BagsLeftKept(a) == IF HasCart(a) /\ CourseKnown(a) THEN BagsSetDown(member[a].room, a) ELSE bag

BagsLeft(a) ==
    IF HasCart(a) /\ CourseKnown(a)
    THEN [BagsSetDown(member[a].room, a) EXCEPT ![a] = NoBag]
    ELSE [bag EXCEPT ![a] = NoBag]

(* join_course, with a cart of one's own where the course has carts and    *)
(* the player takes one; the bag on it, else on their back.                *)
Join(a, c, takesCart) ==
    /\ JoinCourse(a, c)
    /\ LET r == member'[a].room
           own == c \in CartCourse /\ takesCart
       IN  /\ cart' = [CartsLeft(a) EXCEPT ![a] = IF own THEN EmptyCart(r, "upright") ELSE NoCart]
           /\ bag' = [BagsLeft(a) EXCEPT ![a] = IF own THEN BagOnCart(r, a, "driver")
                                                       ELSE BagAt(r, "on_back")]
    /\ ride' = RidesLeft(a)
    /\ mode' = [mode EXCEPT ![a] = "foot"]
    /\ UNCHANGED tow

Leave(a) ==
    /\ LeaveRoom(a)
    /\ cart' = CartsLeft(a)
    /\ bag' = BagsLeft(a)
    /\ ride' = RidesLeft(a)
    /\ mode' = [mode EXCEPT ![a] = "none"]
    /\ UNCHANGED tow

-----------------------------------------------------------------------------
(* update_motion, once accepted (play_move).  A motion asks for a mode;    *)
(* "ride" needs a passenger seat, "cart" the wheel.                        *)

MayAsk(a, asked) == asked = "ride" => \E o \in Account : Riding(a, o)

(* The steps leave the cart alone: on foot, riding, or still driving. *)
MoveOn(a, asked) ==
    /\ Present(a)
    /\ MayAsk(a, asked)
    /\ Driving(a) <=> asked = "cart"
    /\ mode' = [mode EXCEPT ![a] = asked]
    /\ UNCHANGED <<roomVars, cart, bag, ride, tow>>

(* A driver's motion on foot or riding takes them off the wheel, and their *)
(* rider's ride motion with it.                                            *)
StepOffKeepsRide(a, asked) ==
    /\ Present(a)
    /\ MayAsk(a, asked)
    /\ Driving(a)
    /\ asked # "cart"
    /\ cart' = [cart EXCEPT ![a].driver = NoAccount]
    /\ mode' = [mode EXCEPT ![a] = asked]
    /\ UNCHANGED <<roomVars, bag, ride, tow>>

StepOff(a, asked) ==
    /\ Present(a)
    /\ MayAsk(a, asked)
    /\ Driving(a)
    /\ asked # "cart"
    /\ cart' = [cart EXCEPT ![a].driver = NoAccount]
    /\ ride' = RidesWithout({cart[a].passenger})
    /\ mode' = [mode EXCEPT ![a] = asked]
    /\ UNCHANGED <<roomVars, bag, tow>>

(* schedule_tow: a cart that sank is towed back TowSeconds from now. *)
TowsDropped(a, over) == tow

Tows(a, over) == IF over = "sunk" THEN [tow EXCEPT ![a] = Append(@, TowSeconds)] ELSE tow

(* The cart goes over under its driver: both out of it, standing           *)
(* (put_out_rider); a sunk one is scheduled to be towed.                   *)
GoOver(a, asked, over) ==
    /\ Present(a)
    /\ MayAsk(a, asked)
    /\ Driving(a)
    /\ cart[a].condition = "upright"
    /\ over = "sunk" => Len(tow[a]) < MaxTows
    /\ cart' = [cart EXCEPT ![a] = EmptyCart(@.room, over)]
    /\ ride' = RidesWithout({cart[a].passenger})
    /\ mode' = [x \in Account |->
                   CASE x = a -> IF asked = "cart" THEN "foot" ELSE asked
                     [] x = cart[a].passenger /\ member[x].room # NoRoom -> "foot"
                     [] OTHER -> mode[x]]
    /\ tow' = Tows(a, over)
    /\ UNCHANGED <<roomVars, bag>>

(* tee_up stands the player behind the ball (place_player), out of nothing:*)
(* a seat they hold stays theirs.                                          *)
TeeUp(a) ==
    /\ Present(a)
    /\ mode' = [mode EXCEPT ![a] = "foot"]
    /\ UNCHANGED <<roomVars, cart, bag, ride, tow>>

-----------------------------------------------------------------------------
(* The seats. *)

TakeWheel(a) ==
    /\ Present(a)
    /\ HasCart(a)
    /\ cart[a].driver = NoAccount
    /\ cart[a].condition = "upright"
    /\ cart' = [OutOfSeat(cart, member[a].room, a) EXCEPT ![a].driver = a]
    /\ ride' = RidesWithout({a})
    /\ UNCHANGED <<roomVars, bag, mode, tow>>

LeaveWheel(a) ==
    /\ Present(a)
    /\ Driving(a)
    /\ cart' = [cart EXCEPT ![a].driver = NoAccount]
    /\ ride' = RidesWithout({cart[a].passenger})
    /\ mode' = [mode EXCEPT ![a] = "foot"]
    /\ UNCHANGED <<roomVars, bag, tow>>

BoardCartKeepsSeat(a, o) ==
    /\ Present(a)
    /\ o # a
    /\ cart[o].room = member[a].room
    /\ cart[o].passenger = NoAccount
    /\ cart[o].condition = "upright"
    /\ cart' = [cart EXCEPT ![o].passenger = a]
    /\ ride' = RidesWithout({a})
    /\ UNCHANGED <<roomVars, bag, mode, tow>>

BoardCart(a, o) ==
    /\ Present(a)
    /\ o # a
    /\ cart[o].room = member[a].room
    /\ cart[o].passenger = NoAccount
    /\ cart[o].condition = "upright"
    /\ cart' = [OutOfSeat(cart, member[a].room, a) EXCEPT ![o].passenger = a]
    /\ ride' = RidesWithout({a})
    /\ UNCHANGED <<roomVars, bag, mode, tow>>

LeaveCart(a) ==
    /\ Present(a)
    /\ \E o \in Account : Riding(a, o)
    /\ cart' = OutOfSeat(cart, member[a].room, a)
    /\ ride' = RidesWithout({a})
    /\ mode' = [mode EXCEPT ![a] = "foot"]
    /\ UNCHANGED <<roomVars, bag, tow>>

(* update_ride: the driver's seat for the one riding with them. *)
UpdateRide(a) ==
    /\ Present(a)
    /\ Driving(a)
    /\ mode[a] = "cart"
    /\ cart[a].passenger # NoAccount
    /\ ride' = [ride EXCEPT ![cart[a].passenger] = a]
    /\ UNCHANGED <<roomVars, cart, bag, mode, tow>>

(* right_cart: anyone of the room, beside it; not a sunk one. *)
RightCart(a, o) ==
    /\ Present(a)
    /\ cart[o].room = member[a].room
    /\ cart[o].condition = "tipped"
    /\ cart' = [cart EXCEPT ![o].condition = "upright"]
    /\ UNCHANGED <<roomVars, bag, mode, ride, tow>>

-----------------------------------------------------------------------------
(* place_bag: off the back onto an upright cart's free spot or the ground, *)
(* or back on; a bag on a cart that is not there cannot be reached.        *)

StrapBag(a, o, s) ==
    /\ Present(a)
    /\ bag[a].place = "on_back"
    /\ cart[o].room = member[a].room
    /\ cart[o].condition = "upright"
    /\ ~SpotTaken(a, o, s)
    /\ bag' = [bag EXCEPT ![a] = BagOnCart(member[a].room, o, s)]
    /\ UNCHANGED <<roomVars, cart, mode, ride, tow>>

SetBagDown(a) ==
    /\ Present(a)
    /\ bag[a].place = "on_back"
    /\ bag' = [bag EXCEPT ![a] = BagAt(member[a].room, "on_ground")]
    /\ UNCHANGED <<roomVars, cart, mode, ride, tow>>

ShoulderBag(a) ==
    /\ Present(a)
    /\ bag[a].place # "on_back"
    /\ bag[a].place = "on_cart" => cart[bag[a].cart].room = member[a].room
    /\ bag' = [bag EXCEPT ![a] = BagAt(member[a].room, "on_back")]
    /\ UNCHANGED <<roomVars, cart, mode, ride, tow>>

-----------------------------------------------------------------------------
(* The server's scheduler runs a tow once it is due.  A tow whose cart is  *)
(* gone, dry, or of a course that is gone does nothing; the row is spent.  *)

TowableEmpty(o) == Sunk(o) /\ CourseKnown(o) /\ \A b \in Account : ~StrappedOn(b, o)

Towable(o) == Sunk(o) /\ CourseKnown(o)

TowCart(o) ==
    /\ tow[o] # <<>>
    /\ Head(tow[o]) = 0
    /\ tow' = [tow EXCEPT ![o] = Tail(@)]
    /\ IF Towable(o)
       THEN /\ bag' = BagsSetDown(cart[o].room, o)
            /\ cart' = [cart EXCEPT ![o] = EmptyCart(@.room, "upright")]
       ELSE UNCHANGED <<bag, cart>>
    /\ UNCHANGED <<roomVars, mode, ride>>

(* A second passes for the schedules.  They are due in the order they were *)
(* made, the same time after it.                                           *)
Tick ==
    /\ \E o \in Account : \E i \in DOMAIN tow[o] : tow[o][i] > 0
    /\ tow' = [o \in Account |-> [i \in DOMAIN tow[o] |->
                                    IF tow[o][i] > 0 THEN tow[o][i] - 1 ELSE 0]]
    /\ UNCHANGED <<roomVars, cart, bag, mode, ride>>

-----------------------------------------------------------------------------

Init ==
    /\ RoomsInit
    /\ cart = [a \in Account |-> NoCart]
    /\ bag = [a \in Account |-> NoBag]
    /\ mode = [a \in Account |-> "none"]
    /\ ride = [a \in Account |-> NoAccount]
    /\ tow = [a \in Account |-> <<>>]

MembershipStep(a) == Leave(a) \/ \E c \in Course, takes \in BOOLEAN : Join(a, c, takes)

MotionStep(a) ==
    \E asked \in Mode \ {"none"} :
        \/ MoveOn(a, asked)
        \/ StepOff(a, asked)
        \/ \E over \in Condition \ {"upright"} : GoOver(a, asked, over)

SeatStep(a) ==
    \/ TakeWheel(a) \/ LeaveWheel(a) \/ LeaveCart(a) \/ UpdateRide(a) \/ TeeUp(a)
    \/ \E o \in Account : BoardCart(a, o) \/ RightCart(a, o)

BagStep(a) ==
    \/ SetBagDown(a) \/ ShoulderBag(a)
    \/ \E o \in Account, s \in Seat : StrapBag(a, o, s)

(* Everything but a republish, which only some runs allow. *)
PlayNext ==
    \/ \E a \in Account :
          \/ MembershipStep(a) \/ MotionStep(a) \/ SeatStep(a) \/ BagStep(a) \/ TowCart(a)
          \/ GroupStep(a) /\ UNCHANGED cartVars
    \/ Tick

Next == PlayNext \/ (Republish /\ UNCHANGED cartVars)

Spec == Init /\ [][Next]_vars

(* Fairness: the host runs a due schedule and time passes.  No player is   *)
(* bound to do anything.                                                   *)
Scheduling == (\A a \in Account : WF_vars(TowCart(a))) /\ WF_vars(Tick)
FairSpec == Init /\ [][PlayNext]_vars /\ Scheduling

-----------------------------------------------------------------------------
(* What the carts promise. *)

(* Every table holds rows of its type; a cart, a bag and a mover are in    *)
(* the room their player is a member of, and only there.                   *)
CartsTypeOK ==
    /\ cart \in [Account -> CartRow]
    /\ bag \in [Account -> BagRow]
    /\ mode \in [Account -> Mode]
    /\ ride \in [Account -> Account \cup {NoAccount}]
    /\ tow \in [Account -> Seq(0..TowSeconds)]
    /\ \A a \in Account :
          /\ cart[a].room \in {NoRoom, member[a].room}
          /\ bag[a].room = member[a].room
          /\ mode[a] = "none" <=> member[a].room = NoRoom

(* A cart's seats: only its owner drives it; its passenger is another      *)
(* member of its room and sits in no other cart; nobody is in a cart that  *)
(* went over; and a mover is "at the wheel" only of a cart it has.  The    *)
(* rows cross-reference accounts, and every way out of a seat or a room    *)
(* (board another, drive, go over, leave, be signed in elsewhere) has to   *)
(* clear them.                                                             *)
SeatsSound ==
    \A o \in Account :
        /\ cart[o].driver \in {NoAccount, o}
        /\ cart[o].condition # "upright" =>
              cart[o].driver = NoAccount /\ cart[o].passenger = NoAccount
        /\ mode[o] = "cart" => Driving(o)
        /\ cart[o].passenger # NoAccount =>
              /\ cart[o].passenger # o
              /\ HasCart(o)
              /\ member[cart[o].passenger].room = cart[o].room
              /\ \A p \in Account : cart[p].passenger = cart[o].passenger => p = o

(* "There while they ride" (ride_motion): a ride motion is only ever of a  *)
(* rider in the seat of the cart its owner is driving now; none outlives   *)
(* the ride, the wheel or the room.                                        *)
RidesSound ==
    \A r \in Account :
        ride[r] # NoAccount => Driving(ride[r]) /\ cart[ride[r]].passenger = r

(* A bag strapped on a cart is on a cart that is in its golfer's room, and *)
(* no two bags are behind the same seat, however carts and golfers come    *)
(* and go (while no republish drops the course).                           *)
BagsSound ==
    \A a \in Account :
        bag[a].place = "on_cart" =>
            /\ HasCart(bag[a].cart)
            /\ cart[bag[a].cart].room = member[a].room
            /\ ~SpotTaken(a, bag[a].cart, bag[a].seat)

(* A sunk cart always has a tow coming: update_motion's schedule is never  *)
(* lost, or spent by an earlier sinking's, while the cart lies there.      *)
SunkCartHasTow == \A o \in Account : Sunk(o) => tow[o] # <<>>

(* A sunk cart is towed back, or goes with its owner. *)
SunkCartTowed == \A o \in Account : Sunk(o) ~> ~Sunk(o)

(* "Strapped on a cart that leaves the room or is towed back, it is set    *)
(* down where the cart was" (lib.cpp, player_bag).  In a room whose course *)
(* is there, a bag on a cart is on a cart that is there.  It does not      *)
(* hold: leave_room_state sets no bag down while the course is missing.    *)
BagSetDownWithItsCart ==
    \A a \in Account :
        Present(a) /\ bag[a].place = "on_cart" => HasCart(bag[a].cart)

=============================================================================
