----------------------------- MODULE CartsProofs -----------------------------
(***************************************************************************)
(* The carts' types, seats and ride motions, proved for any players,       *)
(* courses, rooms and tow time, republishes included.  The three hold only *)
(* together: who may be cleared from a seat is known from who may be in    *)
(* one.  After them the bags and tows, without republishes.                *)
(***************************************************************************)
EXTENDS Carts, RoomsProofs, SequenceTheorems

(* Every step of the carts is one of the rooms, or leaves them alone. *)
THEOREM CartsKeepRooms == Spec => RoomsSpec
<1>1. Init => RoomsInit
    BY DEF Init
<1>2. [Next]_vars => [RoomsNext]_roomVars
  <2> SUFFICES ASSUME [Next]_vars PROVE [RoomsNext]_roomVars
    OBVIOUS
  <2>1. ASSUME NEW a \in Account, MembershipStep(a) PROVE RoomsNext
    BY <2>1 DEF MembershipStep, Join, Leave, RoomsNext
  <2>2. ASSUME NEW a \in Account, MotionStep(a) PROVE UNCHANGED roomVars
    BY <2>2 DEF MotionStep, MoveOn, StepOff, GoOver
  <2>3. ASSUME NEW a \in Account, SeatStep(a) PROVE UNCHANGED roomVars
    BY <2>3 DEF SeatStep, TakeWheel, LeaveWheel, LeaveCart, UpdateRide, TeeUp, BoardCart, RightCart
  <2>4. ASSUME NEW a \in Account, BagStep(a) PROVE UNCHANGED roomVars
    BY <2>4 DEF BagStep, SetBagDown, ShoulderBag, StrapBag
  <2>5. ASSUME NEW a \in Account, TowCart(a) PROVE UNCHANGED roomVars
    BY <2>5 DEF TowCart
  <2>6. ASSUME NEW a \in Account, GroupStep(a) PROVE RoomsNext
    BY <2>6 DEF RoomsNext
  <2>7. CASE Tick
    BY <2>7 DEF Tick
  <2>8. CASE Republish
    BY <2>8 DEF RoomsNext
  <2>9. CASE UNCHANGED vars
    BY <2>9 DEF vars
  <2> QED
    BY <2>1, <2>2, <2>3, <2>4, <2>5, <2>6, <2>7, <2>8, <2>9 DEF Next, PlayNext
<1> QED
    BY <1>1, <1>2, PTL DEF Spec, RoomsSpec

(* So the room tables are typed in the composition too. *)
THEOREM CartsRoomsTyped == Spec => []RoomsTypeOK
    BY CartsKeepRooms, RoomsTyped, PTL

-----------------------------------------------------------------------------
(* Rows. *)

(* The constructors make rows of the tables. *)
LEMMA RowTypes ==
    /\ \A r \in RoomId \cup {NoRoom}, d, p \in Account \cup {NoAccount}, c \in Condition :
          CartIn(r, d, p, c) \in CartRow
    /\ \A r \in RoomId \cup {NoRoom}, c \in Condition : EmptyCart(r, c) \in CartRow
    /\ NoCart \in CartRow
    /\ \A r \in RoomId \cup {NoRoom}, p \in {"on_cart", "on_back", "on_ground"} : BagAt(r, p) \in BagRow
    /\ \A r \in RoomId \cup {NoRoom}, o \in Account, s \in Seat : BagOnCart(r, o, s) \in BagRow
    /\ NoBag \in BagRow
BY DEF CartIn, EmptyCart, NoCart, CartRow, Condition, BagAt, BagOnCart, NoBag, BagRow, Seat

(* Clearing a passenger touches no other column and no other passenger. *)
LEMMA OutOfSeatRows ==
    ASSUME NEW carts \in [Account -> CartRow], NEW r, NEW p
    PROVE  /\ OutOfSeat(carts, r, p) \in [Account -> CartRow]
           /\ \A o \in Account :
                 /\ OutOfSeat(carts, r, p)[o].room = carts[o].room
                 /\ OutOfSeat(carts, r, p)[o].driver = carts[o].driver
                 /\ OutOfSeat(carts, r, p)[o].condition = carts[o].condition
                 /\ OutOfSeat(carts, r, p)[o].passenger =
                       IF carts[o].room = r /\ carts[o].passenger = p
                       THEN NoAccount ELSE carts[o].passenger
<1>1. \A o \in Account : OutOfSeat(carts, r, p)[o] =
        IF carts[o].room = r /\ carts[o].passenger = p
        THEN [carts[o] EXCEPT !.passenger = NoAccount] ELSE carts[o]
    BY DEF OutOfSeat
<1>2. \A o \in Account : OutOfSeat(carts, r, p)[o] \in CartRow
    BY <1>1 DEF CartRow
<1> QED
    BY <1>1, <1>2 DEF OutOfSeat, CartRow

(* What a seat holds, one cart at a time. *)
SeatSound(o) ==
    /\ cart[o].driver \in {NoAccount, o}
    /\ cart[o].condition # "upright" =>
          cart[o].driver = NoAccount /\ cart[o].passenger = NoAccount
    /\ mode[o] = "cart" => Driving(o)
    /\ cart[o].passenger # NoAccount =>
          /\ cart[o].passenger # o
          /\ HasCart(o)
          /\ member[cart[o].passenger].room = cart[o].room
          /\ \A p \in Account : cart[p].passenger = cart[o].passenger => p = o

CartsInv == RoomsTypeOK /\ CartsTypeOK /\ SeatsSound /\ RidesSound

(* A cart's columns, from the type invariant. *)
LEMMA CartRowTyped ==
    ASSUME CartsTypeOK, NEW o \in Account
    PROVE  /\ cart[o].room \in RoomId \cup {NoRoom}
           /\ cart[o].driver \in Account \cup {NoAccount}
           /\ cart[o].passenger \in Account \cup {NoAccount}
           /\ cart[o].condition \in Condition
BY DEF CartsTypeOK, CartRow

(* A leaver is out of every seat, and their own cart is gone; every other  *)
(* cart is as it was but for them.                                         *)
LEMMA CartsLeftRows ==
    ASSUME CartsInv, NEW a \in Account
    PROVE  /\ CartsLeft(a) \in [Account -> CartRow]
           /\ CartsLeft(a)[a] = NoCart
           /\ \A o \in Account \ {a} :
                 /\ CartsLeft(a)[o].room = cart[o].room
                 /\ CartsLeft(a)[o].driver = cart[o].driver
                 /\ CartsLeft(a)[o].condition = cart[o].condition
                 /\ CartsLeft(a)[o].passenger =
                       IF cart[o].passenger = a THEN NoAccount ELSE cart[o].passenger
<1> DEFINE r == member[a].room
           one == OutOfSeat(cart, r, a)
           two == OutOfSeat(one, r, cart[a].passenger)
<1>1. cart \in [Account -> CartRow]
    BY DEF CartsInv, CartsTypeOK
<1>2. one \in [Account -> CartRow]
    BY <1>1, OutOfSeatRows
<1>3. two \in [Account -> CartRow]
    BY <1>2, OutOfSeatRows
<1>4. CartsLeft(a) = [two EXCEPT ![a] = NoCart]
    BY DEF CartsLeft
<1>5. ASSUME NEW o \in Account \ {a}
      PROVE  /\ two[o].room = cart[o].room
             /\ two[o].driver = cart[o].driver
             /\ two[o].condition = cart[o].condition
             /\ two[o].passenger = IF cart[o].passenger = a THEN NoAccount ELSE cart[o].passenger
  <2>1. /\ one[o].room = cart[o].room
        /\ one[o].driver = cart[o].driver
        /\ one[o].condition = cart[o].condition
        /\ one[o].passenger = IF cart[o].room = r /\ cart[o].passenger = a
                              THEN NoAccount ELSE cart[o].passenger
    BY <1>1, OutOfSeatRows
  <2>2. /\ two[o].room = one[o].room
        /\ two[o].driver = one[o].driver
        /\ two[o].condition = one[o].condition
        /\ two[o].passenger = IF one[o].room = r /\ one[o].passenger = cart[a].passenger
                              THEN NoAccount ELSE one[o].passenger
    BY <1>2, OutOfSeatRows
  <2>3. cart[o].passenger = a => cart[o].room = r
    BY RoomsAssumption DEF CartsInv, SeatsSound
  <2>4. cart[o].passenger = cart[a].passenger => cart[o].passenger = NoAccount
    BY DEF CartsInv, SeatsSound
  <2> HIDE DEF one, two
  <2> QED
    BY <2>1, <2>2, <2>3, <2>4
<1> HIDE DEF one, two
<1> QED
    BY <1>3, <1>4, <1>5, RowTypes

(* Setting bags down keeps the bag table typed. *)
LEMMA BagsSetDownType ==
    ASSUME CartsTypeOK, NEW r \in RoomId \cup {NoRoom}, NEW o \in Account
    PROVE  /\ BagsSetDown(r, o) \in [Account -> BagRow]
           /\ \A b \in Account : BagsSetDown(r, o)[b].room = bag[b].room
<1>1. \A b \in Account : BagsSetDown(r, o)[b] =
        IF bag[b].room = r /\ StrappedOn(b, o) THEN BagAt(r, "on_ground") ELSE bag[b]
    BY DEF BagsSetDown
<1>2. BagAt(r, "on_ground").room = r
    BY DEF BagAt
<1> QED
    BY <1>1, <1>2, RowTypes DEF BagsSetDown, CartsTypeOK

(* So does a golfer's leaving. *)
LEMMA BagsLeftType ==
    ASSUME RoomsTypeOK, CartsTypeOK, NEW a \in Account
    PROVE  /\ BagsLeft(a) \in [Account -> BagRow]
           /\ \A b \in Account \ {a} : BagsLeft(a)[b].room = bag[b].room
           /\ BagsLeft(a)[a] = NoBag
<1>1. member[a].room \in RoomId \cup {NoRoom} /\ bag \in [Account -> BagRow]
    BY DEF RoomsTypeOK, MemberRow, CartsTypeOK
<1> QED
    BY <1>1, BagsSetDownType, RowTypes DEF BagsLeft

(* Joining and leaving, to this module: out of every seat, into a room     *)
(* with a new cart or none, or into no room.                               *)
LEMMA MembershipRows ==
    ASSUME CartsInv, NEW a \in Account, MembershipStep(a)
    PROVE  /\ member' \in [Account -> MemberRow]
           /\ \A b \in Account \ {a} : member'[b] = member[b]
           /\ cart' \in [Account -> CartRow]
           /\ \A o \in Account \ {a} : cart'[o] = CartsLeft(a)[o]
           /\ cart'[a] = NoCart \/ cart'[a] = EmptyCart(member'[a].room, "upright")
           /\ bag' \in [Account -> BagRow]
           /\ \A b \in Account \ {a} : bag'[b].room = bag[b].room
           /\ bag'[a].room = member'[a].room
           /\ ride' = RidesLeft(a)
           /\ mode' = [mode EXCEPT ![a] = IF member'[a].room = NoRoom THEN "none" ELSE "foot"]
           /\ tow' = tow
<1>1. CartsLeft(a) \in [Account -> CartRow] /\ BagsLeft(a) \in [Account -> BagRow]
    BY CartsLeftRows, BagsLeftType DEF CartsInv
<1>2. member \in [Account -> MemberRow]
    BY DEF CartsInv, RoomsTypeOK
<1>3. CASE Leave(a)
  <2>1. member' = [member EXCEPT ![a] = NoMemberRow]
    BY <1>3 DEF Leave, LeaveRoom
  <2>2. member'[a].room = NoRoom /\ member' \in [Account -> MemberRow]
    BY <1>2, <2>1 DEF NoMemberRow, MemberRow
  <2>3. CartsLeft(a)[a] = NoCart
    BY CartsLeftRows
  <2>4. BagsLeft(a)[a].room = NoRoom /\ \A b \in Account \ {a} : BagsLeft(a)[b].room = bag[b].room
    BY BagsLeftType DEF CartsInv, NoBag, BagAt
  <2> QED
    BY <1>1, <1>2, <1>3, <2>1, <2>2, <2>3, <2>4 DEF Leave
<1>4. ASSUME NEW c \in Course, NEW takes \in BOOLEAN, Join(a, c, takes) 
      PROVE  /\ member' \in [Account -> MemberRow]
             /\ \A b \in Account \ {a} : member'[b] = member[b]
             /\ cart' \in [Account -> CartRow]
             /\ \A o \in Account \ {a} : cart'[o] = CartsLeft(a)[o]
             /\ cart'[a] = NoCart \/ cart'[a] = EmptyCart(member'[a].room, "upright")
             /\ bag' \in [Account -> BagRow]
             /\ \A b \in Account \ {a} : bag'[b].room = bag[b].room
             /\ bag'[a].room = member'[a].room
             /\ ride' = RidesLeft(a)
             /\ mode' = [mode EXCEPT ![a] = IF member'[a].room = NoRoom THEN "none" ELSE "foot"]
             /\ tow' = tow
  <2>1. PICK r \in RoomId : member' = [member EXCEPT ![a] = [room |-> r, group |-> NoGroup]]
    BY <1>4 DEF Join, JoinCourse, ChosenRooms, WithSpace
  <2>2. member'[a].room = r /\ r # NoRoom /\ member' \in [Account -> MemberRow]
    BY <1>2, <2>1, RoomsAssumption DEF MemberRow, NoRoom
  <2> DEFINE own == c \in CartCourse /\ takes
             row == IF own THEN EmptyCart(r, "upright") ELSE NoCart
             carried == IF own THEN BagOnCart(r, a, "driver") ELSE BagAt(r, "on_back")
  <2>3. cart' = [CartsLeft(a) EXCEPT ![a] = row]
    BY <1>4, <2>2 DEF Join
  <2>4. row \in CartRow
    BY RowTypes DEF Condition
  <2>5. bag' = [BagsLeft(a) EXCEPT ![a] = carried]
    BY <1>4, <2>2 DEF Join
  <2>6. carried \in BagRow
    BY RowTypes DEF Seat
  <2>7. carried.room = r
    BY DEF BagOnCart, BagAt
  <2>8. ride' = RidesLeft(a) /\ mode' = [mode EXCEPT ![a] = "foot"] /\ tow' = tow
    BY <1>4 DEF Join
  <2>9. \A b \in Account \ {a} : BagsLeft(a)[b].room = bag[b].room
    BY BagsLeftType DEF CartsInv
  <2>10. cart' \in [Account -> CartRow] /\ \A o \in Account \ {a} : cart'[o] = CartsLeft(a)[o]
    BY <1>1, <2>3, <2>4
  <2>11. cart'[a] = NoCart \/ cart'[a] = EmptyCart(member'[a].room, "upright")
    BY <1>1, <2>2, <2>3
  <2> HIDE DEF row, carried
  <2>12. bag' \in [Account -> BagRow] /\ bag'[a].room = r
         /\ \A b \in Account \ {a} : bag'[b].room = bag[b].room
    BY <1>1, <2>5, <2>6, <2>7, <2>9
  <2> QED
    BY <1>2, <2>1, <2>2, <2>8, <2>10, <2>11, <2>12
<1> QED
    BY <1>3, <1>4 DEF MembershipStep

(* The ride motions without some riders'. *)
LEMMA RidesWithoutRows ==
    ASSUME CartsTypeOK, NEW S
    PROVE  /\ RidesWithout(S) \in [Account -> Account \cup {NoAccount}]
           /\ \A b \in Account : RidesWithout(S)[b] = IF b \in S THEN NoAccount ELSE ride[b]
BY DEF RidesWithout, CartsTypeOK

(* Joining and leaving keep the invariant. *)
LEMMA MembershipKeeps ==
    ASSUME CartsInv, NEW a \in Account, MembershipStep(a)
    PROVE  CartsTypeOK' /\ SeatsSound' /\ RidesSound'
<1>1. /\ \A b \in Account \ {a} : member'[b] = member[b]
      /\ cart' \in [Account -> CartRow]
      /\ cart'[a] = NoCart \/ cart'[a] = EmptyCart(member'[a].room, "upright")
      /\ bag' \in [Account -> BagRow]
      /\ \A b \in Account \ {a} : bag'[b].room = bag[b].room
      /\ bag'[a].room = member'[a].room
      /\ ride' = RidesLeft(a)
      /\ mode' = [mode EXCEPT ![a] = IF member'[a].room = NoRoom THEN "none" ELSE "foot"]
      /\ tow' = tow
    BY MembershipRows
<1>2. \A o \in Account \ {a} :
        /\ cart'[o].room = cart[o].room
        /\ cart'[o].driver = cart[o].driver
        /\ cart'[o].condition = cart[o].condition
        /\ cart'[o].passenger = IF cart[o].passenger = a THEN NoAccount ELSE cart[o].passenger
    BY MembershipRows, CartsLeftRows
<1>3. /\ cart'[a].room \in {NoRoom, member'[a].room}
      /\ cart'[a].driver = NoAccount /\ cart'[a].passenger = NoAccount
      /\ cart'[a].condition = "upright"
    BY <1>1 DEF NoCart, EmptyCart, CartIn
<1>4. ride' \in [Account -> Account \cup {NoAccount}]
      /\ \A b \in Account : ride'[b] = IF b \in {a, cart[a].passenger} THEN NoAccount ELSE ride[b]
    BY <1>1, RidesWithoutRows DEF RidesLeft, CartsInv
<1>5. mode' \in [Account -> Mode]
      /\ \A b \in Account : mode'[b] = IF b # a THEN mode[b]
                                       ELSE IF member'[a].room = NoRoom THEN "none" ELSE "foot"
    BY <1>1 DEF CartsInv, CartsTypeOK, Mode
<1>6. CartsTypeOK'
  <2>1. \A b \in Account : /\ cart'[b].room \in {NoRoom, member'[b].room}
                           /\ bag'[b].room = member'[b].room
    BY <1>1, <1>2, <1>3 DEF CartsInv, CartsTypeOK
  <2>2. \A b \in Account : mode'[b] = "none" <=> member'[b].room = NoRoom
    BY <1>1, <1>5 DEF CartsInv, CartsTypeOK
  <2>3. tow' \in [Account -> Seq(0..TowSeconds)]
    BY <1>1 DEF CartsInv, CartsTypeOK
  <2> QED
    BY <1>1, <1>4, <1>5, <2>1, <2>2, <2>3 DEF CartsTypeOK
<1>7. SeatsSound'
  <2> SUFFICES ASSUME NEW o \in Account PROVE SeatSound(o)'
    BY DEF SeatsSound, SeatSound
  <2>1. CASE o = a
    BY <1>3, <1>5, <2>1 DEF SeatSound
  <2>2. CASE o # a
    <3>1. SeatSound(o) /\ cart[o].passenger \in Account \cup {NoAccount}
      BY CartRowTyped DEF CartsInv, SeatsSound, SeatSound
    <3>2. cart'[o].passenger # NoAccount =>
             \A p \in Account : cart'[p].passenger = cart'[o].passenger => p = o
      BY <1>2, <1>3, <2>2, <3>1 DEF SeatSound
    <3>3. cart'[o].passenger # NoAccount => member'[cart'[o].passenger].room = cart'[o].room
      BY <1>1, <1>2, <2>2, <3>1 DEF SeatSound
    <3> QED
      BY <1>2, <1>5, <2>2, <3>1, <3>2, <3>3 DEF SeatSound, Driving, HasCart
  <2> QED
    BY <2>1, <2>2
<1>8. RidesSound'
  <2> SUFFICES ASSUME NEW r \in Account, ride'[r] # NoAccount
               PROVE  /\ cart'[ride'[r]].room # NoRoom
                      /\ cart'[ride'[r]].driver = ride'[r]
                      /\ cart'[ride'[r]].passenger = r
    BY DEF RidesSound, Driving, HasCart
  <2>1. r # a /\ r # cart[a].passenger /\ ride'[r] = ride[r]
    BY <1>4
  <2>2. Driving(ride[r]) /\ cart[ride[r]].passenger = r /\ ride[r] \in Account
    BY <2>1 DEF CartsInv, CartsTypeOK, RidesSound
  <2>3. ride[r] # a
    BY <2>1, <2>2
  <2> QED
    BY <1>2, <2>1, <2>2, <2>3 DEF Driving, HasCart
<1> QED
    BY <1>6, <1>7, <1>8

-----------------------------------------------------------------------------
(* The seats.  A step that leaves the rooms alone keeps the types when     *)
(* every cart and bag stays in its room.                                   *)
LEMMA TypesKept ==
    ASSUME CartsTypeOK, member' = member,
           cart' \in [Account -> CartRow], \A o \in Account : cart'[o].room = cart[o].room,
           bag' \in [Account -> BagRow], \A b \in Account : bag'[b].room = bag[b].room,
           mode' \in [Account -> Mode], \A b \in Account : mode'[b] = "none" <=> mode[b] = "none",
           ride' \in [Account -> Account \cup {NoAccount}],
           tow' \in [Account -> Seq(0..TowSeconds)]
    PROVE  CartsTypeOK'
BY DEF CartsTypeOK

(* Rides stay sound when the drivers and riders they name are as they      *)
(* were.                                                                   *)
LEMMA RidesKept ==
    ASSUME CartsTypeOK, RidesSound,
           \A r \in Account : ride'[r] # NoAccount => ride'[r] = ride[r],
           \A o, r \in Account :
              /\ ride'[r] = o /\ r # NoAccount
              /\ cart[o].room # NoRoom /\ cart[o].driver = o /\ cart[o].passenger = r
              => cart'[o].room # NoRoom /\ cart'[o].driver = o /\ cart'[o].passenger = r
    PROVE  RidesSound'
<1> SUFFICES ASSUME NEW r \in Account, ride'[r] # NoAccount
             PROVE  /\ cart'[ride'[r]].room # NoRoom
                    /\ cart'[ride'[r]].driver = ride'[r]
                    /\ cart'[ride'[r]].passenger = r
    BY DEF RidesSound, Driving, HasCart
<1>1. ride'[r] = ride[r] /\ ride[r] # NoAccount /\ ride[r] \in Account
    BY DEF CartsTypeOK
<1>2. /\ cart[ride[r]].room # NoRoom
      /\ cart[ride[r]].driver = ride[r]
      /\ cart[ride[r]].passenger = r
    BY <1>1 DEF RidesSound, Driving, HasCart
<1> QED
    BY <1>1, <1>2, RoomsAssumption

(* A player who is present has a mover. *)
LEMMA PresentMode ==
    ASSUME RoomsTypeOK, CartsTypeOK, NEW a \in Account, Present(a)
    PROVE  mode[a] # "none" /\ member[a].room # NoRoom
BY DEF CartsTypeOK, Present

(* A motion or a tee-up that only changes how a player moves keeps the     *)
(* seats, as long as nobody is set at a wheel they do not hold.            *)
LEMMA ModeKeeps ==
    ASSUME CartsInv, NEW a \in Account, NEW m \in Mode \ {"none"}, Present(a),
           m = "cart" => Driving(a),
           mode' = [mode EXCEPT ![a] = m],
           UNCHANGED <<roomVars, cart, bag, ride, tow>>
    PROVE  CartsTypeOK' /\ SeatsSound' /\ RidesSound'
<1>1. mode' \in [Account -> Mode] /\ \A b \in Account : mode'[b] = IF b = a THEN m ELSE mode[b]
    BY DEF CartsInv, CartsTypeOK
<1>2. CartsTypeOK'
    BY <1>1, PresentMode DEF CartsInv, CartsTypeOK, roomVars
<1>3. SeatsSound' /\ RidesSound'
    BY <1>1 DEF CartsInv, SeatsSound, RidesSound, Driving, HasCart, roomVars
<1> QED
    BY <1>2, <1>3

(* StepOff and LeaveWheel. *)
LEMMA OffWheelKeeps ==
    ASSUME CartsInv, NEW a \in Account, NEW m \in Mode \ {"none", "cart"}, Present(a),
           Driving(a),
           cart' = [cart EXCEPT ![a].driver = NoAccount],
           ride' = RidesWithout({cart[a].passenger}),
           mode' = [mode EXCEPT ![a] = m],
           UNCHANGED <<roomVars, bag, tow>>
    PROVE  CartsTypeOK' /\ SeatsSound' /\ RidesSound'
<1>1. mode' \in [Account -> Mode] /\ \A b \in Account : mode'[b] = IF b = a THEN m ELSE mode[b]
    BY DEF CartsInv, CartsTypeOK
<1>2. cart' \in [Account -> CartRow]
  <2>1. cart \in [Account -> CartRow] /\ cart[a] \in CartRow
    BY DEF CartsInv, CartsTypeOK
  <2>2. [cart[a] EXCEPT !.driver = NoAccount] \in CartRow
    BY <2>1 DEF CartRow
  <2> QED
    BY <2>1, <2>2
<1>3. \A o \in Account : /\ cart'[o].room = cart[o].room
                         /\ cart'[o].driver = IF o = a THEN NoAccount ELSE cart[o].driver
                         /\ cart'[o].passenger = cart[o].passenger
                         /\ cart'[o].condition = cart[o].condition
    BY DEF CartsInv, CartsTypeOK, CartRow
<1>4. /\ ride' \in [Account -> Account \cup {NoAccount}]
      /\ \A b \in Account : ride'[b] = IF b = cart[a].passenger THEN NoAccount ELSE ride[b]
    BY RidesWithoutRows DEF CartsInv
<1>5. CartsTypeOK'
    BY <1>1, <1>2, <1>3, <1>4, PresentMode, TypesKept DEF CartsInv, CartsTypeOK, roomVars
<1>6. SeatsSound'
    BY <1>1, <1>3 DEF CartsInv, SeatsSound, Driving, HasCart, roomVars
<1>7. RidesSound'
  <2>0. NoAccount \notin Account
    BY RoomsAssumption
  <2>1. \A r \in Account : ride'[r] # NoAccount => ride'[r] = ride[r]
    BY <1>4
  <2>2. \A p, r \in Account :
           /\ ride'[r] = p /\ r # NoAccount
           /\ cart[p].room # NoRoom /\ cart[p].driver = p /\ cart[p].passenger = r
           => cart'[p].room # NoRoom /\ cart'[p].driver = p /\ cart'[p].passenger = r
    BY <1>3, <1>4, <2>0
  <2> QED
    BY <2>1, <2>2, RidesKept DEF CartsInv
<1> QED
    BY <1>5, <1>6, <1>7

(* A player out of every seat of the room they are in. *)
LEMMA OutRows ==
    ASSUME CartsInv, NEW a \in Account
    PROVE  LET out == OutOfSeat(cart, member[a].room, a)
           IN  /\ out \in [Account -> CartRow]
               /\ \A o \in Account :
                     /\ out[o].room = cart[o].room
                     /\ out[o].driver = cart[o].driver
                     /\ out[o].condition = cart[o].condition
                     /\ out[o].passenger = IF cart[o].passenger = a
                                           THEN NoAccount ELSE cart[o].passenger
<1>1. \A o \in Account : cart[o].passenger = a => cart[o].room = member[a].room
    BY RoomsAssumption DEF CartsInv, SeatsSound
<1> QED
    BY <1>1, OutOfSeatRows DEF CartsInv, CartsTypeOK

(* take_wheel: out of any passenger seat, then at the wheel. *)
LEMMA TakeWheelKeeps ==
    ASSUME CartsInv, NEW a \in Account, TakeWheel(a)
    PROVE  CartsTypeOK' /\ SeatsSound' /\ RidesSound'
<1> DEFINE out == OutOfSeat(cart, member[a].room, a)
<1>1. out \in [Account -> CartRow] /\ cart' = [out EXCEPT ![a].driver = a]
    BY OutRows DEF TakeWheel
<1>2. \A o \in Account :
        /\ out[o].room = cart[o].room
        /\ out[o].driver = cart[o].driver
        /\ out[o].condition = cart[o].condition
        /\ out[o].passenger = IF cart[o].passenger = a THEN NoAccount ELSE cart[o].passenger
    BY OutRows
<1> HIDE DEF out
<1>3. cart' \in [Account -> CartRow]
    BY <1>1 DEF CartRow
<1>4. \A o \in Account :
        /\ cart'[o].room = cart[o].room
        /\ cart'[o].driver = IF o = a THEN a ELSE cart[o].driver
        /\ cart'[o].condition = cart[o].condition
        /\ cart'[o].passenger = IF cart[o].passenger = a THEN NoAccount ELSE cart[o].passenger
    BY <1>1, <1>2 DEF CartRow
<1>5. /\ ride' \in [Account -> Account \cup {NoAccount}]
      /\ \A b \in Account : ride'[b] = IF b = a THEN NoAccount ELSE ride[b]
    BY RidesWithoutRows DEF CartsInv, TakeWheel
<1>6. CartsTypeOK'
    BY <1>3, <1>4, <1>5, TypesKept DEF CartsInv, CartsTypeOK, TakeWheel, roomVars
<1>7. SeatsSound'
    BY <1>4 DEF CartsInv, SeatsSound, TakeWheel, Driving, HasCart, roomVars
<1>8. RidesSound'
  <2>0. NoAccount \notin Account
    BY RoomsAssumption
  <2>1. \A r \in Account : ride'[r] # NoAccount => ride'[r] = ride[r]
    BY <1>5
  <2>2. \A p, r \in Account :
           /\ ride'[r] = p /\ r # NoAccount
           /\ cart[p].room # NoRoom /\ cart[p].driver = p /\ cart[p].passenger = r
           => cart'[p].room # NoRoom /\ cart'[p].driver = p /\ cart'[p].passenger = r
    BY <1>4, <1>5, <2>0
  <2> QED
    BY <2>1, <2>2, RidesKept DEF CartsInv
<1> QED
    BY <1>6, <1>7, <1>8

(* board_cart: out of one passenger seat into another. *)
LEMMA BoardCartKeeps ==
    ASSUME CartsInv, NEW a \in Account, NEW o \in Account, BoardCart(a, o)
    PROVE  CartsTypeOK' /\ SeatsSound' /\ RidesSound'
<1> DEFINE out == OutOfSeat(cart, member[a].room, a)
<1>1. out \in [Account -> CartRow] /\ cart' = [out EXCEPT ![o].passenger = a]
    BY OutRows DEF BoardCart
<1>2. \A p \in Account :
        /\ out[p].room = cart[p].room
        /\ out[p].driver = cart[p].driver
        /\ out[p].condition = cart[p].condition
        /\ out[p].passenger = IF cart[p].passenger = a THEN NoAccount ELSE cart[p].passenger
    BY OutRows
<1> HIDE DEF out
<1>3. cart' \in [Account -> CartRow]
    BY <1>1 DEF CartRow
<1>4. \A p \in Account :
        /\ cart'[p].room = cart[p].room
        /\ cart'[p].driver = cart[p].driver
        /\ cart'[p].condition = cart[p].condition
        /\ cart'[p].passenger = IF p = o THEN a
                                ELSE IF cart[p].passenger = a THEN NoAccount ELSE cart[p].passenger
    BY <1>1, <1>2 DEF CartRow
<1>5. /\ ride' \in [Account -> Account \cup {NoAccount}]
      /\ \A b \in Account : ride'[b] = IF b = a THEN NoAccount ELSE ride[b]
    BY RidesWithoutRows DEF CartsInv, BoardCart
<1>6. CartsTypeOK'
    BY <1>3, <1>4, <1>5, TypesKept DEF CartsInv, CartsTypeOK, BoardCart, roomVars
<1>7. SeatsSound'
    BY <1>4, RoomsAssumption DEF CartsInv, SeatsSound, BoardCart, Present, Driving, HasCart, roomVars
<1>8. RidesSound'
  <2>0. NoAccount \notin Account
    BY RoomsAssumption
  <2>1. \A r \in Account : ride'[r] # NoAccount => ride'[r] = ride[r]
    BY <1>5
  <2>2. \A p, r \in Account :
           /\ ride'[r] = p /\ r # NoAccount
           /\ cart[p].room # NoRoom /\ cart[p].driver = p /\ cart[p].passenger = r
           => cart'[p].room # NoRoom /\ cart'[p].driver = p /\ cart'[p].passenger = r
    <3>1. cart[o].passenger = NoAccount
      BY DEF BoardCart
    <3>2. \A r \in Account : ride'[r] \in Account => r # a
      BY <1>5, <2>0
    <3> QED
      BY <1>4, <3>1, <3>2
  <2> QED
    BY <2>1, <2>2, RidesKept DEF CartsInv
<1> QED
    BY <1>6, <1>7, <1>8

(* leave_cart: out of the passenger seat, standing. *)
LEMMA LeaveCartKeeps ==
    ASSUME CartsInv, NEW a \in Account, LeaveCart(a)
    PROVE  CartsTypeOK' /\ SeatsSound' /\ RidesSound'
<1>1. cart' \in [Account -> CartRow]
    BY OutRows DEF LeaveCart
<1>2. \A p \in Account :
        /\ cart'[p].room = cart[p].room
        /\ cart'[p].driver = cart[p].driver
        /\ cart'[p].condition = cart[p].condition
        /\ cart'[p].passenger = IF cart[p].passenger = a THEN NoAccount ELSE cart[p].passenger
    BY OutRows DEF LeaveCart
<1>3. /\ ride' \in [Account -> Account \cup {NoAccount}]
      /\ \A b \in Account : ride'[b] = IF b = a THEN NoAccount ELSE ride[b]
    BY RidesWithoutRows DEF CartsInv, LeaveCart
<1>4. /\ mode' \in [Account -> Mode]
      /\ \A b \in Account : mode'[b] = IF b = a THEN "foot" ELSE mode[b]
    BY DEF CartsInv, CartsTypeOK, LeaveCart, Mode
<1>5. CartsTypeOK'
    BY <1>1, <1>2, <1>3, <1>4, PresentMode, TypesKept DEF CartsInv, CartsTypeOK, LeaveCart, roomVars
<1>6. SeatsSound'
    BY <1>2, <1>4 DEF CartsInv, SeatsSound, LeaveCart, Driving, HasCart, roomVars
<1>7. RidesSound'
  <2>0. NoAccount \notin Account
    BY RoomsAssumption
  <2>1. \A r \in Account : ride'[r] # NoAccount => ride'[r] = ride[r]
    BY <1>3
  <2>2. \A p, r \in Account :
           /\ ride'[r] = p /\ r # NoAccount
           /\ cart[p].room # NoRoom /\ cart[p].driver = p /\ cart[p].passenger = r
           => cart'[p].room # NoRoom /\ cart'[p].driver = p /\ cart'[p].passenger = r
    BY <1>2, <1>3, <2>0
  <2> QED
    BY <2>1, <2>2, RidesKept DEF CartsInv
<1> QED
    BY <1>5, <1>6, <1>7

(* update_ride: the row written is of the rider in the driver's own cart. *)
LEMMA UpdateRideKeeps ==
    ASSUME CartsInv, NEW a \in Account, UpdateRide(a)
    PROVE  CartsTypeOK' /\ SeatsSound' /\ RidesSound'
<1> DEFINE p == cart[a].passenger
<1>1. p \in Account /\ ride' = [ride EXCEPT ![p] = a]
    BY CartRowTyped DEF CartsInv, UpdateRide
<1>2. /\ ride' \in [Account -> Account \cup {NoAccount}]
      /\ \A r \in Account : ride'[r] = IF r = p THEN a ELSE ride[r]
    BY <1>1 DEF CartsInv, CartsTypeOK
<1>3. CartsTypeOK'
    BY <1>2, TypesKept DEF CartsInv, CartsTypeOK, UpdateRide, roomVars
<1>4. SeatsSound'
    BY DEF CartsInv, SeatsSound, UpdateRide, Driving, HasCart, roomVars
<1>5. RidesSound'
    BY <1>2 DEF CartsInv, RidesSound, UpdateRide, Driving, HasCart
<1> QED
    BY <1>3, <1>4, <1>5

(* right_cart: a tipped cart has nobody in it, so none is disturbed. *)
LEMMA RightCartKeeps ==
    ASSUME CartsInv, NEW a \in Account, NEW o \in Account, RightCart(a, o)
    PROVE  CartsTypeOK' /\ SeatsSound' /\ RidesSound'
<1>1. cart' \in [Account -> CartRow]
  <2>1. cart' = [cart EXCEPT ![o].condition = "upright"]
    BY DEF RightCart
  <2>2. cart \in [Account -> CartRow] /\ "upright" \in Condition
    BY DEF CartsInv, CartsTypeOK, Condition
  <2>3. [cart[o] EXCEPT !.condition = "upright"] \in CartRow
    BY <2>2 DEF CartRow
  <2> QED
    BY <2>1, <2>2, <2>3
<1>2. \A p \in Account :
        /\ cart'[p].room = cart[p].room
        /\ cart'[p].driver = cart[p].driver
        /\ cart'[p].passenger = cart[p].passenger
        /\ cart'[p].condition = IF p = o THEN "upright" ELSE cart[p].condition
    BY DEF CartsInv, CartsTypeOK, CartRow, RightCart
<1>3. CartsTypeOK'
    BY <1>1, <1>2, TypesKept DEF CartsInv, CartsTypeOK, RightCart, roomVars
<1>4. SeatsSound'
    BY <1>2 DEF CartsInv, SeatsSound, RightCart, Driving, HasCart, roomVars
<1>5. RidesSound'
    BY <1>2, RidesKept DEF CartsInv, RightCart
<1> QED
    BY <1>3, <1>4, <1>5

(* A cart nobody is in any more, its rider's ride motion gone with it. *)
LEMMA EmptiedRows ==
    ASSUME CartsTypeOK, NEW o \in Account, NEW c \in Condition,
           cart' = [cart EXCEPT ![o] = EmptyCart(@.room, c)]
    PROVE  /\ cart' \in [Account -> CartRow]
           /\ \A p \in Account :
                 /\ cart'[p].room = cart[p].room
                 /\ p # o => cart'[p] = cart[p]
           /\ cart'[o].driver = NoAccount /\ cart'[o].passenger = NoAccount
           /\ cart'[o].condition = c
<1>1. cart \in [Account -> CartRow] /\ cart[o].room \in RoomId \cup {NoRoom}
    BY CartRowTyped DEF CartsTypeOK
<1>2. EmptyCart(cart[o].room, c) \in CartRow
    BY <1>1, RowTypes
<1> QED
    BY <1>1, <1>2 DEF EmptyCart, CartIn

(* A cart going over puts both of its seats out, their ride motion with    *)
(* them.                                                                   *)
LEMMA GoOverKeeps ==
    ASSUME CartsInv, NEW a \in Account, NEW asked \in Mode \ {"none"},
           NEW over \in Condition \ {"upright"}, GoOver(a, asked, over)
    PROVE  CartsTypeOK' /\ SeatsSound' /\ RidesSound'
<1>1. /\ cart' \in [Account -> CartRow]
      /\ \A p \in Account : /\ cart'[p].room = cart[p].room
                            /\ p # a => cart'[p] = cart[p]
      /\ cart'[a].driver = NoAccount /\ cart'[a].passenger = NoAccount
      /\ cart'[a].condition = over
    BY EmptiedRows DEF CartsInv, GoOver
<1>2. /\ ride' \in [Account -> Account \cup {NoAccount}]
      /\ \A b \in Account : ride'[b] = IF b = cart[a].passenger THEN NoAccount ELSE ride[b]
    BY RidesWithoutRows DEF CartsInv, GoOver
<1>3. \A b \in Account :
         \/ b = a /\ mode'[b] \in Mode \ {"none", "cart"}
         \/ b # a /\ member[b].room # NoRoom /\ mode'[b] = "foot"
         \/ b # a /\ mode'[b] = mode[b]
    BY DEF GoOver, Mode
<1>4. mode' \in [Account -> Mode] /\ \A b \in Account : mode'[b] = "none" <=> mode[b] = "none"
  <2>1. mode[a] # "none"
    BY PresentMode DEF CartsInv, GoOver
  <2>2. \A b \in Account : mode'[b] \in Mode
    BY <1>3 DEF CartsInv, CartsTypeOK, Mode
  <2>3. mode' \in [Account -> Mode]
    BY <2>2 DEF GoOver
  <2> QED
    BY <1>3, <2>1, <2>3 DEF CartsInv, CartsTypeOK
<1>5. tow' \in [Account -> Seq(0..TowSeconds)]
    BY CartsAssumption DEF CartsInv, CartsTypeOK, GoOver, Tows
<1>6. bag' = bag /\ member' = member
    BY DEF GoOver, roomVars
<1>7. CartsTypeOK'
    BY <1>1, <1>2, <1>4, <1>5, <1>6, TypesKept DEF CartsInv, CartsTypeOK
<1>8. SeatsSound'
  <2> SUFFICES ASSUME NEW o \in Account PROVE SeatSound(o)'
    BY DEF SeatsSound, SeatSound
  <2>1. SeatSound(o)
    BY DEF CartsInv, SeatsSound, SeatSound
  <2>2. CASE o = a
    BY <1>1, <1>3, <2>2 DEF SeatSound
  <2>3. CASE o # a
    <3>1. cart'[o] = cart[o] /\ (mode'[o] = "cart" => mode[o] = "cart")
      BY <1>1, <1>3, <2>3
    <3>2. cart'[o].passenger # NoAccount =>
             \A p \in Account : cart'[p].passenger = cart'[o].passenger => p = o
      BY <1>1, <2>1, <3>1 DEF SeatSound
    <3> QED
      BY <1>6, <2>1, <3>1, <3>2 DEF SeatSound, Driving, HasCart
  <2> QED
    BY <2>2, <2>3
<1>9. RidesSound'
  <2>0. NoAccount \notin Account
    BY RoomsAssumption
  <2>1. \A r \in Account : ride'[r] # NoAccount => ride'[r] = ride[r]
    BY <1>2
  <2>2. \A p, r \in Account :
           /\ ride'[r] = p /\ r # NoAccount
           /\ cart[p].room # NoRoom /\ cart[p].driver = p /\ cart[p].passenger = r
           => cart'[p].room # NoRoom /\ cart'[p].driver = p /\ cart'[p].passenger = r
    BY <1>1, <1>2, <2>0
  <2> QED
    BY <2>1, <2>2, RidesKept DEF CartsInv
<1> QED
    BY <1>7, <1>8, <1>9

(* A tow puts back a cart that nobody is in. *)
LEMMA TowCartKeeps ==
    ASSUME CartsInv, NEW o \in Account, TowCart(o)
    PROVE  CartsTypeOK' /\ SeatsSound' /\ RidesSound'
<1>1. tow' \in [Account -> Seq(0..TowSeconds)]
    BY DEF CartsInv, CartsTypeOK, TowCart
<1>2. member' = member /\ mode' = mode /\ ride' = ride
    BY DEF TowCart, roomVars
<1>3. CASE Towable(o)
  <2>1. /\ bag' = BagsSetDown(cart[o].room, o)
        /\ cart' = [cart EXCEPT ![o] = EmptyCart(@.room, "upright")]
    BY <1>3 DEF TowCart
  <2>2. /\ cart' \in [Account -> CartRow]
        /\ \A p \in Account : /\ cart'[p].room = cart[p].room
                              /\ p # o => cart'[p] = cart[p]
        /\ cart'[o].driver = NoAccount /\ cart'[o].passenger = NoAccount
        /\ cart'[o].condition = "upright"
    BY <2>1, EmptiedRows DEF CartsInv, Condition
  <2>3. bag' \in [Account -> BagRow] /\ \A b \in Account : bag'[b].room = bag[b].room
    BY <2>1, BagsSetDownType, CartRowTyped DEF CartsInv
  <2>4. cart[o].driver = NoAccount /\ cart[o].passenger = NoAccount /\ mode[o] # "cart"
    BY <1>3, RoomsAssumption DEF CartsInv, SeatsSound, Towable, Sunk, Driving
  <2>5. CartsTypeOK'
    BY <1>1, <1>2, <2>2, <2>3, TypesKept DEF CartsInv, CartsTypeOK
  <2>6. SeatsSound'
    <3> SUFFICES ASSUME NEW p \in Account PROVE SeatSound(p)'
      BY DEF SeatsSound, SeatSound
    <3>1. SeatSound(p)
      BY DEF CartsInv, SeatsSound, SeatSound
    <3>2. CASE p = o
      BY <1>2, <2>2, <2>4, <3>2 DEF SeatSound
    <3>3. CASE p # o
      <4>1. cart'[p].passenger # NoAccount =>
               \A q \in Account : cart'[q].passenger = cart'[p].passenger => q = p
        BY <2>2, <3>1, <3>3 DEF SeatSound
      <4> QED
        BY <1>2, <2>2, <3>1, <3>3, <4>1 DEF SeatSound, Driving, HasCart
    <3> QED
      BY <3>2, <3>3
  <2>7. RidesSound'
    BY <1>2, <2>2, <2>4, RidesKept DEF CartsInv
  <2> QED
    BY <2>5, <2>6, <2>7
<1>4. CASE ~Towable(o)
  <2>1. bag' = bag /\ cart' = cart
    BY <1>4 DEF TowCart
  <2>2. CartsTypeOK'
    BY <1>1, <1>2, <2>1 DEF CartsInv, CartsTypeOK
  <2> QED
    BY <1>2, <2>1, <2>2 DEF CartsInv, SeatsSound, RidesSound, Driving, HasCart
<1> QED
    BY <1>3, <1>4

(* Bags, groups, the schedules' seconds and a republish touch no seat. *)
LEMMA SeatsUntouched ==
    ASSUME CartsInv, cart' = cart, mode' = mode, ride' = ride,
           \A b \in Account : member'[b].room = member[b].room
    PROVE  SeatsSound' /\ RidesSound'
<1>1. RidesSound'
    BY DEF CartsInv, RidesSound, Driving, HasCart
<1>2. \A o \in Account : cart[o].passenger \in Account \cup {NoAccount}
    BY CartRowTyped DEF CartsInv
<1>3. SeatsSound'
    BY <1>2 DEF CartsInv, SeatsSound, Driving, HasCart
<1> QED
    BY <1>1, <1>3

(* place_bag writes one bag, in its golfer's room. *)
LEMMA BagStepKeeps ==
    ASSUME CartsInv, NEW a \in Account, BagStep(a)
    PROVE  CartsTypeOK' /\ SeatsSound' /\ RidesSound'
<1>1. bag' \in [Account -> BagRow] /\ \A b \in Account : bag'[b].room = bag[b].room
  <2>1. /\ bag \in [Account -> BagRow] /\ bag[a].room = member[a].room
        /\ member[a].room \in RoomId \cup {NoRoom}
    BY DEF CartsInv, CartsTypeOK, RoomsTypeOK, MemberRow
  <2>2. CASE SetBagDown(a)
    BY <2>1, <2>2, RowTypes DEF SetBagDown, BagAt
  <2>3. CASE ShoulderBag(a)
    BY <2>1, <2>3, RowTypes DEF ShoulderBag, BagAt
  <2>4. ASSUME NEW o \in Account, NEW s \in Seat, StrapBag(a, o, s)
        PROVE  bag' \in [Account -> BagRow] /\ \A b \in Account : bag'[b].room = bag[b].room
    BY <2>1, <2>4, RowTypes DEF StrapBag, BagOnCart
  <2> QED
    BY <2>2, <2>3, <2>4 DEF BagStep
<1>2. UNCHANGED <<roomVars, cart, mode, ride, tow>>
    BY DEF BagStep, SetBagDown, ShoulderBag, StrapBag
<1> QED
    BY <1>1, <1>2, TypesKept, SeatsUntouched DEF CartsInv, CartsTypeOK, roomVars

-----------------------------------------------------------------------------

(* The seat reducers together. *)
LEMMA SeatStepKeeps ==
    ASSUME CartsInv, NEW a \in Account, SeatStep(a)
    PROVE  CartsTypeOK' /\ SeatsSound' /\ RidesSound'
<1>1. CASE LeaveWheel(a)
    BY <1>1, OffWheelKeeps DEF LeaveWheel, Mode
<1>2. CASE TeeUp(a)
    BY <1>2, ModeKeeps DEF TeeUp, Mode
<1> QED
    BY <1>1, <1>2, TakeWheelKeeps, LeaveCartKeeps, UpdateRideKeeps, BoardCartKeeps,
       RightCartKeeps DEF SeatStep

(* update_motion together. *)
LEMMA MotionStepKeeps ==
    ASSUME CartsInv, NEW a \in Account, MotionStep(a)
    PROVE  CartsTypeOK' /\ SeatsSound' /\ RidesSound'
<1>1. PICK asked \in Mode \ {"none"} :
         \/ MoveOn(a, asked) \/ StepOff(a, asked)
         \/ \E over \in Condition \ {"upright"} : GoOver(a, asked, over)
    BY DEF MotionStep
<1>2. CASE MoveOn(a, asked)
    BY <1>2, ModeKeeps DEF MoveOn
<1>3. CASE StepOff(a, asked)
    BY <1>3, OffWheelKeeps DEF StepOff
<1> QED
    BY <1>1, <1>2, <1>3, GoOverKeeps

(* The inductive invariant: types, seats and rides need each other. A ride *)
(* is sound because the seat is, a seat because each cart is in its        *)
(* owner's room.                                                           *)
LEMMA CartsInvKept == CartsInv /\ RoomsTypeOK' /\ [Next]_vars => CartsInv'
<1> SUFFICES ASSUME CartsInv, RoomsTypeOK', [Next]_vars
             PROVE  CartsTypeOK' /\ SeatsSound' /\ RidesSound'
    BY DEF CartsInv
<1>1. ASSUME NEW a \in Account, MembershipStep(a) PROVE CartsTypeOK' /\ SeatsSound' /\ RidesSound'
    BY <1>1, MembershipKeeps
<1>2. ASSUME NEW a \in Account, MotionStep(a) PROVE CartsTypeOK' /\ SeatsSound' /\ RidesSound'
    BY <1>2, MotionStepKeeps
<1>3. ASSUME NEW a \in Account, SeatStep(a) PROVE CartsTypeOK' /\ SeatsSound' /\ RidesSound'
    BY <1>3, SeatStepKeeps
<1>4. ASSUME NEW a \in Account, BagStep(a) PROVE CartsTypeOK' /\ SeatsSound' /\ RidesSound'
    BY <1>4, BagStepKeeps
<1>5. ASSUME NEW a \in Account, TowCart(a) PROVE CartsTypeOK' /\ SeatsSound' /\ RidesSound'
    BY <1>5, TowCartKeeps
<1>6. ASSUME NEW a \in Account, GroupStep(a), UNCHANGED cartVars
      PROVE  CartsTypeOK' /\ SeatsSound' /\ RidesSound'
    BY <1>6, GroupStepStays, SeatsUntouched DEF CartsInv, CartsTypeOK, cartVars
<1>7. CASE Tick
  <2>1. tow' \in [Account -> Seq(0..TowSeconds)]
    <3>1. ASSUME NEW o \in Account PROVE tow'[o] \in Seq(0..TowSeconds)
      <4>1. tow[o] \in Seq(0..TowSeconds)
        BY DEF CartsInv, CartsTypeOK
      <4>2. tow'[o] = [i \in 1..Len(tow[o]) |-> IF tow[o][i] > 0 THEN tow[o][i] - 1 ELSE 0]
        BY <1>7, <4>1 DEF Tick
      <4>3. \A i \in 1..Len(tow[o]) : tow[o][i] \in 0..TowSeconds
        BY <4>1, ElementOfSeq
      <4>4. \A i \in 1..Len(tow[o]) : (IF tow[o][i] > 0 THEN tow[o][i] - 1 ELSE 0) \in 0..TowSeconds
        BY <4>3, CartsAssumption
      <4> QED
        BY <4>1, <4>2, <4>4
    <3> QED
      BY <1>7, <3>1 DEF Tick
  <2>2. CartsTypeOK'
    BY <1>7, <2>1 DEF CartsInv, CartsTypeOK, Tick, roomVars
  <2> QED
    BY <1>7, <2>2, SeatsUntouched DEF Tick, roomVars
<1>8. CASE Republish /\ UNCHANGED cartVars
    BY <1>8, SeatsUntouched DEF CartsInv, CartsTypeOK, Republish, cartVars
<1>9. CASE UNCHANGED vars
    BY <1>9, SeatsUntouched DEF CartsInv, CartsTypeOK, vars, roomVars, cartVars
<1> QED
    BY <1>1, <1>2, <1>3, <1>4, <1>5, <1>6, <1>7, <1>8, <1>9 DEF Next, PlayNext

(* And it holds of every reachable state, republishes included. *)
LEMMA CartsInvHolds == Spec => []CartsInv
<1>1. Init /\ RoomsTypeOK => CartsInv
  <2>1. NoCart \in CartRow /\ NoCart.room = NoRoom /\ NoCart.passenger = NoAccount
        /\ NoCart.driver = NoAccount /\ NoCart.condition = "upright"
        /\ NoBag \in BagRow /\ NoBag.room = NoRoom /\ NoMemberRow.room = NoRoom
    BY RowTypes DEF NoCart, EmptyCart, CartIn, NoBag, BagAt, NoMemberRow
  <2> QED
    BY <2>1 DEF CartsInv, Init, RoomsInit, CartsTypeOK, SeatsSound, RidesSound, Mode
<1> QED
    BY <1>1, CartsInvKept, CartsRoomsTyped, PTL DEF Spec

(* Every cart, bag and mover row is of its type, in its player's room and  *)
(* gone with it.                                                           *)
THEOREM CartsTyped == Spec => []CartsTypeOK
<1>1. CartsInv => CartsTypeOK
    BY DEF CartsInv
<1> QED
    BY <1>1, CartsInvHolds, PTL

(* Nobody is in two passenger seats, in a cart that went over, in the cart *)
(* of another room, or at the wheel of another's cart.                     *)
THEOREM SeatsStaySound == Spec => []SeatsSound
<1>1. CartsInv => SeatsSound
    BY DEF CartsInv
<1> QED
    BY <1>1, CartsInvHolds, PTL

(* No ride motion outlives the ride: its driver is at the wheel and its    *)
(* rider in the seat.                                                      *)
THEOREM RidesStaySound == Spec => []RidesSound
<1>1. CartsInv => RidesSound
    BY DEF CartsInv
<1> QED
    BY <1>1, CartsInvHolds, PTL

-----------------------------------------------------------------------------
(* The bags on the carts and the tows of sunk ones, while no republish     *)
(* takes a course away: then every member's course is known, which is what *)
(* setting bags down and towing depend on.                                 *)

CoursesKept == content = Course

(* What holds of every behaviour holds of the fair ones without            *)
(* republishes.                                                            *)
LEMMA FairSpecIsSpec == FairSpec => Spec
<1>1. [PlayNext]_vars => [Next]_vars
    BY DEF Next
<1> QED
    BY <1>1, PTL DEF FairSpec, Spec

(* Without a republish the content is what it was. *)
LEMMA CoursesStay == FairSpec => []CoursesKept
<1>1. Init => CoursesKept
    BY DEF Init, RoomsInit, CoursesKept
<1>2. CoursesKept /\ [PlayNext]_vars => CoursesKept'
  <2> SUFFICES ASSUME [PlayNext]_vars PROVE content' = content
    BY DEF CoursesKept
  <2>1. ASSUME NEW a \in Account, MembershipStep(a) PROVE content' = content
    BY <2>1 DEF MembershipStep, Join, Leave, JoinCourse, LeaveRoom
  <2>2. ASSUME NEW a \in Account, MotionStep(a) PROVE content' = content
    BY <2>2 DEF MotionStep, MoveOn, StepOff, GoOver, roomVars
  <2>3. ASSUME NEW a \in Account, SeatStep(a) PROVE content' = content
    BY <2>3 DEF SeatStep, TakeWheel, LeaveWheel, LeaveCart, UpdateRide, TeeUp, BoardCart,
        RightCart, roomVars
  <2>4. ASSUME NEW a \in Account, BagStep(a) PROVE content' = content
    BY <2>4 DEF BagStep, SetBagDown, ShoulderBag, StrapBag, roomVars
  <2>5. ASSUME NEW a \in Account, TowCart(a) PROVE content' = content
    BY <2>5 DEF TowCart, roomVars
  <2>6. ASSUME NEW a \in Account, GroupStep(a) PROVE content' = content
    BY <2>6 DEF GroupStep, CreateGroup, JoinGroup, LeaveGroup
  <2>7. CASE Tick
    BY <2>7 DEF Tick, roomVars
  <2>8. CASE UNCHANGED vars
    BY <2>8 DEF vars, roomVars
  <2> QED
    BY <2>1, <2>2, <2>3, <2>4, <2>5, <2>6, <2>7, <2>8 DEF PlayNext
<1> QED
    BY <1>1, <1>2, PTL DEF FairSpec

Playing == CartsInv /\ RoomsCountMembers /\ CoursesKept

(* The facts of the other modules the bags rest on. *)
LEMMA PlayingHolds == FairSpec => []Playing
    BY FairSpecIsSpec, CartsInvHolds, CartsKeepRooms, RoomsCounted, CoursesStay, PTL DEF Playing

(* So every member's room has its course. *)
LEMMA MembersKnowTheirCourse ==
    ASSUME Playing, NEW a \in Account, member[a].room # NoRoom
    PROVE  CourseKnown(a)
<1>1. member[a].room \in RoomId
    BY DEF Playing, CartsInv, RoomsTypeOK, MemberRow
<1>2. Open(member[a].room)
    BY <1>1 DEF Playing, RoomsCountMembers, Occupants
<1> QED
    BY <1>1, <1>2 DEF Playing, CartsInv, CoursesKept, RoomsTypeOK, RoomRow, Open, CourseKnown

-----------------------------------------------------------------------------
(* Bags. *)

(* The rows a strapped bag depends on: its own, its cart's and its room's. *)
BagsInv ==
    \A a \in Account :
        bag[a].place = "on_cart" =>
            /\ bag[a].cart \in Account
            /\ cart[bag[a].cart].room # NoRoom
            /\ cart[bag[a].cart].room = bag[a].room
            /\ \A b \in Account \ {a} :
                  ~(/\ bag[b].place = "on_cart" /\ bag[b].room = bag[a].room
                    /\ bag[b].cart = bag[a].cart /\ bag[b].seat = bag[a].seat)

(* The invariant says of the rows what BagsSound says of the golfers. *)
LEMMA BagsInvSound == CartsTypeOK /\ BagsInv => BagsSound
BY DEF CartsTypeOK, BagsInv, BagsSound, HasCart, SpotTaken, StrappedOn

(* Bags stay sound when each is as it was or off the carts, and a cart     *)
(* with a bag stays where it is.                                           *)
LEMMA BagsStay ==
    ASSUME BagsInv,
           \A b \in Account : bag'[b].place = "on_cart" =>
              /\ bag'[b] = bag[b]
              /\ cart'[bag[b].cart].room = cart[bag[b].cart].room
    PROVE  BagsInv'
<1> SUFFICES ASSUME NEW a \in Account, bag'[a].place = "on_cart"
             PROVE  /\ bag'[a].cart \in Account
                    /\ cart'[bag'[a].cart].room # NoRoom
                    /\ cart'[bag'[a].cart].room = bag'[a].room
                    /\ \A b \in Account \ {a} :
                          ~(/\ bag'[b].place = "on_cart" /\ bag'[b].room = bag'[a].room
                            /\ bag'[b].cart = bag'[a].cart /\ bag'[b].seat = bag'[a].seat)
    BY DEF BagsInv
<1>1. bag'[a] = bag[a] /\ cart'[bag[a].cart].room = cart[bag[a].cart].room
    OBVIOUS
<1>2. \A b \in Account : bag'[b].place = "on_cart" => bag'[b] = bag[b]
    OBVIOUS
<1> QED
    BY <1>1, <1>2 DEF BagsInv

(* The bags a leaver leaves: those on their cart are on the ground. *)
LEMMA BagsLeftRows ==
    ASSUME Playing, BagsInv, NEW a \in Account, NEW b \in Account \ {a}
    PROVE  BagsLeft(a)[b] = IF StrappedOn(b, a) THEN BagAt(member[a].room, "on_ground") ELSE bag[b]
<1>1. bag \in [Account -> BagRow] /\ cart[a].room \in {NoRoom, member[a].room}
    BY DEF Playing, CartsInv, CartsTypeOK
<1>2. CASE StrappedOn(b, a)
  <2>1. HasCart(a) /\ bag[b].room = cart[a].room /\ member[a].room # NoRoom
    BY <1>1, <1>2 DEF BagsInv, StrappedOn, HasCart
  <2>2. CourseKnown(a)
    BY <2>1, MembersKnowTheirCourse
  <2> QED
    BY <1>1, <1>2, <2>1, <2>2 DEF BagsLeft, BagsSetDown, HasCart
<1>3. CASE ~StrappedOn(b, a)
    BY <1>1, <1>3 DEF BagsLeft, BagsSetDown
<1> QED
    BY <1>2, <1>3

(* The bags after a join or a leaving: the caller's new or gone, those on  *)
(* their cart on the ground, the rest as they were.                        *)
LEMMA MembershipBags ==
    ASSUME Playing, BagsInv, NEW a \in Account, MembershipStep(a)
    PROVE  /\ \A b \in Account \ {a} :
                 bag'[b] = IF StrappedOn(b, a) THEN BagAt(member[a].room, "on_ground") ELSE bag[b]
           /\ bag'[a].place = "on_cart" =>
                 /\ bag'[a].cart = a
                 /\ cart'[a].room = bag'[a].room /\ bag'[a].room # NoRoom
<1>1. BagsLeft(a) \in [Account -> BagRow] /\ CartsLeft(a) \in [Account -> CartRow]
    BY BagsLeftType, CartsLeftRows DEF Playing, CartsInv
<1>2. CASE Leave(a)
  <2>1. bag'[a].place # "on_cart"
    BY <1>2, BagsLeftType DEF Leave, Playing, CartsInv, NoBag, BagAt
  <2> QED
    BY <1>2, <2>1, BagsLeftRows DEF Leave
<1>3. ASSUME NEW c \in Course, NEW takes \in BOOLEAN, Join(a, c, takes)
      PROVE  /\ \A b \in Account \ {a} : bag'[b] = BagsLeft(a)[b]
             /\ bag'[a].place = "on_cart" =>
                   /\ bag'[a].cart = a
                   /\ cart'[a].room = bag'[a].room /\ bag'[a].room # NoRoom
  <2>1. PICK r \in RoomId : member' = [member EXCEPT ![a] = [room |-> r, group |-> NoGroup]]
    BY <1>3 DEF Join, JoinCourse, ChosenRooms, WithSpace
  <2>2. member'[a].room = r /\ r # NoRoom
    BY <2>1, RoomsAssumption DEF Playing, CartsInv, RoomsTypeOK, NoRoom
  <2> DEFINE own == c \in CartCourse /\ takes
             row == IF own THEN EmptyCart(r, "upright") ELSE NoCart
             carried == IF own THEN BagOnCart(r, a, "driver") ELSE BagAt(r, "on_back")
  <2>3. cart' = [CartsLeft(a) EXCEPT ![a] = row] /\ bag' = [BagsLeft(a) EXCEPT ![a] = carried]
    BY <1>3, <2>2 DEF Join
  <2>4. carried.place = "on_cart" => carried.cart = a /\ row.room = r /\ carried.room = r
    BY DEF BagOnCart, BagAt, EmptyCart, CartIn
  <2> HIDE DEF row, carried
  <2> QED
    BY <1>1, <2>2, <2>3, <2>4
<1> QED
    BY <1>2, <1>3, BagsLeftRows DEF MembershipStep

(* So they stay sound, the leaver's cart having nothing on it. *)
LEMMA MembershipKeepsBags ==
    ASSUME Playing, BagsInv, NEW a \in Account, MembershipStep(a)
    PROVE  BagsInv'
<1> SUFFICES ASSUME NEW x \in Account, bag'[x].place = "on_cart"
             PROVE  /\ bag'[x].cart \in Account
                    /\ cart'[bag'[x].cart].room # NoRoom
                    /\ cart'[bag'[x].cart].room = bag'[x].room
                    /\ \A b \in Account \ {x} :
                          ~(/\ bag'[b].place = "on_cart" /\ bag'[b].room = bag'[x].room
                            /\ bag'[b].cart = bag'[x].cart /\ bag'[b].seat = bag'[x].seat)
    BY DEF BagsInv
<1>1. \A b \in Account \ {a} : bag'[b].place = "on_cart" =>
         bag'[b] = bag[b] /\ bag[b].cart # a /\ bag[b].cart \in Account
  <2> TAKE b \in Account \ {a}
  <2>1. bag'[b] = IF StrappedOn(b, a) THEN BagAt(member[a].room, "on_ground") ELSE bag[b]
    BY MembershipBags
  <2>2. BagAt(member[a].room, "on_ground").place # "on_cart"
    BY DEF BagAt
  <2> QED
    BY <2>1, <2>2 DEF StrappedOn, BagsInv
<1>2. bag'[a].place = "on_cart" =>
         bag'[a].cart = a /\ cart'[a].room = bag'[a].room /\ bag'[a].room # NoRoom
    BY MembershipBags
<1>3. \A o \in Account \ {a} : cart'[o].room = cart[o].room
    BY MembershipRows, CartsLeftRows DEF Playing
<1>4. CASE x = a
    BY <1>1, <1>2, <1>4
<1>5. CASE x # a
    BY <1>1, <1>2, <1>3, <1>5 DEF BagsInv
<1> QED
    BY <1>4, <1>5

(* The rooms of the carts through the steps of their seats. *)
LEMMA CartRoomsStay ==
    ASSUME CartsInv, NEW a \in Account, MotionStep(a) \/ SeatStep(a)
    PROVE  bag' = bag /\ \A o \in Account : cart'[o].room = cart[o].room
<1>1. cart \in [Account -> CartRow]
    BY DEF CartsInv, CartsTypeOK
<1>2. CASE MotionStep(a)
  <2>1. ASSUME NEW asked, MoveOn(a, asked) \/ StepOff(a, asked)
        PROVE  bag' = bag /\ \A o \in Account : cart'[o].room = cart[o].room
    BY <1>1, <2>1 DEF MoveOn, StepOff, CartRow
  <2>2. ASSUME NEW asked, NEW over \in Condition, GoOver(a, asked, over)
        PROVE  bag' = bag /\ \A o \in Account : cart'[o].room = cart[o].room
    BY <2>2, EmptiedRows DEF GoOver, CartsInv
  <2> QED
    BY <1>2, <2>1, <2>2 DEF MotionStep
<1>3. CASE SeatStep(a)
  <2>1. CASE TakeWheel(a)
    BY <2>1, OutRows DEF TakeWheel, CartRow
  <2>2. CASE LeaveWheel(a)
    BY <1>1, <2>2 DEF LeaveWheel, CartRow
  <2>3. CASE LeaveCart(a)
    BY <2>3, OutRows DEF LeaveCart
  <2>4. CASE UpdateRide(a) \/ TeeUp(a)
    BY <2>4 DEF UpdateRide, TeeUp
  <2>5. ASSUME NEW o \in Account, BoardCart(a, o)
        PROVE  bag' = bag /\ \A p \in Account : cart'[p].room = cart[p].room
    BY <2>5, OutRows DEF BoardCart, CartRow
  <2>6. ASSUME NEW o \in Account, RightCart(a, o)
        PROVE  bag' = bag /\ \A p \in Account : cart'[p].room = cart[p].room
    BY <1>1, <2>6 DEF RightCart, CartRow
  <2> QED
    BY <1>3, <2>1, <2>2, <2>3, <2>4, <2>5, <2>6 DEF SeatStep
<1> QED
    BY <1>2, <1>3

(* place_bag straps a bag only to a cart that is there and a free spot. *)
LEMMA BagStepKeepsBags ==
    ASSUME CartsInv, BagsInv, NEW a \in Account, BagStep(a)
    PROVE  BagsInv'
<1>1. bag \in [Account -> BagRow] /\ \A b \in Account : bag[b].room = member[b].room
    BY DEF CartsInv, CartsTypeOK
<1>2. CASE SetBagDown(a) \/ ShoulderBag(a)
  <2>1. /\ \A b \in Account \ {a} : bag'[b] = bag[b]
        /\ bag'[a].place # "on_cart" /\ cart' = cart
    BY <1>1, <1>2 DEF SetBagDown, ShoulderBag, BagAt
  <2> QED
    BY <2>1, BagsStay
<1>3. ASSUME NEW o \in Account, NEW s \in Seat, StrapBag(a, o, s) PROVE BagsInv'
  <2>1. /\ \A b \in Account \ {a} : bag'[b] = bag[b]
        /\ bag'[a] = BagOnCart(member[a].room, o, s)
        /\ cart' = cart /\ cart[o].room = member[a].room /\ member[a].room # NoRoom
        /\ ~SpotTaken(a, o, s)
    BY <1>1, <1>3 DEF StrapBag, Present
  <2>2. bag'[a].place = "on_cart" /\ bag'[a].cart = o /\ bag'[a].seat = s /\ bag'[a].room = member[a].room
    BY <2>1 DEF BagOnCart
  <2>3. \A b \in Account \ {a} :
           ~(bag[b].place = "on_cart" /\ bag[b].room = member[a].room
             /\ bag[b].cart = o /\ bag[b].seat = s)
    BY <2>1 DEF SpotTaken, StrappedOn
  <2> SUFFICES ASSUME NEW x \in Account, bag'[x].place = "on_cart"
               PROVE  /\ bag'[x].cart \in Account
                      /\ cart'[bag'[x].cart].room # NoRoom
                      /\ cart'[bag'[x].cart].room = bag'[x].room
                      /\ \A b \in Account \ {x} :
                            ~(/\ bag'[b].place = "on_cart" /\ bag'[b].room = bag'[x].room
                              /\ bag'[b].cart = bag'[x].cart /\ bag'[b].seat = bag'[x].seat)
    BY DEF BagsInv
  <2>4. CASE x = a
    BY <2>1, <2>2, <2>3, <2>4
  <2>5. CASE x # a
    BY <2>1, <2>2, <2>3, <2>5 DEF BagsInv
  <2> QED
    BY <2>4, <2>5
<1> QED
    BY <1>2, <1>3 DEF BagStep

(* A tow sets the cart's bags down. *)
LEMMA TowKeepsBags ==
    ASSUME CartsInv, BagsInv, NEW o \in Account, TowCart(o)
    PROVE  BagsInv'
<1>1. bag \in [Account -> BagRow]
    BY DEF CartsInv, CartsTypeOK
<1>2. CASE Towable(o)
  <2>1. /\ bag' = BagsSetDown(cart[o].room, o)
        /\ cart' = [cart EXCEPT ![o] = EmptyCart(@.room, "upright")]
    BY <1>2 DEF TowCart
  <2>2. \A p \in Account : cart'[p].room = cart[p].room
    BY <2>1, EmptiedRows DEF CartsInv, Condition
  <2>3. \A b \in Account : bag'[b].place = "on_cart" => bag'[b] = bag[b]
    BY <2>1 DEF BagsSetDown, BagAt
  <2>4. \A b \in Account : bag[b].place = "on_cart" => bag[b].cart \in Account
    BY DEF BagsInv
  <2> QED
    BY <2>2, <2>3, <2>4, BagsStay
<1>3. CASE ~Towable(o)
    BY <1>3, BagsStay DEF TowCart
<1> QED
    BY <1>2, <1>3

(* While courses stay published, a bag on a cart is on one in its golfer's *)
(* room and alone behind its seat.                                         *)
THEOREM BagsStaySound == FairSpec => []BagsSound
<1>1. Init => BagsInv
    BY DEF Init, BagsInv, NoBag, BagAt
<1>2. Playing /\ BagsInv /\ [PlayNext]_vars => BagsInv'
  <2> SUFFICES ASSUME Playing, BagsInv, [PlayNext]_vars PROVE BagsInv'
    OBVIOUS
  <2>1. ASSUME NEW a \in Account, MembershipStep(a) PROVE BagsInv'
    BY <2>1, MembershipKeepsBags
  <2>2. ASSUME NEW a \in Account, MotionStep(a) \/ SeatStep(a) PROVE BagsInv'
    <3>1. bag' = bag /\ \A o \in Account : cart'[o].room = cart[o].room
      BY <2>2, CartRoomsStay DEF Playing
    <3>2. \A b \in Account : bag[b].place = "on_cart" => bag[b].cart \in Account
      BY DEF BagsInv
    <3> QED
      BY <3>1, <3>2, BagsStay
  <2>3. ASSUME NEW a \in Account, BagStep(a) PROVE BagsInv'
    BY <2>3, BagStepKeepsBags DEF Playing
  <2>4. ASSUME NEW a \in Account, TowCart(a) PROVE BagsInv'
    BY <2>4, TowKeepsBags DEF Playing
  <2>5. CASE UNCHANGED cartVars
    BY <2>5, BagsStay DEF cartVars
  <2>6. CASE Tick
    BY <2>6, BagsStay DEF Tick
  <2>7. CASE UNCHANGED vars
    BY <2>5, <2>7 DEF vars
  <2> QED
    BY <2>1, <2>2, <2>3, <2>4, <2>5, <2>6, <2>7 DEF PlayNext
<1>3. Playing /\ BagsInv => BagsSound
    BY BagsInvSound DEF Playing, CartsInv
<1> QED
    BY <1>1, <1>2, <1>3, PlayingHolds, PTL DEF FairSpec

-----------------------------------------------------------------------------
(* Tows. *)

(* A cart that is not newly sunk, with no fewer tows, has its tow still. *)
LEMMA TowsStay ==
    ASSUME SunkCartHasTow,
           \A o \in Account : Sunk(o)' => Sunk(o) /\ (tow[o] # <<>> => tow'[o] # <<>>)
    PROVE  SunkCartHasTow'
BY DEF SunkCartHasTow

(* No seat or bag reducer sinks a cart or spends a tow. *)
LEMMA SeatsSinkNothing ==
    ASSUME CartsInv, NEW a \in Account, SeatStep(a)
    PROVE  tow' = tow /\ \A o \in Account : Sunk(o)' => Sunk(o)
<1>1. cart \in [Account -> CartRow]
    BY DEF CartsInv, CartsTypeOK
<1>2. tow' = tow
    BY DEF SeatStep, TakeWheel, LeaveWheel, LeaveCart, UpdateRide, TeeUp, BoardCart, RightCart
<1>3. \A o \in Account : cart'[o].room = cart[o].room
    BY CartRoomsStay
<1>4. \A o \in Account : cart'[o].condition = "sunk" => cart[o].condition = "sunk"
  <2>1. CASE TakeWheel(a)
    BY <2>1, OutRows DEF TakeWheel, CartRow
  <2>2. CASE LeaveWheel(a)
    BY <1>1, <2>2 DEF LeaveWheel, CartRow
  <2>3. CASE LeaveCart(a)
    BY <2>3, OutRows DEF LeaveCart
  <2>4. CASE UpdateRide(a) \/ TeeUp(a)
    BY <2>4 DEF UpdateRide, TeeUp
  <2>5. ASSUME NEW o \in Account, BoardCart(a, o)
        PROVE  \A p \in Account : cart'[p].condition = "sunk" => cart[p].condition = "sunk"
    BY <2>5, OutRows DEF BoardCart, CartRow
  <2>6. ASSUME NEW o \in Account, RightCart(a, o)
        PROVE  \A p \in Account : cart'[p].condition = "sunk" => cart[p].condition = "sunk"
    BY <1>1, <2>6 DEF RightCart, CartRow
  <2> QED
    BY <2>1, <2>2, <2>3, <2>4, <2>5, <2>6 DEF SeatStep
<1> QED
    BY <1>2, <1>3, <1>4 DEF Sunk, HasCart

(* A motion that sinks a cart schedules its tow. *)
LEMMA MotionsKeepTows ==
    ASSUME CartsInv, SunkCartHasTow, NEW a \in Account, MotionStep(a)
    PROVE  SunkCartHasTow'
<1>1. /\ cart \in [Account -> CartRow] /\ tow \in [Account -> Seq(0..TowSeconds)]
      /\ TowSeconds \in 0..TowSeconds
    BY CartsAssumption DEF CartsInv, CartsTypeOK
<1>2. ASSUME NEW asked, MoveOn(a, asked) \/ StepOff(a, asked) PROVE SunkCartHasTow'
  <2>1. tow' = tow /\ \A o \in Account : /\ cart'[o].room = cart[o].room
                                         /\ cart'[o].condition = cart[o].condition
    <3>1. tow' = tow /\ (cart' = cart \/ cart' = [cart EXCEPT ![a].driver = NoAccount])
      BY <1>2 DEF MoveOn, StepOff
    <3>2. CASE cart' = cart
      BY <3>1, <3>2
    <3>3. CASE cart' = [cart EXCEPT ![a].driver = NoAccount]
      BY <1>1, <3>1, <3>3 DEF CartRow
    <3> QED
      BY <3>1, <3>2, <3>3
  <2> QED
    BY <2>1, TowsStay DEF Sunk, HasCart
<1>3. ASSUME NEW asked, NEW over \in Condition, GoOver(a, asked, over) PROVE SunkCartHasTow'
  <2>1. /\ \A p \in Account : /\ cart'[p].room = cart[p].room
                              /\ p # a => cart'[p] = cart[p]
        /\ cart'[a].condition = over
    BY <1>3, EmptiedRows DEF GoOver, CartsInv
  <2>2. \A o \in Account \ {a} : tow'[o] = tow[o]
    BY <1>1, <1>3 DEF GoOver, Tows
  <2>3. CASE over = "sunk"
    <3>1. tow'[a] = Append(tow[a], TowSeconds)
      BY <1>1, <1>3, <2>3 DEF GoOver, Tows
    <3>2. tow'[a] # <<>>
      BY <1>1, <3>1, AppendProperties
    <3> QED
      BY <2>1, <2>2, <3>2 DEF SunkCartHasTow, Sunk, HasCart
  <2>4. CASE over # "sunk"
    BY <2>1, <2>2, <2>4 DEF SunkCartHasTow, Sunk, HasCart
  <2> QED
    BY <2>3, <2>4
<1> QED
    BY <1>2, <1>3 DEF MotionStep

(* A tow that runs is spent, and its cart is up again. *)
LEMMA TowsKeepTows ==
    ASSUME Playing, SunkCartHasTow, NEW a \in Account, TowCart(a)
    PROVE  SunkCartHasTow'
<1>1. tow \in [Account -> Seq(0..TowSeconds)]
    BY DEF Playing, CartsInv, CartsTypeOK
<1>2. \A o \in Account \ {a} : tow'[o] = tow[o]
    BY <1>1 DEF TowCart
<1>3. ~Sunk(a)' /\ \A o \in Account \ {a} : Sunk(o)' => Sunk(o)
  <2>1. CASE Towable(a)
    <3>1. /\ cart'[a].condition = "upright"
          /\ \A o \in Account \ {a} : cart'[o] = cart[o]
      BY <2>1, EmptiedRows DEF TowCart, Playing, CartsInv, Condition
    <3> QED
      BY <3>1 DEF Sunk, HasCart
  <2>2. CASE ~Towable(a)
    <3>1. cart' = cart
      BY <2>2 DEF TowCart
    <3>2. HasCart(a) => member[a].room # NoRoom
      BY DEF Playing, CartsInv, CartsTypeOK, HasCart
    <3>3. ~Sunk(a)
      BY <2>2, <3>2, MembersKnowTheirCourse DEF Towable, Sunk
    <3> QED
      BY <3>1, <3>3 DEF Sunk, HasCart
  <2> QED
    BY <2>1, <2>2
<1> QED
    BY <1>2, <1>3 DEF SunkCartHasTow

(* While courses stay published, a cart lies sunk only with a tow coming,  *)
(* however many of its owner's earlier tows are still scheduled.           *)
THEOREM SunkCartsHaveTows == FairSpec => []SunkCartHasTow
<1>1. Init => SunkCartHasTow
    BY DEF Init, SunkCartHasTow, Sunk, HasCart, NoCart, EmptyCart, CartIn
<1>2. Playing /\ SunkCartHasTow /\ [PlayNext]_vars => SunkCartHasTow'
  <2> SUFFICES ASSUME Playing, SunkCartHasTow, [PlayNext]_vars PROVE SunkCartHasTow'
    OBVIOUS
  <2>1. ASSUME NEW a \in Account, MembershipStep(a) PROVE SunkCartHasTow'
    <3>1. tow' = tow /\ (cart'[a] = NoCart \/ cart'[a] = EmptyCart(member'[a].room, "upright"))
      BY <2>1, MembershipRows DEF Playing
    <3>2. cart'[a].condition = "upright"
      BY <3>1 DEF NoCart, EmptyCart, CartIn
    <3>3. \A o \in Account \ {a} : /\ cart'[o].room = cart[o].room
                                   /\ cart'[o].condition = cart[o].condition
      BY <2>1, MembershipRows, CartsLeftRows DEF Playing
    <3> QED
      BY <3>1, <3>2, <3>3, TowsStay DEF Sunk, HasCart
  <2>2. ASSUME NEW a \in Account, MotionStep(a) PROVE SunkCartHasTow'
    BY <2>2, MotionsKeepTows DEF Playing
  <2>3. ASSUME NEW a \in Account, SeatStep(a) PROVE SunkCartHasTow'
    BY <2>3, SeatsSinkNothing, TowsStay DEF Playing
  <2>4. ASSUME NEW a \in Account, BagStep(a) PROVE SunkCartHasTow'
    <3>1. tow' = tow /\ cart' = cart
      BY <2>4 DEF BagStep, SetBagDown, ShoulderBag, StrapBag
    <3> QED
      BY <3>1, TowsStay DEF Sunk, HasCart
  <2>5. ASSUME NEW a \in Account, TowCart(a) PROVE SunkCartHasTow'
    BY <2>5, TowsKeepTows
  <2>6. CASE UNCHANGED cartVars
    BY <2>6, TowsStay DEF cartVars, Sunk, HasCart
  <2>7. CASE Tick
    <3>1. cart' = cart
      BY <2>7 DEF Tick
    <3>2. ASSUME NEW o \in Account, tow[o] # <<>> PROVE tow'[o] # <<>>
      <4>1. tow[o] \in Seq(0..TowSeconds)
        BY DEF Playing, CartsInv, CartsTypeOK
      <4>2. DOMAIN tow'[o] = DOMAIN tow[o]
        BY <2>7 DEF Tick
      <4>3. DOMAIN tow[o] # {}
        BY <3>2, <4>1, EmptySeq
      <4>4. DOMAIN <<>> = {}
        OBVIOUS
      <4> QED
        BY <4>2, <4>3, <4>4
    <3> QED
      BY <3>1, <3>2, TowsStay DEF Sunk, HasCart
  <2>8. CASE UNCHANGED vars
    BY <2>6, <2>8 DEF vars
  <2> QED
    BY <2>1, <2>2, <2>3, <2>4, <2>5, <2>6, <2>7, <2>8 DEF PlayNext
<1> QED
    BY <1>1, <1>2, PlayingHolds, PTL DEF FairSpec

=============================================================================
