---------------------------- MODULE LedgerProofs ----------------------------
(***************************************************************************)
(* The ledger, proved for any golfers, skills, collectibles and contents a *)
(* module may be published with.  Its sums are numbers of points, so that  *)
(* they are compared by bijections between the points and not by induction.*)
(* A collectible's change of kind is allowed, but by the purse's theorem.  *)
(***************************************************************************)
EXTENDS Ledger, SequenceTheorems, FiniteSetTheorems, FunctionTheorems, WellFoundedInduction, TLAPS

-----------------------------------------------------------------------------
(* An event's awards. *)

LEMMA PayIsUnique ==
    ASSUME AwardsUnique, NEW g, NEW e, NEW gains, Pay(g, e, gains)
    PROVE  AwardsUnique'
<1> DEFINE due == Due(g, e, gains)
           paid == {Award(g, s, e, gains[s]) : s \in due}
<1>1. awards' = awards \cup paid
    BY DEF Pay
<1>2. \A w \in paid : w.golfer = g /\ w.event = e /\ w.skill \in due /\ w = Award(g, w.skill, e, gains[w.skill])
    BY DEF Award
<1>3. \A v \in awards, w \in paid : ~(v.golfer = w.golfer /\ v.skill = w.skill /\ v.event = w.event)
    BY <1>2 DEF Due
<1>4. \A v, w \in paid : v.skill = w.skill => v = w
    BY <1>2
<1> HIDE DEF paid
<1> QED
    BY <1>1, <1>3, <1>4 DEF AwardsUnique

LEMMA NextIsUnique == AwardsUnique /\ [Next]_vars => AwardsUnique'
<1> SUFFICES ASSUME AwardsUnique, [Next]_vars PROVE AwardsUnique'
    OBVIOUS
<1>1. CASE awards' \subseteq awards
    BY <1>1 DEF AwardsUnique
<1>2. ASSUME NEW g \in Golfer, GolferStep(g) PROVE AwardsUnique'
  <2>1. ASSUME NEW gains, Play(g, gains) PROVE AwardsUnique'
    BY <2>1, PayIsUnique DEF Play
  <2>2. CASE \E holed \in BOOLEAN : TakeShot(g, holed)
    BY <2>1, <2>2 DEF TakeShot
  <2>3. CASE Move(g)
    BY <2>1, <2>3 DEF Move
  <2>4. CASE UseItem(g)
    BY <2>1, <2>4 DEF UseItem
  <2>5. CASE \E x \in Collectible : Claim(g, x)
    BY <2>5, PayIsUnique DEF Claim
  <2>6. CASE DeleteAccount(g)
    BY <1>1, <2>6 DEF DeleteAccount
  <2> QED
    BY <1>2, <2>2, <2>3, <2>4, <2>5, <2>6 DEF GolferStep
<1>3. CASE RollUp
    BY <1>1, <1>3 DEF RollUp
<1>4. CASE DayPasses \/ Republish \/ UNCHANGED vars
    BY <1>1, <1>4 DEF DayPasses, Republish, vars
<1> QED
    BY <1>2, <1>3, <1>4 DEF Next

(* No event has two awards of one skill (dedupe_key), whatever is claimed, *)
(* rolled up or published.                                                 *)
THEOREM AwardsStayUnique == Spec => []AwardsUnique
<1>1. Init => AwardsUnique
    BY DEF Init, AwardsUnique
<1> QED
    BY <1>1, NextIsUnique, PTL DEF Spec

-----------------------------------------------------------------------------
(* A golfer's claims. *)

Row == [repeatable : BOOLEAN, claims : Nat, at : Int]

(* The last claim of a repeatable was made when its golfer had completed   *)
(* the holes of all cooldowns before it.                                   *)
WaitedFor(rows, cooldown, completed) ==
    Repeats(rows) # {} =>
        LET last == rows[Max(Repeats(rows))]
        IN  last.at <= completed /\ (last.claims - 1) * cooldown <= last.at

WaitInv ==
    /\ holes \in [Golfer -> Nat]
    /\ collected \in [Golfer -> [Collectible -> Seq(Row)]]
    /\ \A g \in Golfer, x \in Collectible : WaitedFor(collected[g][x], Cooldown[x], holes[g])

LEMMA Greatest ==
    ASSUME NEW n \in Nat, NEW S, S \subseteq 1..n, S # {}
    PROVE  Max(S) \in S /\ \A j \in S : j <= Max(S)
<1> DEFINE T == {k \in Nat : n - k \in S}
<1>1. PICK s \in S : TRUE
    OBVIOUS
<1>2. n - s \in T
    BY <1>1
<1>3. PICK k \in T : \A l \in T : ~(<<l, k>> \in OpToRel(<, Nat))
    BY <1>2, WFMin, NatLessThanWellFounded
<1>4. \A l \in T : ~(l < k)
    BY <1>3 DEF OpToRel
<1>5. ASSUME NEW j \in S PROVE n - k >= j
  <2>1. j \in 1..n
    OBVIOUS
  <2>2. n - j \in T
    BY <2>1
  <2>3. ~(n - j < k)
    BY <1>4, <2>2
  <2>4. k \in Nat
    OBVIOUS
  <2> HIDE DEF T
  <2> QED
    BY <2>1, <2>3, <2>4
<1>6. n - k \in S
    OBVIOUS
<1>7. Max(S) \in S /\ \A j \in S : Max(S) >= j
  <2> HIDE DEF T
  <2> QED
    BY <1>5, <1>6 DEF Max
<1>8. \A j \in S : j \in Int
    OBVIOUS
<1> QED
    BY <1>7, <1>8

(* The last row that is of a repeatable, and what it says.                 *)
LEMMA LastClaim ==
    ASSUME NEW rows \in Seq(Row), Repeats(rows) # {}
    PROVE  /\ Max(Repeats(rows)) \in 1..Len(rows) /\ rows[Max(Repeats(rows))] \in Row
           /\ \A i \in Repeats(rows) : i <= Max(Repeats(rows))
<1>1. Repeats(rows) \subseteq 1..Len(rows) /\ Len(rows) \in Nat
    BY DEF Repeats
<1>2. Max(Repeats(rows)) \in Repeats(rows) /\ \A i \in Repeats(rows) : i <= Max(Repeats(rows))
    BY <1>1, Greatest
<1> QED
    BY <1>1, <1>2, ElementOfSeq

LEMMA OneOffKeepsWait ==
    ASSUME NEW rows \in Seq(Row), NEW cooldown, NEW completed, WaitedFor(rows, cooldown, completed)
    PROVE  LET after == Append(rows, OneOffRow)
           IN  after \in Seq(Row) /\ WaitedFor(after, cooldown, completed)
<1> DEFINE after == Append(rows, OneOffRow)
<1>1. OneOffRow \in Row /\ OneOffRow.repeatable = FALSE
    BY DEF OneOffRow, Row
<1>2. /\ after \in Seq(Row) /\ Len(after) = Len(rows) + 1 /\ Len(rows) \in Nat
      /\ \A i \in 1..Len(rows) : after[i] = rows[i]
      /\ after[Len(rows) + 1] = OneOffRow
    BY <1>1
<1> HIDE DEF after
<1>3. Repeats(after) = Repeats(rows)
  <2>1. DOMAIN after = 1..(Len(rows) + 1) /\ DOMAIN rows = 1..Len(rows)
    BY <1>2
  <2>2. \A i \in DOMAIN after : i \in DOMAIN rows \/ i = Len(rows) + 1
    BY <1>2, <2>1
  <2>3. Len(rows) + 1 \notin DOMAIN rows /\ DOMAIN rows \subseteq DOMAIN after
    BY <1>2, <2>1
  <2> QED
    BY <1>1, <1>2, <2>1, <2>2, <2>3 DEF Repeats, OneOffs
<1>4. ASSUME Repeats(rows) # {} PROVE after[Max(Repeats(rows))] = rows[Max(Repeats(rows))]
    BY <1>2, <1>4, LastClaim
<1> QED
    BY <1>2, <1>3, <1>4 DEF WaitedFor, after

LEMMA StoredIsLast ==
    ASSUME NEW rows \in Seq(Row), NEW row \in Row, row.repeatable
    PROVE  LET after == Stored(rows, row)
           IN  /\ after \in Seq(Row) /\ Repeats(after) # {}
               /\ after[Max(Repeats(after))] = row
<1> DEFINE after == Stored(rows, row)
<1>1. after \in Seq(Row) /\ Len(after) \in Nat /\ Len(after) > 0 /\ after[Len(after)] = row
  <2>1. CASE rows = <<>>
    BY <2>1 DEF Stored
  <2>2. CASE rows # <<>>
    <3>1. Len(rows) \in Nat /\ Len(rows) > 0
        BY <2>2
    <3>2. after = [rows EXCEPT ![Len(rows)] = row]
        BY <2>2 DEF Stored
    <3> HIDE DEF after
    <3> QED
        BY <3>1, <3>2
  <2> QED
    BY <2>1, <2>2
<1> HIDE DEF after
<1>2. Len(after) \in Repeats(after)
    BY <1>1 DEF Repeats, OneOffs
<1>3. Max(Repeats(after)) = Len(after)
  <2>1. Max(Repeats(after)) \in 1..Len(after) /\ Len(after) <= Max(Repeats(after))
    BY <1>1, <1>2, LastClaim
  <2> QED
    BY <1>1, <2>1
<1> QED
    BY <1>1, <1>2, <1>3 DEF after

LEMMA OneMore ==
    ASSUME NEW n \in Nat, NEW cooldown \in Nat, NEW at \in Int, NEW completed \in Int,
           (n - 1) * cooldown <= at, completed - at >= cooldown
    PROVE  n * cooldown <= completed
<1>1. n * cooldown = (n - 1) * cooldown + cooldown
    OBVIOUS
<1> DEFINE before == (n - 1) * cooldown
           all == n * cooldown
<1>2. before \in Int /\ all \in Int
    OBVIOUS
<1>3. all = before + cooldown
    BY <1>1
<1> HIDE DEF before, all
<1>4. before <= at
    BY DEF before
<1>5. all <= completed
    BY <1>2, <1>3, <1>4
<1> QED
    BY <1>5 DEF all

LEMMA ClaimKeepsWait ==
    ASSUME WaitInv, NEW g \in Golfer, NEW x \in Collectible, Claim(g, x)
    PROVE  WaitInv'
<1> DEFINE rows == collected[g][x]
           number == IF content[x] = "one_off" THEN 0 ELSE Claims(rows) + 1
           after == IF content[x] = "one_off" THEN Append(rows, OneOffRow)
                    ELSE Stored(rows, RepeatableRow(number, holes[g]))
<1>1. /\ Available(g, x) /\ holes' = holes
      /\ collected' = [collected EXCEPT ![g][x] = after]
    BY DEF Claim
<1>2. /\ rows \in Seq(Row) /\ WaitedFor(rows, Cooldown[x], holes[g])
      /\ holes[g] \in Nat /\ Cooldown[x] \in Nat
    BY LedgerAssumption DEF WaitInv
<1>3. CASE content[x] = "one_off"
  <2>1. after \in Seq(Row) /\ WaitedFor(after, Cooldown[x], holes[g])
    BY <1>2, <1>3, OneOffKeepsWait
  <2> QED
    BY <1>1, <1>2, <2>1 DEF WaitInv
<1>4. CASE content[x] # "one_off"
  <2>1. CooledDown(g, x) /\ number = Claims(rows) + 1
    BY <1>1, <1>4 DEF Available
  <2>2. Claims(rows) \in Nat /\ Claims(rows) * Cooldown[x] <= holes[g]
    <3>1. CASE Repeats(rows) = {}
        BY <1>2, <3>1 DEF Claims
    <3>2. CASE Repeats(rows) # {}
      <4> DEFINE last == rows[Max(Repeats(rows))]
      <4>1. last \in Row /\ (last.claims - 1) * Cooldown[x] <= last.at
        BY <1>2, <3>2, LastClaim DEF WaitedFor
      <4>2. Claims(rows) = last.claims /\ holes[g] - last.at >= Cooldown[x]
        BY <2>1, <3>2 DEF Claims, CooledDown
      <4>3. last.claims \in Nat /\ last.at \in Int
        BY <4>1 DEF Row
      <4> DEFINE n == last.claims   at == last.at   cooldown == Cooldown[x]   completed == holes[g]
      <4>4. /\ n \in Nat /\ cooldown \in Nat /\ at \in Int /\ completed \in Int
            /\ (n - 1) * cooldown <= at /\ completed - at >= cooldown
        BY <1>2, <4>1, <4>2, <4>3
      <4>5. n * cooldown <= completed
        <5> HIDE DEF n, at, cooldown, completed
        <5> QED
            BY <4>4, OneMore
      <4> QED
        BY <4>2, <4>3, <4>5
    <3> QED
        BY <3>1, <3>2
  <2> DEFINE row == RepeatableRow(number, holes[g])
             claims == Claims(rows)
  <2>3. row \in Row /\ row.repeatable = TRUE /\ row.at = holes[g] /\ row.claims - 1 = claims
    <3>1. number \in Nat /\ number - 1 = claims /\ holes[g] \in Int
        <4> HIDE DEF claims
        <4> QED
            BY <1>2, <2>1, <2>2 DEF claims
    <3> HIDE DEF number, claims
    <3> QED
        BY <3>1 DEF RepeatableRow, Row
  <2> HIDE DEF row
  <2>4. after = Stored(rows, row)
    BY <1>4 DEF row
  <2>5. after \in Seq(Row) /\ after[Max(Repeats(after))] = row
    <3> HIDE DEF after, rows
    <3>1. /\ Stored(rows, row) \in Seq(Row)
          /\ Stored(rows, row)[Max(Repeats(Stored(rows, row)))] = row
        BY <1>2, <2>3, StoredIsLast
    <3> QED
        BY <2>4, <3>1
  <2>6. WaitedFor(after, Cooldown[x], holes[g])
    <3>1. row.at <= holes[g] /\ (row.claims - 1) * Cooldown[x] <= row.at
        <4> HIDE DEF rows
        <4> QED
            BY <1>2, <2>2, <2>3
    <3> QED
        BY <2>5, <3>1 DEF WaitedFor
  <2> HIDE DEF after
  <2> QED
    BY <1>1, <1>2, <2>5, <2>6 DEF WaitInv
<1> QED
    BY <1>3, <1>4

(* More holes completed keep what was waited for.                          *)
LEMMA MoreHoles ==
    ASSUME WaitInv, NEW g \in Golfer, NEW holed \in BOOLEAN, UNCHANGED collected,
           holes' = [holes EXCEPT ![g] = IF holed THEN @ + 1 ELSE @]
    PROVE  WaitInv'
<1>1. holes' \in [Golfer -> Nat] /\ \A a \in Golfer : holes'[a] >= holes[a] /\ holes[a] \in Nat
    BY DEF WaitInv
<1>2. ASSUME NEW a \in Golfer, NEW x \in Collectible, Repeats(collected[a][x]) # {}
      PROVE  collected[a][x][Max(Repeats(collected[a][x]))].at <= holes'[a]
  <2> DEFINE last == collected[a][x][Max(Repeats(collected[a][x]))]
  <2>1. collected[a][x] \in Seq(Row)
    BY DEF WaitInv
  <2>2. last.at \in Int /\ last.at <= holes[a]
    BY <1>2, <2>1, LastClaim DEF WaitInv, WaitedFor, Row
  <2> HIDE DEF last
  <2>3. last.at <= holes'[a]
    BY <1>1, <2>2
  <2> QED
    BY <2>3 DEF last
<1> QED
    BY <1>1, <1>2 DEF WaitInv, WaitedFor

LEMMA NoneAreWaitedFor ==
    ASSUME NEW x \in Collectible, NEW cooldown, NEW completed
    PROVE  NoneCollected[x] \in Seq(Row) /\ WaitedFor(NoneCollected[x], cooldown, completed)
BY DEF NoneCollected, WaitedFor, Repeats, OneOffs

LEMMA NextKeepsWait == WaitInv /\ [Next]_vars => WaitInv'
<1> SUFFICES ASSUME WaitInv, [Next]_vars PROVE WaitInv'
    OBVIOUS
<1>1. CASE UNCHANGED <<holes, collected>>
    BY <1>1 DEF WaitInv
<1>2. ASSUME NEW g \in Golfer, GolferStep(g) PROVE WaitInv'
  <2>1. CASE \E holed \in BOOLEAN : TakeShot(g, holed)
    BY <2>1, MoreHoles DEF TakeShot, Play
  <2>2. CASE Move(g) \/ UseItem(g)
    BY <1>1, <2>2 DEF Move, UseItem, Play
  <2>3. CASE \E x \in Collectible : Claim(g, x)
    BY <2>3, ClaimKeepsWait
  <2>4. CASE DeleteAccount(g)
    <3>1. /\ holes' = [holes EXCEPT ![g] = 0]
          /\ collected' = [collected EXCEPT ![g] = NoneCollected]
        BY <2>4 DEF DeleteAccount
    <3>2. NoneCollected \in [Collectible -> Seq(Row)]
        BY NoneAreWaitedFor DEF NoneCollected
    <3> QED
        BY <3>1, <3>2, NoneAreWaitedFor DEF WaitInv
  <2> QED
    BY <1>2, <2>1, <2>2, <2>3, <2>4 DEF GolferStep
<1>3. CASE RollUp \/ DayPasses \/ Republish \/ UNCHANGED vars
    BY <1>1, <1>3 DEF RollUp, DayPasses, Republish, vars
<1> QED
    BY <1>2, <1>3 DEF Next

LEMMA WaitGives == WaitInv => RepeatablesWait
<1> SUFFICES ASSUME WaitInv, NEW g \in Golfer, NEW x \in Collectible
             PROVE  (Claims(collected[g][x]) - 1) * Cooldown[x] <= holes[g]
    BY DEF RepeatablesWait
<1> DEFINE rows == collected[g][x]
<1>1. /\ rows \in Seq(Row) /\ WaitedFor(rows, Cooldown[x], holes[g])
      /\ holes[g] \in Nat /\ Cooldown[x] \in Nat
    BY LedgerAssumption DEF WaitInv
<1>2. CASE Repeats(rows) = {}
  <2>1. Claims(rows) = 0
    BY <1>2 DEF Claims
  <2>2. (0 - 1) * Cooldown[x] <= holes[g]
    BY <1>1
  <2> QED
    BY <2>1, <2>2
<1>3. CASE Repeats(rows) # {}
  <2> DEFINE last == rows[Max(Repeats(rows))]
             waited == (last.claims - 1) * Cooldown[x]
  <2>1. last \in Row /\ waited <= last.at /\ last.at <= holes[g]
    BY <1>1, <1>3, LastClaim DEF WaitedFor
  <2>2. waited \in Int /\ last.at \in Int
    BY <1>1, <2>1 DEF Row
  <2>3. Claims(rows) = last.claims
    BY <1>3 DEF Claims
  <2>4. waited <= holes[g]
    <3> HIDE DEF waited, last
    <3> QED
        BY <1>1, <2>1, <2>2
  <2> QED
    BY <2>3, <2>4
<1> QED
    BY <1>2, <1>3

(* A repeatable collectible is claimed again only after its cooldown's     *)
(* holes: claim_collectible's check, kept up by store_progress's row.      *)
THEOREM RepeatablesDoWait == Spec => []RepeatablesWait
<1>1. Init => WaitInv
  <2>1. NoneCollected \in [Collectible -> Seq(Row)]
    BY NoneAreWaitedFor DEF NoneCollected
  <2> QED
    BY <2>1, NoneAreWaitedFor DEF Init, WaitInv
<1> QED
    BY <1>1, NextKeepsWait, WaitGives, PTL DEF Spec

-----------------------------------------------------------------------------
(* Sums of points. *)

LEMMA SumSplits ==
    ASSUME NEW rows, NEW part, part \subseteq rows, IsFiniteSet(Points(rows))
    PROVE  /\ IsFiniteSet(Points(part)) /\ IsFiniteSet(Points(rows \ part))
           /\ Sum(part) \in Nat /\ Sum(rows \ part) \in Nat
           /\ Sum(rows) = Sum(part) + Sum(rows \ part)
<1> DEFINE P == Points(part)
           Q == Points(rows \ part)
<1>1. Points(rows) = P \cup Q /\ P \cap Q = {}
    BY DEF Points
<1>2. IsFiniteSet(P) /\ IsFiniteSet(Q)
  <2>1. P \in SUBSET Points(rows) /\ Q \in SUBSET Points(rows)
    BY <1>1
  <2> HIDE DEF P, Q
  <2> QED
    BY <2>1, FS_Subset
<1> HIDE DEF P, Q
<1>3. Cardinality(P) \in Nat /\ Cardinality(Q) \in Nat
    BY <1>2, FS_CardinalityType
<1>4. Cardinality(P \cup Q) = Cardinality(P) + Cardinality(Q)
    BY <1>1, <1>2, <1>3, FS_Union, FS_EmptySet
<1> QED
    BY <1>1, <1>2, <1>3, <1>4 DEF P, Q, Sum

LEMMA SumOfNone == IsFiniteSet(Points({})) /\ Sum({}) = 0
<1>1. Points({}) = {}
    BY DEF Points
<1> QED
    BY <1>1, FS_EmptySet DEF Sum

LEMMA SumOfOne ==
    ASSUME NEW w, w.amount \in Nat
    PROVE  IsFiniteSet(Points({w})) /\ Sum({w}) = w.amount
<1> DEFINE n == w.amount
<1>1. Points({w}) = {w} \X (1..n)
    BY DEF Points
<1>2. IsFiniteSet({w}) /\ Cardinality({w}) = 1
    BY FS_Singleton
<1>3. n \in Nat
    OBVIOUS
<1> HIDE DEF n
<1> DEFINE A == {w}
           B == 1..n
<1>4. IsFiniteSet(B) /\ Cardinality(B) = n
    BY <1>3, FS_Interval
<1> HIDE DEF A, B
<1>5. IsFiniteSet(A) /\ Cardinality(A) = 1
    BY <1>2 DEF A
<1>6. IsFiniteSet(A \X B) /\ Cardinality(A \X B) = Cardinality(A) * Cardinality(B)
    BY <1>4, <1>5, FS_Product
<1>7. Cardinality(A \X B) = n
    BY <1>3, <1>4, <1>5, <1>6
<1> QED
    BY <1>1, <1>6, <1>7 DEF A, B, n, Sum

(* One more row. *)
LEMMA SumOfOneMore ==
    ASSUME NEW rows, IsFiniteSet(Points(rows)), NEW w, w \notin rows, w.amount \in Nat
    PROVE  IsFiniteSet(Points(rows \cup {w})) /\ Sum(rows \cup {w}) = Sum(rows) + w.amount
<1> DEFINE all == rows \cup {w}
<1>1. Points(all) = Points(rows) \cup Points({w})
    BY DEF Points
<1>2. IsFiniteSet(Points({w})) /\ Sum({w}) = w.amount
    BY SumOfOne
<1>3. IsFiniteSet(Points(all))
    BY <1>1, <1>2, FS_Union
<1>4. all \ {w} = rows /\ {w} \subseteq all
    OBVIOUS
<1> HIDE DEF all
<1>5. Sum(all) = Sum({w}) + Sum(all \ {w}) /\ Sum(rows) \in Nat
    BY <1>3, <1>4, SumSplits
<1> DEFINE rest == all \ {w}
<1>6. Sum(rest) = Sum(rows)
    BY <1>4
<1> HIDE DEF rest
<1>7. Sum(all) = Sum({w}) + Sum(rest)
    BY <1>5 DEF rest
<1>8. Sum(all) = Sum(rows) + w.amount
    BY <1>2, <1>5, <1>6, <1>7
<1> QED
    BY <1>3, <1>8 DEF all

-----------------------------------------------------------------------------
(* The months' points: a month's count grown by as many points as a finite *)
(* set has of the month, all months' points grow by that set's.            *)

CountPoints(count, months) == UNION {{m} \X (1..count[m]) : m \in months}


LEMMA PairsAre ==
    ASSUME NEW months, NEW S
    PROVE  \A t : t \in UNION {{m} \X S[m] : m \in months} <=>
                  \E m \in months : \E j \in S[m] : t = <<m, j>>
OBVIOUS

LEMMA CountPointsAre ==
    ASSUME NEW months, NEW count
    PROVE  \A t : t \in CountPoints(count, months) <=>
                  \E m \in months : \E j \in 1..count[m] : t = <<m, j>>
BY DEF CountPoints

LEMMA Indexed ==
    ASSUME NEW S, IsFiniteSet(S)
    PROVE  /\ Cardinality(S) \in Nat
           /\ \E f \in [S -> 1..Cardinality(S)] :
                 /\ \A p, q \in S : f[p] = f[q] => p = q
                 /\ \A k \in 1..Cardinality(S) : \E p \in S : f[p] = k
<1> DEFINE n == Cardinality(S)
           T == 1..n
<1>1. n \in Nat
    BY FS_CardinalityType
<1> HIDE DEF n
<1>2. IsFiniteSet(T) /\ Cardinality(T) = n
    BY <1>1, FS_Interval
<1> HIDE DEF T
<1>3. ExistsBijection(S, T)
    BY <1>2, FS_SameCardinalityBij DEF n
<1>4. PICK f \in Bijection(S, T) : TRUE
    BY <1>3 DEF ExistsBijection
<1>5. /\ f \in [S -> T]
      /\ \A p, q \in S : f[p] = f[q] => p = q
      /\ \A k \in T : \E p \in S : f[p] = k
    BY <1>4, Fun_BijectionProperties
<1> QED
    BY <1>1, <1>5 DEF n, T

LEMMA MonthsGrow ==
    ASSUME NEW months, NEW before \in [months -> Nat], NEW G, IsFiniteSet(G), NEW of \in [G -> months],
           IsFiniteSet(CountPoints(before, months)), NEW after,
           \A m \in months : after[m] = before[m] + Cardinality({p \in G : of[p] = m})
    PROVE  /\ IsFiniteSet(CountPoints(after, months))
           /\ Cardinality(CountPoints(after, months)) = Cardinality(CountPoints(before, months)) + Cardinality(G)
<1> DEFINE part == [m \in months |-> {p \in G : of[p] = m}]
           n == [m \in months |-> Cardinality(part[m])]
           Index(m, f) == /\ \A p, q \in part[m] : f[p] = f[q] => p = q
                          /\ \A k \in 1..n[m] : \E p \in part[m] : f[p] = k
           index == [m \in months |-> CHOOSE f \in [part[m] -> 1..n[m]] : Index(m, f)]
           added == [m \in months |-> (before[m] + 1)..after[m]]
           new == UNION {{m} \X added[m] : m \in months}
           F == [p \in G |-> <<of[p], before[of[p]] + index[of[p]][p]>>]
<1>1. ASSUME NEW m \in months
      PROVE  /\ n[m] \in Nat /\ before[m] \in Nat /\ after[m] = before[m] + n[m]
             /\ index[m] \in [part[m] -> 1..n[m]]
             /\ \A p, q \in part[m] : index[m][p] = index[m][q] => p = q
             /\ \A k \in 1..n[m] : \E p \in part[m] : index[m][p] = k
  <2> DEFINE S == part[m]
  <2>1. IsFiniteSet(S)
    BY FS_Subset
  <2>2. n[m] = Cardinality(S) /\ after[m] = before[m] + n[m]
    OBVIOUS
  <2> HIDE DEF part, n
  <2>3. n[m] \in Nat /\ \E f \in [part[m] -> 1..n[m]] : Index(m, f)
    <3>1. Cardinality(S) \in Nat
      BY <2>1, Indexed
    <3>2. \E f \in [S -> 1..Cardinality(S)] :
            /\ \A p, q \in S : f[p] = f[q] => p = q
            /\ \A k \in 1..Cardinality(S) : \E p \in S : f[p] = k
      BY <2>1, Indexed
    <3> QED
      BY <2>2, <3>1, <3>2
  <2>4. index[m] \in [part[m] -> 1..n[m]] /\ Index(m, index[m])
    <3> HIDE DEF Index
    <3> QED
      BY <2>3
  <2> QED
    BY <2>2, <2>3, <2>4
<1>2. \A p \in G : of[p] \in months /\ p \in part[of[p]]
    OBVIOUS
<1>3. \A m \in months : \A p \in part[m] : p \in G /\ of[p] = m
    OBVIOUS
<1>4. \A p \in G : F[p] = <<of[p], before[of[p]] + index[of[p]][p]>>
    OBVIOUS
<1>5. \A t : t \in new <=> \E m \in months : \E j \in (before[m] + 1)..after[m] : t = <<m, j>>
  <2>1. \A t : t \in new <=> \E m \in months : \E j \in added[m] : t = <<m, j>>
    <3> HIDE DEF added
    <3> QED
      BY PairsAre
  <2>2. \A m \in months : added[m] = (before[m] + 1)..after[m]
    OBVIOUS
  <2> HIDE DEF new, added
  <2> QED
    BY <2>1, <2>2
<1>6. ASSUME NEW T, \A p \in G : F[p] \in T PROVE F \in [G -> T]
  <2> DEFINE v(p) == <<of[p], before[of[p]] + index[of[p]][p]>>
  <2>1. \A p \in G : v(p) \in T
    BY <1>6
  <2> HIDE DEF v
  <2>2. [p \in G |-> v(p)] \in [G -> T]
    BY <2>1
  <2> QED
    BY <2>2 DEF v
<1> HIDE DEF part, n, index, added, new, F, Index
<1>7. \A p \in G : F[p] \in new
  <2> SUFFICES ASSUME NEW p \in G PROVE F[p] \in new
    OBVIOUS
  <2> DEFINE m == of[p]
             i == index[m][p]
  <2>1. m \in months /\ i \in 1..n[m] /\ F[p] = <<m, before[m] + i>>
    <3>1. m \in months /\ p \in part[m]
      BY <1>2
    <3>2. F[p] = <<m, before[m] + i>>
      BY <1>4
    <3>3. i \in 1..n[m]
      <4> HIDE DEF m
      <4> QED
        BY <1>1, <3>1
    <3> QED
      BY <3>1, <3>2, <3>3
  <2> HIDE DEF i, m
  <2>2. before[m] + i \in (before[m] + 1)..after[m]
    BY <1>1, <2>1
  <2> QED
    BY <1>5, <2>1, <2>2
<1>8. \A p, q \in G : F[p] = F[q] => p = q
  <2> SUFFICES ASSUME NEW p \in G, NEW q \in G, F[p] = F[q] PROVE p = q
    OBVIOUS
  <2> DEFINE m == of[p]
  <2>1. of[q] = m /\ before[m] + index[m][p] = before[m] + index[m][q]
    BY <1>4
  <2>2. m \in months /\ p \in part[m] /\ q \in part[m]
    BY <1>2, <2>1
  <2> HIDE DEF m
  <2>3. index[m][p] \in 1..n[m] /\ index[m][q] \in 1..n[m]
    BY <1>1, <2>2
  <2>4. before[m] \in Nat
    BY <1>1, <2>2
  <2>5. index[m][p] = index[m][q]
    BY <2>1, <2>3, <2>4
  <2> QED
    BY <1>1, <2>2, <2>5
<1>9. \A t \in new : \E p \in G : F[p] = t
  <2> SUFFICES ASSUME NEW t \in new PROVE \E p \in G : F[p] = t
    OBVIOUS
  <2>0. PICK m \in months : \E j \in (before[m] + 1)..after[m] : t = <<m, j>>
    BY <1>5
  <2>5. PICK j \in (before[m] + 1)..after[m] : t = <<m, j>>
    BY <2>0
  <2>1. j - before[m] \in 1..n[m] /\ j \in Int
    BY <1>1
  <2>2. PICK p \in part[m] : index[m][p] = j - before[m]
    BY <1>1, <2>1
  <2>3. p \in G /\ of[p] = m
    BY <1>3
  <2>4. before[m] + index[m][p] = j
    BY <1>1, <2>1, <2>2
  <2> QED
    BY <1>4, <2>3, <2>4, <2>5
<1>10. IsFiniteSet(new) /\ Cardinality(new) = Cardinality(G)
  <2>1. F \in [G -> new]
    BY <1>6, <1>7
  <2>2. F \in Bijection(G, new)
    BY <1>8, <1>9, <2>1, Fun_IsBij
  <2> QED
    BY <2>2, FS_Bijection DEF ExistsBijection
<1> DEFINE old == CountPoints(before, months)
<1>11. \A m \in months : \A k :
            /\ k \in 1..after[m] <=> (k \in 1..before[m] \/ k \in (before[m] + 1)..after[m])
            /\ ~(k \in 1..before[m] /\ k \in (before[m] + 1)..after[m])
    BY <1>1
<1>12. \A t : t \in old <=> \E m \in months : \E k \in 1..before[m] : t = <<m, k>>
    BY CountPointsAre
<1>13. \A t : t \in CountPoints(after, months) <=> \E m \in months : \E k \in 1..after[m] : t = <<m, k>>
    BY CountPointsAre
<1> HIDE DEF old
<1>14. CountPoints(after, months) = old \cup new
  <2> SUFFICES ASSUME NEW t PROVE t \in CountPoints(after, months) <=> (t \in old \/ t \in new)
    OBVIOUS
  <2>1. ASSUME NEW m \in months, NEW k \in 1..after[m], t = <<m, k>> PROVE t \in old \/ t \in new
    BY <1>5, <1>11, <1>12, <2>1
  <2>2. ASSUME NEW m \in months, NEW k \in 1..before[m], t = <<m, k>> PROVE t \in CountPoints(after, months)
    BY <1>11, <1>13, <2>2
  <2>3. ASSUME NEW m \in months, NEW k \in (before[m] + 1)..after[m], t = <<m, k>>
        PROVE  t \in CountPoints(after, months)
    BY <1>11, <1>13, <2>3
  <2>4. t \in CountPoints(after, months) => t \in old \/ t \in new
    <3> SUFFICES ASSUME t \in CountPoints(after, months) PROVE t \in old \/ t \in new
      OBVIOUS
    <3>1. PICK m \in months : \E k \in 1..after[m] : t = <<m, k>>
      BY <1>13
    <3>2. PICK k \in 1..after[m] : t = <<m, k>>
      BY <3>1
    <3> QED
      BY <2>1, <3>2
  <2>5. t \in old => t \in CountPoints(after, months)
    BY <1>12, <2>2, Zenon
  <2>6. t \in new => t \in CountPoints(after, months)
    <3> SUFFICES ASSUME t \in new PROVE t \in CountPoints(after, months)
      OBVIOUS
    <3>1. PICK m \in months : \E k \in (before[m] + 1)..after[m] : t = <<m, k>>
      BY <1>5
    <3>2. PICK k \in (before[m] + 1)..after[m] : t = <<m, k>>
      BY <3>1
    <3> QED
      BY <2>3, <3>2
  <2> QED
    BY <2>4, <2>5, <2>6
<1>15. old \cap new = {}
  <2> SUFFICES ASSUME NEW t \in old, t \in new PROVE FALSE
    OBVIOUS
  <2>1. PICK m \in months : \E k \in 1..before[m] : t = <<m, k>>
    BY <1>12
  <2>2. PICK l \in months : \E k \in (before[l] + 1)..after[l] : t = <<l, k>>
    BY <1>5
  <2> QED
    BY <1>11, <2>1, <2>2
<1>16. Cardinality(old \cup new) = Cardinality(old) + Cardinality(new) /\ IsFiniteSet(old \cup new)
  <2>1. IsFiniteSet(old)
    BY DEF old
  <2>2. Cardinality(old) \in Nat /\ Cardinality(new) \in Nat
    BY <1>10, <2>1, FS_CardinalityType
  <2>3. Cardinality(old \cup new) = Cardinality(old) + Cardinality(new) - Cardinality(old \cap new)
    BY <1>10, <2>1, FS_Union
  <2>4. Cardinality(old \cap new) = 0
    BY <1>15, FS_EmptySet
  <2>5. IsFiniteSet(old \cup new)
    BY <1>10, <2>1, FS_Union
  <2> QED
    BY <2>2, <2>3, <2>4, <2>5
<1> QED
    BY <1>10, <1>14, <1>16 DEF old


-----------------------------------------------------------------------------
(* Every point is kept.  The tables are of their types along with it: what *)
(* a roll-up adds is a number only of a finite ledger.                     *)

PointsKept ==
    \A g \in Golfer, s \in Skill :
        /\ IsFiniteSet(Points(AwardsOf(g, s))) /\ IsFiniteSet(RollupPoints(g, s))
        /\ skill[g][s] = Sum(AwardsOf(g, s)) + Cardinality(RollupPoints(g, s))

LedgerInv == LedgerTypeOK /\ PointsKept

LEMMA MonthOfDay == ASSUME NEW d \in 0..LastDay PROVE award_month(d) \in Month
<1> DEFINE n == MonthDays
           a == d \div n
           b == LastDay \div n
<1>1. n \in Nat /\ n > 0 /\ LastDay \in Nat /\ d \in Nat /\ d <= LastDay
    BY LedgerAssumption
<1> HIDE DEF n
<1>2. a \in Nat /\ b \in Nat
    BY <1>1
<1>3. n * a <= d /\ LastDay < n * (b + 1)
    BY <1>1
<1>4. a <= b
  <2> SUFFICES ASSUME a >= b + 1 PROVE FALSE
    BY <1>2
  <2> HIDE DEF a, b
  <2>1. a = b + 1 + (a - (b + 1)) /\ a - (b + 1) \in Nat
    BY <1>2
  <2> DEFINE k == a - (b + 1)
  <2>2. n * a = n * (b + 1) + n * k
    BY <1>1, <1>2
  <2>3. n * k >= 0 /\ n * a \in Int /\ n * (b + 1) \in Int /\ n * k \in Int
    BY <1>1, <1>2, <2>1
  <2> DEFINE x == n * a   y == n * (b + 1)   z == n * k
  <2>4. x = y + z /\ z >= 0 /\ x <= d /\ LastDay < y /\ x \in Int /\ y \in Int /\ z \in Int
    BY <1>3, <2>2, <2>3
  <2> HIDE DEF x, y, z
  <2> QED
    BY <1>1, <2>4
<1> QED
    BY <1>2, <1>4 DEF award_month, Month, n

LEMMA PaidAwards ==
    ASSUME NEW g \in Golfer, NEW e, NEW gains \in [Skill -> 0..MaxXp], Pay(g, e, gains),
           NEW h \in Golfer, NEW s \in Skill
    PROVE  IF h = g /\ s \in Due(g, e, gains)
           THEN /\ AwardsOf(h, s)' = AwardsOf(h, s) \cup {Award(g, s, e, gains[s])}
                /\ Award(g, s, e, gains[s]) \notin AwardsOf(h, s)
                /\ Award(g, s, e, gains[s]).amount = gains[s]
           ELSE AwardsOf(h, s)' = AwardsOf(h, s)
<1> DEFINE paid == {Award(g, r, e, gains[r]) : r \in Due(g, e, gains)}
           new == Award(g, s, e, gains[s])
<1>1. awards' = awards \cup paid
    BY DEF Pay
<1>2. \A r : /\ Award(g, r, e, gains[r]).golfer = g /\ Award(g, r, e, gains[r]).skill = r
             /\ Award(g, r, e, gains[r]).event = e /\ Award(g, r, e, gains[r]).amount = gains[r]
    BY DEF Award
<1>3. \A w \in paid : w.golfer = g /\ w.skill \in Due(g, e, gains) /\ w = Award(g, w.skill, e, gains[w.skill])
    BY <1>2
<1>4. \A r \in Due(g, e, gains) : Award(g, r, e, gains[r]) \in paid
    OBVIOUS
<1>5. \A w \in awards : w.golfer = g /\ w.event = e => w.skill \notin Due(g, e, gains)
    BY DEF Due
<1> HIDE DEF paid
<1>6. CASE h = g /\ s \in Due(g, e, gains)
  <2>1. AwardsOf(h, s)' = AwardsOf(h, s) \cup {new}
    <3>1. \A w \in paid : w.golfer = h /\ w.skill = s <=> w = new
      BY <1>2, <1>3, <1>6
    <3>2. new \in paid
      BY <1>4, <1>6
    <3> QED
      BY <1>1, <3>1, <3>2 DEF AwardsOf
  <2>2. new \notin AwardsOf(h, s)
    BY <1>2, <1>5, <1>6 DEF AwardsOf
  <2> QED
    BY <1>2, <1>6, <2>1, <2>2
<1>7. CASE ~(h = g /\ s \in Due(g, e, gains))
  <2>1. AwardsOf(h, s)' = AwardsOf(h, s)
    BY <1>1, <1>3, <1>7 DEF AwardsOf
  <2> QED
    BY <1>7, <2>1
<1> QED
    BY <1>6, <1>7

LEMMA PayKeepsPoints ==
    ASSUME LedgerInv, NEW g \in Golfer, NEW e \in Event, NEW gains \in [Skill -> 0..MaxXp],
           Pay(g, e, gains), rollup' = rollup
    PROVE  awards' \subseteq AwardRow /\ skill' \in [Golfer -> [Skill -> Nat]] /\ PointsKept'
<1> DEFINE due == Due(g, e, gains)
<1>1. /\ skill \in [Golfer -> [Skill -> Nat]] /\ awards \subseteq AwardRow
      /\ day \in 0..LastDay /\ MaxXp \in Nat
    BY LedgerAssumption DEF LedgerInv, LedgerTypeOK
<1>2. \A s \in due : s \in Skill /\ gains[s] \in 1..MaxXp
    BY <1>1 DEF Due
<1>3. awards' \subseteq AwardRow
    BY <1>1, <1>2 DEF Pay, Award, AwardRow
<1>4. /\ skill' \in [Golfer -> [Skill -> Nat]]
      /\ \A h \in Golfer, s \in Skill :
            skill'[h][s] = IF h = g /\ s \in due THEN skill[h][s] + gains[s] ELSE skill[h][s]
  <2>1. skill' = [skill EXCEPT ![g] = [s \in Skill |-> skill[g][s] + IF s \in due THEN gains[s] ELSE 0]]
    BY DEF Pay
  <2>2. \A s \in Skill : gains[s] \in Nat /\ skill[g][s] \in Nat
    BY <1>1
  <2> HIDE DEF due
  <2> QED
    BY <1>1, <2>1, <2>2
<1>5. PointsKept'
  <2> SUFFICES ASSUME NEW h \in Golfer, NEW s \in Skill
               PROVE  (/\ IsFiniteSet(Points(AwardsOf(h, s))) /\ IsFiniteSet(RollupPoints(h, s))
                       /\ skill[h][s] = Sum(AwardsOf(h, s)) + Cardinality(RollupPoints(h, s)))'
    BY DEF PointsKept
  <2> DEFINE rows == AwardsOf(h, s)
             rolled == Cardinality(RollupPoints(h, s))
  <2>1. /\ IsFiniteSet(Points(rows)) /\ IsFiniteSet(RollupPoints(h, s))
        /\ skill[h][s] = Sum(rows) + rolled
    BY DEF LedgerInv, PointsKept
  <2>2. RollupPoints(h, s)' = RollupPoints(h, s)
    BY DEF RollupPoints
  <2>3. Sum(rows) \in Nat /\ rolled \in Nat
    BY <2>1, FS_CardinalityType DEF Sum
  <2>4. CASE h = g /\ s \in due
    <3> DEFINE new == Award(g, s, e, gains[s])
    <3>1. rows' = rows \cup {new} /\ new \notin rows /\ new.amount = gains[s]
      BY <2>4, PaidAwards
    <3>2. gains[s] \in Nat /\ skill'[h][s] = skill[h][s] + gains[s]
      BY <1>2, <1>4, <2>4
    <3> HIDE DEF rows, new
    <3>3. IsFiniteSet(Points(rows \cup {new})) /\ Sum(rows \cup {new}) = Sum(rows) + gains[s]
      BY <2>1, <3>1, <3>2, SumOfOneMore
    <3>4. IsFiniteSet(Points(rows')) /\ Sum(rows') = Sum(rows) + gains[s]
      BY <3>1, <3>3
    <3>5. skill'[h][s] = Sum(rows') + rolled
      <4> HIDE DEF rolled
      <4> QED
        BY <2>1, <2>3, <3>2, <3>4
    <3> QED
      BY <2>1, <2>2, <3>4, <3>5 DEF rows, Sum, Points
  <2>5. CASE ~(h = g /\ s \in due)
    <3>1. rows' = rows
      BY <2>5, PaidAwards
    <3>2. skill'[h][s] = skill[h][s]
      BY <1>4, <2>5
    <3> QED
      BY <2>1, <2>2, <3>1, <3>2 DEF Sum, Points
  <2> QED
    BY <2>4, <2>5
<1> QED
    BY <1>3, <1>4, <1>5

LEMMA RollUpKeepsPoints ==
    ASSUME LedgerInv, RollUp
    PROVE  rollup' \in [Golfer -> [Skill -> [Month -> Nat]]] /\ PointsKept'
<1>1. PICK cutoff \in Cutoffs :
        LET old == {w \in awards : w.day < cutoff}
        IN  awards' = awards \ old /\ rollup' = rolled_up(old) /\ skill' = skill
    BY DEF RollUp
<1> DEFINE old == {w \in awards : w.day < cutoff}
<1>2. old \subseteq awards /\ awards' = awards \ old /\ rollup' = rolled_up(old) /\ skill' = skill
    BY <1>1
<1> HIDE DEF old
<1>3. /\ awards \subseteq AwardRow /\ rollup \in [Golfer -> [Skill -> [Month -> Nat]]]
    BY DEF LedgerInv, LedgerTypeOK
<1>4. ASSUME NEW g \in Golfer, NEW s \in Skill
      PROVE  /\ \A m \in Month : rollup'[g][s][m] \in Nat
             /\ (/\ IsFiniteSet(Points(AwardsOf(g, s))) /\ IsFiniteSet(RollupPoints(g, s))
                 /\ skill[g][s] = Sum(AwardsOf(g, s)) + Cardinality(RollupPoints(g, s)))'
  <2> DEFINE rows == AwardsOf(g, s)
             part == {w \in old : w.golfer = g /\ w.skill = s}
             G == Points(part)
             of == [p \in G |-> award_month(p[1].day)]
             before == rollup[g][s]
             after == rollup'[g][s]
  <2>1. /\ IsFiniteSet(Points(rows)) /\ IsFiniteSet(RollupPoints(g, s))
        /\ skill[g][s] = Sum(rows) + Cardinality(RollupPoints(g, s))
    BY DEF LedgerInv, PointsKept
  <2>2. part \subseteq rows /\ rows' = rows \ part
    BY <1>2 DEF AwardsOf
  <2>3. \A w \in part : w.day \in 0..LastDay
    BY <1>2, <1>3 DEF AwardRow
  <2> HIDE DEF rows
  <2>4. /\ IsFiniteSet(G) /\ IsFiniteSet(Points(rows \ part))
        /\ Sum(part) \in Nat /\ Sum(rows \ part) \in Nat /\ Sum(rows) = Sum(part) + Sum(rows \ part)
    <3> HIDE DEF part
    <3> QED
      BY <2>1, <2>2, SumSplits
  <2>5. of \in [G -> Month]
    <3>1. \A p \in G : p[1] \in part
      BY DEF Points
    <3>2. \A p \in G : award_month(p[1].day) \in Month
      BY <2>3, <3>1, MonthOfDay
    <3> HIDE DEF G
    <3> QED
      BY <3>2
  <2>6. ASSUME NEW m \in Month
        PROVE  {p \in G : of[p] = m} = Points(Of(old, g, s, m)) /\ after[m] = before[m] + Cardinality({p \in G : of[p] = m})
    <3>1. {p \in G : of[p] = m} = Points(Of(old, g, s, m))
      BY DEF Points, Of
    <3>2. after[m] = before[m] + Sum(Of(old, g, s, m))
      BY <1>2 DEF rolled_up
    <3> QED
      BY <3>1, <3>2 DEF Sum
  <2>7. before \in [Month -> Nat] /\ RollupPoints(g, s) = CountPoints(before, Month)
    BY <1>3 DEF RollupPoints, CountPoints
  <2>8. RollupPoints(g, s)' = CountPoints(after, Month)
    BY DEF RollupPoints, CountPoints
  <2> HIDE DEF G, of, before, after, part
  <2>9. /\ IsFiniteSet(CountPoints(after, Month))
        /\ Cardinality(CountPoints(after, Month)) = Cardinality(CountPoints(before, Month)) + Cardinality(G)
    BY <2>1, <2>4, <2>5, <2>6, <2>7, MonthsGrow
  <2>10. \A m \in Month : after[m] \in Nat
    <3> SUFFICES ASSUME NEW m \in Month PROVE after[m] \in Nat
      OBVIOUS
    <3> DEFINE H == {p \in G : of[p] = m}
    <3>1. IsFiniteSet(H)
      <4>1. H \in SUBSET G
        OBVIOUS
      <4> HIDE DEF H
      <4> QED
        BY <2>4, <4>1, FS_Subset
    <3> HIDE DEF H
    <3>2. Cardinality(H) \in Nat /\ before[m] \in Nat /\ after[m] = before[m] + Cardinality(H)
      BY <2>6, <2>7, <3>1, FS_CardinalityType DEF H
    <3> QED
      BY <3>2
  <2>11. Cardinality(G) = Sum(part) /\ Cardinality(RollupPoints(g, s)) \in Nat
    BY <2>1, FS_CardinalityType DEF G, Sum
  <2>12. skill[g][s] = Sum(rows \ part) + Cardinality(CountPoints(after, Month))
    BY <2>1, <2>4, <2>7, <2>9, <2>11
  <2>13. IsFiniteSet(Points(AwardsOf(g, s)))' /\ Sum(AwardsOf(g, s))' = Sum(rows \ part)
    BY <2>2, <2>4 DEF rows, Points, Sum
  <2> QED
    BY <1>2, <2>8, <2>9, <2>10, <2>12, <2>13 DEF after
<1>5. rollup' \in [Golfer -> [Skill -> [Month -> Nat]]]
  <2>1. rollup' = [g \in Golfer |-> [s \in Skill |-> [m \in Month |-> rollup'[g][s][m]]]]
    BY <1>2 DEF rolled_up
  <2>2. \A g \in Golfer, s \in Skill, m \in Month : rollup'[g][s][m] \in Nat
    BY <1>4
  <2> QED
    BY <2>1, <2>2
<1> QED
    BY <1>4, <1>5 DEF PointsKept


-----------------------------------------------------------------------------
(* The invariant of every step. *)

LEMMA CollectedAreRows == Seq(CollectedRow) \subseteq Seq(Row)
<1>1. CollectedRow \subseteq Row
    BY LedgerAssumption DEF CollectedRow, Row
<1> SUFFICES ASSUME NEW rows \in Seq(CollectedRow) PROVE rows \in Seq(Row)
    OBVIOUS
<1>2. \A i \in 1..Len(rows) : rows[i] \in Row
    BY <1>1, ElementOfSeq
<1>3. rows = [i \in 1..Len(rows) |-> rows[i]] /\ Len(rows) \in Nat
    BY LenProperties
<1> QED
    BY <1>2, <1>3, IsASeq

(* What a claim is, and what it leaves. *)
LEMMA ClaimIs ==
    ASSUME LedgerInv, NEW g \in Golfer, NEW x \in Collectible, Claim(g, x)
    PROVE  \E number \in 0..MaxClaims, gains \in [Skill -> 0..MaxXp], rows \in Seq(CollectedRow) :
              /\ Key(x, number) \in Event
              /\ Pay(g, Key(x, number), gains)
              /\ collected' = [collected EXCEPT ![g][x] = rows]
              /\ UNCHANGED <<content, day, plays, holes, rollup>>
              /\ content # Broken
              /\ \/ /\ content[x] = "one_off" /\ number = 0
                    /\ OneOffs(collected[g][x]) = {} /\ rows = Append(collected[g][x], OneOffRow)
                 \/ /\ content[x] = "repeatable" /\ number = Claims(collected[g][x]) + 1
                    /\ rows = Stored(collected[g][x], RepeatableRow(number, holes[g]))
<1> DEFINE had == collected[g][x]
           number == IF content[x] = "one_off" THEN 0 ELSE Claims(had) + 1
           rows == IF content[x] = "one_off" THEN Append(had, OneOffRow)
                   ELSE Stored(had, RepeatableRow(number, holes[g]))
<1>1. PICK gains \in Gains(RewardSkill[x]) : Pay(g, Key(x, number), gains)
    BY DEF Claim
<1>2. gains \in [Skill -> 0..MaxXp]
    BY DEF Gains
<1>3. /\ had \in Seq(CollectedRow) /\ holes[g] \in Nat
      /\ MaxClaims \in Nat \ {0} /\ MaxPlays \in Nat
    BY LedgerAssumption DEF LedgerInv, LedgerTypeOK
<1>4. Claims(had) \in Nat
  <2>1. CASE Repeats(had) = {}
    BY <2>1 DEF Claims
  <2>2. CASE Repeats(had) # {}
    <3>1. had \in Seq(Row)
      BY <1>3, CollectedAreRows
    <3> HIDE DEF had
    <3> QED
      BY <2>2, <3>1, LastClaim DEF Claims, Row
  <2> QED
    BY <2>1, <2>2
<1>5. number <= MaxClaims
    BY DEF Claim
<1>6. number \in 0..MaxClaims /\ (content[x] # "one_off" => number \in 1..MaxClaims)
  <2>1. CASE content[x] = "one_off"
    BY <1>3, <2>1
  <2>2. CASE content[x] # "one_off"
    <3>1. number = Claims(had) + 1
      BY <2>2
    <3> HIDE DEF number, had
    <3> QED
      BY <1>3, <1>4, <1>5, <3>1
  <2> QED
    BY <2>1, <2>2
<1>7. Key(x, number) \in Event
  <2> HIDE DEF number
  <2> QED
    BY <1>3, <1>6 DEF Key, Event
<1>8. rows \in Seq(CollectedRow)
  <2>1. CASE content[x] = "one_off"
    <3>1. OneOffRow \in CollectedRow
      BY <1>3 DEF OneOffRow, CollectedRow
    <3> QED
      BY <1>3, <2>1, <3>1
  <2>2. CASE content[x] # "one_off"
    <3> DEFINE row == RepeatableRow(number, holes[g])
    <3>1. row \in CollectedRow
      <4> HIDE DEF number
      <4> QED
        BY <1>3, <1>6, <2>2 DEF RepeatableRow, CollectedRow
    <3>2. rows = Stored(had, row)
      BY <2>2
    <3> HIDE DEF row, rows, had
    <3>3. CASE had = << >>
      BY <3>1, <3>2, <3>3 DEF Stored
    <3>4. CASE had # << >>
      <4>1. Len(had) \in 1..Len(had)
        BY <1>3, <3>4
      <4>2. rows = [had EXCEPT ![Len(had)] = row]
        BY <3>2, <3>4 DEF Stored
      <4> QED
        BY <1>3, <3>1, <4>1, <4>2, ExceptSeq
    <3> QED
      BY <3>3, <3>4
  <2> QED
    BY <2>1, <2>2
<1>9. \/ /\ content[x] = "one_off" /\ number = 0
         /\ OneOffs(had) = {} /\ rows = Append(had, OneOffRow)
      \/ /\ content[x] = "repeatable" /\ number = Claims(had) + 1
         /\ rows = Stored(had, RepeatableRow(number, holes[g]))
    BY DEF Claim, Available
<1>10. /\ collected' = [collected EXCEPT ![g][x] = rows]
       /\ content # Broken /\ UNCHANGED <<content, day, plays, holes, rollup>>
    BY DEF Claim
<1> HIDE DEF number, rows
<1> QED
    BY <1>1, <1>2, <1>6, <1>7, <1>8, <1>9, <1>10

(* What play pays for. *)
LEMMA PlayIs ==
    ASSUME LedgerInv, NEW g \in Golfer,
           (\E holed \in BOOLEAN : TakeShot(g, holed)) \/ Move(g) \/ UseItem(g)
    PROVE  \E gains \in [Skill -> 0..MaxXp] :
              /\ Key(Playing, plays[g] + 1) \in Event
              /\ Pay(g, Key(Playing, plays[g] + 1), gains)
              /\ plays' = [plays EXCEPT ![g] = @ + 1]
              /\ plays' \in [Golfer -> 0..MaxPlays]
              /\ holes' \in [Golfer -> Nat]
              /\ UNCHANGED <<content, day, rollup, collected>>
<1>1. /\ \E gains \in [Skill -> 0..MaxXp] : Play(g, gains)
      /\ \E holed \in BOOLEAN : holes' = [holes EXCEPT ![g] = IF holed THEN @ + 1 ELSE @]
  <2>1. CASE \E holed \in BOOLEAN : TakeShot(g, holed)
    BY <2>1 DEF TakeShot, Gains
  <2>2. CASE Move(g) \/ UseItem(g)
    <3>1. holes' = holes /\ \E gains \in [Skill -> 0..MaxXp] : Play(g, gains)
      BY <2>2 DEF Move, UseItem, Gains
    <3>2. holes = [holes EXCEPT ![g] = IF FALSE THEN @ + 1 ELSE @]
      BY DEF LedgerInv, LedgerTypeOK
    <3> QED
      BY <3>1, <3>2
  <2> QED
    BY <2>1, <2>2
<1>2. PICK gains \in [Skill -> 0..MaxXp] : Play(g, gains)
    BY <1>1
<1>3. /\ plays \in [Golfer -> 0..MaxPlays] /\ plays[g] < MaxPlays /\ MaxPlays \in Nat /\ MaxClaims \in Nat
      /\ holes \in [Golfer -> Nat]
    BY <1>2, LedgerAssumption DEF Play, LedgerInv, LedgerTypeOK
<1>4. plays[g] + 1 \in 0..MaxPlays /\ plays[g] + 1 \in 0..(MaxPlays + MaxClaims)
    BY <1>3
<1>5. Key(Playing, plays[g] + 1) \in Event
    BY <1>4 DEF Key, Event
<1>6. plays' \in [Golfer -> 0..MaxPlays] /\ holes' \in [Golfer -> Nat]
    BY <1>1, <1>2, <1>3, <1>4 DEF Play
<1> QED
    BY <1>2, <1>5, <1>6 DEF Play

LEMMA DeletingKeeps ==
    ASSUME LedgerInv, NEW g \in Golfer, DeleteAccount(g)
    PROVE  LedgerInv'
<1>1. LedgerTypeOK'
  <2>1. NoneCollected \in [Collectible -> Seq(CollectedRow)]
    BY DEF NoneCollected
  <2>2. NoSkills \in [Skill -> Nat] /\ NoRollups \in [Skill -> [Month -> Nat]]
    BY DEF NoSkills, NoRollups
  <2>3. 0 \in 0..MaxPlays /\ 0 \in Nat
    BY LedgerAssumption
  <2> QED
    BY <2>1, <2>2, <2>3 DEF DeleteAccount, LedgerInv, LedgerTypeOK, AwardsUnique
<1>2. PointsKept'
  <2> SUFFICES ASSUME NEW h \in Golfer, NEW s \in Skill
               PROVE  (/\ IsFiniteSet(Points(AwardsOf(h, s))) /\ IsFiniteSet(RollupPoints(h, s))
                       /\ skill[h][s] = Sum(AwardsOf(h, s)) + Cardinality(RollupPoints(h, s)))'
    BY DEF PointsKept
  <2>1. skill \in [Golfer -> [Skill -> Nat]] /\ rollup \in [Golfer -> [Skill -> [Month -> Nat]]]
    BY DEF LedgerInv, LedgerTypeOK
  <2>2. CASE h = g
    <3>1. AwardsOf(h, s)' = {} /\ RollupPoints(h, s)' = {} /\ skill'[h][s] = 0
      BY <2>1, <2>2 DEF DeleteAccount, AwardsOf, RollupPoints, NoRollups, NoSkills
    <3>2. Points(AwardsOf(h, s))' = {}
      BY <3>1 DEF Points
    <3> QED
      BY <3>1, <3>2, FS_EmptySet DEF Sum
  <2>3. CASE h # g
    <3>1. AwardsOf(h, s)' = AwardsOf(h, s) /\ RollupPoints(h, s)' = RollupPoints(h, s) /\ skill'[h][s] = skill[h][s]
      BY <2>1, <2>3 DEF DeleteAccount, AwardsOf, RollupPoints
    <3> QED
      BY <3>1 DEF LedgerInv, PointsKept, Sum, Points
  <2> QED
    BY <2>2, <2>3
<1> QED
    BY <1>1, <1>2 DEF LedgerInv

LEMMA LedgerInvNext == LedgerInv /\ [Next]_vars => LedgerInv'
<1> SUFFICES ASSUME LedgerInv, [Next]_vars PROVE LedgerInv'
    OBVIOUS
<1>1. AwardsUnique'
    BY NextIsUnique DEF LedgerInv, LedgerTypeOK
<1>2. CASE UNCHANGED <<plays, holes, skill, awards, rollup, collected>> /\ content' \in Publication
           /\ day' \in 0..LastDay
  <2>1. LedgerTypeOK'
    BY <1>1, <1>2 DEF LedgerInv, LedgerTypeOK
  <2>2. \A g \in Golfer, s \in Skill :
            AwardsOf(g, s)' = AwardsOf(g, s) /\ RollupPoints(g, s)' = RollupPoints(g, s)
    BY <1>2 DEF AwardsOf, RollupPoints
  <2>3. PointsKept'
    BY <1>2, <2>2 DEF LedgerInv, PointsKept, Sum, Points
  <2> QED
    BY <2>1, <2>3 DEF LedgerInv
<1>3. ASSUME NEW g \in Golfer, GolferStep(g) PROVE LedgerInv'
  <2>1. CASE (\E holed \in BOOLEAN : TakeShot(g, holed)) \/ Move(g) \/ UseItem(g)
    <3>1. PICK gains \in [Skill -> 0..MaxXp] :
            /\ Key(Playing, plays[g] + 1) \in Event
            /\ Pay(g, Key(Playing, plays[g] + 1), gains)
            /\ plays' \in [Golfer -> 0..MaxPlays] /\ holes' \in [Golfer -> Nat]
            /\ UNCHANGED <<content, day, rollup, collected>>
      BY <2>1, PlayIs
    <3>2. awards' \subseteq AwardRow /\ skill' \in [Golfer -> [Skill -> Nat]] /\ PointsKept'
      BY <3>1, PayKeepsPoints
    <3> QED
      BY <1>1, <3>1, <3>2 DEF LedgerInv, LedgerTypeOK
  <2>2. ASSUME NEW x \in Collectible, Claim(g, x) PROVE LedgerInv'
    <3>1. PICK number \in 0..MaxClaims, gains \in [Skill -> 0..MaxXp], rows \in Seq(CollectedRow) :
              /\ Key(x, number) \in Event
              /\ Pay(g, Key(x, number), gains)
              /\ collected' = [collected EXCEPT ![g][x] = rows]
              /\ UNCHANGED <<content, day, plays, holes, rollup>>
      BY <2>2, ClaimIs
    <3>2. awards' \subseteq AwardRow /\ skill' \in [Golfer -> [Skill -> Nat]] /\ PointsKept'
      BY <3>1, PayKeepsPoints
    <3>3. collected' \in [Golfer -> [Collectible -> Seq(CollectedRow)]]
      BY <3>1 DEF LedgerInv, LedgerTypeOK
    <3> QED
      BY <1>1, <3>1, <3>2, <3>3 DEF LedgerInv, LedgerTypeOK
  <2> QED
    BY <1>3, <2>1, <2>2, DeletingKeeps DEF GolferStep
<1>4. CASE RollUp
  <2>1. rollup' \in [Golfer -> [Skill -> [Month -> Nat]]] /\ PointsKept'
    BY <1>4, RollUpKeepsPoints
  <2>2. awards' \subseteq awards /\ UNCHANGED <<content, day, plays, holes, skill, collected>>
    BY <1>4 DEF RollUp
  <2> QED
    BY <1>1, <2>1, <2>2 DEF LedgerInv, LedgerTypeOK
<1>5. CASE DayPasses
  <2>1. day' \in 0..LastDay
    BY <1>5, LedgerAssumption DEF DayPasses, LedgerInv, LedgerTypeOK
  <2> QED
    BY <1>2, <1>5, <2>1 DEF DayPasses, LedgerInv, LedgerTypeOK
<1>6. CASE Republish \/ UNCHANGED vars
    BY <1>2, <1>6 DEF Republish, vars, LedgerInv, LedgerTypeOK
<1> QED
    BY <1>3, <1>4, <1>5, <1>6 DEF Next

LEMMA LedgerInvInit == Init => LedgerInv
<1> SUFFICES ASSUME Init PROVE LedgerInv
    OBVIOUS
<1>1. LedgerTypeOK
  <2>1. NoneCollected \in [Collectible -> Seq(CollectedRow)]
    BY DEF NoneCollected
  <2>2. NoSkills \in [Skill -> Nat] /\ NoRollups \in [Skill -> [Month -> Nat]]
    BY DEF NoSkills, NoRollups
  <2> QED
    BY <2>1, <2>2, LedgerAssumption DEF Init, LedgerTypeOK, AwardsUnique
<1>2. ASSUME NEW g \in Golfer, NEW s \in Skill
      PROVE  Points(AwardsOf(g, s)) = {} /\ RollupPoints(g, s) = {} /\ skill[g][s] = 0
    BY DEF Init, Points, AwardsOf, RollupPoints, NoRollups, NoSkills
<1> QED
    BY <1>1, <1>2, FS_EmptySet DEF LedgerInv, PointsKept, Sum

LEMMA LedgerInvHolds == Spec => []LedgerInv
    BY LedgerInvInit, LedgerInvNext, PTL DEF Spec

(* Every table of progress holds rows of its type, the awards by their     *)
(* unique keys.                                                            *)
THEOREM LedgerTyped == Spec => []LedgerTypeOK
    BY LedgerInvHolds, PTL DEF LedgerInv

(* "The sums keep every point": a golfer's skill XP is its awards plus its *)
(* rollups through every award, claim, roll-up and republish.              *)
THEOREM SkillStaysWhole == Spec => []SkillIsAwardsAndRollups
<1>1. LedgerInv => SkillIsAwardsAndRollups
    BY DEF LedgerInv, PointsKept, SkillIsAwardsAndRollups
<1> QED
    BY <1>1, LedgerInvHolds, PTL


-----------------------------------------------------------------------------
(* The purse: one payment an event, in its month.                          *)
(*                                                                         *)
(* A module's collectible keeps its kind: a claim of a repeatable takes    *)
(* the place of the one-off's row, were there one (store_progress), and    *)
(* with it goes what the ledger knows of that event.                       *)
KindsStay ==
    \A p, q \in Publication \ {Broken}, x \in Collectible :
        p[x] # "none" /\ q[x] # "none" => p[x] = q[x]

(* Rows of a one-off are of collectibles published as one.                 *)
KindsKept ==
    \A g \in Golfer, x \in Collectible :
        OneOffs(collected[g][x]) # {} => \E p \in Publication \ {Broken} : p[x] = "one_off"

(* What a claim's rows say was claimed.                                    *)
LEMMA OneOffAppended ==
    ASSUME NEW rows \in Seq(CollectedRow), OneOffs(rows) = {}
    PROVE  LET after == Append(rows, OneOffRow)
           IN  OneOffs(after) # {} /\ Claims(after) = Claims(rows)
<1> DEFINE after == Append(rows, OneOffRow)
<1>1. /\ Len(rows) \in Nat /\ Len(after) = Len(rows) + 1
      /\ \A i \in 1..Len(rows) : after[i] = rows[i]
      /\ after[Len(rows) + 1] = OneOffRow /\ ~OneOffRow.repeatable
      /\ DOMAIN after = 1..(Len(rows) + 1) /\ DOMAIN rows = 1..Len(rows)
    BY DEF OneOffRow
<1> HIDE DEF after
<1>2. OneOffs(after) = {Len(rows) + 1}
    BY <1>1 DEF OneOffs
<1>3. Repeats(after) = Repeats(rows)
    BY <1>1, <1>2 DEF Repeats
<1>4. ASSUME Repeats(rows) # {} PROVE after[Max(Repeats(rows))] = rows[Max(Repeats(rows))]
  <2>1. rows \in Seq(Row)
    BY CollectedAreRows
  <2> QED
    BY <1>1, <1>4, <2>1, LastClaim
<1> QED
    BY <1>2, <1>3, <1>4 DEF Claims, after

LEMMA RepeatableStored ==
    ASSUME NEW rows \in Seq(CollectedRow), NEW n, NEW h, n \in Nat, h \in Nat
    PROVE  LET after == Stored(rows, RepeatableRow(n, h))
           IN  /\ Claims(after) = n
               /\ OneOffs(rows) = {} => OneOffs(after) = {}
<1> DEFINE row == RepeatableRow(n, h)
           after == Stored(rows, row)
<1>1. row \in Row /\ row.repeatable = TRUE /\ row.claims = n
    BY DEF RepeatableRow, Row
<1> HIDE DEF row
<1>2. Repeats(after) # {} /\ after[Max(Repeats(after))] = row
  <2>1. rows \in Seq(Row)
    BY CollectedAreRows
  <2> HIDE DEF after
  <2>2. /\ Repeats(Stored(rows, row)) # {}
        /\ Stored(rows, row)[Max(Repeats(Stored(rows, row)))] = row
    BY <1>1, <2>1, StoredIsLast
  <2> QED
    BY <2>2 DEF after
<1>3. Claims(after) = n
    BY <1>1, <1>2 DEF Claims
<1>4. ASSUME OneOffs(rows) = {} PROVE OneOffs(after) = {}
  <2>1. CASE rows = << >>
    BY <1>1, <2>1 DEF Stored, OneOffs
  <2>2. CASE rows # << >>
    <3>1. after = [rows EXCEPT ![Len(rows)] = row]
      BY <2>2 DEF Stored
    <3> HIDE DEF after
    <3>2. DOMAIN after = DOMAIN rows /\ \A i \in DOMAIN after : after[i] = row \/ after[i] = rows[i]
      BY <3>1
    <3> QED
      BY <1>1, <1>4, <3>2 DEF OneOffs
  <2> QED
    BY <2>1, <2>2
<1> QED
    BY <1>3, <1>4 DEF row, after

LEMMA KindsKeptNext == LedgerInv /\ KindsKept /\ [Next]_vars => KindsKept'
<1> SUFFICES ASSUME LedgerInv, KindsKept, [Next]_vars PROVE KindsKept'
    OBVIOUS
<1>1. CASE UNCHANGED collected
    BY <1>1 DEF KindsKept
<1>2. /\ collected \in [Golfer -> [Collectible -> Seq(CollectedRow)]]
      /\ holes \in [Golfer -> Nat] /\ content \in Publication
    BY DEF LedgerInv, LedgerTypeOK
<1>3. ASSUME NEW g \in Golfer, GolferStep(g) PROVE KindsKept'
  <2>1. CASE (\E holed \in BOOLEAN : TakeShot(g, holed)) \/ Move(g) \/ UseItem(g)
    BY <1>1, <2>1, PlayIs
  <2>2. CASE DeleteAccount(g)
    <3>1. \A x \in Collectible : OneOffs(NoneCollected[x]) = {}
      BY DEF NoneCollected, OneOffs
    <3> QED
      BY <1>2, <2>2, <3>1 DEF DeleteAccount, KindsKept
  <2>3. ASSUME NEW x \in Collectible, Claim(g, x) PROVE KindsKept'
    <3>1. PICK number \in 0..MaxClaims, rows \in Seq(CollectedRow) :
              /\ collected' = [collected EXCEPT ![g][x] = rows]
              /\ content # Broken /\ content' = content
              /\ \/ content[x] = "one_off"
                 \/ rows = Stored(collected[g][x], RepeatableRow(number, holes[g]))
      BY <2>3, ClaimIs
    <3>2. OneOffs(rows) # {} => \E p \in Publication \ {Broken} : p[x] = "one_off"
      <4>1. CASE content[x] = "one_off"
        BY <1>2, <3>1, <4>1
      <4>2. CASE rows = Stored(collected[g][x], RepeatableRow(number, holes[g]))
        <5>1. number \in Nat /\ holes[g] \in Nat /\ collected[g][x] \in Seq(CollectedRow)
          BY <1>2
        <5>2. OneOffs(collected[g][x]) = {} => OneOffs(rows) = {}
          BY <4>2, <5>1, RepeatableStored
        <5> QED
          BY <5>2 DEF KindsKept
      <4> QED
        BY <3>1, <4>1, <4>2
    <3> QED
      BY <1>2, <3>1, <3>2 DEF KindsKept
  <2> QED
    BY <1>3, <2>1, <2>2, <2>3 DEF GolferStep
<1>4. CASE RollUp \/ DayPasses \/ Republish \/ UNCHANGED vars
    BY <1>1, <1>4 DEF RollUp, DayPasses, Republish, vars
<1> QED
    BY <1>3, <1>4 DEF Next

LEMMA KindsKeptHolds == Spec => []KindsKept
<1>1. Init => KindsKept
    BY DEF Init, KindsKept, NoneCollected, OneOffs
<1> QED
    BY <1>1, KindsKeptNext, LedgerInvHolds, PTL DEF Spec

(* An event's XP is paid in the month of its day, and nothing else is.     *)
LEMMA PaidXp ==
    ASSUME LedgerInv, NEW g \in Golfer, NEW e \in Event, NEW gains \in [Skill -> 0..MaxXp],
           Pay(g, e, gains), rollup' = rollup,
           NEW h \in Golfer, NEW s \in Skill, NEW m \in Month
    PROVE  /\ Xp(h, s, m) \in Nat
           /\ Xp(h, s, m)' = IF h = g /\ s \in Due(g, e, gains) /\ m = award_month(day)
                             THEN Xp(h, s, m) + gains[s] ELSE Xp(h, s, m)
<1> DEFINE new == Award(g, s, e, gains[s])
           rows == Of(awards, h, s, m)
<1>1. rows = {w \in AwardsOf(h, s) : award_month(w.day) = m}
      /\ rows' = {w \in AwardsOf(h, s)' : award_month(w.day) = m}
    BY DEF Of, AwardsOf
<1>2. new.day = day
    BY DEF Award
<1>3. IsFiniteSet(Points(rows)) /\ Sum(rows) \in Nat
  <2>1. IsFiniteSet(Points(AwardsOf(h, s)))
    BY DEF LedgerInv, PointsKept
  <2>2. rows \subseteq AwardsOf(h, s)
    BY <1>1
  <2> HIDE DEF rows
  <2> QED
    BY <2>1, <2>2, SumSplits
<1>4. rollup[h][s][m] \in Nat /\ gains[s] \in Nat
    BY LedgerAssumption DEF LedgerInv, LedgerTypeOK
<1>5. Xp(h, s, m) = Sum(rows) + rollup[h][s][m] /\ Xp(h, s, m)' = Sum(rows)' + rollup[h][s][m]
    BY DEF Xp
<1>6. CASE h = g /\ s \in Due(g, e, gains) /\ m = award_month(day)
  <2>1. /\ AwardsOf(h, s)' = AwardsOf(h, s) \cup {new}
        /\ new \notin AwardsOf(h, s) /\ new.amount = gains[s]
    BY <1>6, PaidAwards
  <2>2. rows' = rows \cup {new} /\ new \notin rows
    BY <1>1, <1>2, <1>6, <2>1
  <2> HIDE DEF rows, new
  <2>3. Sum(rows \cup {new}) = Sum(rows) + gains[s]
    BY <1>3, <1>4, <2>1, <2>2, SumOfOneMore
  <2>4. Sum(rows)' = Sum(rows) + gains[s]
    BY <2>2, <2>3 DEF Sum, Points
  <2> QED
    BY <1>3, <1>4, <1>5, <1>6, <2>4
<1>7. CASE ~(h = g /\ s \in Due(g, e, gains) /\ m = award_month(day))
  <2>1. rows' = rows
    <3>1. CASE h = g /\ s \in Due(g, e, gains)
      <4>1. AwardsOf(h, s)' = AwardsOf(h, s) \cup {new}
        BY <3>1, PaidAwards
      <4> QED
        BY <1>1, <1>2, <1>7, <3>1, <4>1
    <3>2. CASE ~(h = g /\ s \in Due(g, e, gains))
      <4>1. AwardsOf(h, s)' = AwardsOf(h, s)
        BY <3>2, PaidAwards
      <4> QED
        BY <1>1, <4>1
    <3> QED
      BY <3>1, <3>2
  <2>2. Sum(rows)' = Sum(rows)
    BY <2>1 DEF Sum, Points
  <2> HIDE DEF rows
  <2> QED
    BY <1>3, <1>4, <1>5, <1>7, <2>2
<1> QED
    BY <1>6, <1>7

(* The events of so many plays and such rows.                              *)
EarnedBy(n, rows) ==
    {Key(Playing, i) : i \in 1..n}
        \cup (UNION {{Key(x, i) : i \in 1..Claims(rows[x])} : x \in Collectible})
        \cup {Key(x, 0) : x \in {y \in Collectible : OneOffs(rows[y]) # {}}}

LEMMA KeysDiffer == \A x, y, m, n : Key(x, m) = Key(y, n) <=> x = y /\ m = n
BY DEF Key

LEMMA EarnedMembers ==
    ASSUME NEW n, NEW rows
    PROVE  \A k : k \in EarnedBy(n, rows) <=>
              \/ \E i \in 1..n : k = Key(Playing, i)
              \/ \E x \in Collectible : \E i \in 1..Claims(rows[x]) : k = Key(x, i)
              \/ \E x \in Collectible : OneOffs(rows[x]) # {} /\ k = Key(x, 0)
<1> DEFINE played == {Key(Playing, i) : i \in 1..n}
           claimed == UNION {{Key(x, i) : i \in 1..Claims(rows[x])} : x \in Collectible}
           once == {Key(x, 0) : x \in {y \in Collectible : OneOffs(rows[y]) # {}}}
<1>1. \A k : k \in played <=> \E i \in 1..n : k = Key(Playing, i)
    OBVIOUS
<1>2. \A k : k \in claimed <=> \E x \in Collectible : \E i \in 1..Claims(rows[x]) : k = Key(x, i)
    OBVIOUS
<1>3. \A k : k \in once <=> \E x \in Collectible : OneOffs(rows[x]) # {} /\ k = Key(x, 0)
    OBVIOUS
<1>4. EarnedBy(n, rows) = played \cup claimed \cup once
    BY DEF EarnedBy
<1> HIDE DEF played, claimed, once
<1> QED
    BY <1>1, <1>2, <1>3, <1>4

LEMMA EarnedKeys ==
    ASSUME NEW n, NEW rows
    PROVE  /\ \A i : Key(Playing, i) \in EarnedBy(n, rows) <=> i \in 1..n
           /\ \A x \in Collectible : \A i :
                 Key(x, i) \in EarnedBy(n, rows) <=>
                    i \in 1..Claims(rows[x]) \/ (i = 0 /\ OneOffs(rows[x]) # {})
           /\ \A k \in EarnedBy(n, rows) : \E x \in Collectible \cup {Playing} : \E i : k = Key(x, i)
<1>1. Playing \notin Collectible
    BY LedgerAssumption
<1>2. \A i : Key(Playing, i) \in EarnedBy(n, rows) <=> i \in 1..n
    BY <1>1, EarnedMembers, KeysDiffer
<1>3. ASSUME NEW x \in Collectible, NEW i
      PROVE  Key(x, i) \in EarnedBy(n, rows) <=>
                    i \in 1..Claims(rows[x]) \/ (i = 0 /\ OneOffs(rows[x]) # {})
  <2>1. ~\E j \in 1..n : Key(x, i) = Key(Playing, j)
    BY <1>1, KeysDiffer
  <2>2. (\E y \in Collectible : \E j \in 1..Claims(rows[y]) : Key(x, i) = Key(y, j)) <=> i \in 1..Claims(rows[x])
    BY KeysDiffer
  <2>3. (\E y \in Collectible : OneOffs(rows[y]) # {} /\ Key(x, i) = Key(y, 0)) <=> (i = 0 /\ OneOffs(rows[x]) # {})
    BY KeysDiffer
  <2>4. ASSUME NEW k, k = Key(x, i), k \in EarnedBy(n, rows)
        PROVE  i \in 1..Claims(rows[x]) \/ (i = 0 /\ OneOffs(rows[x]) # {})
    <3>1. CASE \E j \in 1..n : k = Key(Playing, j)
      BY <2>1, <2>4, <3>1
    <3>2. CASE \E y \in Collectible : \E j \in 1..Claims(rows[y]) : k = Key(y, j)
      BY <2>2, <2>4, <3>2
    <3>3. CASE \E y \in Collectible : OneOffs(rows[y]) # {} /\ k = Key(y, 0)
      BY <2>3, <2>4, <3>3
    <3> QED
      <4>1. \/ \E j \in 1..n : k = Key(Playing, j)
            \/ \E y \in Collectible : \E j \in 1..Claims(rows[y]) : k = Key(y, j)
            \/ \E y \in Collectible : OneOffs(rows[y]) # {} /\ k = Key(y, 0)
        BY <2>4, EarnedMembers
      <4> QED
        BY <3>1, <3>2, <3>3, <4>1
  <2>5. ASSUME i \in 1..Claims(rows[x]) PROVE Key(x, i) \in EarnedBy(n, rows)
    BY <2>5, EarnedMembers
  <2>6. ASSUME i = 0, OneOffs(rows[x]) # {} PROVE Key(x, i) \in EarnedBy(n, rows)
    BY <2>6, EarnedMembers
  <2> QED
    BY <2>4, <2>5, <2>6
<1>4. ASSUME NEW k \in EarnedBy(n, rows) PROVE \E x \in Collectible \cup {Playing} : \E i : k = Key(x, i)
    BY EarnedMembers
<1> QED
    BY <1>2, <1>3, <1>4

LEMMA EarnedClaims ==
    ASSUME NEW n, NEW rows, NEW x \in Collectible, NEW i
    PROVE  Key(x, i) \in EarnedBy(n, rows)
              <=> (i \in 1..Claims(rows[x]) \/ (i = 0 /\ OneOffs(rows[x]) # {}))
BY EarnedKeys

LEMMA EarnedIs ==
    ASSUME NEW g \in Golfer
    PROVE  /\ Earned(g) = EarnedBy(plays[g], collected[g])
           /\ Earned(g)' = EarnedBy(plays'[g], collected'[g])
BY DEF Earned, EarnedBy

earnings == [g \in Golfer |-> Earned(g)]
xps == [g \in Golfer |-> [s \in Skill |-> [m \in Month |-> Xp(g, s, m)]]]

(* A payment of an event that had not paid, and that is all the rows say   *)
(* has paid since, is the purse's.                                         *)
LEMMA PayEarns ==
    ASSUME LedgerInv, NEW g \in Golfer, NEW e \in Event, NEW gains \in [Skill -> 0..MaxXp],
           Pay(g, e, gains), rollup' = rollup,
           e \notin Earned(g), Earned(g)' = Earned(g) \cup {e},
           \A h \in Golfer \ {g} : Earned(h)' = Earned(h)
    PROVE  Paid!PurseNext
<1> DEFINE now == award_month(day)
           due == Due(g, e, gains)
           paid == [s \in Skill |-> IF s \in due THEN gains[s] ELSE 0]
<1>1. now \in Month
    BY MonthOfDay DEF LedgerInv, LedgerTypeOK
<1>2. paid \in [Skill -> 0..MaxXp]
    BY LedgerAssumption
<1>3. earnings' = [earnings EXCEPT ![g] = @ \cup {e}]
    BY DEF earnings
<1>4. \A h \in Golfer, s \in Skill, m \in Month :
        /\ Xp(h, s, m) \in Nat
        /\ Xp(h, s, m)' = IF h = g /\ s \in due /\ m = now THEN Xp(h, s, m) + gains[s] ELSE Xp(h, s, m)
    BY PaidXp
<1>5. xps' = [xps EXCEPT ![g] = [s \in Skill |-> [xps[g][s] EXCEPT ![now] = xps[g][s][now] + paid[s]]]]
  <2> DEFINE other == [xps EXCEPT ![g] = [s \in Skill |-> [xps[g][s] EXCEPT ![now] = xps[g][s][now] + paid[s]]]]
  <2>1. \A h \in Golfer, s \in Skill, m \in Month : xps[h][s][m] = Xp(h, s, m) /\ xps'[h][s][m] = Xp(h, s, m)'
    BY DEF xps
  <2>2. \A h \in Golfer, s \in Skill, m \in Month : other[h][s][m] = xps'[h][s][m]
    <3> SUFFICES ASSUME NEW h \in Golfer, NEW s \in Skill, NEW m \in Month
                 PROVE  other[h][s][m] = xps'[h][s][m]
      OBVIOUS
    <3>1. CASE h # g
      BY <1>4, <2>1, <3>1 DEF xps
    <3>2. CASE h = g
      <4>1. other[h][s][m] = IF m = now THEN xps[g][s][m] + paid[s] ELSE xps[g][s][m]
        <5>1. other[g] = [r \in Skill |-> [xps[g][r] EXCEPT ![now] = xps[g][r][now] + paid[r]]]
          BY DEF xps
        <5>2. other[g][s] = [xps[g][s] EXCEPT ![now] = xps[g][s][now] + paid[s]]
          BY <5>1
        <5>3. xps[g][s] = [n \in Month |-> Xp(g, s, n)]
          BY DEF xps
        <5> HIDE DEF other, paid, now
        <5> QED
          BY <1>1, <3>2, <5>2, <5>3
      <4>2. paid[s] = IF s \in due THEN gains[s] ELSE 0
        OBVIOUS
      <4> HIDE DEF other, paid, due, now
      <4> QED
        BY <1>4, <2>1, <3>2, <4>1, <4>2
    <3> QED
      BY <3>1, <3>2
  <2>3. /\ xps' = [h \in Golfer |-> [s \in Skill |-> [m \in Month |-> xps'[h][s][m]]]]
        /\ other = [h \in Golfer |-> [s \in Skill |-> [m \in Month |-> other[h][s][m]]]]
    BY DEF xps
  <2> HIDE DEF other
  <2>4. xps' = other
    BY <2>2, <2>3
  <2> QED
    BY <2>4 DEF other
<1>6. earnings[g] = Earned(g)
    BY DEF earnings
<1> HIDE DEF paid, now
<1>7. Paid!Earn(g, e)
    BY <1>1, <1>2, <1>3, <1>5, <1>6 DEF Paid!Earn, earnings, xps
<1> QED
    BY <1>7 DEF Paid!PurseNext

LEMMA PlayEarns ==
    ASSUME LedgerInv, NEW g \in Golfer,
           (\E holed \in BOOLEAN : TakeShot(g, holed)) \/ Move(g) \/ UseItem(g)
    PROVE  Paid!PurseNext
<1> DEFINE e == Key(Playing, plays[g] + 1)
<1>1. PICK gains \in [Skill -> 0..MaxXp] :
        /\ e \in Event /\ Pay(g, e, gains)
        /\ plays' = [plays EXCEPT ![g] = @ + 1]
        /\ UNCHANGED <<rollup, collected>>
    BY PlayIs
<1>2. plays \in [Golfer -> Nat] /\ plays'[g] = plays[g] + 1 /\ \A h \in Golfer \ {g} : plays'[h] = plays[h]
    BY <1>1, LedgerAssumption DEF LedgerInv, LedgerTypeOK
<1>3. collected'[g] = collected[g]
    BY <1>1
<1>4. /\ e \notin Earned(g)
      /\ Earned(g)' = Earned(g) \cup {e}
  <2> DEFINE rows == collected[g]
             n == plays[g]
  <2>1. Earned(g) = EarnedBy(n, rows) /\ Earned(g)' = EarnedBy(n + 1, rows) /\ e = Key(Playing, n + 1)
    BY <1>2, <1>3, EarnedIs
  <2>2. n \in Nat
    BY <1>2
  <2> HIDE DEF rows, n, e
  <2>3. \A i : i \in 1..(n + 1) <=> (i \in 1..n \/ i = n + 1)
    BY <2>2
  <2>4. n + 1 \notin 1..n
    BY <2>2
  <2>5. e \notin Earned(g)
    BY <2>1, <2>4, EarnedKeys
  <2>6. ASSUME NEW k PROVE k \in EarnedBy(n + 1, rows) <=> (k \in EarnedBy(n, rows) \/ k = e)
    <3>1. (\E i \in 1..(n + 1) : k = Key(Playing, i)) <=> ((\E i \in 1..n : k = Key(Playing, i)) \/ k = e)
      BY <2>1, <2>3
    <3> QED
      BY <3>1, EarnedMembers
  <2> QED
    BY <2>1, <2>5, <2>6
<1>5. \A h \in Golfer \ {g} : Earned(h)' = Earned(h)
    BY <1>1, <1>2 DEF Earned
<1> HIDE DEF e
<1> QED
    BY <1>1, <1>4, <1>5, PayEarns

LEMMA ClaimEarns ==
    ASSUME LedgerInv, KindsStay, KindsKept, NEW g \in Golfer, NEW x \in Collectible, Claim(g, x)
    PROVE  Paid!PurseNext
<1> DEFINE had == collected[g][x]
<1>1. PICK number \in 0..MaxClaims, gains \in [Skill -> 0..MaxXp], rows \in Seq(CollectedRow) :
              /\ Key(x, number) \in Event
              /\ Pay(g, Key(x, number), gains)
              /\ collected' = [collected EXCEPT ![g][x] = rows]
              /\ UNCHANGED <<content, day, plays, holes, rollup>>
              /\ content # Broken
              /\ \/ /\ content[x] = "one_off" /\ number = 0
                    /\ OneOffs(had) = {} /\ rows = Append(had, OneOffRow)
                 \/ /\ content[x] = "repeatable" /\ number = Claims(had) + 1
                    /\ rows = Stored(had, RepeatableRow(number, holes[g]))
    BY ClaimIs
<1>2. /\ had \in Seq(CollectedRow) /\ holes[g] \in Nat /\ number \in Nat
      /\ content \in Publication \ {Broken} /\ Playing \notin Collectible
      /\ collected \in [Golfer -> [Collectible -> Seq(CollectedRow)]]
    BY <1>1, LedgerAssumption DEF LedgerInv, LedgerTypeOK
<1>3. OneOffs(had) = {}
  <2>1. CASE content[x] = "one_off"
    BY <1>1, <2>1
  <2>2. CASE content[x] = "repeatable"
    BY <1>2, <2>2 DEF KindsStay, KindsKept
  <2> QED
    BY <1>1, <2>1, <2>2
<1>4. /\ collected'[g][x] = rows
      /\ \A h \in Golfer, y \in Collectible : ~(h = g /\ y = x) => collected'[h][y] = collected[h][y]
    BY <1>1, <1>2
<1> HIDE DEF had
<1>5. \/ number = 0 /\ OneOffs(rows) # {} /\ Claims(rows) = Claims(had)
      \/ number = Claims(had) + 1 /\ OneOffs(rows) = {} /\ Claims(rows) = number
  <2>1. CASE content[x] = "one_off"
    BY <1>1, <1>2, <1>3, <2>1, OneOffAppended
  <2>2. CASE content[x] = "repeatable"
    <3>1. number = Claims(had) + 1 /\ rows = Stored(had, RepeatableRow(number, holes[g]))
      BY <1>1, <2>2
    <3>2. had \in Seq(CollectedRow) /\ number \in Nat /\ holes[g] \in Nat
      BY <1>2
    <3>3. Claims(rows) = number /\ OneOffs(rows) = {}
      BY <1>3, <3>1, <3>2, RepeatableStored
    <3> QED
      BY <3>1, <3>3
  <2> QED
    BY <1>1, <2>1, <2>2
<1>6. Claims(had) \in Nat
  <2>1. CASE Repeats(had) = {}
    BY <2>1 DEF Claims
  <2>2. CASE Repeats(had) # {}
    <3>1. had \in Seq(Row)
      BY <1>2, CollectedAreRows
    <3> QED
      BY <2>2, <3>1, LastClaim DEF Claims, Row
  <2> QED
    BY <2>1, <2>2
(* What is known of an event of a collectible.                             *)
<1> DEFINE e == Key(x, number)
<1>7. /\ \A y \in Collectible : \A n :
            /\ Key(y, n) \in Earned(g) <=> n \in 1..Claims(collected[g][y])
                                           \/ (n = 0 /\ OneOffs(collected[g][y]) # {})
            /\ Key(y, n) \in Earned(g)' <=> n \in 1..Claims(collected'[g][y])
                                            \/ (n = 0 /\ OneOffs(collected'[g][y]) # {})
      /\ \A n : Key(Playing, n) \in Earned(g)' <=> Key(Playing, n) \in Earned(g)
      /\ \A k : k \in Earned(g) \/ k \in Earned(g)' =>
            \E y \in Collectible \cup {Playing} : \E n : k = Key(y, n)
  <2>1. Earned(g) = EarnedBy(plays[g], collected[g]) /\ Earned(g)' = EarnedBy(plays[g], collected'[g])
    BY <1>1, EarnedIs
  <2>2. \A y \in Collectible : \A n :
            /\ Key(y, n) \in Earned(g) <=> n \in 1..Claims(collected[g][y])
                                           \/ (n = 0 /\ OneOffs(collected[g][y]) # {})
            /\ Key(y, n) \in Earned(g)' <=> n \in 1..Claims(collected'[g][y])
                                            \/ (n = 0 /\ OneOffs(collected'[g][y]) # {})
    <3> DEFINE before == collected[g]
               after == collected'[g]
    <3> SUFFICES ASSUME NEW y \in Collectible, NEW n
                 PROVE  /\ Key(y, n) \in EarnedBy(plays[g], before)
                              <=> (n \in 1..Claims(before[y]) \/ (n = 0 /\ OneOffs(before[y]) # {}))
                        /\ Key(y, n) \in EarnedBy(plays[g], after)
                              <=> (n \in 1..Claims(after[y]) \/ (n = 0 /\ OneOffs(after[y]) # {}))
      BY <2>1
    <3> HIDE DEF before, after
    <3>1. Key(y, n) \in EarnedBy(plays[g], before)
            <=> (n \in 1..Claims(before[y]) \/ (n = 0 /\ OneOffs(before[y]) # {}))
      BY EarnedClaims
    <3>2. Key(y, n) \in EarnedBy(plays[g], after)
            <=> (n \in 1..Claims(after[y]) \/ (n = 0 /\ OneOffs(after[y]) # {}))
      BY EarnedClaims
    <3> QED
      BY <3>1, <3>2
  <2>3. \A n : Key(Playing, n) \in Earned(g)' <=> Key(Playing, n) \in Earned(g)
    BY <2>1, EarnedKeys
  <2>4. \A k \in EarnedBy(plays[g], collected[g]) : \E y \in Collectible \cup {Playing} : \E n : k = Key(y, n)
    BY EarnedKeys
  <2>5. \A k \in EarnedBy(plays[g], collected'[g]) : \E y \in Collectible \cup {Playing} : \E n : k = Key(y, n)
    BY EarnedKeys
  <2> QED
    BY <2>1, <2>2, <2>3, <2>4, <2>5
<1>8. e \notin Earned(g)
  <2>1. Key(x, number) \in Earned(g) <=> (number \in 1..Claims(had) \/ (number = 0 /\ OneOffs(had) # {}))
    BY <1>7 DEF had
  <2> HIDE DEF e
  <2>2. ~(number \in 1..Claims(had))
    BY <1>5, <1>6
  <2> QED
    BY <1>3, <2>1, <2>2 DEF e
<1>9. \A h \in Golfer \ {g} : Earned(h)' = Earned(h)
    BY <1>1, <1>4 DEF Earned
<1>10. Earned(g)' = Earned(g) \cup {e}
  <2>1. \A y \in Collectible \ {x} : \A n : Key(y, n) \in Earned(g)' <=> Key(y, n) \in Earned(g)
    <3>1. \A y \in Collectible \ {x} : collected'[g][y] = collected[g][y]
      BY <1>4
    <3> QED
      BY <1>7, <3>1
  <2>2. ASSUME NEW n PROVE Key(x, n) \in Earned(g)' <=> (Key(x, n) \in Earned(g) \/ n = number)
    <3>1. Key(x, n) \in Earned(g) <=> n \in 1..Claims(had)
      BY <1>3, <1>7 DEF had
    <3>2. Key(x, n) \in Earned(g)' <=> (n \in 1..Claims(rows) \/ (n = 0 /\ OneOffs(rows) # {}))
      BY <1>4, <1>7
    <3>3. n \in 1..(Claims(had) + 1) <=> (n \in 1..Claims(had) \/ n = Claims(had) + 1)
      BY <1>6
    <3> QED
      BY <1>5, <3>1, <3>2, <3>3
  <2>5. \A y, n : Key(y, n) = e <=> y = x /\ n = number
    BY KeysDiffer
  <2> HIDE DEF e
  <2>6. ASSUME NEW k PROVE k \in Earned(g)' <=> (k \in Earned(g) \/ k = e)
    <3>1. CASE \E y \in Collectible \cup {Playing} : \E n : k = Key(y, n)
      <4>1. PICK y \in Collectible \cup {Playing} : \E n : k = Key(y, n)
        BY <3>1
      <4>2. PICK n : k = Key(y, n)
        BY <4>1
      <4> QED
        BY <1>2, <1>7, <2>1, <2>2, <2>5, <4>2
    <3>2. CASE ~\E y \in Collectible \cup {Playing} : \E n : k = Key(y, n)
      BY <1>7, <3>2 DEF e
    <3> QED
      BY <3>1, <3>2
  <2> QED
    BY <2>6
<1>11. e \in Event /\ Pay(g, e, gains) /\ rollup' = rollup
    BY <1>1
<1> HIDE DEF e
<1> QED
    BY <1>8, <1>9, <1>10, <1>11, PayEarns

LEMMA DeletingForgets ==
    ASSUME LedgerInv, NEW g \in Golfer, DeleteAccount(g)
    PROVE  Paid!PurseNext
<1>1. /\ plays \in [Golfer -> 0..MaxPlays] /\ rollup \in [Golfer -> [Skill -> [Month -> Nat]]]
      /\ collected \in [Golfer -> [Collectible -> Seq(CollectedRow)]]
    BY DEF LedgerInv, LedgerTypeOK
<1>2. Earned(g)' = {}
  <2>1. plays'[g] = 0 /\ collected'[g] = NoneCollected
    BY <1>1 DEF DeleteAccount
  <2>2. \A x \in Collectible : Claims(NoneCollected[x]) = 0 /\ OneOffs(NoneCollected[x]) = {}
    BY DEF NoneCollected, Claims, Repeats, OneOffs
  <2> QED
    BY <2>1, <2>2 DEF Earned
<1>3. \A h \in Golfer \ {g} : Earned(h)' = Earned(h)
    BY <1>1 DEF DeleteAccount, Earned
<1>4. \A h \in Golfer \ {g}, s \in Skill, m \in Month : Xp(h, s, m)' = Xp(h, s, m)
  <2> SUFFICES ASSUME NEW h \in Golfer \ {g}, NEW s \in Skill, NEW m \in Month
               PROVE  Xp(h, s, m)' = Xp(h, s, m)
    OBVIOUS
  <2>1. Of(awards, h, s, m)' = Of(awards, h, s, m) /\ rollup'[h][s][m] = rollup[h][s][m]
    BY <1>1 DEF DeleteAccount, Of
  <2> QED
    BY <2>1 DEF Xp, Sum, Points
<1>5. \A s \in Skill, m \in Month : Xp(g, s, m)' = 0
  <2> SUFFICES ASSUME NEW s \in Skill, NEW m \in Month PROVE Xp(g, s, m)' = 0
    OBVIOUS
  <2>1. Of(awards, g, s, m)' = {} /\ rollup'[g][s][m] = 0
    BY <1>1 DEF DeleteAccount, Of, NoRollups
  <2>2. Sum(Of(awards, g, s, m))' = 0
    BY <2>1, FS_EmptySet DEF Sum, Points
  <2> QED
    BY <2>1, <2>2 DEF Xp
<1>6. earnings' = [earnings EXCEPT ![g] = {}]
    BY <1>2, <1>3 DEF earnings
<1>7. xps' = [xps EXCEPT ![g] = Paid!Nothing]
  <2>1. [s \in Skill |-> [m \in Month |-> Xp(g, s, m)']] = Paid!Nothing
    BY <1>5 DEF Paid!Nothing
  <2>2. \A h \in Golfer \ {g} : [s \in Skill |-> [m \in Month |-> Xp(h, s, m)']] = [s \in Skill |-> [m \in Month |-> Xp(h, s, m)]]
    BY <1>4
  <2> QED
    BY <2>1, <2>2 DEF xps
<1>8. Paid!Forget(g)
    BY <1>6, <1>7 DEF Paid!Forget, earnings, xps
<1> QED
    BY <1>8 DEF Paid!PurseNext

(* A roll-up moves points from the awards to the month they are of.        *)
LEMMA RollUpKeepsXp ==
    ASSUME LedgerInv, RollUp, NEW g \in Golfer, NEW s \in Skill, NEW m \in Month
    PROVE  Xp(g, s, m)' = Xp(g, s, m)
<1>1. PICK cutoff \in Cutoffs :
        LET old == {w \in awards : w.day < cutoff}
        IN  awards' = awards \ old /\ rollup' = rolled_up(old)
    BY DEF RollUp
<1> DEFINE old == {w \in awards : w.day < cutoff}
           rows == Of(awards, g, s, m)
           part == Of(old, g, s, m)
<1>2. old \subseteq awards /\ awards' = awards \ old /\ rollup' = rolled_up(old)
    BY <1>1
<1> HIDE DEF old
<1>3. rows' = rows \ part /\ part \subseteq rows /\ rows \subseteq AwardsOf(g, s)
    BY <1>2 DEF Of, AwardsOf
<1>4. rollup'[g][s][m] = rollup[g][s][m] + Sum(part)
    BY <1>2 DEF rolled_up
<1>5. IsFiniteSet(Points(AwardsOf(g, s))) /\ rollup[g][s][m] \in Nat
    BY DEF LedgerInv, PointsKept, LedgerTypeOK
<1> DEFINE before == rollup[g][s][m]
<1> HIDE DEF part
<1>6. Xp(g, s, m) = Sum(rows) + before /\ Xp(g, s, m)' = Sum(rows)' + (before + Sum(part))
    BY <1>4 DEF Xp
<1> HIDE DEF rows, before
<1>7. IsFiniteSet(Points(rows))
    BY <1>3, <1>5, SumSplits
<1>8. Sum(part) \in Nat /\ Sum(rows \ part) \in Nat /\ Sum(rows) = Sum(part) + Sum(rows \ part)
    BY <1>3, <1>7, SumSplits
<1>9. Sum(rows)' = Sum(rows \ part)
    BY <1>3 DEF Sum, Points
<1> QED
    BY <1>5, <1>6, <1>8, <1>9 DEF before

LEMMA LedgerPays ==
    ASSUME KindsStay
    PROVE  LedgerInv /\ KindsKept /\ [Next]_vars => [Paid!PurseNext]_(Paid!purseVars)
<1> SUFFICES ASSUME LedgerInv, KindsKept, [Next]_vars PROVE [Paid!PurseNext]_(Paid!purseVars)
    OBVIOUS
<1>1. ASSUME UNCHANGED <<plays, collected>>,
             \A g \in Golfer, s \in Skill, m \in Month : Xp(g, s, m)' = Xp(g, s, m)
      PROVE  UNCHANGED Paid!purseVars
  <2>1. \A g \in Golfer : Earned(g)' = Earned(g)
    BY <1>1 DEF Earned
  <2>2. earnings' = earnings /\ xps' = xps
    BY <1>1, <2>1 DEF earnings, xps
  <2> QED
    BY <2>2 DEF Paid!purseVars, earnings, xps
<1>2. ASSUME NEW g \in Golfer, GolferStep(g) PROVE Paid!PurseNext
    BY <1>2, PlayEarns, ClaimEarns, DeletingForgets DEF GolferStep
<1>3. CASE RollUp
    BY <1>1, <1>3, RollUpKeepsXp DEF RollUp
<1>4. CASE DayPasses \/ Republish \/ UNCHANGED vars
  <2>1. UNCHANGED <<plays, collected, awards, rollup>>
    BY <1>4 DEF DayPasses, Republish, vars
  <2>2. \A g \in Golfer, s \in Skill, m \in Month : Xp(g, s, m)' = Xp(g, s, m)
    BY <2>1 DEF Xp, Of, Sum, Points
  <2> QED
    BY <1>1, <2>1, <2>2
<1> QED
    BY <1>2, <1>3, <1>4 DEF Next

LEMMA PurseStarts == Init => Paid!PurseInit
<1> SUFFICES ASSUME Init PROVE Paid!PurseInit
    OBVIOUS
<1>1. \A g \in Golfer : Earned(g) = {}
  <2>1. \A x \in Collectible : Claims(NoneCollected[x]) = 0 /\ OneOffs(NoneCollected[x]) = {}
    BY DEF NoneCollected, Claims, Repeats, OneOffs
  <2> QED
    BY <2>1 DEF Init, Earned
<1>2. \A g \in Golfer, s \in Skill, m \in Month : Xp(g, s, m) = 0
  <2> SUFFICES ASSUME NEW g \in Golfer, NEW s \in Skill, NEW m \in Month PROVE Xp(g, s, m) = 0
    OBVIOUS
  <2>1. Of(awards, g, s, m) = {} /\ rollup[g][s][m] = 0
    BY DEF Init, Of, NoRollups
  <2>2. Sum(Of(awards, g, s, m)) = 0
    BY <2>1, FS_EmptySet DEF Sum, Points
  <2> QED
    BY <2>1, <2>2 DEF Xp
<1> QED
    BY <1>1, <1>2 DEF Paid!PurseInit, Paid!Nothing

(* One event pays once, in its month, and nothing else touches what was    *)
(* earned: as long as the modules published keep the collectibles' kinds,  *)
(* the ledger of awards, rolled up and deleted, implements the purse.      *)
THEOREM LedgerImplementsPurse == ASSUME KindsStay PROVE Spec => ImplementsPurse
<1>1. LedgerInv /\ KindsKept /\ [Next]_vars => [Paid!PurseNext]_(Paid!purseVars)
    BY LedgerPays
<1> QED
    BY <1>1, PurseStarts, LedgerInvHolds, KindsKeptHolds, PTL DEF Spec, ImplementsPurse, Paid!PurseSpec

=============================================================================
