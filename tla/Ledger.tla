------------------------------- MODULE Ledger -------------------------------
(***************************************************************************)
(* The golfers' progress (lib.cpp golfer_progress, golfer_skill, xp_award, *)
(* xp_rollup and collected; progress_rules, progress_rollup): what pays    *)
(* XP, the ledger that says so, and its roll-up.                           *)
(*                                                                         *)
(* Reach, requirements and practice decide whether an event happens, the   *)
(* effects running how much it pays: both are any choice here.  An event   *)
(* of play is keyed by its time, so no two are the same.                   *)
(***************************************************************************)
EXTENDS Integers, FiniteSets, Sequences, FiniteSetsExt

CONSTANTS
    Golfer,         \* golfers: an account's progress each
    Skill,
    ShotSkill,      \* the skill a shot pays
    ItemSkill,      \* the skills items pay
    MoveSkill,      \* the skills walking and driving pay
    Collectible,
    RewardSkill,    \* the skills of each collectible's reward
    Cooldown,       \* each one's repeatable_cooldown_holes
    Publication,    \* the contents a module may have
    Broken,         \* a module's content that does not load
    Playing,        \* what events of play are of
    KeepDays,       \* tuning server.xp_award_keep_days
    MonthDays,      \* the days of a month
    MaxXp,          \* bound: the most an event pays a skill
    MaxPlays,       \* bound: events of play of one golfer
    MaxClaims,      \* bound: claims of one repeatable collectible
    LastDay         \* bound: days

Kind == {"none", "one_off", "repeatable"}

ASSUME LedgerAssumption ==
    /\ ShotSkill \in Skill
    /\ ItemSkill \subseteq Skill
    /\ MoveSkill \subseteq Skill
    /\ RewardSkill \in [Collectible -> SUBSET Skill]
    /\ Cooldown \in [Collectible -> Nat]
    /\ Broken \notin [Collectible -> Kind]
    /\ Publication \subseteq [Collectible -> Kind] \cup {Broken}
    /\ Playing \notin Collectible
    /\ KeepDays \in Nat
    /\ MonthDays \in Nat \ {0}
    /\ MaxXp \in Nat
    /\ MaxPlays \in Nat
    /\ MaxClaims \in Nat \ {0}
    /\ LastDay \in Nat

VARIABLES
    content,    \* the kind of each collectible there is, or Broken
    day,        \* the time
    plays,      \* how many events of play each golfer had (their times)
    holes,      \* golfer_progress's holes_completed
    skill,      \* table golfer_skill
    awards,     \* table xp_award
    rollup,     \* table xp_rollup, by golfer, skill and month
    collected   \* table collected: each golfer's rows of a collectible

vars == <<content, day, plays, holes, skill, awards, rollup, collected>>

-----------------------------------------------------------------------------

Month == 0..(LastDay \div MonthDays)
award_month(d) == d \div MonthDays

(* An event's key: of a collectible the claim's number, 0 for a one-off.   *)
Event == [of : Collectible \cup {Playing}, number : 0..(MaxPlays + MaxClaims)]
Key(x, n) == [of |-> x, number |-> n]

AwardRow == [golfer : Golfer, skill : Skill, event : Event, amount : 1..MaxXp, day : 0..LastDay]
Award(g, s, e, n) == [golfer |-> g, skill |-> s, event |-> e, amount |-> n, day |-> day]

CollectedRow == [repeatable : BOOLEAN, claims : 1..MaxClaims, at : Nat \cup {-1}]
OneOffRow == [repeatable |-> FALSE, claims |-> 1, at |-> -1]
RepeatableRow(n, h) == [repeatable |-> TRUE, claims |-> n, at |-> h]

(* load_progress: claimed as a one-off; the claims of a repeatable, by the *)
(* last of its rows, and the holes completed at the last claim.            *)
OneOffs(rows) == {i \in DOMAIN rows : ~rows[i].repeatable}
Repeats(rows) == DOMAIN rows \ OneOffs(rows)
Claims(rows) == IF Repeats(rows) = {} THEN 0 ELSE rows[Max(Repeats(rows))].claims

(* collectible_available of a repeatable: once its holes are completed. *)
CooledDownEarly(g, x) ==
    LET rows == collected[g][x]
    IN  Repeats(rows) # {} => holes[g] - rows[Max(Repeats(rows))].at + 1 >= Cooldown[x]

CooledDown(g, x) ==
    LET rows == collected[g][x]
    IN  Repeats(rows) # {} => holes[g] - rows[Max(Repeats(rows))].at >= Cooldown[x]

AvailableAgain(g, x) == content[x] # "none"

Available(g, x) ==
    \/ content[x] = "one_off" /\ OneOffs(collected[g][x]) = {}
    \/ content[x] = "repeatable" /\ CooledDown(g, x)

(* store_progress of a claimed repeatable takes the collectible's last     *)
(* row, whichever kind it is of, or a new one.                             *)
Stored(rows, row) == IF rows = <<>> THEN <<row>> ELSE [rows EXCEPT ![Len(rows)] = row]

(* What an event may pay into some skills. *)
Gains(skills) ==
    {gains \in [Skill -> 0..MaxXp] : \A s \in Skill \ skills : gains[s] = 0}

(* pay_award of each: what there is to pay and no award of the key says is *)
(* paid already.                                                           *)
DueForNothing(g, e, gains) ==
    {s \in Skill : \A w \in awards : ~(w.golfer = g /\ w.event = e /\ w.skill = s)}

Due(g, e, gains) ==
    {s \in Skill :
        /\ gains[s] > 0
        /\ \A w \in awards : ~(w.golfer = g /\ w.event = e /\ w.skill = s)}

Pay(g, e, gains) ==
    LET due == Due(g, e, gains)
    IN  /\ awards' = awards \cup {Award(g, s, e, gains[s]) : s \in due}
        /\ skill' = [skill EXCEPT ![g] = [s \in Skill |-> @[s] + IF s \in due THEN gains[s] ELSE 0]]

-----------------------------------------------------------------------------
(* What pays. *)

Play(g, gains) ==
    /\ content # Broken
    /\ plays[g] < MaxPlays
    /\ plays' = [plays EXCEPT ![g] = @ + 1]
    /\ Pay(g, Key(Playing, plays[g] + 1), gains)
    /\ UNCHANGED <<content, day, rollup, collected>>

(* take_shot; a holed one completes a hole. *)
TakeShot(g, holed) ==
    /\ \E gains \in Gains({ShotSkill}) : Play(g, gains)
    /\ holes' = [holes EXCEPT ![g] = IF holed THEN @ + 1 ELSE @]

(* pay_movement, walking and driving at once. *)
Move(g) ==
    /\ \E gains \in Gains(MoveSkill) : Play(g, gains)
    /\ UNCHANGED holes

UseItem(g) ==
    /\ \E s \in ItemSkill : \E gains \in Gains({s}) : Play(g, gains)
    /\ UNCHANGED holes

(* claim_collectible. *)
Claim(g, x) ==
    LET rows == collected[g][x]
        number == IF content[x] = "one_off" THEN 0 ELSE Claims(rows) + 1
    IN  /\ content # Broken
        /\ Available(g, x)
        /\ number <= MaxClaims
        /\ \E gains \in Gains(RewardSkill[x]) : Pay(g, Key(x, number), gains)
        /\ collected' = [collected EXCEPT ![g][x] =
                            IF content[x] = "one_off" THEN Append(rows, OneOffRow)
                            ELSE Stored(rows, RepeatableRow(number, holes[g]))]
        /\ UNCHANGED <<content, day, plays, holes, rollup>>

-----------------------------------------------------------------------------
(* roll_up_xp, by the host's schedule: awards from before the cutoff are   *)
(* summed by golfer, skill and month and deleted.  It alone reads a tuning *)
(* that is not there when the content is broken: any cutoff, then.         *)

Cutoffs == IF content = Broken THEN 0..(LastDay + 1) ELSE {day - KeepDays}

(* A sum of XP is the number of its points.                                *)
Points(rows) == UNION {{w} \X (1..w.amount) : w \in rows}
Sum(rows) == Cardinality(Points(rows))
Of(rows, g, s, m) ==
    {w \in rows : w.golfer = g /\ w.skill = s /\ award_month(w.day) = m}

rolled_up_over(old) ==
    [g \in Golfer |-> [s \in Skill |-> [m \in Month |->
        IF Of(old, g, s, m) = {} THEN rollup[g][s][m] ELSE Sum(Of(old, g, s, m))]]]

rolled_up(old) ==
    [g \in Golfer |-> [s \in Skill |-> [m \in Month |-> rollup[g][s][m] + Sum(Of(old, g, s, m))]]]

RollUp ==
    \E cutoff \in Cutoffs :
        LET old == {w \in awards : w.day < cutoff}
        IN  /\ old # {}
            /\ awards' = awards \ old
            /\ rollup' = rolled_up(old)
            /\ UNCHANGED <<content, day, plays, holes, skill, collected>>

NoSkills == [s \in Skill |-> 0]
NoRollups == [s \in Skill |-> [m \in Month |-> 0]]
NoneCollected == [x \in Collectible |-> <<>>]

(* delete_account, when a guest disconnects: every row of the golfer goes. *)
(* Whoever comes next has another golfer_id, so no key is met again.       *)
DeleteAccount(g) ==
    /\ plays' = [plays EXCEPT ![g] = 0]
    /\ holes' = [holes EXCEPT ![g] = 0]
    /\ skill' = [skill EXCEPT ![g] = NoSkills]
    /\ awards' = {w \in awards : w.golfer # g}
    /\ rollup' = [rollup EXCEPT ![g] = NoRollups]
    /\ collected' = [collected EXCEPT ![g] = NoneCollected]
    /\ UNCHANGED <<content, day>>

DayPasses ==
    /\ day < LastDay
    /\ day' = day + 1
    /\ UNCHANGED <<content, plays, holes, skill, awards, rollup, collected>>

Republish ==
    /\ content' \in Publication
    /\ UNCHANGED <<day, plays, holes, skill, awards, rollup, collected>>

-----------------------------------------------------------------------------

Init ==
    /\ content \in Publication \ {Broken}
    /\ day = 0
    /\ plays = [g \in Golfer |-> 0]
    /\ holes = [g \in Golfer |-> 0]
    /\ skill = [g \in Golfer |-> NoSkills]
    /\ awards = {}
    /\ rollup = [g \in Golfer |-> NoRollups]
    /\ collected = [g \in Golfer |-> NoneCollected]

GolferStep(g) ==
    \/ \E holed \in BOOLEAN : TakeShot(g, holed)
    \/ Move(g)
    \/ UseItem(g)
    \/ \E x \in Collectible : Claim(g, x)
    \/ DeleteAccount(g)

Next == (\E g \in Golfer : GolferStep(g)) \/ RollUp \/ DayPasses \/ Republish

Spec == Init /\ [][Next]_vars

-----------------------------------------------------------------------------
(* What the ledger promises. *)

(* dedupe_key is unique: no event has two awards of one skill.             *)
AwardsUnique ==
    \A v, w \in awards :
        v.golfer = w.golfer /\ v.skill = w.skill /\ v.event = w.event => v = w

(* Every table holds rows of its type, the awards by their unique keys.    *)
LedgerTypeOK ==
    /\ content \in Publication
    /\ day \in 0..LastDay
    /\ plays \in [Golfer -> 0..MaxPlays]
    /\ holes \in [Golfer -> Nat]
    /\ skill \in [Golfer -> [Skill -> Nat]]
    /\ awards \subseteq AwardRow
    /\ AwardsUnique
    /\ rollup \in [Golfer -> [Skill -> [Month -> Nat]]]
    /\ collected \in [Golfer -> [Collectible -> Seq(CollectedRow)]]

(* "The sums keep every point: a golfer's skill XP is its awards plus its  *)
(* rollups" (progress_rollup.h), through every award, claim, roll-up and   *)
(* republish.                                                              *)
AwardsOf(g, s) == {w \in awards : w.golfer = g /\ w.skill = s}
RollupPoints(g, s) == UNION {{m} \X (1..rollup[g][s][m]) : m \in Month}

SkillIsAwardsAndRollups ==
    \A g \in Golfer, s \in Skill :
        skill[g][s] = Sum(AwardsOf(g, s)) + Cardinality(RollupPoints(g, s))

(* A repeatable collectible is claimed again only once its golfer has      *)
(* completed its cooldown's holes: n claims need n - 1 times as many.      *)
RepeatablesWait ==
    \A g \in Golfer, x \in Collectible :
        (Claims(collected[g][x]) - 1) * Cooldown[x] <= holes[g]

(* The ledger implements the purse: its rows say which events have paid,   *)
(* also those whose awards were rolled up, and how much, in which month.   *)
(* "One event pays once" (xp_award) even when its key is long gone.        *)
Earned(g) ==
    {Key(Playing, n) : n \in 1..plays[g]}
        \cup (UNION {{Key(x, n) : n \in 1..Claims(collected[g][x])} : x \in Collectible})
        \cup {Key(x, 0) : x \in {y \in Collectible : OneOffs(collected[g][y]) # {}}}

(* "Awards keep their detail for server.xp_award_keep_days"                *)
(* (networking_rules.md): no row of xp_award goes before that, but with    *)
(* all its golfer earned.                                                  *)
AwardsKeepDetail ==
    [][\A w \in awards \ awards' : w.day < day - KeepDays \/ Earned(w.golfer)' = {}]_vars

Xp(g, s, m) == Sum(Of(awards, g, s, m)) + rollup[g][s][m]

Paid == INSTANCE Purse WITH
    Amount <- 0..MaxXp,
    earned <- [g \in Golfer |-> Earned(g)],
    xp <- [g \in Golfer |-> [s \in Skill |-> [m \in Month |-> Xp(g, s, m)]]]

ImplementsPurse == Paid!PurseSpec
=============================================================================
