\* The ledger of MCLedger.cfg, whose module may be republished broken.
CONSTANTS
    g1 = g1
    swing = swing
    fitness = fitness
    ball = ball
    token = token
    Golfer <- MCGolfer
    Skill <- MCSkill
    ShotSkill = swing
    ItemSkill <- MCMoveSkill
    MoveSkill <- MCMoveSkill
    Collectible <- MCCollectible
    RewardSkill <- MCRewardSkill
    Cooldown <- MCCooldown
    Publication <- MCPublication
    Broken = Broken
    Playing = Playing
    KeepDays = 1
    MonthDays = 2
    MaxXp = 1
    MaxPlays = 1
    MaxClaims = 2
    LastDay = 3
SPECIFICATION Spec
PROPERTY AwardsKeepDetail
