CONSTANTS
  Slimes = {slime}
  Chests = {chest}
  Torches = {}
  Bucket = bucket
  Door = door
  Messes = {m1, m2}
  WATER_LEVEL_MAX = 4
  Dirt = 3
  LEVEL_DURATION = 4
  DeltaMax = 2
  None = none
SPECIFICATION FairSpec
INVARIANTS TypeOK EachScoresOnce HandsAgree
PROPERTIES CleaningNeedsWater LevelEnds
