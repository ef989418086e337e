CONSTANTS
  EntityMax = 6
  NameKey = Name
  Keys <- NameOnly
  Values = {}
  None = none
  Slimes = {s1}
  Chests = {c1}
  LastRoom = 1
  LastDoorRoom = 0
  Full = 3
  HeartMax = 1
  MessMax = 2
  NoTarget = nobody
SPECIFICATION FairSpec
CHECK_DEADLOCK FALSE
INVARIANTS CloudOfFight HeartsAlive
PROPERTIES MessesStay AdventureEnds
