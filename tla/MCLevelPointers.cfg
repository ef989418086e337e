CONSTANTS
  s1 = s1
  Player = player
  Adventurer = adventurer
  Levels <- TwoLevels
  LevelThing = {s1, player, adventurer, door}
  Animated = {s1, player, adventurer}
  Slimes = {s1}
  Door = door
  Cloud = cloud
  Hearts = {heart}
  Messes = {m1, m2}
  BodyMax = 7
  ColliderMax = 6
  MessMax = 1
  None = none
SPECIFICATION Spec
INVARIANTS OwnCurves ReadsFresh
