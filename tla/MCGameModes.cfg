CONSTANTS
  EntityMax = 5
  NameKey = Name
  Keys <- NameOnly
  Values = {name}
  None = none
  LevelCount = 2
  ODIN_DEBUG = TRUE
SPECIFICATION Spec
INVARIANTS TitleDeletesLive LevelInRange NothingLeftOfPlay ModeReady
CHECK_DEADLOCK FALSE
