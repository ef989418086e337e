\* The queue of free ids outlives the arena its buffer was taken from.
SPECIFICATION BoundedSpec
CONSTANTS
  EntityMax = 3
  Keys = {name}
  NameKey = name
  Values = {v1}
  None = none
  AddMax = 2
  TotalMax = 2
  QueueMax = 3
INVARIANT SlotsBufferInArena
CHECK_DEADLOCK FALSE
