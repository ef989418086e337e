\* Callers that forget deleted ids: three usable ids, two component types.
SPECIFICATION BoundedSpec
CONSTANTS
  EntityMax = 4
  Keys = {name, sprite}
  NameKey = name
  Values = {v1, v2}
  None = none
  AddMax = 3
  TotalMax = 5
  QueueMax = 4
SYMMETRY Symmetry
INVARIANTS TypeOK SlotsSound NoSlotLeak FreeIdsAreBare IndexConsistent RenderSortSafe
PROPERTY ImplementsRegistry
CHECK_DEADLOCK FALSE
