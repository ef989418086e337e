CONSTANTS
  AnimationCount = 3
  QueueCount = 1
  One = 2
  Ticks <- GameTicks
  Kinds <- NoKinds
  Rooms <- ThreeRooms
  next_room_index <- InARow
  OnTheWay = OnTheWay
SPECIFICATION Spec
INVARIANT SlotAlwaysAvailable
CHECK_DEADLOCK FALSE
