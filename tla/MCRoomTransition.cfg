CONSTANTS
  AnimationCount = 3
  QueueCount = 1
  One = 2
  Ticks <- GameTicks
  Kinds <- GameKinds
  Rooms <- ThreeRooms
  next_room_index <- InARow
  OnTheWay = OnTheWay
SPECIFICATION FairSpec
INVARIANTS CameraAtCurrentRoom TransitionIsInPool
PROPERTY PlayerFreed
CHECK_DEADLOCK FALSE
