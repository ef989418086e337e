CONSTANTS
  Control = {confirm}
  OtherKey = {other}
  Device = {d1, d2}
  NoDevice = none
SPECIFICATION FairSpec
INVARIANTS ReleaseSeen NoGhostRelease
PROPERTY HoldArrives
