--------------------------- MODULE MCLevelPointers ---------------------------
(* Levels with a slime or none, and the last door, which has no collider   *)
(* in a level that begins with it open.                                    *)
EXTENDS LevelPointers

CONSTANT s1
Creatures == <<Player, Adventurer>>
TwoLevels ==
  {[body |-> <<s1, Door>> \o Creatures, collider |-> <<s1>> \o Creatures],
   [body |-> <<Door>> \o Creatures, collider |-> <<Door>> \o Creatures]}
=============================================================================
