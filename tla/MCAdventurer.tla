---------------------------- MODULE MCAdventurer ----------------------------
(* Two rooms, a slime and a chest that the player may carry around.         *)
EXTENDS Adventurer

NameOnly == {NameKey}
=============================================================================
