---------------------------- MODULE MCGameModes ----------------------------
(* Two levels, as in the game, and few entities in each.                   *)
EXTENDS GameModes

NameOnly == {NameKey}
=============================================================================
