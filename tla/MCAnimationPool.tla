-------------------------- MODULE MCAnimationPool --------------------------
(* A small instance of AnimationPool: events at the first step, at the end *)
(* or none; what loops is started by its caller, as in the game.           *)
EXTENDS AnimationPool

GameKinds ==
  {kind \in Kind : kind.event \in {1, One, NoEvent} /\ (kind.loop => kind.active)}

GameTicks == 1 .. 3
=============================================================================
