------------------------------- MODULE MCInputs -------------------------------
(* One input, a key beside its own, two controllers.                       *)
EXTENDS Inputs
=============================================================================
