----------------------------- MODULE MCFindPath -----------------------------
(* A room of nine cells: at most one wall, a wall with a gap at one end    *)
(* (the way leads around it) and a wall without one.                       *)
EXTENDS FindPath

SmallGrids ==
  {Position \ walls : walls \in {w \in SUBSET Position : Cardinality(w) <= 1}
     \union {{<<1, 0>>, <<1, 1>>}, {<<1, 0>>, <<1, 1>>, <<1, 2>>}, {<<0, 1>>, <<1, 0>>}}}
=============================================================================
