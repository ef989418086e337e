--------------------------- MODULE MCEntityStore ---------------------------
(***************************************************************************)
(* Small instances of EntityStore for TLC.  A component array grows with   *)
(* every addition and never shrinks, so the runs stop adding to a type     *)
(* after AddMax additions since the last reset, and to all types after     *)
(* TotalMax.                                                               *)
(***************************************************************************)
EXTENDS EntityStore, FiniteSetsExt, TLC

CONSTANTS AddMax, TotalMax, QueueMax

Symmetry == Permutations(Values)

(* Bounds on the growing state: the component arrays, and the queue that   *)
(* stale deletions may fill with copies of the same id.                    *)
Bounded ==
  /\ \A k \in Keys : Len(data'[k]) <= AddMax
  /\ MapThenSumSet(LAMBDA k : Len(data'[k]), Keys) <= TotalMax
  /\ Len(available_slots') <= QueueMax

BoundedSpec      == Init /\ [][Next /\ Bounded]_vars
=============================================================================
