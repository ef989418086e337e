------------------------------ MODULE FindPath ------------------------------
(***************************************************************************)
(* find_path (game_pathfinding.odin): A* on the grid of the rooms, one     *)
(* turn of its loop per step.                                              *)
(*                                                                         *)
(* The nodes outlive a search: g_cost, h_cost and parent keep what the     *)
(* last search left in them, that of the start included.  Only cardinal    *)
(* moves are made, at 10 each, while the estimate counts a diagonal as 14. *)
(* Walk is asked of neighbours, not of the start.                          *)
(***************************************************************************)
EXTENDS Integers, Sequences, FiniteSets

CONSTANTS
  Width, Height,  \* of the grid
  MAX_ITERATION,
  Grids,          \* sets of positions whose cells have Walk, one per level
  SearchMax       \* bound: searches one after the other

ASSUME GridAssumption ==
  /\ Width \in Nat \ {0} /\ Height \in Nat \ {0}
  /\ MAX_ITERATION \in Nat /\ SearchMax \in Nat
  /\ Grids \subseteq SUBSET ((0 .. Width - 1) \X (0 .. Height - 1))

Position == (0 .. Width - 1) \X (0 .. Height - 1)
NoParent == <<-1, -1>>

VARIABLES
  walk,                   \* the positions whose cell has Walk
  g_cost, h_cost, parent, \* of the nodes
  start, end,             \* of the search
  open_set, closed_set,
  iterations,
  result,                 \* "none" before the first search, "searching", "found", "failed"
  searches

pathVars == <<walk, g_cost, h_cost, parent, start, end, open_set, closed_set, iterations,
              result, searches>>

Distance(a, b) == IF a > b THEN a - b ELSE b - a

calculate_distance(a, b) ==
  LET x == Distance(a[1], b[1])
      y == Distance(a[2], b[2])
  IN  IF x > y THEN 14 * y + 10 * (x - y) ELSE 14 * x + 10 * (y - x)

get_node_neighbours(p) ==
  {q \in Position : Distance(p[1], q[1]) + Distance(p[2], q[2]) = 1}

f_cost(p) == g_cost[p] + h_cost[p]

-----------------------------------------------------------------------------
(* generate_levels_nodes: costs of zero, no parents.                       *)
PathInit ==
  /\ walk \in Grids
  /\ g_cost = [p \in Position |-> 0]
  /\ h_cost = [p \in Position |-> 0]
  /\ parent = [p \in Position |-> NoParent]
  /\ start = <<0, 0>> /\ end = <<0, 0>>
  /\ open_set = {} /\ closed_set = {}
  /\ iterations = 0
  /\ result = "none"
  /\ searches = 0

(* A call of find_path between two positions of the grid.                  *)
BeginSearch ==
  /\ result # "searching" /\ searches < SearchMax
  /\ start' \in Position /\ end' \in Position
  /\ open_set' = {start'} /\ closed_set' = {}
  /\ iterations' = 0
  /\ result' = "searching"
  /\ searches' = searches + 1
  /\ UNCHANGED <<walk, g_cost, h_cost, parent>>

(* Mutants: the open nodes are taken without comparing them, any node is   *)
(* stepped on, the cost an earlier search left in a node is trusted.       *)
BestUncompared(p) == p \in open_set

ImprovedThroughWalls(current) ==
  {q \in get_node_neighbours(current) \ closed_set :
     q \notin open_set \/ g_cost[current] + calculate_distance(current, q) < g_cost[q]}

ImprovedByStaleCost(current) ==
  {q \in (get_node_neighbours(current) \intersect walk) \ closed_set :
     g_cost[current] + calculate_distance(current, q) < g_cost[q] \/ parent[q] = NoParent}

(* The best of the open nodes; of equal ones, any.                         *)
Best(p) ==
  /\ p \in open_set
  /\ \A q \in open_set :
       \/ f_cost(p) < f_cost(q)
       \/ f_cost(p) = f_cost(q) /\ h_cost[p] <= h_cost[q]

(* The neighbours that current is a better way to, or the first.           *)
Improved(current) ==
  {q \in (get_node_neighbours(current) \intersect walk) \ closed_set :
     q \notin open_set \/ g_cost[current] + calculate_distance(current, q) < g_cost[q]}

(* One turn of the loop that does not reach the target.                    *)
Expand(current) ==
  /\ result = "searching" /\ Best(current) /\ current # end
  /\ LET better == Improved(current) IN
       /\ g_cost' = [q \in Position |-> IF q \in better
                       THEN g_cost[current] + calculate_distance(current, q) ELSE g_cost[q]]
       /\ h_cost' = [q \in Position |-> IF q \in better
                       THEN calculate_distance(q, end) ELSE h_cost[q]]
       /\ parent' = [q \in Position |-> IF q \in better THEN current ELSE parent[q]]
       /\ open_set' = (open_set \ {current}) \union better
  /\ closed_set' = closed_set \union {current}
  /\ iterations' = iterations + 1
  /\ result' = IF iterations' > MAX_ITERATION THEN "failed" ELSE result
  /\ UNCHANGED <<walk, start, end, searches>>

(* The turn that reaches the target: the path goes along the parents.      *)
Reach ==
  /\ result = "searching" /\ Best(end)
  /\ closed_set' = closed_set \union {end}
  /\ open_set' = open_set \ {end}
  /\ result' = "found"
  /\ UNCHANGED <<walk, g_cost, h_cost, parent, start, end, iterations, searches>>

GiveUp ==
  /\ result = "searching" /\ open_set = {}
  /\ result' = "failed"
  /\ UNCHANGED <<walk, g_cost, h_cost, parent, start, end, open_set, closed_set, iterations, searches>>

PathNext ==
  \/ BeginSearch
  \/ \E p \in Position : Expand(p)
  \/ Reach
  \/ GiveUp

PathSpec == PathInit /\ [][PathNext]_pathVars

-----------------------------------------------------------------------------
(* The reference: the positions n steps away from the start of the search. *)
Cells == Cardinality(Position)

Within[n \in 0 .. Cells] ==
  IF n = 0 THEN {start}
  ELSE LET nearer == Within[n - 1] IN
       nearer \union {q \in walk : get_node_neighbours(q) \intersect nearer # {}}

Reachable == end \in Within[Cells]
Steps == CHOOSE n \in 0 .. Cells : end \in Within[n] /\ \A m \in 0 .. n - 1 : end \notin Within[m]

(* The path found: from the target along the parents, back to the start.   *)
Path[n \in 0 .. Cells] ==
  IF n = 0 THEN end
  ELSE LET next == Path[n - 1] IN IF next = start THEN start ELSE parent[next]

(* The path that is returned leads from the start to the target over       *)
(* neighbours that can be walked, although the parents of other nodes are  *)
(* those of earlier searches (find_path, the loop along the parents).      *)
PathIsWalkable ==
  result = "found" =>
    /\ Path[Cells] = start
    /\ \A n \in 1 .. Cells :
         Path[n - 1] # start =>
           /\ Path[n - 1] \in walk
           /\ Path[n] \in get_node_neighbours(Path[n - 1])

(* No path is shorter: neither the estimate, which is smaller than any     *)
(* way, nor the costs that earlier searches left in the nodes, the start's *)
(* among them, lead the search astray (find_path).                         *)
PathIsShortest ==
  result = "found" => Reachable /\ Path[Steps] = start

(* It fails only where there is no path, or on a grid of so many nodes     *)
(* that MAX_ITERATION turns may end before the target's (find_path, "gave  *)
(* up").                                                                   *)
FailsOnlyUnreachable ==
  result = "failed" => ~Reachable \/ Cells > MAX_ITERATION + 1
=============================================================================
