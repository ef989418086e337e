-------------------------- MODULE MCRoomTransition --------------------------
(* Three rooms in a row.  Above and below there is none, so that leads to  *)
(* the first of them.                                                      *)
EXTENDS RoomTransition

ThreeRooms == 0 .. 2
InARow     ==
  [way \in ThreeRooms \X Direction |->
     CASE way[2] = "right" /\ way[1] < 2 -> way[1] + 1
       [] way[2] = "left" /\ way[1] > 0  -> way[1] - 1
       [] way[2] = "none"                -> way[1]
       [] OTHER                          -> 0]
GameTicks  == 1 .. 3

(* A cloud loops, a heart is done once and then calls its event.           *)
GameKinds ==
  {[active |-> TRUE, loop |-> TRUE, parallel |-> FALSE, event |-> 2],
   [active |-> TRUE, loop |-> FALSE, parallel |-> FALSE, event |-> 2]}
NoKinds == {}
=============================================================================
