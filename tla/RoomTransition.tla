--------------------------- MODULE RoomTransition ---------------------------
(***************************************************************************)
(* Moving from room to room (make_room_transition and the player update of *)
(* game_mode_play) on top of the animation pool.                           *)
(*                                                                         *)
(* When the player is outside of what the camera shows and walks in the    *)
(* direction in which it lies from the middle of the current room, the     *)
(* room on that side becomes the current one and an animation carries the  *)
(* camera there; the player stands still until it is done.  The pointer    *)
(* room_transition outlives the animation: it is only compared with nil    *)
(* and asked whether it is done.  Other animations (hearts, clouds) take   *)
(* slots of the same pool.  A frame is a play step, then one pass of       *)
(* animation_update.                                                       *)
(*                                                                         *)
(* Where the player is, is left open: walking in another direction, an     *)
(* exact diagonal for one, it leaves the camera's bounds without a         *)
(* transition, and may make one from anywhere later.  Only the start, the  *)
(* end and "on the way" are told apart of the camera's position.           *)
(***************************************************************************)
EXTENDS Integers, Sequences

CONSTANTS
  AnimationCount, QueueCount, One, Ticks, Kinds, \* of the animation pool
  Rooms,       \* the rooms of a level
  next_room_index, \* of a room and a direction, the room that lies there, or
               \*   the first room of the level if there is none
  OnTheWay     \* the camera between two rooms

(* The results of general_direction; a diagonal has none.                  *)
Direction == {"left", "right", "up", "down", "none"}

ASSUME RoomAssumption ==
  /\ next_room_index \in [Rooms \X Direction -> Rooms]
  /\ OnTheWay \notin Rooms

VARIABLES
  animations, queues, failure, \* the pool
  curves,              \* per slot: the camera's way, or NoCurve
  room_transition,     \* the slot of the last transition, or NoSlot for nil
  current_room_index,
  camera,              \* the room the camera shows, or OnTheWay
  playing,             \* in game mode Play
  step                 \* what the frame does next: "play" or "animate"

Pool == INSTANCE AnimationPool

ASSUME PoolAssumption ==
  /\ AnimationCount \in Nat \ {0} /\ QueueCount \in Nat \ {0} /\ One \in Nat \ {0}
  /\ Ticks \subseteq Nat \ {0} /\ Kinds \subseteq Pool!Kind

vars == <<animations, queues, failure, curves, room_transition, current_room_index,
          camera, playing, step>>

roomVars == <<room_transition, current_room_index, playing>>

NoCurve == <<OnTheWay, OnTheWay>>

(* An animation of game_play.odin:914: active, once, no event.             *)
TransitionKind == [active |-> TRUE, loop |-> FALSE, parallel |-> FALSE, event |-> Pool!NoEvent]

is_room_transitioning ==
  room_transition # Pool!NoSlot /\ ~Pool!animation_is_done(room_transition)

Init ==
  /\ Pool!Init
  /\ curves = [i \in Pool!Slot |-> NoCurve]
  /\ room_transition = Pool!NoSlot
  /\ current_room_index \in Rooms
  /\ camera = current_room_index
  /\ playing = TRUE
  /\ step = "play"

-----------------------------------------------------------------------------
(* The pool once the old transition is deleted, which keeps its slot, and  *)
(* the new one is created in slot i.                                       *)
Replaced(i) ==
  [j \in Pool!Slot |->
     IF j = i THEN Pool!New(TransitionKind)
     ELSE IF j = room_transition THEN [animations[j] EXCEPT !.active = FALSE]
     ELSE animations[j]]

(* is_room_transitioning has been tested by the caller.                    *)
make_room_transition(direction) ==
  /\ ~is_room_transitioning
  /\ current_room_index' = next_room_index[<<current_room_index, direction>>]
  /\ \/ \E i \in Pool!Slot :
          /\ Pool!available_index(i)
          /\ animations' = Replaced(i)
          /\ curves' = [curves EXCEPT ![i] = <<camera, current_room_index'>>]
          /\ room_transition' = i
          /\ UNCHANGED <<queues, failure>>
     \/ Pool!NoSlotAvailable /\ UNCHANGED <<curves, room_transition>>

(* The player, outside of the camera's bounds, walks in the direction in   *)
(* which it lies from the middle of the current room.                      *)
LeaveRoom ==
  /\ playing /\ step = "play" /\ failure = "none"
  /\ \E direction \in Direction : make_room_transition(direction)
  /\ step' = "animate"
  /\ UNCHANGED <<camera, playing>>

(* Any other frame of the mode: the player stands, or walks within the     *)
(* bounds, or out of them in another direction; nothing here changes.      *)
StayInRoom ==
  /\ step = "play" /\ failure = "none"
  /\ step' = "animate"
  /\ UNCHANGED <<animations, queues, failure, curves, roomVars, camera>>

(* The game creates an animation of its own.                               *)
CreateOther ==
  /\ playing /\ step = "play"
  /\ \/ \E i \in Pool!Slot, kind \in Kinds : Pool!animation_create_animation(i, kind)
     \/ Kinds # {} /\ Pool!NoSlotAvailable
  /\ UNCHANGED <<curves, roomVars, camera, step>>

-----------------------------------------------------------------------------
(* Mutants: the end of the mode without animation_reset_memory, and        *)
(* without zeroing the state of the mode.                                  *)
ExitKeepsAnimations ==
  /\ playing /\ step = "play" /\ failure = "none"
  /\ playing' = FALSE
  /\ room_transition' = Pool!NoSlot
  /\ step' = "animate"
  /\ UNCHANGED <<animations, queues, failure, curves, current_room_index, camera>>

ExitKeepsState ==
  /\ playing /\ step = "play"
  /\ Pool!animation_reset_memory
  /\ playing' = FALSE
  /\ curves' = [i \in Pool!Slot |-> NoCurve]
  /\ step' = "animate"
  /\ UNCHANGED <<room_transition, current_room_index, camera>>

(* Game_Over ends the mode, in the middle of a transition or not: the pool *)
(* and the state of the mode are zeroed.                                   *)
PlayExit ==
  /\ playing /\ step = "play"
  /\ Pool!animation_reset_memory
  /\ playing' = FALSE
  /\ curves' = [i \in Pool!Slot |-> NoCurve]
  /\ room_transition' = Pool!NoSlot
  /\ step' = "animate"
  /\ UNCHANGED <<current_room_index, camera>>

(* The mode is entered again: the room of the player's spawn position.     *)
PlayEnter ==
  /\ ~playing /\ step = "play"
  /\ playing' = TRUE
  /\ current_room_index' \in Rooms
  /\ camera' = current_room_index'
  /\ step' = "animate"
  /\ UNCHANGED <<animations, queues, failure, curves, room_transition>>

-----------------------------------------------------------------------------
(* Where the curve of slot i puts the camera at time t.                    *)
CameraAt(i, t) ==
  IF t = One THEN curves[i][2] ELSE IF t = 0 THEN curves[i][1] ELSE OnTheWay

(* Slots write to the camera in the order of the pool: the last one wins.  *)
Moved == {i \in Pool!Slot : animations[i].active /\ curves[i] # NoCurve}

Animate ==
  /\ step = "animate"
  /\ Pool!Update
  /\ camera' = IF Moved = {} THEN camera
               ELSE LET last == CHOOSE i \in Moved : \A j \in Moved : j <= i
                    IN  CameraAt(last, animations'[last].t)
  /\ step' = "play"
  /\ UNCHANGED <<curves, roomVars>>

Next ==
  \/ LeaveRoom
  \/ StayInRoom
  \/ CreateOther
  \/ PlayExit
  \/ PlayEnter
  \/ Animate

Spec == Init /\ [][Next]_vars

(* Frames go on: game_update plays and animates in every frame.            *)
FairSpec == Spec /\ WF_vars(StayInRoom) /\ WF_vars(Animate)

-----------------------------------------------------------------------------
(* Whenever the player may move, the camera stands at the current room,    *)
(* the room whose sides the next transition goes by: no animation of an    *)
(* earlier transition, or of an earlier game, still moves it               *)
(* (make_room_transition).                                                 *)
CameraAtCurrentRoom ==
  playing /\ failure = "none" /\ ~is_room_transitioning => camera = current_room_index

(* A transition whose pointer is kept is one the pool knows: nobody asks a *)
(* zeroed slot whether it is done (is_room_transitioning).                 *)
TransitionIsInPool ==
  room_transition # Pool!NoSlot => animations[room_transition].used

(* The player is never held for good by a transition                       *)
(* (is_room_transitioning in the player update of game_mode_play).         *)
PlayerFreed == is_room_transitioning ~> (~is_room_transitioning \/ failure # "none")

(* The assertion of animation_create_animation ("no animation slot         *)
(* available"): walking between rooms always finds a slot.                 *)
SlotAlwaysAvailable == failure # "no animation slot available"
=============================================================================
