----------------------------- MODULE Adventurer -----------------------------
(***************************************************************************)
(* The adventurer of a level, the interactions it shares with the player   *)
(* (adventurer_update and player_interaction of game_mode_play,            *)
(* entity_interact, entity_kill) and the entities they create and delete.  *)
(*                                                                         *)
(* The adventurer thinks of a target, walks to it and attacks or loots it  *)
(* frame by frame until its progress is full.  While that lasts a cloud is *)
(* shown: an entity whose id is in ONE static variable of entity_interact. *)
(* A heart deletes its own entity by the event of its animation.           *)
(*                                                                         *)
(* Distances are abstract: in_range says whether the target is closer than *)
(* ADVENTURER_ATTACK_RANGE.  Every target that stands in a room can be     *)
(* reached; a carried one cannot, its position is that of its carrier's    *)
(* frame.  The rooms lie in a row, with an exit from each to the next.     *)
(***************************************************************************)
EXTENDS Integers, Sequences

CONSTANTS
  EntityMax, Keys, NameKey, Values, None, \* of the entity store
  Slimes, Chests,  \* the targets of the adventurer
  LastRoom,        \* the rooms are 0 .. LastRoom
  LastDoorRoom,    \* the one with the last door
  Full,            \* the progress of a finished interaction, in frames
  HeartMax,        \* bound: hearts shown at the same time
  MessMax,         \* bound: messes made by a death
  NoTarget

Targets == Slimes \union Chests
Rooms   == 0 .. LastRoom

ASSUME TargetAssumption ==
  /\ Slimes \intersect Chests = {}
  /\ NoTarget \notin Targets
  /\ LastRoom \in Nat /\ LastDoorRoom \in Rooms
  /\ Full \in Nat \ {0, 1}
  /\ HeartMax \in Nat /\ MessMax \in Nat \ {0}
  /\ EntityMax \in Nat \ {0}

VARIABLES
  current_entity_id, entities, available_slots, registered, data, entity_indices,
  map_len, slots_buffer, sound,   \* the store
  mode,        \* Adventurer_Mode
  target,      \* of the combat
  path_to,     \* what the path leads to: a target, "exit", or "nowhere"
  in_range,    \* the target of the combat is
  room,        \* where the adventurer is
  player_room,
  room_of,     \* where the targets are
  carried,     \* the target the player carries, or NoTarget
  progress, done, \* Component_Interactive_Adventurer of each target
  kind,        \* what each entity is: "Cloud", "Mess", "Hearts", or "none"
  cloud,       \* static in entity_interact
  hearts,      \* the ids in the events of the running heart animations
  messes,      \* messes entity_kill has still to make
  last_door,   \* "closed" or "opened"
  history      \* "calm", "carried": a target has been, or "cloud lost": a
               \* fight began, or a library was loaded, in the middle of one

Store == INSTANCE EntityStore

storeVars == <<current_entity_id, entities, available_slots, registered, data,
               entity_indices, map_len, slots_buffer, sound>>
walkVars  == <<mode, target, path_to, in_range, room>>
otherVars == <<player_room, room_of, carried, last_door>>
vars == <<storeVars, kind, walkVars, otherVars, progress, done, cloud, hearts, messes, history>>

(* A slime that is done is dead, a chest that is done is looted; the       *)
(* cooldown of either, LOOT_COOLDOWN, outlasts the level.                  *)
dead == Slimes \intersect done

(* The components of an entity are told by its kind alone; the store keeps *)
(* its id.                                                                 *)
Create(e, k) == Store!create_entity(e) /\ kind' = [kind EXCEPT ![e] = k]
Delete(e)    == Store!entity_delete_entity(e) /\ kind' = [kind EXCEPT ![e] = "none"]

Init ==
  /\ Store!Init
  /\ kind = [e \in Store!Entity |-> "none"]
  /\ mode = "Idle" /\ target = NoTarget /\ path_to = "nowhere" /\ in_range = FALSE
  /\ room = 0 /\ player_room \in Rooms /\ room_of \in [Targets -> Rooms]
  /\ carried = NoTarget /\ last_door = "closed"
  /\ progress = [t \in Targets |-> 0] /\ done = {}
  /\ cloud = Store!ENTITY_INVALID /\ hearts = <<>> /\ messes = 0 /\ history = "calm"

(* entity_kill makes its messes before anything else happens.              *)
Ready == messes = 0

CreateMess ==
  /\ messes > 0
  /\ \E e \in Store!Entity : Create(e, "Mess")
  /\ messes' = messes - 1
  /\ UNCHANGED <<walkVars, otherVars, progress, done, cloud, hearts, history>>

-----------------------------------------------------------------------------
(* adventurer_update.  The targets in the room that are neither dead nor   *)
(* looted nor carried.                                                     *)
Wanted == {t \in Targets \ done : room_of[t] = room /\ t # carried}

Think(next_mode, next_path) ==
  /\ Ready /\ mode = "Thinking"
  /\ mode' = next_mode /\ path_to' = next_path
  /\ UNCHANGED <<storeVars, kind, target, in_range, room, player_room, room_of, carried,
                 progress, done, cloud, hearts, messes, history>>

LeaveIdle ==
  /\ Ready /\ mode = "Idle"
  /\ player_room = room
  /\ mode' = "Thinking"
  /\ UNCHANGED <<storeVars, kind, target, path_to, in_range, room, otherVars, progress, done, cloud, hearts, messes, history>>

(* Slimes before chests.                                                   *)
ThinkOfTarget ==
  /\ \E t \in Wanted :
       /\ t \in Chests => Wanted \intersect Slimes = {}
       /\ Think("Move", t)
  /\ UNCHANGED last_door

ThinkOfExit ==
  /\ Wanted = {} /\ room < LastRoom
  /\ Think("Move", "exit")
  /\ UNCHANGED last_door

(* Nothing to do: the last door is closed.                                 *)
ThinkOfNothing ==
  /\ Wanted = {} /\ room = LastRoom
  /\ Think("Idle", path_to)
  /\ last_door' = "closed"

(* The end of a path; one to a target ends in Meet, unless it was moved.   *)
Arrive ==
  /\ Ready /\ mode = "Move"
  /\ path_to \in {"exit", "nowhere"}
  /\ room' = IF path_to = "exit" THEN room + 1 ELSE room
  /\ path_to' = "nowhere"
  /\ mode' = "Thinking"
  /\ UNCHANGED <<storeVars, kind, target, in_range, otherVars, progress, done, cloud, hearts, messes, history>>

(* Passing the last door opens it.                                         *)
OpenLastDoor ==
  /\ Ready /\ mode = "Move" /\ room = LastDoorRoom
  /\ last_door' = "opened"
  /\ UNCHANGED <<storeVars, kind, walkVars, player_room, room_of, carried, progress, done, cloud, hearts, messes, history>>

(* On its way it meets the target it walks to, or another one.             *)
Meet ==
  /\ Ready /\ mode = "Move"
  /\ target' \in Wanted
  /\ mode' = "Combat"
  /\ in_range' \in BOOLEAN
  /\ UNCHANGED <<storeVars, kind, path_to, room, otherVars, progress, done, cloud, hearts, messes, history>>

(* Out of range: it walks to the target, or turns to one that is closer.   *)
Approach ==
  /\ Ready /\ mode = "Combat" /\ ~in_range
  /\ target' \in Wanted \union {target}
  /\ in_range' = (target' \in Wanted)
  /\ UNCHANGED <<storeVars, kind, mode, path_to, room, otherVars, progress, done, cloud, hearts, messes, history>>

-----------------------------------------------------------------------------
(* entity_interact for Attack and Loot.                                    *)
Interacting == Ready /\ mode = "Combat" /\ in_range /\ target \notin done

(* The first frame makes the cloud, the following ones only go on.         *)
BeginInteract ==
  /\ Interacting
  /\ progress[target] = 0
  /\ \E e \in Store!Entity : Create(e, "Cloud") /\ cloud' = e
  /\ progress' = [progress EXCEPT ![target] = 1]
  /\ history' = IF \E t \in Targets : progress[t] > 0 THEN "cloud lost" ELSE history
  /\ UNCHANGED <<walkVars, otherVars, done, hearts, messes>>

ContinueInteract ==
  /\ Interacting
  /\ progress[target] \in 1 .. Full - 2
  /\ progress' = [progress EXCEPT ![target] = @ + 1]
  /\ UNCHANGED <<storeVars, kind, walkVars, otherVars, done, cloud, hearts, messes, history>>

(* What the last frame does to the target: progress, done, entity_kill.    *)
Finished ==
  /\ progress' = [progress EXCEPT ![target] = 0]
  /\ done' = done \union {target}
  /\ messes' \in IF target \in Slimes THEN 1 .. MessMax ELSE {0}

(* Mutants: a slime's cloud is forgotten; the interaction is never done.   *)
FinishForgetsCloud ==
  /\ Interacting
  /\ progress[target] = Full - 1
  /\ IF target \in Slimes THEN UNCHANGED <<storeVars, kind>> ELSE Delete(cloud)
  /\ Finished
  /\ mode' = "Thinking"
  /\ UNCHANGED <<target, path_to, in_range, room, otherVars, cloud, hearts, history>>

FinishNeverDone ==
  /\ Interacting
  /\ progress[target] = Full - 1
  /\ Delete(cloud)
  /\ progress' = [progress EXCEPT ![target] = 0]
  /\ messes' = 0
  /\ mode' = "Thinking"
  /\ UNCHANGED <<target, path_to, in_range, room, otherVars, done, cloud, hearts, history>>

(* The last frame deletes the cloud, then kills the slime or loots the     *)
(* chest, and the adventurer thinks.                                       *)
FinishInteract ==
  /\ Interacting
  /\ progress[target] = Full - 1
  /\ Delete(cloud)
  /\ Finished
  /\ mode' = "Thinking"
  /\ UNCHANGED <<target, path_to, in_range, room, otherVars, cloud, hearts, history>>

-----------------------------------------------------------------------------
(* The player.                                                             *)
MovePlayer ==
  /\ Ready /\ player_room' \in Rooms \ {player_room}
  /\ UNCHANGED <<storeVars, kind, walkVars, room_of, carried, last_door, progress, done, cloud, hearts, messes, history>>

(* A slime that is not dead gets a heart.                                  *)
Pet ==
  /\ Ready /\ Len(hearts) < HeartMax
  /\ carried = NoTarget /\ \E s \in Slimes \ dead : room_of[s] = player_room
  /\ \E e \in Store!Entity : Create(e, "Hearts") /\ hearts' = Append(hearts, e)
  /\ UNCHANGED <<walkVars, otherVars, progress, done, cloud, messes, history>>

(* Mutant: the event is sent again in the next frame.                      *)
HeartEndsAgain ==
  /\ Ready /\ hearts # <<>>
  /\ Delete(Head(hearts))
  /\ UNCHANGED <<walkVars, otherVars, progress, done, cloud, messes, hearts, history>>

(* The event of the oldest heart's animation deletes its entity.           *)
HeartEnds ==
  /\ Ready /\ hearts # <<>>
  /\ Delete(Head(hearts))
  /\ hearts' = Tail(hearts)
  /\ UNCHANGED <<walkVars, otherVars, progress, done, cloud, messes, history>>

(* Carry, at any moment of an interaction: what the adventurer walks to or *)
(* fights is out of its reach.                                             *)
Carry ==
  /\ Ready /\ carried = NoTarget
  /\ \E t \in Targets \ dead :
       /\ room_of[t] = player_room
       /\ carried' = t
       /\ in_range' = (in_range /\ t # target)
       /\ path_to' = IF path_to = t THEN "nowhere" ELSE path_to
       /\ history' = IF history = "calm" THEN "carried" ELSE history
  /\ UNCHANGED <<storeVars, kind, mode, target, room, player_room, room_of, last_door, progress, done, cloud, hearts, messes>>

entity_throw ==
  /\ Ready /\ carried # NoTarget
  /\ room_of' = [room_of EXCEPT ![carried] = player_room]
  /\ carried' = NoTarget
  /\ UNCHANGED <<storeVars, kind, walkVars, player_room, last_door, progress, done, cloud, hearts, messes, history>>

-----------------------------------------------------------------------------
(* A new library is loaded between two frames: its static is zero, and in  *)
(* the middle of a fight that is not the cloud's id.                       *)
Reload ==
  /\ Ready
  /\ cloud' = Store!ENTITY_INVALID
  /\ history' = IF \E t \in Targets : progress[t] > 0 THEN "cloud lost" ELSE history
  /\ UNCHANGED <<storeVars, kind, walkVars, otherVars, progress, done, hearts, messes>>

-----------------------------------------------------------------------------
AdventurerUpdate ==
  \/ LeaveIdle \/ ThinkOfTarget \/ ThinkOfExit \/ ThinkOfNothing \/ Arrive \/ Meet \/ Approach
  \/ BeginInteract \/ ContinueInteract \/ FinishInteract \/ CreateMess

Next ==
  \/ AdventurerUpdate \/ OpenLastDoor
  \/ MovePlayer \/ Pet \/ Carry \/ entity_throw
  \/ HeartEnds \/ Reload

Spec == Init /\ [][Next]_vars

(* Every frame updates the adventurer.                                     *)
FairSpec == Spec /\ WF_vars(AdventurerUpdate)

-----------------------------------------------------------------------------
(* A cloud is shown exactly while a target is attacked or looted, it is    *)
(* the one the static variable names, and it is gone with the fight        *)
(* (entity_interact): the id deleted at the end is that of the cloud, also *)
(* when the player has carried the target away for a while, unless the     *)
(* adventurer has begun another fight or a library was loaded meanwhile; a *)
(* library that is loaded between two fights does no harm.                 *)
CloudOfFight ==
  history # "cloud lost" =>
    {e \in Store!Entity : kind[e] = "Cloud"}
      = IF \E t \in Targets : progress[t] > 0 THEN {cloud} ELSE {}

(* The event of a heart finds the entity it was made for: its id has not   *)
(* been deleted and given away before (entity_create_heart).               *)
HeartsAlive ==
  history # "cloud lost" => \A n \in 1 .. Len(hearts) : kind[hearts[n]] = "Hearts"

(* A mess stays an entity until the level ends, cleaned or not: no event   *)
(* and no cloud deletes it (entity_kill, entity_clean).                    *)
MessesStay ==
  [][history # "cloud lost" =>
       \A e \in Store!Entity : kind[e] = "Mess" => kind'[e] = "Mess"]_vars

(* Once it has begun to think the adventurer clears every room and         *)
(* comes to rest in the last one and closes the last door, where the       *)
(* player needs it closed to leave the level (adventurer_update), if the   *)
(* player carries nothing away from it.                                    *)
AdventureEnds ==
  mode = "Thinking" ~>
    \/ history # "calm"
    \/ mode = "Idle" /\ room = LastRoom /\ last_door = "closed" /\ done = Targets
=============================================================================
