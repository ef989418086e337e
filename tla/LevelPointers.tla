---------------------------- MODULE LevelPointers ----------------------------
(***************************************************************************)
(* The addresses and slices of component arrays that a level keeps: the    *)
(* curves of the animations point into the arrays of transforms and        *)
(* sprites until the level ends, and each frame of game_mode_play works    *)
(* with slices of the arrays and copies of the index maps, which it fetches *)
(* anew only when recompute_colliders says so, and with pointers to        *)
(* elements of the player and the adventurer, which it takes once.         *)
(*                                                                         *)
(* An array is the sequence of the entities that own its elements.  A      *)
(* transform and a sprite are added and removed together, so they are one  *)
(* array, "body".  A copy of a map shares its cells with the map until an  *)
(* insertion makes that one grow: then the copy stays as it was.           *)
(*                                                                         *)
(* The entities of a level are never deleted before it ends; clouds,       *)
(* hearts and messes come and go.                                          *)
(***************************************************************************)
EXTENDS Integers, Sequences

CONSTANTS
  Levels,             \* of each level, the entities with a body and those
                      \*   with a collider, in the order of their creation
  LevelThing,         \* the entities of the levels; the player, the
  Player, Adventurer, \*   adventurer and the slimes have an animation
  Animated, Slimes,
  Door,               \* the last door
  Cloud, Hearts, Messes,
  BodyMax,            \* bounds: the elements of the arrays
  ColliderMax,
  MessMax,            \* bound: the messes of one death
  None

Transient == {Cloud} \union Hearts \union Messes
Thing     == LevelThing \union Transient

ASSUME PointersAssumption ==
  /\ Levels \subseteq [body : Seq(LevelThing), collider : Seq(LevelThing)]
  /\ Slimes \subseteq Animated /\ Animated \subseteq LevelThing
  /\ Door \in LevelThing \ Animated
  /\ {Player, Adventurer} \subseteq LevelThing \ {Door}
  /\ LevelThing \intersect Transient = {} /\ None \notin Thing
  /\ Cloud \notin Hearts \union Messes /\ Hearts \intersect Messes = {}
  /\ BodyMax \in Nat /\ ColliderMax \in Nat /\ MessMax \in Nat \ {0}

Component == {"body", "collider"}

VARIABLES
  step,      \* "outside" of a level, or the part of the frame that is next
  owners,    \* the entity each element of an array belongs to, or None
  slices,    \* what the frame has fetched of each array and its map
  recompute_colliders,
  pointers,  \* to elements of each array: the player's, taken when the frame
             \*   begins, and the adventurer's, when its part does
  curves,    \* of the pool: the element each curve writes to
  dead,      \* the slimes that were killed
  messes     \* messes entity_kill has still to make

vars == <<step, owners, slices, recompute_colliders, pointers, curves, dead, messes>>

(* A map that shares its cells is told by <<>>, else it is the old array.  *)
Shared == <<>>
Fetched == [k \in Component |-> [len |-> Len(owners[k]), map |-> Shared]]
Gone    == [k \in Component |-> [len |-> 0, map |-> Shared]]

NoPointers == [k \in Component |-> {}]

Init ==
  /\ step = "outside"
  /\ owners = [k \in Component |-> <<>>]
  /\ slices = Gone
  /\ recompute_colliders = FALSE
  /\ pointers = NoPointers
  /\ curves = {}
  /\ dead = {} /\ messes = 0

-----------------------------------------------------------------------------
(* The entity store.                                                       *)
Owned(array) == {array[i] : i \in DOMAIN array} \ {None}
Has(k, t)    == t \in Owned(owners[k])
position(array, t) == CHOOSE i \in DOMAIN array : array[i] = t
NoDuplicate(array) ==
  \A i, j \in DOMAIN array : array[i] = array[j] /\ array[i] # None => i = j

(* A level has the last door, the player and the adventurer; what has a    *)
(* collider has a body.                                                    *)
ASSUME LevelsAssumption ==
  \A level \in Levels :
    /\ NoDuplicate(level.body)
    /\ Door \in Owned(level.body) /\ {Player, Adventurer} \subseteq Owned(level.collider)
    /\ Owned(level.collider) \subseteq Owned(level.body)

(* The last element takes the place of the removed one, whose values stay  *)
(* behind it, nobody's; nothing shrinks.                                   *)
Removed(array, t) ==
  [array EXCEPT ![position(array, t)] = array[Len(array)], ![Len(array)] = None]

Delete(t) ==
  /\ owners' = [k \in Component |-> IF Has(k, t) THEN Removed(owners[k], t) ELSE owners[k]]
  /\ UNCHANGED slices

(* The array as it is found through the slice and the copied map.          *)
Found(k) == IF slices[k].map = Shared THEN owners[k] ELSE slices[k].map

PointerTo(t, array) == [of |-> t, at |-> position(array, t)]

CanCreate(t) ==
  /\ \A k \in Component : ~Has(k, t)
  /\ Len(owners["body"]) < BodyMax
  /\ Len(owners["collider"]) < ColliderMax

(* Some of the maps grow.                                                  *)
Create(t, components) ==
  /\ CanCreate(t)
  /\ owners' = [k \in Component |-> IF k \in components THEN Append(owners[k], t) ELSE owners[k]]
  /\ \E grown \in SUBSET components :
       slices' = [k \in Component |->
                    IF k \in grown /\ slices[k].map = Shared
                    THEN [slices[k] EXCEPT !.map = owners[k]]
                    ELSE slices[k]]

(* A new animation points to the sprite that was just added.               *)
Animate(t) == curves' = curves \union {[of |-> t, at |-> Len(owners'["body"])]}

-----------------------------------------------------------------------------
(* Mutant: the frame works with what it fetched at its beginning.          *)
keep_components(next_step) == step' = next_step /\ UNCHANGED slices

(* check_update_components between two parts of a frame, if it is due.     *)
check_update_components(next_step) ==
  /\ step' = next_step
  /\ slices' = IF recompute_colliders THEN Fetched ELSE slices

(* The entering of a level.                                                *)
EnterLevel ==
  /\ step = "outside"
  /\ \E level \in Levels :
       /\ owners' = level
       /\ curves' = curves \union
            {[of |-> t, at |-> position(level.body, t)] : t \in Animated \intersect Owned(level.body)}
  /\ recompute_colliders' = TRUE
  /\ step' = "frame"
  /\ UNCHANGED <<slices, pointers, dead, messes>>

BeginFrame ==
  /\ step = "frame"
  /\ step' = "timers"
  /\ slices' = Fetched
  /\ pointers' = [k \in Component |-> {PointerTo(Player, owners[k])}]
  /\ UNCHANGED <<owners, recompute_colliders, curves, dead, messes>>

-----------------------------------------------------------------------------
(* Mutant: a mess without the flag.                                        *)
SilentTimer ==
  /\ step = "timers"
  /\ \E m \in Messes : Create(m, Component)
  /\ UNCHANGED <<step, recompute_colliders, pointers, curves, dead, messes>>

update_timers ==
  /\ step = "timers"
  /\ \E m \in Messes : Create(m, Component)
  /\ recompute_colliders' = TRUE
  /\ UNCHANGED <<step, pointers, curves, dead, messes>>

(* The player moves, with what is fetched again if a timer has run; then   *)
(* adventurer_update takes adv_transform and adv_collider.                 *)
player_update ==
  /\ step = "timers"
  /\ check_update_components("adventurer")
  /\ UNCHANGED <<owners, recompute_colliders, curves, dead, messes>>
  /\ pointers' = [k \in Component |-> pointers[k] \union {PointerTo(Adventurer, Found(k)')}]

-----------------------------------------------------------------------------
(* adventurer_update does one of these.  After the door it looks for       *)
(* targets among the colliders it has fetched, and for its own through the *)
(* pointer; in the end it writes its position through the other pointer.   *)
entity_open_door ==
  /\ step = "adventurer"
  /\ owners' = [owners EXCEPT !["collider"] = IF Has("collider", Door) THEN Removed(@, Door) ELSE @]
  /\ recompute_colliders' = TRUE
  /\ step' = "opened"
  /\ UNCHANGED <<slices, pointers, curves, dead, messes>>

entity_close_door ==
  /\ step = "adventurer"
  /\ IF Has("collider", Door) THEN UNCHANGED <<owners, slices>>
     ELSE /\ Len(owners["collider"]) < ColliderMax
          /\ owners' = [owners EXCEPT !["collider"] = Append(@, Door)]
          /\ \/ UNCHANGED slices
             \/ slices["collider"].map = Shared
                /\ slices' = [slices EXCEPT !["collider"].map = owners["collider"]]
  /\ recompute_colliders' = TRUE
  /\ step' = "adventured"
  /\ UNCHANGED <<pointers, curves, dead, messes>>

BeginFight ==
  /\ step = "adventurer"
  /\ Create(Cloud, {"body"})
  /\ Animate(Cloud)
  /\ step' = "adventured"
  /\ UNCHANGED <<recompute_colliders, pointers, dead, messes>>

FinishLoot ==
  /\ step = "adventurer" /\ Has("body", Cloud)
  /\ Delete(Cloud)
  /\ step' = "adventured"
  /\ UNCHANGED <<recompute_colliders, pointers, curves, dead, messes>>

(* Mutant: a slime that is killed is deleted.                              *)
KillDeletes ==
  /\ step = "adventurer" /\ Has("body", Cloud)
  /\ \E s \in Slimes \ dead :
       /\ Has("body", s)
       /\ Delete(s)
       /\ dead' = dead \union {s}
  /\ messes' \in 1 .. MessMax
  /\ recompute_colliders' = TRUE
  /\ step' = "adventured"
  /\ UNCHANGED <<pointers, curves>>

(* The cloud goes; entity_kill empties the components of the slime, which  *)
(* stay where they are, and makes its messes.                              *)
FinishAttack ==
  /\ step = "adventurer" /\ Has("body", Cloud)
  /\ Delete(Cloud)
  /\ \E s \in Slimes \ dead : Has("body", s) /\ dead' = dead \union {s}
  /\ messes' \in 1 .. MessMax
  /\ recompute_colliders' = TRUE
  /\ step' = "adventured"
  /\ UNCHANGED <<pointers, curves>>

CreateMess ==
  /\ step = "adventured" /\ messes > 0
  /\ \E m \in Messes : Create(m, Component)
  /\ messes' = messes - 1
  /\ UNCHANGED <<step, recompute_colliders, pointers, curves, dead>>

(* Messes that find no room within the bound are left out.                 *)
AdventurerEnds ==
  /\ \/ step \in {"adventurer", "opened"}
     \/ step = "adventured" /\ (messes = 0 \/ \A m \in Messes : ~CanCreate(m))
  /\ messes' = 0
  /\ check_update_components("interaction")
  /\ UNCHANGED <<owners, recompute_colliders, pointers, curves, dead>>

-----------------------------------------------------------------------------
(* player_interaction looks at every collider and its transform, then acts. *)
LookAround ==
  /\ step = "interaction"
  /\ step' = "interacting"
  /\ UNCHANGED <<owners, slices, recompute_colliders, pointers, curves, dead, messes>>

Pet ==
  /\ step = "interacting"
  /\ \E h \in Hearts : Create(h, {"body"}) /\ Animate(h)
  /\ UNCHANGED <<step, recompute_colliders, pointers, dead, messes>>

(* entity_kill of a mess: it stays where it is, empty.                     *)
entity_clean ==
  /\ step = "interacting"
  /\ Messes \intersect Owned(owners["collider"]) # {}
  /\ recompute_colliders' = TRUE
  /\ UNCHANGED <<step, owners, slices, pointers, curves, dead, messes>>

(* The debug build draws the colliders.                                    *)
InteractionEnds ==
  /\ step = "interacting"
  /\ check_update_components("draw")
  /\ UNCHANGED <<owners, recompute_colliders, pointers, curves, dead, messes>>

EndFrame ==
  /\ step = "draw"
  /\ recompute_colliders' = FALSE
  /\ slices' = Gone /\ pointers' = NoPointers
  /\ step' = "animate"
  /\ UNCHANGED <<owners, curves, dead, messes>>

-----------------------------------------------------------------------------
(* animation_update: the event of a heart deletes it; its curve stays.     *)
HeartEnds ==
  /\ step = "animate"
  /\ \E h \in Hearts : Has("body", h) /\ Delete(h)
  /\ UNCHANGED <<step, recompute_colliders, pointers, curves, dead, messes>>

NextFrame ==
  /\ step = "animate"
  /\ step' = "frame"
  /\ UNCHANGED <<owners, slices, recompute_colliders, pointers, curves, dead, messes>>

(* Mutant: the exit leaves the pool as it is.                              *)
ExitWithoutPool ==
  /\ step = "draw"
  /\ owners' = [k \in Component |-> <<>>]
  /\ recompute_colliders' = FALSE
  /\ dead' = {}
  /\ slices' = Gone /\ pointers' = NoPointers
  /\ step' = "outside"
  /\ UNCHANGED <<curves, messes>>

(* The exit in the last frame: entity_reset_memory, whose arrays come from *)
(* the same place in the next level, and animation_reset_memory.           *)
ExitLevel ==
  /\ step = "draw"
  /\ owners' = [k \in Component |-> <<>>]
  /\ curves' = {}
  /\ recompute_colliders' = FALSE
  /\ dead' = {}
  /\ slices' = Gone /\ pointers' = NoPointers
  /\ step' = "outside"
  /\ UNCHANGED messes

-----------------------------------------------------------------------------
Next ==
  \/ EnterLevel \/ BeginFrame \/ update_timers \/ player_update
  \/ entity_open_door \/ entity_close_door
  \/ BeginFight \/ FinishLoot \/ FinishAttack \/ CreateMess \/ AdventurerEnds
  \/ LookAround \/ Pet \/ entity_clean \/ InteractionEnds
  \/ EndFrame \/ HeartEnds \/ NextFrame \/ ExitLevel

Spec == Init /\ [][Next]_vars

-----------------------------------------------------------------------------
(* A curve made for an entity of the level writes to that entity's sprite  *)
(* and transform as long as the level lasts, and no curve of a cloud or a  *)
(* heart ever writes to one of them, whatever is created and deleted, also *)
(* when the level is entered again (make_aseprite_animation keeps          *)
(* &component_sprite.texture_position; entity_kill leaves the entity).     *)
OwnCurves ==
  step # "outside" => \A c \in curves :
    LET owner == owners["body"][c.at]
    IN  c.at \in DOMAIN owners["body"] /\ (c.of \in LevelThing \/ owner \in LevelThing => owner = c.of)

(* What a part of the frame finds through its slice and its copy of the    *)
(* map of k are the elements of all entities that have one, each its own.  *)
Fresh(k) ==
  LET elements(array) == {<<i, array[i]>> : i \in {j \in DOMAIN array : array[j] # None}}
  IN  /\ elements(Found(k)) = elements(owners[k])
      /\ \A i \in DOMAIN Found(k) : Found(k)[i] # None => i <= slices[k].len

(* When a part of the frame reads colliders, and the transforms of their   *)
(* owners, through its slices and maps, they are those of this moment      *)
(* (recompute_colliders): no index beyond the slice, no collider of        *)
(* something deleted, none left out.                                       *)
SlicesFresh ==
  /\ step \in {"adventurer", "opened", "interaction", "draw"} => Fresh("collider")
  /\ step \in {"adventurer", "interaction"} =>
       \A t \in Owned(owners["collider"]) :
         /\ t \in Owned(Found("body"))
         /\ position(Found("body"), t) = position(owners["body"], t)
         /\ position(Found("body"), t) <= slices["body"].len

PointsToOwn(p, k) == owners[k][p.at] = p.of

(* The pointers of the frame lead to the transform of the player and of    *)
(* the adventurer, whatever comes and goes until the last use; to their    *)
(* colliders they lead until the adventurer opens the last door.  After    *)
(* that adv_collider, which is read once more, is still right unless the   *)
(* collider was the last of the array: it has moved into the door's place, *)
(* and what is read is the box the door had (game_mode_play,               *)
(* _remove_component_with_typeid).                                         *)
PointersKept ==
  /\ \A p \in pointers["body"] : PointsToOwn(p, "body")
  /\ step \in {"timers", "adventurer"} => \A p \in pointers["collider"] : PointsToOwn(p, "collider")
  /\ step = "opened" => \A p \in pointers["collider"] :
       \/ PointsToOwn(p, "collider")
       \/ p.at = Len(owners["collider"]) /\ owners["collider"][p.at] = None

(* All a part of the frame reads is of this moment, but for adv_collider   *)
(* after the door (game_mode_play).                                        *)
ReadsFresh == SlicesFresh /\ PointersKept
=============================================================================
