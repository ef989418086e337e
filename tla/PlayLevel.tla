------------------------------ MODULE PlayLevel ------------------------------
(***************************************************************************)
(* What the player does in a level (game_mode_play): walking uses water,   *)
(* walking over a mess cleans it, the hands carry, repair and refill, and  *)
(* the clock ends the level.  A frame runs through its parts in the order  *)
(* of the code; what lies in reach of the player is any part of what has a *)
(* collider of the right type.  Of the adventurer, the effects on these    *)
(* things matter: it kills slimes, carried or not, opens and closes the    *)
(* last door.  Amounts of water, dirt and time are whole numbers.          *)
(***************************************************************************)
EXTENDS Integers, FiniteSets

CONSTANTS
  Slimes, Chests, Torches, Bucket, Door, Messes,
  WATER_LEVEL_MAX,
  Dirt,           \* bound: the progress at which a mess is gone
  LEVEL_DURATION,
  DeltaMax,       \* bound: the longest frame
  None

CLEANER_MODE_CLEAN_MULTIPLIER == 2
CLEANER_MODE_WATER_MULTIPLIER == 3

Carriable  == Slimes \union Chests \union {Bucket}
Repairable == Chests \union Torches
Thing      == Carriable \union Repairable \union {Door} \union Messes

ASSUME LevelAssumption ==
  /\ WATER_LEVEL_MAX \in Nat \ {0} /\ Dirt \in Nat \ {0}
  /\ LEVEL_DURATION \in Nat \ {0} /\ DeltaMax \in Nat \ {0}
  /\ IsFiniteSet(Messes) /\ IsFiniteSet(Repairable)
  /\ Messes \intersect (Carriable \union Repairable) = {}
  /\ Door \notin Carriable \union Repairable \union Messes
  /\ None \notin Thing

VARIABLES
  step,           \* "outside" of a level, or the part of the frame that is next
  exiting,        \* the transition to game over has been asked for
  delta,          \* the time the frame takes
  player_moved,
  water_level, mode, \* Component_Cleaner
  carrier,        \* the target of the player's Component_Carrier, or None
  carried,        \* the things whose transform has the player as parent
  hands_free,     \* player_carrier_err, read before the interaction
  colliding,      \* the things whose collider has a type
  dead,
  progress,       \* of each mess
  done,           \* the things that are repaired
  score,
  time_remaining,
  spent,          \* history: walking has used water in this frame,
  refilled        \*   the interaction has added some

historyVars == <<spent, refilled>>
frameVars == <<step, delta, player_moved, hands_free, historyVars>>
handVars  == <<carrier, carried>>
waterVars == <<water_level, mode>>
thingVars == <<colliding, dead>>
scoreVars == <<progress, done, score>>
clockVars == <<exiting, time_remaining>>
vars == <<frameVars, handVars, waterVars, thingVars, scoreVars, clockVars>>

Absent == {m \in Messes : m \notin colliding \union dead}

(* Nothing of a level is left outside of it.                               *)
Init ==
  /\ step = "outside"
  /\ delta = 0 /\ player_moved = FALSE /\ hands_free = FALSE /\ spent = FALSE /\ refilled = FALSE
  /\ carrier = None /\ carried = {}
  /\ water_level = 0 /\ mode = "Default"
  /\ colliding = {} /\ dead = {}
  /\ progress = [m \in Messes |-> 0] /\ done = {} /\ score = 0
  /\ exiting = FALSE /\ time_remaining = 0

-----------------------------------------------------------------------------
EnterLevel ==
  /\ step = "outside"
  /\ \E messes \in SUBSET Messes, open \in BOOLEAN :
       colliding' = messes \union Carriable \union Repairable \union (IF open THEN {} ELSE {Door})
  /\ time_remaining' = LEVEL_DURATION
  /\ score' = 0
  /\ water_level' = WATER_LEVEL_MAX
  /\ step' = "timers"
  /\ UNCHANGED <<delta, player_moved, hands_free, historyVars, handVars, mode, dead, progress, done, exiting>>

(* Some of the slimes leave messes.                                        *)
update_timers ==
  /\ step = "timers"
  /\ delta' \in 1 .. DeltaMax
  /\ \E messes \in SUBSET Absent : colliding' = colliding \union messes
  /\ step' = "player"
  /\ UNCHANGED <<player_moved, hands_free, historyVars, handVars, waterVars, dead, scoreVars, clockVars>>

-----------------------------------------------------------------------------
Fast == mode = "Speed" /\ water_level > 0

water_consume_rate == delta * (IF Fast THEN CLEANER_MODE_WATER_MULTIPLIER ELSE 1)

(* Mutant: the last drop is not the end.                                   *)
water_below_zero == water_level - water_consume_rate

water_left == IF water_level > water_consume_rate THEN water_level - water_consume_rate ELSE 0

(* The player walks, unless it stands or the room changes; with full hands *)
(* it uses no water, and without water it walks all the same.              *)
player_update ==
  /\ step = "player"
  /\ player_moved' \in BOOLEAN
  /\ IF player_moved' /\ carrier = None
     THEN /\ water_level' = water_left
          /\ mode' = IF water_level' = 0 THEN "Default" ELSE mode
     ELSE UNCHANGED waterVars
  /\ spent' = (water_level' < water_level) /\ refilled' = FALSE
  /\ step' = "adventurer"
  /\ UNCHANGED <<delta, hands_free, handVars, thingVars, scoreVars, clockVars>>

-----------------------------------------------------------------------------
(* Mutant: what is killed keeps its collider.                              *)
KilledCollides(things) == colliding

(* entity_kill: what is dead stays, with an empty collider.                *)
entity_kill(things) == colliding \ things

AdventurerKills ==
  /\ step = "adventurer"
  /\ \E s \in Slimes \ dead, messes \in SUBSET Absent :
       /\ dead' = dead \union {s}
       /\ colliding' = entity_kill({s}) \union messes
  /\ step' = "interaction"
  /\ UNCHANGED <<delta, player_moved, hands_free, historyVars, handVars, waterVars, scoreVars, clockVars>>

(* It opens or closes the last door, or does neither.                      *)
AdventurerWalks ==
  /\ step = "adventurer"
  /\ colliding' \in {colliding, colliding \ {Door}, colliding \union {Door}}
  /\ step' = "interaction"
  /\ UNCHANGED <<delta, player_moved, hands_free, historyVars, handVars, waterVars, dead, scoreVars, clockVars>>

-----------------------------------------------------------------------------
(* player_interaction.  The mode is chosen anew in every frame; whoever    *)
(* interacts with something goes back to the default.                      *)
BeginInteraction ==
  /\ step = "interaction"
  /\ step' = "cleaning"
  /\ UNCHANGED <<delta, player_moved, spent, dead, progress, time_remaining>>

ChooseMode == \E dash \in BOOLEAN : mode' = IF dash /\ water_level > 0 THEN "Speed" ELSE "Default"

(* Mutant: what the cleaning asks for is what the hands do at the end.     *)
HandsAtTheEnd == hands_free' = (carrier' = None)

player_carrier_err == hands_free' = (carrier = None)

(* Free hands, and something alive of these in reach.                      *)
CanInteract(t, things) == carrier = None /\ t \in (things \intersect colliding) \ dead

(* Also a slime that is petted, or what is already repaired.               *)
InteractWithNothing ==
  /\ BeginInteraction
  /\ ChooseMode
  /\ UNCHANGED <<handVars, water_level, colliding, done, score, exiting>>

(* Mutant: the thing that is thrown stays with the player.                 *)
ThrowKeepsParent ==
  /\ BeginInteraction
  /\ carrier # None
  /\ ChooseMode
  /\ carrier' = None
  /\ UNCHANGED <<carried, water_level, colliding, done, score, exiting>>

entity_throw ==
  /\ BeginInteraction
  /\ carrier # None
  /\ ChooseMode
  /\ carrier' = None /\ carried' = carried \ {carrier}
  /\ UNCHANGED <<water_level, colliding, done, score, exiting>>

Carry ==
  /\ BeginInteraction
  /\ \E t \in Carriable :
       /\ CanInteract(t, Carriable)
       /\ carrier' = t /\ carried' = carried \union {t}
       /\ water_level' = IF t = Bucket THEN WATER_LEVEL_MAX ELSE water_level
  /\ mode' = "Default"
  /\ UNCHANGED <<colliding, done, score, exiting>>

(* Repair_Torch and Repair_Chest.                                          *)
Repair ==
  /\ BeginInteraction
  /\ \E t \in Repairable :
       /\ CanInteract(t, Repairable)
       /\ done' = done \union {t}
       /\ score' = IF t \in done THEN score ELSE score + 100
  /\ mode' = "Default"
  /\ UNCHANGED <<handVars, water_level, colliding, exiting>>

refill_water ==
  /\ BeginInteraction
  /\ CanInteract(Bucket, {Bucket})
  /\ water_level' = WATER_LEVEL_MAX
  /\ mode' = "Default"
  /\ UNCHANGED <<handVars, colliding, done, score, exiting>>

(* The last door, as long as it is closed: next_level.                     *)
Exit ==
  /\ BeginInteraction
  /\ CanInteract(Door, {Door})
  /\ exiting' = TRUE
  /\ mode' = "Default"
  /\ UNCHANGED <<handVars, water_level, colliding, done, score>>

-----------------------------------------------------------------------------
cleaning_speed == IF Fast THEN CLEANER_MODE_CLEAN_MULTIPLIER ELSE 1

(* entity_clean of every mess in reach.                                    *)
entity_clean ==
  /\ step = "cleaning"
  /\ \E near \in SUBSET (Messes \intersect colliding) :
       LET cleaned == {m \in near : progress'[m] >= Dirt} IN
       /\ (hands_free /\ water_level > 0 /\ player_moved) \/ near = {}
       /\ progress' = [m \in Messes |->
            IF m \in near THEN progress[m] + delta * cleaning_speed ELSE progress[m]]
       /\ score' = score + 300 * Cardinality(cleaned)
       /\ dead' = dead \union cleaned
       /\ colliding' = entity_kill(cleaned)
  /\ step' = "clock"
  /\ UNCHANGED <<delta, player_moved, hands_free, historyVars, handVars, waterVars, done, clockVars>>

(* Mutant: a frame that is longer than the rest of the time does not count. *)
ClockStops ==
  /\ step = "clock"
  /\ time_remaining' = IF time_remaining >= delta THEN time_remaining - delta ELSE time_remaining
  /\ exiting' = (exiting \/ time_remaining' = 0)
  /\ step' = IF exiting' THEN "exit" ELSE "timers"
  /\ UNCHANGED <<delta, player_moved, hands_free, historyVars, handVars, waterVars, thingVars, scoreVars>>

update_clock ==
  /\ step = "clock"
  /\ time_remaining' = IF time_remaining > delta THEN time_remaining - delta ELSE 0
  /\ exiting' = (exiting \/ time_remaining' = 0)
  /\ step' = IF exiting' THEN "exit" ELSE "timers"
  /\ UNCHANGED <<delta, player_moved, hands_free, historyVars, handVars, waterVars, thingVars, scoreVars>>

(* The score is what game over shows.                                      *)
ExitLevel ==
  /\ step = "exit"
  /\ step' = "outside"
  /\ delta' = 0 /\ player_moved' = FALSE /\ hands_free' = FALSE
  /\ spent' = FALSE /\ refilled' = FALSE
  /\ carrier' = None /\ carried' = {}
  /\ water_level' = 0 /\ mode' = "Default"
  /\ colliding' = {} /\ dead' = {}
  /\ progress' = [m \in Messes |-> 0] /\ done' = {}
  /\ exiting' = FALSE /\ time_remaining' = 0
  /\ UNCHANGED score

-----------------------------------------------------------------------------
player_interaction ==
  /\ InteractWithNothing \/ entity_throw \/ Carry \/ Repair \/ refill_water \/ Exit
  /\ player_carrier_err
  /\ refilled' = (water_level' > water_level)

Frame ==
  \/ update_timers \/ player_update \/ AdventurerKills \/ AdventurerWalks
  \/ player_interaction \/ entity_clean \/ update_clock \/ ExitLevel

Next == EnterLevel \/ Frame

Spec == Init /\ [][Next]_vars

(* Frames follow each other.                                               *)
FairSpec == Spec /\ WF_vars(Frame)

-----------------------------------------------------------------------------
TypeOK ==
  /\ step \in {"outside", "timers", "player", "adventurer", "interaction", "cleaning", "clock", "exit"}
  /\ exiting \in BOOLEAN /\ player_moved \in BOOLEAN /\ hands_free \in BOOLEAN
  /\ spent \in BOOLEAN /\ refilled \in BOOLEAN
  /\ delta \in Nat /\ time_remaining \in 0 .. LEVEL_DURATION
  /\ water_level \in 0 .. WATER_LEVEL_MAX /\ mode \in {"Default", "Speed"}
  /\ carrier \in Carriable \union {None} /\ carried \subseteq Carriable
  /\ colliding \subseteq Thing /\ dead \subseteq Slimes \union Messes
  /\ progress \in [Messes -> Nat] /\ done \subseteq Repairable /\ score \in Nat

(* Every mess that is cleaned, and everything that is repaired, counts     *)
(* once, though what is dead or done stays in the store and in reach, and  *)
(* counts from zero in each level (entity_clean, entity_kill, Repair_Chest). *)
EachScoresOnce ==
  step # "outside" =>
    score = 300 * Cardinality({m \in Messes : progress[m] >= Dirt}) + 100 * Cardinality(done)

(* What the player's carrier names is what has the player as its parent,   *)
(* and nothing else has, also when the adventurer kills it in the player's *)
(* hands (entity_interact, entity_throw, entity_kill).                     *)
HandsAgree == carried = {carrier} \ {None}

(* No mess gets cleaner in a frame in which the walk has used no water and *)
(* no water was added at the bucket: that the cleaning asks for the hands  *)
(* as they were before the interaction is what keeps the frame of a throw  *)
(* from cleaning for nothing.  A walk without any water and a refill after *)
(* it clean in the same frame (player_update and player_interaction).      *)
CleaningNeedsWater ==
  [][progress' # progress => spent \/ refilled \/ step = "exit"]_vars

(* The time of every level runs out, unless the player leaves before       *)
(* (game_mode_play, the clock).                                            *)
LevelEnds == step # "outside" ~> step = "outside"
=============================================================================
