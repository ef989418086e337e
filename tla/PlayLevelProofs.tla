---------------------------- MODULE PlayLevelProofs ----------------------------
(* Theorems about a level, for any things in it and any amounts of water,  *)
(* dirt and time.                                                          *)
EXTENDS PlayLevel, FiniteSetTheorems, TLAPS

(* If some water is left after a walk with free hands, the walk has used   *)
(* some; the cleaning goes by the hands of that moment, and what it finds  *)
(* after a walk that has used none was added in between.                   *)
Spending ==
  /\ step = "player" => delta > 0
  /\ step \in {"adventurer", "interaction"} /\ player_moved /\ carrier = None /\ water_level > 0 => spent
  /\ step = "cleaning" /\ hands_free /\ player_moved /\ water_level > 0 => spent \/ refilled

Cleaned == {m \in Messes : progress[m] >= Dirt}

(* A mess is dead when it is clean, and what is dead is not in reach.      *)
DeadIsClean ==
  /\ Cleaned = Messes \intersect dead
  /\ dead \intersect colliding = {}

NothingOutside ==
  step = "outside" => dead = {} /\ done = {} /\ carrier = None /\ ~exiting

Scored == step # "outside" => score = 300 * Cardinality(Cleaned) + 100 * Cardinality(done)

IInv == TypeOK /\ HandsAgree /\ Spending /\ DeadIsClean /\ NothingOutside /\ Scored

-----------------------------------------------------------------------------
LEMMA CountType ==
  ASSUME TypeOK
  PROVE  /\ IsFiniteSet(Cleaned) /\ Cardinality(Cleaned) \in Nat
         /\ IsFiniteSet(done) /\ Cardinality(done) \in Nat
  <1>1. Cleaned \subseteq Messes /\ done \subseteq Repairable
    BY DEF TypeOK, Cleaned
  <1> QED
    BY <1>1, LevelAssumption, FS_Subset, FS_CardinalityType

LEMMA InitIInv == Init => IInv
  <1> SUFFICES ASSUME Init PROVE IInv
    OBVIOUS
  <1>1. TypeOK
    <2>1. /\ exiting \in BOOLEAN /\ player_moved \in BOOLEAN /\ hands_free \in BOOLEAN /\ spent \in BOOLEAN /\ refilled \in BOOLEAN
          /\ step = "outside" /\ mode = "Default"
          /\ carried = {} /\ colliding = {} /\ dead = {} /\ done = {} /\ carrier = None
      BY DEF Init
    <2>2. /\ delta \in Nat /\ time_remaining \in 0 .. LEVEL_DURATION
          /\ water_level \in 0 .. WATER_LEVEL_MAX /\ score \in Nat /\ progress \in [Messes -> Nat]
      BY LevelAssumption DEF Init
    <2> QED
      BY <2>1, <2>2 DEF TypeOK
  <1>2. HandsAgree /\ Spending /\ NothingOutside /\ Scored
    BY DEF Init, HandsAgree, Spending, NothingOutside, Scored
  <1>3. DeadIsClean
    BY LevelAssumption DEF Init, DeadIsClean, Cleaned
  <1> QED
    BY <1>1, <1>2, <1>3 DEF IInv

-----------------------------------------------------------------------------
LEMMA EnterIInv == IInv /\ EnterLevel => IInv'
  <1> SUFFICES ASSUME IInv, EnterLevel PROVE IInv'
    OBVIOUS
  <1> USE DEF IInv, EnterLevel, historyVars, handVars
  <1>1. dead = {} /\ done = {} /\ Cleaned = {}
    BY DEF NothingOutside, DeadIsClean
  <1>2. TypeOK'
    BY LevelAssumption DEF TypeOK, Thing
  <1>3. Cleaned' = Cleaned
    BY DEF Cleaned
  <1>4. Scored'
    BY <1>1, <1>3, FS_EmptySet DEF Scored
  <1>5. HandsAgree' /\ Spending' /\ DeadIsClean' /\ NothingOutside'
    BY <1>1, <1>3 DEF HandsAgree, Spending, DeadIsClean, NothingOutside
  <1> QED
    BY <1>2, <1>4, <1>5

(* A step that changes no progress and no repairs keeps the count.         *)
LEMMA ScoreKept ==
  ASSUME IInv, step # "outside", UNCHANGED <<progress, done, score>>
  PROVE  Cleaned' = Cleaned /\ Scored'
  BY DEF IInv, Scored, Cleaned

LEMMA TimersIInv == IInv /\ update_timers => IInv'
  <1> SUFFICES ASSUME IInv, update_timers PROVE IInv'
    OBVIOUS
  <1> USE DEF IInv, update_timers, historyVars, handVars, waterVars, scoreVars, clockVars
  <1>1. TypeOK'
    BY LevelAssumption DEF TypeOK, Thing, Absent
  <1>2. Cleaned' = Cleaned /\ Scored'
    BY ScoreKept
  <1>3. HandsAgree' /\ Spending' /\ DeadIsClean' /\ NothingOutside'
    BY <1>2 DEF HandsAgree, Spending, DeadIsClean, NothingOutside, Absent
  <1> QED
    BY <1>1, <1>2, <1>3

LEMMA PlayerIInv == IInv /\ player_update => IInv'
  <1> SUFFICES ASSUME IInv, player_update PROVE IInv'
    OBVIOUS
  <1> USE DEF IInv, player_update, historyVars, handVars, thingVars, scoreVars, clockVars
  <1>1. /\ water_left \in 0 .. WATER_LEVEL_MAX
        /\ water_level > 0 => water_left < water_level
        /\ water_left > 0 => water_level > 0
    <2>1. water_consume_rate \in Nat \ {0}
      BY DEF water_consume_rate, TypeOK, Spending, CLEANER_MODE_WATER_MULTIPLIER
    <2> QED
      BY <2>1, LevelAssumption DEF water_left, TypeOK
  <1>2. TypeOK'
    <2>1. water_level' \in 0 .. WATER_LEVEL_MAX /\ mode' \in {"Default", "Speed"}
      BY <1>1 DEF TypeOK, waterVars
    <2>2. spent' = (water_level' < water_level) /\ refilled' = FALSE
      OBVIOUS
    <2>3. (water_level' < water_level) \in BOOLEAN
      OBVIOUS
    <2>4. spent' \in BOOLEAN /\ refilled' \in BOOLEAN
      BY <2>2, <2>3, Zenon
    <2> QED
      BY <2>1, <2>4 DEF TypeOK
  <1>3. Cleaned' = Cleaned /\ Scored'
    BY ScoreKept
  <1>4. Spending'
    <2>1. step' = "adventurer" /\ carrier' = carrier /\ water_level \in Nat /\ water_level' \in Nat
      BY <1>2 DEF TypeOK
    <2>2. ASSUME player_moved', carrier = None, water_level' > 0 PROVE spent'
      <3>1. water_level' = water_left /\ spent' = (water_level' < water_level)
        BY <2>2
      <3>2. water_left < water_level
        BY <1>1, <2>2, <3>1
      <3> QED
        BY <3>1, <3>2
    <2> QED
      BY <2>1, <2>2 DEF Spending
  <1>5. HandsAgree' /\ DeadIsClean' /\ NothingOutside'
    BY <1>3 DEF HandsAgree, DeadIsClean, NothingOutside
  <1> QED
    BY <1>2, <1>3, <1>4, <1>5

LEMMA AdventurerIInv == IInv /\ (AdventurerKills \/ AdventurerWalks) => IInv'
  <1> SUFFICES ASSUME IInv, AdventurerKills \/ AdventurerWalks PROVE IInv'
    OBVIOUS
  <1> USE DEF IInv, historyVars, handVars, waterVars, scoreVars, clockVars
  <1>1. /\ step = "adventurer" /\ step' = "interaction"
        /\ UNCHANGED <<delta, player_moved, hands_free, historyVars, handVars, waterVars, scoreVars, clockVars>>
    BY DEF AdventurerKills, AdventurerWalks
  <1>2. Cleaned' = Cleaned /\ Scored'
    BY <1>1, ScoreKept
  <1>3. /\ colliding' \subseteq Thing /\ dead' \subseteq Slimes \union Messes
        /\ dead' \intersect colliding' = {} /\ Messes \intersect dead' = Messes \intersect dead
    <2>1. CASE AdventurerKills
      BY <2>1, LevelAssumption DEF AdventurerKills, entity_kill, TypeOK, DeadIsClean, Absent, Thing, Carriable
    <2>2. CASE AdventurerWalks
      BY <2>2, LevelAssumption DEF AdventurerWalks, TypeOK, DeadIsClean, Thing, Carriable
    <2> QED
      BY <2>1, <2>2
  <1>4. TypeOK'
    BY <1>1, <1>3 DEF TypeOK
  <1>5. HandsAgree' /\ Spending' /\ DeadIsClean' /\ NothingOutside'
    BY <1>1, <1>2, <1>3 DEF HandsAgree, Spending, DeadIsClean, NothingOutside
  <1> QED
    BY <1>2, <1>4, <1>5

-----------------------------------------------------------------------------
(* A thing that is repaired counts when it was not before.                 *)
LEMMA RepairScores ==
  ASSUME IInv, Repair
  PROVE  score' = 300 * Cardinality(Cleaned) + 100 * Cardinality(done') /\ score' \in Nat
  <1>1. PICK t \in Repairable :
          /\ done' = done \union {t}
          /\ score' = IF t \in done THEN score ELSE score + 100
    BY DEF Repair
  <1>2. /\ IsFiniteSet(done) /\ Cardinality(done) \in Nat /\ Cardinality(Cleaned) \in Nat
        /\ score \in Nat /\ step # "outside"
    BY CountType DEF IInv, TypeOK, Repair, BeginInteraction
  <1>3. Cardinality(done') = IF t \in done THEN Cardinality(done) ELSE Cardinality(done) + 1
    BY <1>1, <1>2, FS_AddElement
  <1> QED
    BY <1>1, <1>2, <1>3 DEF IInv, Scored

LEMMA InteractionIInv == IInv /\ player_interaction => IInv'
  <1> SUFFICES ASSUME IInv, player_interaction PROVE IInv'
    OBVIOUS
  <1> USE DEF IInv, historyVars, handVars
  <1>1. /\ step = "interaction" /\ step' = "cleaning" /\ hands_free' = (carrier = None)
        /\ UNCHANGED <<delta, player_moved, spent, dead, progress, time_remaining>>
        /\ refilled' = (water_level' > water_level)
    BY DEF player_interaction, player_carrier_err, BeginInteraction,
           InteractWithNothing, entity_throw, Carry, Repair, refill_water, Exit
  <1>2. /\ mode' \in {"Default", "Speed"} /\ water_level' \in 0 .. WATER_LEVEL_MAX
        /\ UNCHANGED colliding /\ exiting' \in BOOLEAN
    <2>1. mode' \in {"Default", "Speed"}
      BY DEF player_interaction, ChooseMode,
             InteractWithNothing, entity_throw, Carry, Repair, refill_water, Exit
    <2>2. water_level' = water_level \/ water_level' = WATER_LEVEL_MAX
      BY DEF player_interaction, InteractWithNothing, entity_throw, Carry, Repair, refill_water, Exit
    <2>3. UNCHANGED colliding /\ (exiting' = exiting \/ exiting' = TRUE)
      BY DEF player_interaction, InteractWithNothing, entity_throw, Carry, Repair, refill_water, Exit
    <2>4. water_level \in 0 .. WATER_LEVEL_MAX /\ exiting \in BOOLEAN
      BY DEF TypeOK
    <2>5. water_level' \in 0 .. WATER_LEVEL_MAX
      BY <2>2, <2>4, LevelAssumption
    <2>6. exiting' \in BOOLEAN
      BY <2>3, <2>4, Zenon
    <2> QED
      BY <2>1, <2>3, <2>5, <2>6
  <1>3. carrier' \in Carriable \union {None} /\ carried' \subseteq Carriable /\ HandsAgree'
    <2>1. CASE entity_throw
      BY <2>1 DEF entity_throw, TypeOK, HandsAgree
    <2>2. CASE Carry
      <3>1. PICK t \in Carriable : carrier = None /\ carrier' = t /\ carried' = carried \union {t}
        BY <2>2 DEF Carry, CanInteract
      <3>2. t # None
        BY LevelAssumption DEF Thing
      <3> QED
        BY <3>1, <3>2 DEF TypeOK, HandsAgree
    <2>3. CASE InteractWithNothing \/ Repair \/ refill_water \/ Exit
      BY <2>3 DEF InteractWithNothing, Repair, refill_water, Exit, TypeOK, HandsAgree
    <2> QED
      BY <2>1, <2>2, <2>3 DEF player_interaction
  <1>4. Cleaned' = Cleaned
    BY <1>1 DEF Cleaned
  <1>5. done' \subseteq Repairable /\ score' \in Nat /\ Scored'
    <2>1. CASE Repair
      BY <1>1, <1>4, <2>1, RepairScores DEF Repair, Scored, TypeOK
    <2>2. CASE InteractWithNothing \/ entity_throw \/ Carry \/ refill_water \/ Exit
      <3>1. UNCHANGED <<done, score>>
        BY <2>2 DEF InteractWithNothing, entity_throw, Carry, refill_water, Exit
      <3> QED
        BY <1>1, <1>4, <3>1 DEF Scored, TypeOK
    <2> QED
      BY <2>1, <2>2 DEF player_interaction
  <1>6. TypeOK'
    <2>1. hands_free' \in BOOLEAN /\ refilled' \in BOOLEAN
      BY <1>1
    <2> QED
      BY <1>1, <1>2, <1>3, <1>5, <2>1 DEF TypeOK
  <1>7. Spending'
    <2>1. water_level \in Nat /\ water_level' \in Nat
      BY <1>2 DEF TypeOK
    <2>2. ASSUME hands_free', player_moved', water_level' > 0 PROVE spent' \/ refilled'
      <3>1. CASE water_level > 0
        BY <1>1, <2>2, <3>1 DEF Spending
      <3>2. CASE ~(water_level > 0)
        <4>1. water_level' > water_level
          BY <2>1, <2>2, <3>2
        <4> QED
          BY <1>1, <4>1
      <3> QED
        BY <3>1, <3>2
    <2> QED
      BY <1>1, <2>2 DEF Spending
  <1>8. DeadIsClean' /\ NothingOutside'
    BY <1>1, <1>2, <1>4 DEF DeadIsClean, NothingOutside
  <1> QED
    BY <1>3, <1>5, <1>6, <1>7, <1>8

-----------------------------------------------------------------------------
LEMMA CleanIInv == IInv /\ entity_clean => IInv'
  <1> SUFFICES ASSUME IInv, entity_clean PROVE IInv'
    OBVIOUS
  <1> USE DEF IInv, historyVars, handVars, waterVars, clockVars
  <1>1. /\ step = "cleaning" /\ step' = "clock"
        /\ UNCHANGED <<delta, player_moved, hands_free, historyVars, carrier, carried, water_level, mode,
                       done, exiting, time_remaining>>
    BY DEF entity_clean
  <1>2. PICK near \in SUBSET (Messes \intersect colliding) :
          LET cleaned == {m \in near : progress'[m] >= Dirt} IN
          /\ progress' = [m \in Messes |->
               IF m \in near THEN progress[m] + delta * cleaning_speed ELSE progress[m]]
          /\ score' = score + 300 * Cardinality(cleaned)
          /\ dead' = dead \union cleaned
          /\ colliding' = colliding \ cleaned
    BY DEF entity_clean, entity_kill
  <1> DEFINE cleaned == {m \in near : progress'[m] >= Dirt}
  <1>3. delta * cleaning_speed \in Nat
    BY DEF cleaning_speed, TypeOK, CLEANER_MODE_CLEAN_MULTIPLIER
  <1>4. progress' \in [Messes -> Nat]
    BY <1>2, <1>3 DEF TypeOK
  <1>5. cleaned \subseteq Messes /\ cleaned \subseteq colliding /\ cleaned \intersect Cleaned = {}
    BY DEF DeadIsClean
  <1>6. Cleaned' = Cleaned \union cleaned
    <2>1. \A m \in Messes \ near : progress'[m] = progress[m]
      BY <1>2
    <2>2. near \intersect Cleaned = {}
      BY DEF DeadIsClean
    <2> QED
      BY <2>1, <2>2 DEF Cleaned
  <1>7. Cardinality(Cleaned') = Cardinality(Cleaned) + Cardinality(cleaned) /\ Cardinality(cleaned) \in Nat
    <2>1. IsFiniteSet(cleaned) /\ IsFiniteSet(Cleaned) /\ Cardinality(cleaned) \in Nat /\ Cardinality(Cleaned) \in Nat
      BY <1>5, LevelAssumption, CountType, FS_Subset, FS_CardinalityType
    <2>2. Cardinality(Cleaned \union cleaned) =
            Cardinality(Cleaned) + Cardinality(cleaned) - Cardinality(Cleaned \intersect cleaned)
      BY <2>1, FS_Union
    <2>3. Cardinality(Cleaned \intersect cleaned) = 0
      BY <1>5, FS_EmptySet
    <2> HIDE DEF cleaned
    <2> QED
      BY <1>6, <2>1, <2>2, <2>3
  <1>8. Scored' /\ score' \in Nat
    <2>1. /\ score = 300 * Cardinality(Cleaned) + 100 * Cardinality(done)
          /\ Cardinality(Cleaned) \in Nat /\ Cardinality(done) \in Nat /\ score \in Nat
      BY <1>1, CountType DEF Scored, TypeOK
    <2>2. score' = score + 300 * Cardinality(cleaned)
      BY <1>2
    <2> HIDE DEF cleaned
    <2> QED
      BY <1>1, <1>7, <2>1, <2>2 DEF Scored
  <1>9. dead' = dead \union cleaned /\ colliding' = colliding \ cleaned
    BY <1>2
  <1> HIDE DEF cleaned
  <1>10. TypeOK'
    BY <1>1, <1>4, <1>5, <1>8, <1>9 DEF TypeOK
  <1>11. HandsAgree' /\ Spending' /\ DeadIsClean' /\ NothingOutside'
    BY <1>1, <1>5, <1>6, <1>9 DEF HandsAgree, Spending, DeadIsClean, NothingOutside
  <1> QED
    BY <1>8, <1>10, <1>11

LEMMA ClockIInv == IInv /\ update_clock => IInv'
  <1> SUFFICES ASSUME IInv, update_clock PROVE IInv'
    OBVIOUS
  <1> USE DEF IInv, update_clock, historyVars, handVars, waterVars, thingVars, scoreVars
  <1>1. TypeOK'
    BY LevelAssumption DEF TypeOK
  <1>2. Cleaned' = Cleaned /\ Scored'
    BY ScoreKept
  <1>3. HandsAgree' /\ Spending' /\ DeadIsClean' /\ NothingOutside'
    BY <1>2 DEF HandsAgree, Spending, DeadIsClean, NothingOutside
  <1> QED
    BY <1>1, <1>2, <1>3

LEMMA ExitIInv == IInv /\ ExitLevel => IInv'
  <1> SUFFICES ASSUME IInv, ExitLevel PROVE IInv'
    OBVIOUS
  <1> USE DEF IInv, ExitLevel
  <1>1. TypeOK'
    <2>1. /\ exiting' \in BOOLEAN /\ player_moved' \in BOOLEAN
          /\ hands_free' \in BOOLEAN /\ spent' \in BOOLEAN /\ refilled' \in BOOLEAN
          /\ step' = "outside" /\ mode' = "Default"
          /\ carried' = {} /\ colliding' = {} /\ dead' = {} /\ done' = {} /\ carrier' = None
      OBVIOUS
    <2>2. /\ delta' \in Nat /\ time_remaining' \in 0 .. LEVEL_DURATION
          /\ water_level' \in 0 .. WATER_LEVEL_MAX /\ score' \in Nat /\ progress' \in [Messes -> Nat]
      BY LevelAssumption DEF TypeOK
    <2> QED
      BY <2>1, <2>2 DEF TypeOK
  <1>2. HandsAgree' /\ Spending' /\ NothingOutside' /\ Scored'
    BY DEF HandsAgree, Spending, NothingOutside, Scored
  <1>3. DeadIsClean'
    BY LevelAssumption DEF DeadIsClean, Cleaned
  <1> QED
    BY <1>1, <1>2, <1>3

-----------------------------------------------------------------------------
LEMMA NextIInv == IInv /\ [Next]_vars => IInv'
  <1>1. IInv /\ UNCHANGED vars => IInv'
    BY DEF IInv, vars, frameVars, historyVars, handVars, waterVars, thingVars, scoreVars, clockVars,
           TypeOK, HandsAgree, Spending, DeadIsClean, Cleaned, NothingOutside, Scored
  <1> QED
    BY <1>1, EnterIInv, TimersIInv, PlayerIInv, AdventurerIInv, InteractionIInv, CleanIInv,
       ClockIInv, ExitIInv DEF Next, Frame

(* The strengthened invariant: it ties death, cleanliness and reach of a   *)
(* mess together, and the use of water to the hands.                       *)
THEOREM InductiveInvariant == Spec => []IInv
  BY InitIInv, NextIInv, PTL DEF Spec

(* The variables keep their types, for any level: no amount of water or    *)
(* time below zero or above its maximum.                                   *)
THEOREM LevelTypes == Spec => []TypeOK
  <1>1. IInv => TypeOK
    BY DEF IInv
  <1> QED
    BY <1>1, InductiveInvariant, PTL

(* Every mess and every repair of a level counts once, however many there  *)
(* are.                                                                    *)
THEOREM ScoresOnce == Spec => []EachScoresOnce
  <1>1. IInv => EachScoresOnce
    BY DEF IInv, Scored, Cleaned, EachScoresOnce
  <1> QED
    BY <1>1, InductiveInvariant, PTL

(* The carrier of the player and the parents of the things agree.          *)
THEOREM HandsAlwaysAgree == Spec => []HandsAgree
  <1>1. IInv => HandsAgree
    BY DEF IInv
  <1> QED
    BY <1>1, InductiveInvariant, PTL

(* A mess only gets cleaner in a frame whose walk has used water or whose  *)
(* interaction has added some.                                             *)
THEOREM CleaningTakesWater == Spec => CleaningNeedsWater
  <1>1. IInv /\ [Next]_vars => [progress' # progress => spent \/ refilled \/ step = "exit"]_vars
    <2> SUFFICES ASSUME IInv, Next, progress' # progress, step # "exit" PROVE spent \/ refilled
      OBVIOUS
    <2>1. entity_clean
      BY DEF Next, Frame, EnterLevel, update_timers, player_update, AdventurerKills, AdventurerWalks,
             player_interaction, BeginInteraction, InteractWithNothing, entity_throw, Carry, Repair,
             refill_water, Exit, update_clock, ExitLevel, scoreVars
    <2>2. CASE hands_free /\ player_moved /\ water_level > 0
      BY <2>1, <2>2 DEF entity_clean, IInv, Spending
    <2>3. CASE ~(hands_free /\ player_moved /\ water_level > 0)
      <3>1. progress' = [m \in Messes |-> progress[m]]
        BY <2>1, <2>3 DEF entity_clean
      <3> QED
        BY <3>1 DEF IInv, TypeOK
    <2> QED
      BY <2>2, <2>3
  <1> QED
    BY <1>1, InductiveInvariant, PTL DEF Spec, CleaningNeedsWater
=============================================================================
