--------------------------- MODULE GameModesProofs ---------------------------
(* Theorems about the modes, for any number of levels and entities.        *)
EXTENDS GameModes, SequenceTheorems, TLAPS

Steps == {"frame", "enter", "enter_2", "run", "exit"}

StoreTypes ==
  /\ current_entity_id \in Nat \ {0} /\ current_entity_id <= EntityMax
  /\ entities \in [Store!Entity -> Store!Entity]
  /\ available_slots \in Seq(Store!Entity)
  /\ entity_title \in Store!Entity

ModeTypes ==
  /\ step \in Steps
  /\ entered \in BOOLEAN /\ exiting \in BOOLEAN /\ forced \in BOOLEAN /\ forgotten \in BOOLEAN
  /\ current_level \in Nat

(* At most one id waits, that of the title or 0 in its place, and none     *)
(* once the first entity of the title has taken it.                        *)
FewSlots ==
  /\ Len(available_slots) <= 1
  /\ current = "Title" /\ entered => Len(available_slots) = 0

(* The static variable names the second entity of this visit.              *)
TitleKnown ==
  /\ step = "enter_2" => current = "Title" /\ entered
  /\ step \in {"run", "exit"} /\ current = "Title" => entered
  /\ forgotten => entity_title = Store!ENTITY_INVALID
  /\ current = "Title" /\ entered /\ ~forgotten /\ step # "enter_2" => entity_title \in Store!Live

(* The mode goes on to one of these by itself.                             *)
Transitions ==
  {<<"Init", "Title">>, <<"Title", "Play">>, <<"Play", "Game_Over">>,
   <<"Game_Over", "Title">>, <<"Game_Over", "Play">>}

OnItsWay ==
  IF exiting THEN step = "exit" /\ <<current, next>> \in Transitions ELSE current = next

Unforced ==
  ~forced =>
    /\ OnItsWay
    /\ next = "Play" => current_level < LevelCount
    /\ NothingLeftOfPlay

IInv == StoreTypes /\ ModeTypes /\ FewSlots /\ TitleKnown /\ Unforced

-----------------------------------------------------------------------------
(* What a creation does to the ids: one that waits is taken, else the next *)
(* one that was never used, which is not 0.                                *)
LEMMA Creation ==
  ASSUME StoreTypes, Len(available_slots) <= 1, NEW e \in Store!Entity, CreateNamed(e)
  PROVE  /\ current_entity_id' \in Nat \ {0} /\ current_entity_id' <= EntityMax
         /\ entities' \in [Store!Entity -> Store!Entity]
         /\ available_slots' \in Seq(Store!Entity)
         /\ Len(available_slots') = 0
         /\ Len(available_slots) = 0 => e \in Store!Live'
  <1>1. Store!ReuseSlot(e) \/ Store!AppendEntity(e)
    BY DEF CreateNamed, Store!create_entity_name, Store!create_entity_base
  <1>2. CASE Store!ReuseSlot(e)
    <2>1. Len(available_slots) = 1
      <3>1. available_slots # <<>> /\ available_slots \in Seq(Store!Entity)
        BY <1>2 DEF Store!ReuseSlot, StoreTypes
      <3>2. \A s \in Seq(Store!Entity) : s # <<>> => Len(s) \in Nat \ {0}
        BY EmptySeq
      <3>3. Len(available_slots) \in Nat \ {0}
        BY <3>1, <3>2
      <3>4. \A n \in Nat \ {0} : n <= 1 => n = 1
        OBVIOUS
      <3> QED
        BY <3>3, <3>4, Zenon
    <2>2. available_slots' = Tail(available_slots) /\ entities' = [entities EXCEPT ![e] = e]
          /\ current_entity_id' = current_entity_id
      BY <1>2 DEF Store!ReuseSlot
    <2>3. available_slots' \in Seq(Store!Entity) /\ Len(available_slots') = 0
      BY <2>1, <2>2 DEF StoreTypes
    <2> QED
      BY <2>1, <2>2, <2>3 DEF StoreTypes
  <1>3. CASE Store!AppendEntity(e)
    <2>1. /\ e = current_entity_id /\ current_entity_id' = current_entity_id + 1
          /\ available_slots' = available_slots /\ available_slots = <<>>
          /\ entities' = [entities EXCEPT ![e] = e] /\ current_entity_id < EntityMax
      BY <1>3 DEF Store!AppendEntity
    <2>2. e \in Store!Live'
      BY <2>1, StoreAssumption DEF StoreTypes, Store!Live, Store!Issued, Store!ENTITY_INVALID, Store!Entity
    <2> QED
      BY <2>1, <2>2, StoreAssumption DEF StoreTypes, Store!Entity
  <1> QED
    BY <1>1, <1>2, <1>3

(* What the exit of the title does to them.                                *)
LEMMA Deletion ==
  ASSUME StoreTypes, Len(available_slots) = 0, NEW e \in Store!Entity, Store!entity_delete_entity(e)
  PROVE  /\ current_entity_id' = current_entity_id
         /\ entities' \in [Store!Entity -> Store!Entity]
         /\ available_slots' \in Seq(Store!Entity)
         /\ Len(available_slots') = 1
  <1>1. /\ current_entity_id' = current_entity_id
        /\ entities' = [entities EXCEPT ![e] = 0]
        /\ available_slots' = <<e>> \o available_slots
    BY DEF Store!entity_delete_entity, Store!ENTITY_INVALID
  <1>2. 0 \in Store!Entity
    BY StoreAssumption DEF Store!Entity
  <1> QED
    BY <1>1, <1>2 DEF StoreTypes

(* What the exit of Play does to them.                                     *)
LEMMA ResetAll ==
  ASSUME Store!entity_reset_memory
  PROVE  /\ current_entity_id' = 1
         /\ entities' \in [Store!Entity -> Store!Entity]
         /\ available_slots' = <<>>
         /\ Store!Live' = {}
  <1>1. /\ current_entity_id' = 1
        /\ entities' = [x \in Store!Entity |-> 0]
        /\ available_slots' = <<>>
    BY DEF Store!entity_reset_memory, Store!NoEntities, Store!ENTITY_INVALID
  <1>2. 0 \in Store!Entity
    BY StoreAssumption DEF Store!Entity
  <1>3. Store!Live' = {}
    <2>1. Store!Issued' = {0}
      BY <1>1 DEF Store!Issued
    <2> QED
      BY <1>1, <1>2, <2>1 DEF Store!Live, Store!ENTITY_INVALID
  <1> QED
    BY <1>1, <1>2, <1>3

-----------------------------------------------------------------------------
LEMMA InitIInv == Init => IInv
  <1> SUFFICES ASSUME Init PROVE IInv
    OBVIOUS
  <1>1. /\ current_entity_id = 1 /\ available_slots = <<>>
        /\ entities = [x \in Store!Entity |-> 0] /\ entity_title = 0
    BY DEF Init, Store!Init, Store!NoEntities, Store!ENTITY_INVALID
  <1>2. 0 \in Store!Entity
    BY StoreAssumption DEF Store!Entity
  <1>3. StoreTypes /\ FewSlots
    BY <1>1, <1>2, StoreAssumption DEF StoreTypes, FewSlots
  <1>4. ModeTypes /\ TitleKnown /\ Unforced
    BY LevelAssumption DEF Init, ModeTypes, Steps, TitleKnown, Unforced, OnItsWay, NothingLeftOfPlay
  <1> QED
    BY <1>3, <1>4 DEF IInv

(* A step that touches neither the store nor the title.                    *)
LEMMA StoreKept ==
  ASSUME StoreTypes, UNCHANGED <<storeVars, entity_title>>
  PROVE  StoreTypes' /\ Store!Live' = Store!Live /\ available_slots' = available_slots
  BY DEF StoreTypes, storeVars, Store!Live, Store!Issued, Store!Entity

LEMMA FrameIInv == IInv /\ BeginFrame => IInv'
  <1> SUFFICES ASSUME IInv, BeginFrame PROVE IInv'
    OBVIOUS
  <1> USE DEF IInv, BeginFrame, titleVars, modeVars
  <1>1. StoreTypes' /\ Store!Live' = Store!Live /\ available_slots' = available_slots
    BY StoreKept
  <1>2. entered' = entered /\ current' = current
    BY DEF mode_transition
  <1>3. ModeTypes'
    BY <1>2 DEF ModeTypes, Steps, mode_transition
  <1>4. FewSlots' /\ TitleKnown'
    BY <1>1, <1>2 DEF FewSlots, TitleKnown
  <1>5. Unforced'
    BY <1>1, <1>2 DEF Unforced, OnItsWay, NothingLeftOfPlay
  <1> QED
    BY <1>1, <1>3, <1>4, <1>5

LEMMA ReloadIInv == IInv /\ Reload => IInv'
  <1> SUFFICES ASSUME IInv, Reload PROVE IInv'
    OBVIOUS
  <1> USE DEF IInv, Reload, modeVars, debugVars
  <1>1. entity_title' = 0 /\ 0 \in Store!Entity
    BY StoreAssumption DEF Store!Entity, Store!ENTITY_INVALID
  <1>2. StoreTypes' /\ Store!Live' = Store!Live /\ available_slots' = available_slots
    BY <1>1 DEF StoreTypes, storeVars, Store!Live, Store!Issued, Store!Entity
  <1>3. ModeTypes' /\ FewSlots' /\ TitleKnown' /\ Unforced'
    BY <1>1, <1>2 DEF ModeTypes, FewSlots, TitleKnown, Unforced, OnItsWay, NothingLeftOfPlay,
                      Store!ENTITY_INVALID
  <1> QED
    BY <1>2, <1>3

LEMMA EnterTitleIInv == IInv /\ EnterTitle => IInv'
  <1> SUFFICES ASSUME IInv, EnterTitle PROVE IInv'
    OBVIOUS
  <1> USE DEF IInv, EnterTitle, modeVars, debugVars
  <1>1. PICK e \in Store!Entity : CreateNamed(e) /\ entity_title' = e
    OBVIOUS
  <1>2. Len(available_slots) <= 1
    BY DEF FewSlots
  <1>3. StoreTypes' /\ Len(available_slots') = 0 /\ (Len(available_slots) = 0 => e \in Store!Live')
    BY <1>1, <1>2, Creation DEF StoreTypes, Store!Entity
  <1>4. FewSlots'
    BY <1>3 DEF FewSlots
  <1>5. ModeTypes' /\ TitleKnown'
    <2>1. /\ entered' \in BOOLEAN /\ exiting' \in BOOLEAN /\ forced' \in BOOLEAN /\ forgotten' \in BOOLEAN
      BY Zenon DEF ModeTypes
    <2>2. TitleKnown'
      BY <1>1, <1>3 DEF TitleKnown, FewSlots, mode_entering
    <2> QED
      BY <2>1, <2>2 DEF ModeTypes, Steps
  <1>6. Unforced'
    BY DEF Unforced, OnItsWay, NothingLeftOfPlay
  <1> QED
    BY <1>3, <1>4, <1>5, <1>6

(* Creations in Play, when it is entered and later.                        *)
LEMMA PlayIInv == IInv /\ (EnterPlay \/ PlayCreates) => IInv'
  <1> SUFFICES ASSUME IInv, EnterPlay \/ PlayCreates PROVE IInv'
    OBVIOUS
  <1> USE DEF IInv, EnterPlay, PlayCreates, modeVars, titleVars, debugVars
  <1>1. PICK e \in Store!Entity : CreateNamed(e)
    OBVIOUS
  <1>2. Len(available_slots) <= 1
    BY DEF FewSlots
  <1>3. StoreTypes' /\ Len(available_slots') = 0
    BY <1>1, <1>2, Creation DEF StoreTypes, Store!Entity
  <1>4. FewSlots' /\ ModeTypes' /\ TitleKnown'
    BY <1>3 DEF FewSlots, ModeTypes, Steps, TitleKnown
  <1>5. Unforced'
    BY DEF Unforced, OnItsWay, NothingLeftOfPlay
  <1> QED
    BY <1>3, <1>4, <1>5

LEMMA EnterOtherIInv == IInv /\ EnterOther => IInv'
  <1> SUFFICES ASSUME IInv, EnterOther PROVE IInv'
    OBVIOUS
  <1> USE DEF IInv, EnterOther, titleVars, debugVars
  <1>1. StoreTypes' /\ Store!Live' = Store!Live /\ available_slots' = available_slots
    BY StoreKept
  <1>2. ModeTypes' /\ FewSlots' /\ TitleKnown' /\ Unforced'
    BY <1>1 DEF ModeTypes, Steps, FewSlots, TitleKnown, Unforced, OnItsWay, NothingLeftOfPlay, mode_entering
  <1> QED
    BY <1>1, <1>2

(* The running part of a mode.                                             *)
LEMMA RunIInv == IInv /\ (Skip \/ RunInit \/ RunTitle \/ RunPlay \/ RunGameOver) => IInv'
  <1> SUFFICES ASSUME IInv, Skip \/ RunInit \/ RunTitle \/ RunPlay \/ RunGameOver PROVE IInv'
    OBVIOUS
  <1> USE DEF IInv, Skip, RunInit, RunTitle, RunPlay, RunGameOver, modeVars, titleVars, debugVars
  <1>1. UNCHANGED <<storeVars, entity_title, entered, current, forced, forgotten>>
    BY DEF mode_transition
  <1>2. StoreTypes' /\ Store!Live' = Store!Live /\ available_slots' = available_slots
    BY <1>1, StoreKept
  <1>3. ModeTypes' /\ FewSlots' /\ TitleKnown'
    <2>1. exiting' \in BOOLEAN /\ current_level' \in Nat
      <3>1. exiting' = TRUE \/ exiting' = exiting
        BY Zenon DEF mode_transition
      <3>2. current_level' \in {current_level, 0, current_level + 1}
        BY Zenon
      <3>3. exiting' \in BOOLEAN
        BY <3>1, Zenon DEF ModeTypes
      <3>4. current_level \in Nat
        BY DEF ModeTypes
      <3>5. current_level' \in Nat
        BY <3>2, <3>4
      <3> QED
        BY <3>3, <3>5
    <2>2. step' = "exit" /\ (current = "Title" => entered) /\ step = "run"
      BY DEF TitleKnown
    <2> QED
      BY <1>1, <1>2, <2>1, <2>2 DEF ModeTypes, Steps, FewSlots, TitleKnown
  <1>4. Unforced'
    <2>1. NothingLeftOfPlay'  \/ forced'
      BY <1>1, <1>2 DEF Unforced, NothingLeftOfPlay
    <2> QED
      BY <1>1, <2>1, LevelAssumption
      DEF Unforced, OnItsWay, Transitions, mode_transition, mode_running, game_is_over, ModeTypes
  <1> QED
    BY <1>2, <1>3, <1>4

LEMMA EndIInv == IInv /\ EndFrame => IInv'
  <1> SUFFICES ASSUME IInv, EndFrame PROVE IInv'
    OBVIOUS
  <1> USE DEF IInv, EndFrame, titleVars, debugVars, mode_exiting, modeVars
  <1>1. /\ step = "exit" /\ step' = "frame" /\ current' = next /\ next' = next
        /\ current # next => ~entered' /\ ~exiting'
        /\ current = next => UNCHANGED modeVars
        /\ UNCHANGED <<current_level, entity_title, forgotten, forced>>
    BY DEF mode_check_exit
  <1>2. StoreTypes' /\ Len(available_slots') <= 1
        /\ (current = next => Store!Live' = Store!Live /\ available_slots' = available_slots)
        /\ (current # next /\ current = "Play" => Store!Live' = {})
    <2>1. CASE ExitTitle
      <3>1. Len(available_slots) = 0 /\ entity_title \in Store!Entity
        BY <1>1, <2>1 DEF ExitTitle, FewSlots, TitleKnown, StoreTypes
      <3>2. Store!entity_delete_entity(entity_title) /\ current = "Title" /\ current # next
        BY <2>1 DEF ExitTitle
      <3>3. /\ current_entity_id' = current_entity_id
            /\ entities' \in [Store!Entity -> Store!Entity]
            /\ available_slots' \in Seq(Store!Entity)
            /\ Len(available_slots') = 1
        BY <3>1, <3>2, Deletion
      <3> QED
        BY <1>1, <3>2, <3>3 DEF StoreTypes
    <2>2. CASE ExitPlay
      <3>1. Store!entity_reset_memory /\ current # next
        BY <2>2 DEF ExitPlay
      <3>2. /\ current_entity_id' = 1
            /\ entities' \in [Store!Entity -> Store!Entity]
            /\ available_slots' = <<>>
            /\ Store!Live' = {}
        BY <3>1, ResetAll
      <3>3. StoreTypes'
        BY <1>1, <3>2, StoreAssumption DEF StoreTypes
      <3> QED
        BY <3>1, <3>2, <3>3
    <2>3. CASE ExitOther
      <3>1. StoreTypes' /\ Store!Live' = Store!Live /\ available_slots' = available_slots
        BY <1>1, <2>3, StoreKept DEF ExitOther
      <3> QED
        BY <2>3, <3>1 DEF ExitOther, FewSlots
    <2> QED
      BY <2>1, <2>2, <2>3
  <1>3. ModeTypes' /\ FewSlots' /\ TitleKnown'
    <2>1. entered' \in BOOLEAN /\ exiting' \in BOOLEAN
      BY Zenon DEF ModeTypes, mode_check_exit
    <2>2. (current = "Title" => entered) /\ (current' = "Title" /\ entered' => current = next /\ entered)
      BY <1>1 DEF TitleKnown
    <2> QED
      BY <1>1, <1>2, <2>1, <2>2 DEF ModeTypes, Steps, FewSlots, TitleKnown
  <1>4. Unforced'
    <2> SUFFICES ASSUME ~forced PROVE Unforced'
      BY <1>1 DEF Unforced
    <2>1. OnItsWay /\ (next = "Play" => current_level < LevelCount)
          /\ (current = "Game_Over" => Store!Live = {})
      BY DEF Unforced, NothingLeftOfPlay
    <2>2. CASE current = next
      <3>1. ~exiting
        BY <2>1, <2>2 DEF OnItsWay, Transitions
      <3> QED
        BY <1>1, <1>2, <2>1, <2>2, <3>1 DEF Unforced, OnItsWay, NothingLeftOfPlay
    <2>3. CASE current # next
      <3>1. exiting /\ <<current, next>> \in Transitions
        BY <2>1, <2>3 DEF OnItsWay
      <3>2. next = "Game_Over" => current = "Play"
        BY <3>1 DEF Transitions
      <3> QED
        BY <1>1, <1>2, <2>1, <2>3, <3>2 DEF Unforced, OnItsWay, NothingLeftOfPlay
    <2> QED
      BY <2>2, <2>3
  <1> QED
    BY <1>2, <1>3, <1>4

LEMMA StutterIInv == IInv /\ UNCHANGED vars => IInv'
  BY DEF IInv, vars, storeVars, modeVars, titleVars, debugVars, StoreTypes, ModeTypes, FewSlots,
         TitleKnown, Unforced, OnItsWay, NothingLeftOfPlay, Store!Live, Store!Issued, Store!Entity

-----------------------------------------------------------------------------
(* The invariant of the modes and of the ids that survive a mode           *)
(* (game_mode.odin and the procedures of the modes).                       *)
THEOREM InductiveInvariant == Spec => []IInv
  <1>1. IInv /\ [Next]_vars => IInv'
    BY FrameIInv, ReloadIInv, EnterTitleIInv, PlayIInv, EnterOtherIInv, RunIInv, EndIInv, StutterIInv
    DEF Next
  <1> QED
    BY <1>1, InitIInv, PTL DEF Spec

(* The title never deletes an id that is not its own, whatever is forced:  *)
(* only entity 0, after a library was loaded meanwhile (game_mode_title).  *)
THEOREM TitleDeletesItsOwn == Spec => []TitleDeletesLive
  <1>1. IInv => TitleDeletesLive
    BY DEF IInv, TitleKnown, TitleDeletesLive
  <1> QED
    BY <1>1, InductiveInvariant, PTL

(* Whatever the number of levels, one that is entered exists               *)
(* (game_mode_play, game_mode_game_over).                                  *)
THEOREM LevelsExist == Spec => []LevelInRange
  <1>1. IInv => LevelInRange
    BY DEF IInv, Unforced, OnItsWay, LevelInRange
  <1> QED
    BY <1>1, InductiveInvariant, PTL

(* No entity of a level is in use when it is over (game_mode_play).        *)
THEOREM NothingIsLeft == Spec => []NothingLeftOfPlay
  <1>1. IInv => NothingLeftOfPlay
    BY DEF IInv, Unforced, NothingLeftOfPlay
  <1> QED
    BY <1>1, InductiveInvariant, PTL

(* Between two frames the current mode may run (mode_check_exit).          *)
THEOREM ModesAreReady == Spec => []ModeReady
  <1>1. IInv => ModeReady
    BY DEF IInv, Unforced, OnItsWay, ModeReady, mode_running, mode_exiting
  <1> QED
    BY <1>1, InductiveInvariant, PTL
=============================================================================
