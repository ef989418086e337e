----------------------------- MODULE GameModes -----------------------------
(***************************************************************************)
(* The modes of the game (game_mode.odin and the game_mode_* procedures)   *)
(* and what they do to the entity store.                                   *)
(*                                                                         *)
(* A frame of game_update calls the procedure of the current mode, which   *)
(* has three parts: one for the first frame of a visit, one for a running  *)
(* frame and one for the last frame; mode_check_exit then changes the      *)
(* mode.  The variable step says which part is next.  Of the entities, the *)
(* two of the title and those of a level matter, each with a name.         *)
(*                                                                         *)
(* The title keeps its entity in a static variable, which a new library    *)
(* (app_loader) starts with 0.                                             *)
(***************************************************************************)
EXTENDS Integers, Sequences

CONSTANTS
  EntityMax, Keys, NameKey, Values, None, \* of the entity store
  LevelCount,  \* len(levels)
  ODIN_DEBUG   \* a build with the debug windows

VARIABLES
  current_entity_id, entities, available_slots, registered, data, entity_indices,
  map_len, slots_buffer, sound,            \* the store
  entered, exiting, current, next,         \* struct Mode
  current_level,
  quit_requested,
  entity_title,                            \* static in game_mode_title
  debug_force_transition,                  \* a mode, or "none"
  debug_ui_window_game,                    \* the window that sets and clears it
  forced,                                  \* history: a mode has been forced
  forgotten,                               \* history: a library loaded since the title began
  step                                     \* "frame", "enter", "enter_2", "run", "exit"

Store == INSTANCE EntityStore

storeVars == <<current_entity_id, entities, available_slots, registered, data,
               entity_indices, map_len, slots_buffer, sound>>
modeVars  == <<entered, exiting, current, next>>
debugVars == <<debug_force_transition, debug_ui_window_game, forced>>
titleVars == <<entity_title, forgotten>>
vars == <<storeVars, modeVars, current_level, quit_requested, titleVars, debugVars, step>>

Game_Mode == {"Init", "Title", "Play", "Game_Over", "Debug"}

ASSUME LevelAssumption == LevelCount \in Nat \ {0} /\ ODIN_DEBUG \in BOOLEAN
ASSUME StoreAssumption == EntityMax \in Nat \ {0}

Init ==
  /\ Store!Init
  /\ entered = FALSE /\ exiting = FALSE /\ current = "Init" /\ next = "Init"
  /\ current_level = 0
  /\ quit_requested = FALSE
  /\ entity_title = Store!ENTITY_INVALID
  /\ debug_force_transition = "none"
  /\ debug_ui_window_game = TRUE
  /\ forced = FALSE
  /\ forgotten = FALSE
  /\ step = "frame"

-----------------------------------------------------------------------------
(* struct Mode.                                                            *)
mode_transition(mode) == exiting' = TRUE /\ next' = mode /\ UNCHANGED <<entered, current>>

mode_entering == ~entered
mode_running  == ~exiting
mode_exiting  == current # next

(* Mutants: entered, or exiting, is not reset.                             *)
CheckExitKeepsEntered ==
  IF mode_exiting
  THEN exiting' = FALSE /\ current' = next /\ UNCHANGED <<entered, next>>
  ELSE UNCHANGED modeVars

CheckExitKeepsExiting ==
  IF mode_exiting
  THEN entered' = FALSE /\ current' = next /\ UNCHANGED <<exiting, next>>
  ELSE UNCHANGED modeVars

mode_check_exit ==
  IF mode_exiting
  THEN entered' = FALSE /\ exiting' = FALSE /\ current' = next /\ UNCHANGED next
  ELSE UNCHANGED modeVars

-----------------------------------------------------------------------------
(* A frame begins.  The window, if it is open, clears the forced mode and  *)
(* offers the modes but the current one; a key opens or closes it.         *)
BeginFrame ==
  /\ step = "frame" /\ ~quit_requested
  /\ debug_force_transition' \in
       IF ~ODIN_DEBUG THEN {"none"}
       ELSE IF debug_ui_window_game THEN {"none"} \union (Game_Mode \ {current})
       ELSE {debug_force_transition}
  /\ debug_ui_window_game' \in IF ODIN_DEBUG THEN BOOLEAN ELSE {debug_ui_window_game}
  /\ IF debug_force_transition' # "none"
     THEN mode_transition(debug_force_transition')
     ELSE UNCHANGED modeVars
  /\ forced' = (forced \/ debug_force_transition' # "none")
  /\ step' = "enter"
  /\ UNCHANGED <<storeVars, current_level, quit_requested, titleVars>>

(* A new library is loaded between two frames: its statics are zero.       *)
Reload ==
  /\ step = "frame" /\ ~quit_requested
  /\ entity_title' = Store!ENTITY_INVALID /\ forgotten' = TRUE
  /\ UNCHANGED <<storeVars, modeVars, current_level, quit_requested, debugVars, step>>

-----------------------------------------------------------------------------
(* The first frame of a visit.                                             *)
CreateNamed(e) == \E name \in Values : Store!create_entity_name(e, name)

(* The title and the janitor beside it, one after the other, in the same   *)
(* static variable.                                                        *)
EnterTitle ==
  /\ current = "Title"
  /\ \/ /\ step = "enter" /\ mode_entering
        /\ entered' = TRUE
        /\ step' = "enter_2"
        /\ UNCHANGED <<exiting, current, next>>
     \/ /\ step = "enter_2"
        /\ step' = "run"
        /\ UNCHANGED modeVars
  /\ \E e \in Store!Entity : CreateNamed(e) /\ entity_title' = e
  /\ forgotten' = FALSE
  /\ UNCHANGED <<current_level, quit_requested, debugVars>>

(* The entities of a level, as many as it has.                             *)
EnterPlay ==
  /\ step = "enter" /\ current = "Play" /\ mode_entering
  /\ current_level < LevelCount                  \* levels[current_level]
  /\ \E e \in Store!Entity : CreateNamed(e)
  /\ entered' \in BOOLEAN
  /\ step' = IF entered' THEN "run" ELSE step
  /\ UNCHANGED <<exiting, current, next, current_level, quit_requested, titleVars, debugVars>>

EnterOther ==
  /\ step = "enter"
  /\ mode_entering => current \notin {"Title", "Play"}
  /\ entered' = (entered \/ current # "Init")    \* game_mode_init does not ask
  /\ step' = "run"
  /\ UNCHANGED <<storeVars, exiting, current, next, current_level, quit_requested, titleVars, debugVars>>

-----------------------------------------------------------------------------
(* A running frame, or one that is not since the mode has been forced out. *)
Skip ==
  /\ step = "run"
  /\ step' = "exit"
  /\ UNCHANGED <<storeVars, modeVars, current_level, quit_requested, titleVars, debugVars>>

(* game_mode_init transitions without asking whether it is running.        *)
RunInit ==
  /\ step = "run" /\ current = "Init"
  /\ mode_transition("Title")
  /\ step' = "exit"
  /\ UNCHANGED <<storeVars, current_level, quit_requested, titleVars, debugVars>>

RunTitle ==
  /\ step = "run" /\ current = "Title" /\ mode_running
  /\ \/ current_level' = 0 /\ mode_transition("Play") /\ UNCHANGED quit_requested
     \/ quit_requested' = TRUE /\ UNCHANGED <<modeVars, current_level>>
  /\ step' = "exit"
  /\ UNCHANGED <<storeVars, titleVars, debugVars>>

(* A mess is made.                                                         *)
PlayCreates ==
  /\ step = "run" /\ current = "Play" /\ mode_running
  /\ \E e \in Store!Entity : CreateNamed(e)
  /\ UNCHANGED <<modeVars, current_level, quit_requested, titleVars, debugVars, step>>

(* next_level at the last door, the end of the time, or both in one frame. *)
RunPlay ==
  /\ step = "run" /\ current = "Play" /\ mode_running
  /\ current_level' \in {current_level, current_level + 1}
  /\ mode_transition("Game_Over")
  /\ step' = "exit"
  /\ UNCHANGED <<storeVars, quit_requested, titleVars, debugVars>>

(* Mutant: off by one.                                                     *)
game_is_over_late == current_level > LevelCount

game_is_over == current_level >= LevelCount

RunGameOver ==
  /\ step = "run" /\ current = "Game_Over" /\ mode_running
  /\ \/ mode_transition(IF game_is_over THEN "Title" ELSE "Play") /\ UNCHANGED quit_requested
     \/ quit_requested' = TRUE /\ UNCHANGED modeVars
  /\ step' = "exit"
  /\ UNCHANGED <<storeVars, current_level, titleVars, debugVars>>

-----------------------------------------------------------------------------
(* Mutant: the end of Play without the reset of the store.                 *)
ExitPlayWithoutReset ==
  /\ current = "Play" /\ mode_exiting
  /\ UNCHANGED storeVars

ExitTitle ==
  /\ current = "Title" /\ mode_exiting
  /\ Store!entity_delete_entity(entity_title)

(* The entities of the lists are deleted first; then everything is.        *)
ExitPlay ==
  /\ current = "Play" /\ mode_exiting
  /\ Store!entity_reset_memory

ExitOther ==
  /\ current \in {"Title", "Play"} => ~mode_exiting
  /\ UNCHANGED storeVars

(* The last part of the mode's procedure, then mode_check_exit.            *)
EndFrame ==
  /\ step = "exit"
  /\ ExitTitle \/ ExitPlay \/ ExitOther
  /\ mode_check_exit
  /\ step' = "frame"
  /\ UNCHANGED <<current_level, quit_requested, titleVars, debugVars>>

Next ==
  \/ BeginFrame \/ Reload
  \/ EnterTitle \/ EnterPlay \/ EnterOther
  \/ Skip \/ RunInit \/ RunTitle \/ PlayCreates \/ RunPlay \/ RunGameOver
  \/ EndFrame

Spec == Init /\ [][Next]_vars

-----------------------------------------------------------------------------
(* The title deletes an entity that is in use when it is left, and not one *)
(* a former visit had: deleting it twice would hand it out twice           *)
(* (game_mode_title).  Only a library loaded while the title is shown lets *)
(* it delete entity 0.                                                     *)
TitleDeletesLive ==
  step = "exit" /\ current = "Title" /\ mode_exiting =>
    IF forgotten THEN entity_title = Store!ENTITY_INVALID ELSE entity_title \in Store!Live

(* When a level is entered it exists: levels[current_level] in             *)
(* game_mode_play is in range, however often levels were won or lost.  The *)
(* debug window may force a mode past the test of the last level.          *)
LevelInRange ==
  ~forced /\ step = "enter" /\ current = "Play" /\ mode_entering => current_level < LevelCount

(* Nothing of a level survives it: in any mode after Play, the ids in use  *)
(* are those the title has made since (game_mode_play, the exit part).     *)
(* Forced from the title into game over, one of the title's is left.       *)
NothingLeftOfPlay ==
  ~forced /\ current = "Game_Over" => Store!Live = {}

(* Between two frames the current mode is not on its way out, so that its  *)
(* running part is called in the next frame (mode_check_exit).  A mode     *)
(* forced upon itself stays on its way out.                                *)
ModeReady == ~forced /\ step = "frame" => mode_running /\ ~mode_exiting
=============================================================================
