-------------------------------- MODULE Inputs --------------------------------
(***************************************************************************)
(* The keys and the controllers between the events of SDL                  *)
(* (platform_frame_begin) and what the game reads in the same frame        *)
(* (update_player_inputs).                                                 *)
(*                                                                         *)
(* Every input of Player_Inputs is bound to one key and to one button: the *)
(* three have one name here, a Control.  The other keys matter since any   *)
(* key that is held makes the game read the keyboard and no controller.    *)
(*                                                                         *)
(* A poll handles the events that have come since the last one, in their   *)
(* order, so an event happens in the model when it is handled.             *)
(***************************************************************************)
EXTENDS Integers

CONSTANTS
  Control,     \* confirm, cancel, dash, ...
  OtherKey,    \* the keys that are bound to none of them
  Device,      \* the controllers
  NoDevice

Key == Control \union OtherKey

ASSUME InputsAssumption == NoDevice \notin Device /\ Control # {}

VARIABLES
  phase,              \* "poll", or "game" once the game has read the inputs
  keys, controllers,  \* Inputs
  keyboard_was_used,
  player_inputs,
  held_keys, held_buttons, \* what the player holds down
  first_player,            \* the device of player 0
  keys_before, buttons_before, \* history: what was down when the frame began
  went_up                      \* history: what has been released in this poll

inputVars == <<keys, controllers, keyboard_was_used>>
heldVars  == <<held_keys, held_buttons, first_player>>
beforeVars == <<keys_before, buttons_before>>
vars == <<phase, inputVars, player_inputs, heldVars, beforeVars, went_up>>

Key_State == [down : BOOLEAN, pressed : BOOLEAN, released : BOOLEAN]
Untouched == [down |-> FALSE, pressed |-> FALSE, released |-> FALSE]

(* No entry in the map of controllers.                                     *)
NoController == [c \in {} |-> Untouched]
Fresh        == [c \in Control |-> Untouched]

Connected(d) == controllers[d] # NoController

Init ==
  /\ phase = "game"
  /\ keys = [k \in Key |-> Untouched]
  /\ controllers = [d \in Device |-> NoController]
  /\ keyboard_was_used = FALSE
  /\ player_inputs = Fresh
  /\ held_keys = {} /\ held_buttons = {} /\ first_player = NoDevice
  /\ keys_before = {} /\ buttons_before = {} /\ went_up = {}

-----------------------------------------------------------------------------
(* Mutants: a release stays until the next event of the key; all is        *)
(* forgotten, what is down too.                                            *)
ReleaseKept(state) == [state EXCEPT !.pressed = FALSE]

AllCleared(state) == Untouched

Cleared(state) == [state EXCEPT !.pressed = FALSE, !.released = FALSE]

(* Mutant: what is used is looked for among the keys pressed.              *)
any_key_pressed(states) == \E k \in Key : states[k].pressed

any_key_used(states) == \E k \in Key : states[k].down \/ states[k].released

(* The frame begins: what was released or pressed is forgotten, and only   *)
(* then the keys that are used are looked for.                             *)
platform_frame_begin ==
  /\ phase = "game"
  /\ phase' = "poll"
  /\ keys' = [k \in Key |-> Cleared(keys[k])]
  /\ controllers' = [d \in Device |-> [c \in DOMAIN controllers[d] |-> Cleared(controllers[d][c])]]
  /\ keyboard_was_used' = any_key_used(keys')
  /\ keys_before' = held_keys
  /\ buttons_before' = held_buttons
  /\ went_up' = {}
  /\ UNCHANGED <<player_inputs, heldVars>>

Event(is_down) == [down |-> is_down, pressed |-> is_down, released |-> ~is_down]

(* A key that is held sends the event again and again.                     *)
KeyDown(k) ==
  /\ phase = "poll"
  /\ held_keys' = held_keys \union {k}
  /\ keys' = [keys EXCEPT ![k] = Event(TRUE)]
  /\ UNCHANGED <<phase, controllers, keyboard_was_used, player_inputs, held_buttons, first_player,
                 beforeVars, went_up>>

KeyUp(k) ==
  /\ phase = "poll"
  /\ k \in held_keys
  /\ held_keys' = held_keys \ {k}
  /\ keys' = [keys EXCEPT ![k] = Event(FALSE)]
  /\ went_up' = went_up \union {<<NoDevice, k>>}
  /\ UNCHANGED <<phase, controllers, keyboard_was_used, player_inputs, held_buttons, first_player, beforeVars>>

ButtonDown(d, c) ==
  /\ phase = "poll"
  /\ Connected(d) /\ <<d, c>> \notin held_buttons
  /\ held_buttons' = held_buttons \union {<<d, c>>}
  /\ controllers' = [controllers EXCEPT ![d][c] = Event(TRUE)]
  /\ UNCHANGED <<phase, keys, keyboard_was_used, player_inputs, held_keys, first_player, beforeVars, went_up>>

ButtonUp(d, c) ==
  /\ phase = "poll"
  /\ <<d, c>> \in held_buttons
  /\ held_buttons' = held_buttons \ {<<d, c>>}
  /\ controllers' = [controllers EXCEPT ![d][c] = Event(FALSE)]
  /\ went_up' = went_up \union {<<d, c>>}
  /\ UNCHANGED <<phase, keys, keyboard_was_used, player_inputs, held_keys, first_player, beforeVars>>

(* The first device that finds no player 0 becomes it.                     *)
DeviceAdded(d) ==
  /\ phase = "poll"
  /\ ~Connected(d)
  /\ controllers' = [controllers EXCEPT ![d] = Fresh]
  /\ first_player' = IF first_player = NoDevice THEN d ELSE first_player
  /\ UNCHANGED <<phase, keys, keyboard_was_used, player_inputs, held_keys, held_buttons, beforeVars, went_up>>

(* Whatever is down on it goes with it.                                    *)
DeviceRemoved(d) ==
  /\ phase = "poll"
  /\ Connected(d)
  /\ controllers' = [controllers EXCEPT ![d] = NoController]
  /\ first_player' = IF first_player = d THEN NoDevice ELSE first_player
  /\ held_buttons' = {b \in held_buttons : b[1] # d}
  /\ buttons_before' = {b \in buttons_before : b[1] # d}
  /\ UNCHANGED <<phase, keys, keyboard_was_used, player_inputs, held_keys, keys_before, went_up>>

(* One source a frame: the keyboard, else the controller of player 0.      *)
update_player_inputs ==
  /\ phase = "poll"
  /\ phase' = "game"
  /\ player_inputs' = IF keyboard_was_used THEN [c \in Control |-> keys[c]]
                      ELSE IF first_player # NoDevice THEN controllers[first_player]
                      ELSE Fresh
  /\ UNCHANGED <<inputVars, heldVars, beforeVars, went_up>>

-----------------------------------------------------------------------------
Next ==
  \/ platform_frame_begin \/ update_player_inputs
  \/ \E k \in Key : KeyDown(k) \/ KeyUp(k)
  \/ \E d \in Device :
       \/ \E c \in Control : ButtonDown(d, c) \/ ButtonUp(d, c)
       \/ DeviceAdded(d) \/ DeviceRemoved(d)

Spec == Init /\ [][Next]_vars

(* A poll ends, it never waits for an event, and frames go on.             *)
FairSpec == Spec /\ WF_vars(platform_frame_begin) /\ WF_vars(update_player_inputs)

-----------------------------------------------------------------------------
(* The types of the variables.                                             *)
TypeOK ==
  /\ phase \in {"poll", "game"}
  /\ keys \in [Key -> Key_State]
  /\ controllers \in [Device -> [Control -> Key_State] \union {NoController}]
  /\ keyboard_was_used \in BOOLEAN
  /\ player_inputs \in [Control -> Key_State]
  /\ held_keys \subseteq Key /\ keys_before \subseteq Key
  /\ held_buttons \subseteq Device \X Control /\ buttons_before \subseteq Device \X Control
  /\ first_player \in Device \union {NoDevice}
  /\ went_up \subseteq (Device \union {NoDevice}) \X Key

(* What was held when the frame began and is held no longer is released    *)
(* for the game in this frame: a key always, whatever else is held (the    *)
(* keyboard was used, for the key was down), a button of player 0 when no  *)
(* key was held.  The menus and the interactions of a level act on a       *)
(* release and would miss it.                                              *)
ReleaseSeen ==
  phase = "game" => \A c \in Control :
    /\ c \in keys_before \ held_keys => player_inputs[c].released
    /\ /\ keys_before = {} /\ first_player # NoDevice
       /\ <<first_player, c>> \in buttons_before \ held_buttons
       => player_inputs[c].released

(* A release the game sees is one of this very frame, never that of an     *)
(* earlier one or of a device that is gone, and the source holds the       *)
(* control no longer: an interaction happens once per release.             *)
NoGhostRelease ==
  phase = "game" => \A c \in Control : player_inputs[c].released =>
    \/ <<NoDevice, c>> \in went_up /\ c \notin held_keys
    \/ <<first_player, c>> \in went_up /\ <<first_player, c>> \notin held_buttons

(* What the player keeps holding reaches the game, although the frame of   *)
(* the first press still reads the controllers (keyboard_was_used is       *)
(* computed before the poll).                                              *)
HoldArrives ==
  \A c \in Control : c \in held_keys ~> player_inputs[c].down \/ c \notin held_keys
=============================================================================
