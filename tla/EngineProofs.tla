---------------------------- MODULE EngineProofs ----------------------------
(* Theorems about the engine, for any inputs, keys and controllers and for *)
(* any table of assets: Inputs comes first, then Assets.                   *)
EXTENDS Inputs, Assets, SequenceTheorems, TLAPS


(* What is down is what the player holds.                                  *)
DownIsHeld ==
  /\ \A k \in Key : keys[k].down <=> k \in held_keys
  /\ \A d \in Device, c \in Control :
       /\ Connected(d) => (controllers[d][c].down <=> <<d, c>> \in held_buttons)
       /\ ~Connected(d) => <<d, c>> \notin held_buttons /\ <<d, c>> \notin buttons_before

(* The keyboard is the source of a frame that began with a key held.       *)
KeyboardSource ==
  /\ keyboard_was_used <=> keys_before # {}
  /\ first_player # NoDevice => Connected(first_player)

(* What went up since the frame began is released, and nothing else.       *)
ReleasedWentUp ==
  /\ \A k \in Key :
       /\ k \in keys_before \ held_keys => keys[k].released
       /\ keys[k].released => <<NoDevice, k>> \in went_up /\ k \notin held_keys
  /\ \A d \in Device, c \in Control : Connected(d) =>
       /\ <<d, c>> \in buttons_before \ held_buttons => controllers[d][c].released
       /\ controllers[d][c].released => <<d, c>> \in went_up /\ <<d, c>> \notin held_buttons

IInv == TypeOK /\ DownIsHeld /\ KeyboardSource /\ ReleasedWentUp /\ ReleaseSeen /\ NoGhostRelease

-----------------------------------------------------------------------------
LEMMA StateTypes ==
  /\ Untouched \in Key_State
  /\ Fresh \in [Control -> Key_State]
  /\ \A s \in Key_State :
       /\ Cleared(s) \in Key_State
       /\ Cleared(s).down = s.down /\ Cleared(s).released = FALSE
  /\ \A b \in BOOLEAN :
       /\ Event(b) \in Key_State
       /\ Event(b).down = b /\ Event(b).released = ~b
  BY DEF Untouched, Fresh, Key_State, Cleared, Event

(* A controller that is there has all its buttons.                         *)
LEMMA ConnectedType ==
  ASSUME TypeOK, NEW d \in Device
  PROVE  /\ Connected(d) => controllers[d] \in [Control -> Key_State]
         /\ \A f \in [Control -> Key_State] : f # NoController
  <1>1. DOMAIN NoController = {}
    BY DEF NoController
  <1>2. \A f \in [Control -> Key_State] : DOMAIN f = Control
    OBVIOUS
  <1>3. \A f \in [Control -> Key_State] : f # NoController
    BY <1>1, <1>2, InputsAssumption
  <1> QED
    BY <1>3 DEF TypeOK, Connected

LEMMA InitIInv == Init => IInv
  <1> SUFFICES ASSUME Init PROVE IInv
    OBVIOUS
  <1>1. TypeOK
    BY StateTypes DEF Init, TypeOK, Key, NoController
  <1>2. DownIsHeld /\ KeyboardSource
    BY DEF Init, DownIsHeld, KeyboardSource, Connected, Untouched
  <1>3. ReleasedWentUp /\ ReleaseSeen /\ NoGhostRelease
    BY DEF Init, ReleasedWentUp, ReleaseSeen, NoGhostRelease, Connected, Untouched, Fresh, Key
  <1> QED
    BY <1>1, <1>2, <1>3 DEF IInv

-----------------------------------------------------------------------------
LEMMA FrameBeginIInv == IInv /\ platform_frame_begin => IInv'
  <1> SUFFICES ASSUME IInv, platform_frame_begin PROVE IInv'
    OBVIOUS
  <1> USE DEF IInv
  <1>1. \A d \in Device : controllers'[d] = [c \in DOMAIN controllers[d] |-> Cleared(controllers[d][c])]
    BY DEF platform_frame_begin
  <1>2. ASSUME NEW d \in Device
        PROVE  IF Connected(d)
               THEN /\ controllers'[d] \in [Control -> Key_State]
                    /\ controllers'[d] # NoController
                    /\ \A c \in Control : controllers'[d][c] = Cleared(controllers[d][c])
               ELSE controllers'[d] = NoController
    <2>1. CASE Connected(d)
      <3>1. controllers[d] \in [Control -> Key_State]
        BY <2>1, ConnectedType
      <3>2. controllers'[d] = [c \in Control |-> Cleared(controllers[d][c])]
        BY <1>1, <3>1
      <3>3. controllers'[d] \in [Control -> Key_State]
        BY <3>1, <3>2, StateTypes
      <3> QED
        BY <2>1, <3>2, <3>3, ConnectedType
    <2>2. CASE ~Connected(d)
      BY <1>1, <2>2 DEF Connected, NoController
    <2> QED
      BY <2>1, <2>2
  <1>3. keys' \in [Key -> Key_State] /\ \A k \in Key : keys'[k] = Cleared(keys[k])
    BY StateTypes DEF platform_frame_begin, TypeOK
  <1>4. keyboard_was_used' <=> \E k \in Key : keys[k].down
    <2>1. \A k \in Key : keys'[k].down = keys[k].down /\ ~keys'[k].released
      BY <1>3, StateTypes DEF TypeOK
    <2> QED
      BY <2>1 DEF platform_frame_begin, any_key_used
  <1>5. controllers' \in [Device -> [Control -> Key_State] \union {NoController}]
    <2>1. \A d \in Device : controllers'[d] \in [Control -> Key_State] \union {NoController}
      BY <1>2
    <2> QED
      BY <2>1 DEF platform_frame_begin
  <1>6. TypeOK'
    BY <1>3, <1>4, <1>5 DEF platform_frame_begin, TypeOK, heldVars, any_key_used
  <1>7. DownIsHeld'
    <2>1. \A k \in Key : keys'[k].down <=> k \in held_keys'
      BY <1>3, StateTypes DEF platform_frame_begin, heldVars, DownIsHeld, TypeOK
    <2>2. ASSUME NEW d \in Device, NEW c \in Control
          PROVE  /\ Connected(d)' => (controllers'[d][c].down <=> <<d, c>> \in held_buttons')
                 /\ ~Connected(d)' => <<d, c>> \notin held_buttons' /\ <<d, c>> \notin buttons_before'
      <3>1. Connected(d) => controllers[d][c] \in Key_State
        BY ConnectedType
      <3> QED
        BY <1>2, <3>1, StateTypes DEF platform_frame_begin, heldVars, DownIsHeld, Connected
    <2> QED
      BY <2>1, <2>2 DEF DownIsHeld
  <1>8. KeyboardSource'
    <2>1. keyboard_was_used' <=> keys_before' # {}
      BY <1>4 DEF platform_frame_begin, DownIsHeld, TypeOK
    <2>2. first_player' # NoDevice => Connected(first_player)'
      BY <1>2 DEF platform_frame_begin, heldVars, KeyboardSource, Connected, TypeOK
    <2> QED
      BY <2>1, <2>2 DEF KeyboardSource
  <1>9. ReleasedWentUp'
    <2>1. \A k \in Key : ~keys'[k].released
      BY <1>3, StateTypes DEF TypeOK
    <2>2. \A d \in Device, c \in Control : Connected(d)' => ~controllers'[d][c].released
      <3>1. \A d \in Device, c \in Control : Connected(d) => controllers[d][c] \in Key_State
        BY ConnectedType
      <3> QED
        BY <1>2, <3>1, StateTypes DEF Connected
    <2> QED
      BY <2>1, <2>2 DEF platform_frame_begin, heldVars, ReleasedWentUp
  <1>10. ReleaseSeen' /\ NoGhostRelease'
    BY DEF platform_frame_begin, ReleaseSeen, NoGhostRelease
  <1> QED
    BY <1>6, <1>7, <1>8, <1>9, <1>10

-----------------------------------------------------------------------------
(* The events change no more than the state of one key or button, and only *)
(* in a poll, when ReleaseSeen and NoGhostRelease say nothing.             *)
LEMMA InPoll ==
  ASSUME phase' = "poll"
  PROVE  ReleaseSeen' /\ NoGhostRelease'
  BY DEF ReleaseSeen, NoGhostRelease

(* An event of the key k, which is held afterwards or not.                 *)
LEMMA KeyEvent ==
  ASSUME IInv, NEW k \in Key, NEW b \in BOOLEAN,
         phase = "poll", phase' = phase, controllers' = controllers,
         keyboard_was_used' = keyboard_was_used, player_inputs' = player_inputs,
         held_buttons' = held_buttons, first_player' = first_player,
         keys_before' = keys_before, buttons_before' = buttons_before,
         held_keys' = IF b THEN held_keys \union {k} ELSE held_keys \ {k},
         keys' = [keys EXCEPT ![k] = Event(b)],
         went_up' = IF b THEN went_up ELSE went_up \union {<<NoDevice, k>>}
  PROVE  IInv'
  <1> USE DEF IInv
  <1>1. /\ keys' \in [Key -> Key_State]
        /\ keys'[k].down = b /\ keys'[k].released = ~b
        /\ \A j \in Key \ {k} : keys'[j] = keys[j]
    BY StateTypes DEF TypeOK
  <1>2. TypeOK'
    BY <1>1 DEF TypeOK
  <1>3. DownIsHeld'
    BY <1>1 DEF DownIsHeld, Connected
  <1>4. KeyboardSource'
    BY DEF KeyboardSource, Connected
  <1>5. ReleasedWentUp'
    <2>1. ASSUME NEW j \in Key
          PROVE  /\ j \in keys_before' \ held_keys' => keys'[j].released
                 /\ keys'[j].released => <<NoDevice, j>> \in went_up' /\ j \notin held_keys'
      <3>1. CASE j = k
        BY <1>1, <3>1
      <3>2. CASE j # k
        BY <1>1, <3>2 DEF ReleasedWentUp
      <3> QED
        BY <3>1, <3>2
    <2> QED
      BY <2>1 DEF ReleasedWentUp, Connected
  <1> QED
    BY <1>2, <1>3, <1>4, <1>5, InPoll

(* An event of the button c of the controller d.                           *)
LEMMA ButtonEvent ==
  ASSUME IInv, NEW d \in Device, NEW c \in Control, NEW b \in BOOLEAN, Connected(d),
         phase = "poll", phase' = phase, keys' = keys,
         keyboard_was_used' = keyboard_was_used, player_inputs' = player_inputs,
         held_keys' = held_keys, first_player' = first_player,
         keys_before' = keys_before, buttons_before' = buttons_before,
         held_buttons' = IF b THEN held_buttons \union {<<d, c>>} ELSE held_buttons \ {<<d, c>>},
         controllers' = [controllers EXCEPT ![d][c] = Event(b)],
         went_up' = IF b THEN went_up ELSE went_up \union {<<d, c>>}
  PROVE  IInv'
  <1> USE DEF IInv
  <1>1. /\ controllers[d] \in [Control -> Key_State]
        /\ controllers'[d] = [controllers[d] EXCEPT ![c] = Event(b)]
        /\ \A e \in Device \ {d} : controllers'[e] = controllers[e]
    BY ConnectedType DEF TypeOK
  <1>2. /\ controllers'[d] \in [Control -> Key_State]
        /\ controllers'[d][c].down = b /\ controllers'[d][c].released = ~b
        /\ \A a \in Control \ {c} : controllers'[d][a] = controllers[d][a]
    BY <1>1, StateTypes
  <1>3. /\ controllers' \in [Device -> [Control -> Key_State] \union {NoController}]
        /\ \A e \in Device : Connected(e)' <=> Connected(e)
    BY <1>1, <1>2, ConnectedType DEF TypeOK, Connected
  <1>4. TypeOK'
    BY <1>3, InputsAssumption DEF TypeOK, Key
  <1>5. KeyboardSource'
    BY <1>3 DEF KeyboardSource, TypeOK
  <1>6. ASSUME NEW e \in Device, NEW a \in Control
        PROVE  /\ Connected(e)' => (controllers'[e][a].down <=> <<e, a>> \in held_buttons')
               /\ ~Connected(e)' => <<e, a>> \notin held_buttons' /\ <<e, a>> \notin buttons_before'
               /\ Connected(e)' =>
                    /\ <<e, a>> \in buttons_before' \ held_buttons' => controllers'[e][a].released
                    /\ controllers'[e][a].released =>
                         <<e, a>> \in went_up' /\ <<e, a>> \notin held_buttons'
    <2>1. CASE e = d /\ a = c
      BY <1>2, <1>3, <2>1
    <2>2. CASE ~(e = d /\ a = c)
      <3>1. /\ controllers'[e][a] = controllers[e][a]
            /\ <<e, a>> # <<d, c>>
        BY <1>1, <1>2, <2>2
      <3> QED
        BY <1>3, <3>1 DEF DownIsHeld, ReleasedWentUp
    <2> QED
      BY <2>1, <2>2
  <1>7. DownIsHeld'
    BY <1>6 DEF DownIsHeld
  <1>8. ReleasedWentUp'
    <2>1. \A k \in Key : <<NoDevice, k>> \in went_up => <<NoDevice, k>> \in went_up'
      OBVIOUS
    <2> QED
      BY <1>6, <2>1 DEF ReleasedWentUp
  <1> QED
    BY <1>4, <1>5, <1>7, <1>8, InPoll

-----------------------------------------------------------------------------
LEMMA AddedIInv == ASSUME IInv, NEW d \in Device, DeviceAdded(d) PROVE IInv'
  <1> USE DEF IInv, DeviceAdded
  <1>1. /\ controllers'[d] = Fresh /\ Fresh # NoController
        /\ \A e \in Device \ {d} : controllers'[e] = controllers[e]
        /\ \A c \in Control : ~Fresh[c].down /\ ~Fresh[c].released
    BY StateTypes, ConnectedType DEF TypeOK, Fresh, Untouched
  <1>2. TypeOK'
    BY StateTypes DEF TypeOK, beforeVars
  <1>3. DownIsHeld'
    BY <1>1 DEF DownIsHeld, Connected, beforeVars
  <1>4. KeyboardSource'
    BY <1>1 DEF KeyboardSource, Connected, beforeVars, TypeOK
  <1>5. ReleasedWentUp'
    BY <1>1 DEF ReleasedWentUp, DownIsHeld, Connected, beforeVars
  <1> QED
    BY <1>2, <1>3, <1>4, <1>5, InPoll

LEMMA RemovedIInv == ASSUME IInv, NEW d \in Device, DeviceRemoved(d) PROVE IInv'
  <1> USE DEF IInv, DeviceRemoved
  <1>1. /\ controllers'[d] = NoController
        /\ \A e \in Device \ {d} : controllers'[e] = controllers[e]
    BY DEF TypeOK
  <1>2. \A e \in Device, c \in Control :
          /\ <<e, c>> \in held_buttons' <=> <<e, c>> \in held_buttons /\ e # d
          /\ <<e, c>> \in buttons_before' <=> <<e, c>> \in buttons_before /\ e # d
    OBVIOUS
  <1>3. TypeOK'
    BY DEF TypeOK
  <1>4. DownIsHeld'
    BY <1>1, <1>2 DEF DownIsHeld, Connected
  <1>5. KeyboardSource'
    BY <1>1 DEF KeyboardSource, Connected, TypeOK
  <1>6. ReleasedWentUp'
    BY <1>1, <1>2 DEF ReleasedWentUp, Connected
  <1> QED
    BY <1>3, <1>4, <1>5, <1>6, InPoll

(* Whatever the source is, what it says of a control is what went up.      *)
LEMMA UpdateIInv == IInv /\ update_player_inputs => IInv'
  <1> SUFFICES ASSUME IInv, update_player_inputs PROVE IInv'
    OBVIOUS
  <1> USE DEF IInv, update_player_inputs, inputVars, heldVars, beforeVars
  <1>1. Control \subseteq Key
    BY DEF Key
  <1>2. first_player # NoDevice => controllers[first_player] \in [Control -> Key_State]
    BY ConnectedType DEF KeyboardSource, TypeOK
  <1>3. TypeOK'
    BY <1>1, <1>2, StateTypes DEF TypeOK
  <1>4. DownIsHeld' /\ KeyboardSource' /\ ReleasedWentUp'
    BY DEF DownIsHeld, KeyboardSource, ReleasedWentUp, Connected
  <1>5. ASSUME NEW c \in Control
        PROVE  /\ c \in keys_before \ held_keys => player_inputs'[c].released
               /\ /\ keys_before = {} /\ first_player # NoDevice
                  /\ <<first_player, c>> \in buttons_before \ held_buttons
                  => player_inputs'[c].released
               /\ player_inputs'[c].released =>
                    \/ <<NoDevice, c>> \in went_up /\ c \notin held_keys
                    \/ <<first_player, c>> \in went_up /\ <<first_player, c>> \notin held_buttons
    <2>1. CASE keyboard_was_used
      BY <1>1, <2>1 DEF KeyboardSource, ReleasedWentUp
    <2>2. CASE ~keyboard_was_used /\ first_player # NoDevice
      BY <2>2 DEF KeyboardSource, ReleasedWentUp, TypeOK
    <2>3. CASE ~keyboard_was_used /\ first_player = NoDevice
      BY <2>3 DEF KeyboardSource, Fresh, Untouched
    <2> QED
      BY <2>1, <2>2, <2>3
  <1>6. ReleaseSeen' /\ NoGhostRelease'
    BY <1>5 DEF ReleaseSeen, NoGhostRelease
  <1> QED
    BY <1>3, <1>4, <1>6

-----------------------------------------------------------------------------
LEMMA NextIInv == IInv /\ [Next]_vars => IInv'
  <1> SUFFICES ASSUME IInv, [Next]_vars PROVE IInv'
    OBVIOUS
  <1>1. ASSUME NEW k \in Key, KeyDown(k) PROVE IInv'
    BY <1>1, KeyEvent DEF KeyDown, beforeVars
  <1>2. ASSUME NEW k \in Key, KeyUp(k) PROVE IInv'
    BY <1>2, KeyEvent DEF KeyUp, beforeVars
  <1>3. ASSUME NEW d \in Device, NEW c \in Control, ButtonDown(d, c) PROVE IInv'
    BY <1>3, ButtonEvent DEF ButtonDown, beforeVars
  <1>4. ASSUME NEW d \in Device, NEW c \in Control, ButtonUp(d, c) PROVE IInv'
    <2>1. Connected(d)
      BY <1>4 DEF ButtonUp, IInv, DownIsHeld
    <2> QED
      BY <1>4, <2>1, ButtonEvent DEF ButtonUp, beforeVars
  <1>5. CASE UNCHANGED vars
    BY <1>5 DEF IInv, TypeOK, DownIsHeld, KeyboardSource, ReleasedWentUp, ReleaseSeen, NoGhostRelease,
                Connected, vars, inputVars, heldVars, beforeVars
  <1> QED
    BY <1>1, <1>2, <1>3, <1>4, <1>5, FrameBeginIInv, UpdateIInv, AddedIInv, RemovedIInv DEF Next

(* All of it holds whatever the player does and plugs in.                  *)
THEOREM InductiveInvariant == Spec => []IInv
  BY InitIInv, NextIInv, PTL DEF Spec

(* The variables of the inputs keep their types.                           *)
THEOREM InputTypes == Spec => []TypeOK
  <1>1. IInv => TypeOK
    BY DEF IInv
  <1> QED
    BY <1>1, InductiveInvariant, PTL

(* No release of what was held is missed by the game, as ReleaseSeen says  *)
(* (platform_frame_begin, update_player_inputs).                           *)
THEOREM ReleasesAreSeen == Spec => []ReleaseSeen
  <1>1. IInv => ReleaseSeen
    BY DEF IInv
  <1> QED
    BY <1>1, InductiveInvariant, PTL

(* The game sees no release that is not of this frame and of the source it *)
(* reads (platform_frame_begin, update_player_inputs).                     *)
THEOREM ReleasesAreReal == Spec => []NoGhostRelease
  <1>1. IInv => NoGhostRelease
    BY DEF IInv
  <1> QED
    BY <1>1, InductiveInvariant, PTL


-----------------------------------------------------------------------------
(* Assets.  The entries stand in the order of their ids, where asset_add   *)
(* put them or, once the window has sorted the table, at its end.          *)
Entry   == [id : Id \union {0},
            state : {"Unloaded", "Queued", "Loaded", "Errored"},
            info : Version \union {NoInfo, Emptied, NoData}]
Graphic == Shaders \union Images
Checked == Images \union {i \in Id : Types[i] = "Map"}

Offset    == {0, AssetMax - 1 - Len(Types)}
Placed(o) == \A s \in Slot : assets[s].id = IF s - o \in 1 .. next_id - 1 THEN s - o ELSE 0
Table ==
  /\ \E o \in Offset : Placed(o)
  /\ \A s \in Slot : assets[s].id = 0 => assets[s] = Unused

(* Nothing is loaded before every asset is added.                          *)
NotYet ==
  ~Added => Placed(0) /\ todo = <<>> /\ \A s \in Slot : assets[s].state = "Unloaded"

(* The entry that is being loaded is the only one that is Queued.          *)
Queueing ==
  /\ \A s \in Slot : assets[s].state = "Queued" => todo # <<>> /\ assets[s].id = Head(todo)
  /\ read # NotRead =>
       todo # <<>> /\ \E s \in Slot : assets[s].id = Head(todo) /\ assets[s].state = "Queued"

(* A texture or a shader that is not there is going to be loaded by the    *)
(* handler that runs.                                                      *)
ToLoad(id) == \E i \in DOMAIN todo : todo[i] = id
Drawn ==
  \A s \in Slot : assets[s].id \in Graphic =>
    /\ assets[s].state = "Loaded" => assets[s].info \in Version
    /\ Added => assets[s].state = "Loaded" \/ ToLoad(assets[s].id)

(* What was loaded, or read, of a file that did not change since.          *)
Current ==
  /\ \A s \in Slot : assets[s].id \in Checked /\ ~changed[assets[s].id] =>
       /\ assets[s].state = "Loaded" => assets[s].info = file[assets[s].id].version
       /\ assets[s].state = "Errored" => ~file[assets[s].id].complete
  /\ read # NotRead /\ ~changed[Head(todo)] /\ Head(todo) \in Checked => read = file[Head(todo)]

AssetsInv == AssetsTypeOK /\ Table /\ NotYet /\ Queueing /\ Drawn /\ Current

-----------------------------------------------------------------------------
LEMMA AssetConstants ==
  /\ Len(Types) \in Nat /\ AssetMax \in Nat /\ AssetMax > 2 * Len(Types)
  /\ Id \subseteq Slot /\ 0 \notin Id
  /\ Graphic \subseteq Id /\ Checked \subseteq Id
  /\ \A id \in Id : Types[id] \in Loader
  /\ 0 \in Version /\ NoInfo \notin Version /\ Version \subseteq Int
  /\ Startup \in Seq(Id) /\ Graphics \in Seq(Id)
  /\ \A id \in Graphic : \E i \in DOMAIN Graphics : Graphics[i] = id
  <1>1. /\ Len(Types) \in Nat /\ AssetMax \in Nat /\ AssetMax > 2 * Len(Types)
        /\ Startup \in Seq(Id) /\ Graphics \in Seq(Id)
    BY AssetsAssumption
  <1>2. Id \subseteq Slot /\ 0 \notin Id
    BY <1>1 DEF Id, Slot
  <1>3. Graphic \subseteq Id /\ Checked \subseteq Id
    BY DEF Graphic, Checked, Shaders, Images
  <1>4. \A id \in Id : Types[id] \in Loader
    BY AssetsAssumption DEF Id
  <1>5. 0 \in Version /\ NoInfo \notin Version /\ Version \subseteq Int
    BY AssetsAssumption DEF Version, NoInfo
  <1>6. \A id \in Graphic : \E i \in DOMAIN Graphics : Graphics[i] = id
    BY AssetsAssumption DEF Graphic
  <1> QED
    BY <1>1, <1>2, <1>3, <1>4, <1>5, <1>6

LEMMA Sizes ==
  /\ Len(Types) \in Nat /\ AssetMax \in Nat /\ AssetMax > 2 * Len(Types)
  /\ \A id \in Id : id \in Nat /\ 1 <= id /\ id <= Len(Types) /\ id \in Slot
  /\ \A s : s \in Slot <=> s \in Nat /\ s < AssetMax
  BY AssetConstants DEF Id, Slot

(* An entry is unloaded, and that of no asset stays as it is.              *)
LEMMA Unloading ==
  /\ \A a \in Entry : /\ unload(a) \in Entry
                      /\ unload(a).id = a.id /\ unload(a).state = "Unloaded"
  /\ Unused \in Entry /\ unload(Unused) = Unused
  /\ Unused.id = 0 /\ Unused.state = "Unloaded"
  <1>1. ASSUME NEW a \in Entry
        PROVE  unload(a) \in Entry /\ unload(a).id = a.id /\ unload(a).state = "Unloaded"
    BY DEF Entry, unload
  <1>2. Unused \in Entry /\ Unused.id = 0 /\ Unused.state = "Unloaded"
    BY DEF Entry, Unused
  <1>3. unload(Unused) = Unused
    <2>1. \A a, b \in Entry : a.id = b.id /\ a.state = b.state /\ a.info = b.info => a = b
      BY DEF Entry
    <2>2. unload(Unused).info = NoInfo /\ Unused.info = NoInfo
      BY DEF unload, Unused
    <2> QED
      BY <1>1, <1>2, <2>1, <2>2
  <1> QED
    BY <1>1, <1>2, <1>3

(* asset_get_by_asset_id finds the one entry there is.                     *)
LEMMA SlotOf ==
  ASSUME AssetsTypeOK, Table, Added, NEW id \in Id
  PROVE  /\ slot_of(id) \in Slot /\ assets[slot_of(id)].id = id
         /\ \A s \in Slot : assets[s].id = id => s = slot_of(id)
         /\ asset(id) = assets[slot_of(id)]
  <1>1. next_id = Len(Types) + 1
    <2>1. next_id \in 1 .. Len(Types) + 1
      BY DEF AssetsTypeOK
    <2> QED
      BY <2>1, Sizes DEF Added
  <1>2. PICK o \in Offset : Placed(o)
    BY DEF Table
  <1>3. o \in Nat /\ o + Len(Types) < AssetMax
    BY Sizes DEF Offset
  <1>4. id + o \in Slot
    BY <1>1, <1>3, Sizes
  <1>5. assets[id + o].id = id
    BY <1>1, <1>2, <1>3, <1>4, Sizes DEF Placed
  <1>6. \A s \in Slot : assets[s].id = id => s = id + o
    <2> TAKE s \in Slot
    <2> HAVE assets[s].id = id
    <2>1. s - o = id
      BY <1>1, <1>2, Sizes DEF Placed
    <2> QED
      BY <2>1, <1>3, Sizes
  <1> QED
    BY <1>4, <1>5, <1>6 DEF slot_of, asset

(* At the position asset_unload takes the id for is the asset or, once the *)
(* table is sorted, no asset.                                              *)
LEMMA Position ==
  ASSUME AssetsTypeOK, Table, Added, NEW id \in Id
  PROVE  id \in Slot /\ (assets[id].id = id \/ assets[id] = Unused)
  <1>1. next_id = Len(Types) + 1
    <2>1. next_id \in 1 .. Len(Types) + 1
      BY DEF AssetsTypeOK
    <2> QED
      BY <2>1, Sizes DEF Added
  <1>2. PICK o \in Offset : Placed(o)
    BY DEF Table
  <1>3. CASE o = 0
    BY <1>1, <1>2, <1>3, Sizes DEF Placed
  <1>4. CASE o = AssetMax - 1 - Len(Types)
    <2>1. ~(id - o \in 1 .. next_id - 1)
      BY <1>1, <1>4, Sizes
    <2>2. assets[id].id = 0
      BY <1>2, <2>1, Sizes DEF Placed
    <2> QED
      BY <2>2, Sizes DEF Table
  <1> QED
    BY <1>1, <1>2, <1>3, <1>4 DEF Offset

LEMMA EntryType == ASSUME AssetsTypeOK PROVE assets \in [Slot -> Entry]
  BY DEF AssetsTypeOK, Entry

LEMMA InitAssetsInv == AssetsInit => AssetsInv
  <1> SUFFICES ASSUME AssetsInit PROVE AssetsInv
    OBVIOUS
  <1> USE DEF AssetsInit
  <1>1. AssetsTypeOK
    BY AssetConstants DEF AssetsTypeOK, Unused, Content, Entry, NotRead
  <1>2. Table /\ NotYet /\ Queueing
    BY AssetConstants, Unloading DEF Table, NotYet, Queueing, Placed, Offset, Slot
  <1>3. Drawn
    <2>1. \A s \in Slot : assets[s].id \notin Graphic
      BY AssetConstants, Unloading
    <2> QED
      BY <2>1 DEF Drawn
  <1>4. Current
    <2>1. \A s \in Slot : assets[s].id \notin Checked
      BY AssetConstants, Unloading
    <2> QED
      BY <2>1 DEF Current
  <1> QED
    BY <1>1, <1>2, <1>3, <1>4 DEF AssetsInv

-----------------------------------------------------------------------------
LEMMA AddAssetsInv == ASSUME AssetsInv, asset_add PROVE AssetsInv'
  <1> USE DEF asset_add
  <1> DEFINE e == [Unused EXCEPT !.id = next_id]
  <1>1. next_id \in Id /\ next_id \in Slot /\ next_id \in Nat
    <2>1. next_id \in 1 .. Len(Types) + 1
      BY DEF AssetsInv, AssetsTypeOK
    <2>2. next_id \in 1 .. Len(Types)
      BY <2>1, Sizes DEF Added
    <2> QED
      BY <2>2, Sizes DEF Id
  <1>2. e \in Entry /\ e.id = next_id /\ e.state = "Unloaded"
    BY <1>1 DEF Entry, Unused
  <1>3. /\ assets \in [Slot -> Entry] /\ Placed(0) /\ todo = <<>> /\ read = NotRead
        /\ \A s \in Slot : assets[s].state = "Unloaded"
    BY EntryType DEF AssetsInv, NotYet, Queueing
  <1>4. assets' \in [Slot -> Entry] /\ assets'[next_id] = e
    BY <1>1, <1>2, <1>3
  <1>5. \A s \in Slot : s # next_id => assets'[s] = assets[s]
    BY <1>1, <1>3
  <1>6. \A s \in Slot : assets'[s].state = "Unloaded"
    BY <1>2, <1>3, <1>4, <1>5
  <1>7. todo' \in Seq(Id) /\ (~Added' => todo' = <<>>)
    <2>1. Startup \o Graphics \in Seq(Id)
      BY AssetConstants, ConcatProperties
    <2>2. <<>> \in Seq(Id)
      OBVIOUS
    <2> QED
      BY <2>1, <2>2 DEF Added
  <1>8. AssetsTypeOK'
    <2>1. next_id' \in 1 .. Len(Types) + 1
      BY <1>1, Sizes
    <2>2. file_watches' \in Seq(Id)
      BY <1>1, AppendProperties DEF AssetsInv, AssetsTypeOK
    <2> QED
      BY <1>4, <1>7, <2>1, <2>2 DEF AssetsInv, AssetsTypeOK, Entry
  <1>9. Placed(0)'
    <2> SUFFICES ASSUME NEW s \in Slot
                 PROVE  assets'[s].id = IF s \in 1 .. next_id THEN s ELSE 0
      BY <1>1, Sizes DEF Placed
    <2>1. assets[s].id = IF s \in 1 .. next_id - 1 THEN s ELSE 0
      BY <1>3, Sizes DEF Placed
    <2> QED
      BY <2>1, <1>1, <1>2, <1>4, <1>5, Sizes
  <1>10. Table'
    <2>1. \A s \in Slot : assets'[s].id = 0 => assets'[s] = Unused
      BY <1>1, <1>2, <1>4, <1>5, Sizes DEF AssetsInv, Table
    <2> QED
      BY <1>9, <2>1 DEF Table, Offset
  <1>11. NotYet' /\ Queueing'
    BY <1>3, <1>6, <1>7, <1>9 DEF NotYet, Queueing
  <1>12. Drawn'
    <2>1. ASSUME NEW id \in Graphic, Added' PROVE ToLoad(id)'
      <3>1. todo' = Startup \o Graphics
        BY <2>1 DEF Added
      <3>2. PICK i \in DOMAIN Graphics : Graphics[i] = id
        BY AssetConstants
      <3>3. i \in 1 .. Len(Graphics) /\ Len(Graphics) \in Nat /\ Len(Startup) \in Nat
        BY <3>2, AssetConstants
      <3>4. /\ Len(todo') = Len(Startup) + Len(Graphics)
            /\ \A j \in 1 .. Len(Startup) + Len(Graphics) :
                 todo'[j] = IF j <= Len(Startup) THEN Startup[j] ELSE Graphics[j - Len(Startup)]
            /\ todo' \in Seq(Id)
        BY <3>1, <1>7, AssetConstants, ConcatProperties
      <3> HIDE DEF asset_add
      <3>5. Len(Startup) + i \in 1 .. Len(todo') /\ todo'[Len(Startup) + i] = id
        BY <3>2, <3>3, <3>4
      <3>6. Len(Startup) + i \in DOMAIN todo'
        BY <3>4, <3>5
      <3> QED
        BY <3>5, <3>6 DEF ToLoad
    <2> HIDE DEF asset_add
    <2> QED
      BY <2>1, <1>6 DEF Drawn
  <1>13. Current'
    BY <1>3, <1>6 DEF Current
  <1> QED
    BY <1>8, <1>10, <1>11, <1>12, <1>13 DEF AssetsInv

LEMMA WriteAssetsInv == ASSUME AssetsInv, NEW id \in OnDisk, Write(id) PROVE AssetsInv'
  <1>0. id \in Id
    BY DEF OnDisk
  <1>1. PICK complete \in BOOLEAN :
          file' = [file EXCEPT ![id] = [version |-> file[id].version + 1, complete |-> complete]]
    BY DEF Write
  <1>2. AssetsTypeOK'
    <2>1. file[id].version + 1 \in Version
      BY <1>0, AssetsAssumption DEF AssetsInv, AssetsTypeOK, Content, Version, Write
    <2>2. [version |-> file[id].version + 1, complete |-> complete] \in Content
      BY <2>1 DEF Content
    <2>3. file' \in [Id -> Content] /\ changed' \in [Id -> BOOLEAN]
      BY <1>0, <1>1, <2>2 DEF AssetsInv, AssetsTypeOK, Write
    <2> QED
      BY <2>3 DEF AssetsInv, AssetsTypeOK, Write
  <1>3. Table' /\ NotYet' /\ Queueing' /\ Drawn'
    BY DEF AssetsInv, Write, Table, Placed, NotYet, Added, Queueing, Drawn, ToLoad
  <1>4. Current'
    <2>1. \A i \in Checked : ~changed'[i] => ~changed[i] /\ file'[i] = file[i]
      BY <1>0, <1>1, AssetConstants DEF AssetsInv, AssetsTypeOK, Write
    <2> QED
      BY <2>1 DEF AssetsInv, Current, Write
  <1> QED
    BY <1>2, <1>3, <1>4 DEF AssetsInv

(* What is known of the load that runs.                                    *)
LEMMA Loading ==
  ASSUME AssetsInv, todo # <<>>
  PROVE  /\ Added /\ Head(todo) \in Id /\ Tail(todo) \in Seq(Id)
         /\ \A i \in DOMAIN todo : todo[i] = Head(todo) \/ \E j \in DOMAIN Tail(todo) : Tail(todo)[j] = todo[i]
         /\ \A s \in Slot : assets[s].state = "Queued" => assets[s].id = Head(todo)
  <1>1. todo \in Seq(Id)
    BY DEF AssetsInv, AssetsTypeOK
  <1>2. Head(todo) \in Id /\ Tail(todo) \in Seq(Id) /\ Added
    BY <1>1 DEF AssetsInv, NotYet
  <1>3. ASSUME NEW i \in DOMAIN todo
        PROVE  todo[i] = Head(todo) \/ \E j \in DOMAIN Tail(todo) : Tail(todo)[j] = todo[i]
    <2>1. CASE i = 1
      BY <2>1, <1>1
    <2>2. CASE i # 1
      <3>1. i - 1 \in DOMAIN Tail(todo) /\ Tail(todo)[i - 1] = todo[i]
        BY <1>1, <2>2
      <3> QED
        BY <3>1
    <2> QED
      BY <2>1, <2>2
  <1> QED
    BY <1>2, <1>3 DEF AssetsInv, Queueing

LEMMA BeginAssetsInv == ASSUME AssetsInv, asset_load_begins PROVE AssetsInv'
  <1> DEFINE id == Head(todo)  s == slot_of(id)
  <1>1. todo # <<>> /\ id \in Id /\ Added /\ Tail(todo) \in Seq(Id)
    BY Loading DEF asset_load_begins
  <1>2. /\ s \in Slot /\ assets[s].id = id /\ asset(id) = assets[s]
        /\ \A x \in Slot : assets[x].id = id => x = s
    BY <1>1, SlotOf DEF AssetsInv
  <1>3. assets \in [Slot -> Entry]
    BY EntryType DEF AssetsInv
  <1>4. read = NotRead
    <2>1. assets[s].state # "Queued"
      BY <1>2 DEF asset_load_begins
    <2> QED
      BY <1>2, <2>1 DEF AssetsInv, Queueing
  <1>5. \A x \in Slot : assets[x].state # "Queued"
    BY <1>1, <1>2, Loading DEF asset_load_begins
  <1>6. CASE assets[s].state = "Loaded" /\ todo' = Tail(todo) /\ UNCHANGED <<assets, changed>>
    <2>1. AssetsTypeOK' /\ Table' /\ NotYet' /\ Queueing'
      BY <1>1, <1>4, <1>5, <1>6
      DEF asset_load_begins, AssetsInv, AssetsTypeOK, Table, Placed, NotYet, Added, Queueing
    <2>2. Drawn'
      <3> SUFFICES ASSUME NEW x \in Slot, assets[x].id \in Graphic,
                          assets[x].state # "Loaded"
                   PROVE  ToLoad(assets[x].id)'
        BY <1>6 DEF AssetsInv, Drawn, Added, asset_load_begins
      <3>1. PICK i \in DOMAIN todo : todo[i] = assets[x].id
        BY <1>1 DEF AssetsInv, Drawn, ToLoad
      <3>2. assets[x].id # id
        BY <1>2, <1>6
      <3> QED
        BY <1>1, <1>6, <3>1, <3>2, Loading DEF ToLoad
    <2>3. Current'
      BY <1>4, <1>6 DEF AssetsInv, Current, asset_load_begins
    <2> QED
      BY <2>1, <2>2, <2>3 DEF AssetsInv
  <1>7. CASE /\ assets[s].state # "Loaded"
             /\ assets' = [assets EXCEPT ![s].state = "Queued"]
             /\ changed' = [changed EXCEPT ![id] = FALSE]
             /\ todo' = todo
    <2>1. /\ assets' \in [Slot -> Entry]
          /\ \A x \in Slot : assets'[x].id = assets[x].id
          /\ \A x \in Slot : x # s => assets'[x] = assets[x]
          /\ assets'[s].state = "Queued"
      BY <1>2, <1>3, <1>7 DEF Entry
    <2>2. AssetsTypeOK'
      BY <1>1, <1>7, <2>1 DEF asset_load_begins, AssetsInv, AssetsTypeOK, Entry
    <2>3. Table' /\ NotYet'
      <3>1. assets'[s].id # 0
        BY <1>1, <1>2, <2>1, AssetConstants
      <3> QED
        BY <1>1, <2>1, <3>1 DEF asset_load_begins, AssetsInv, Table, Placed, NotYet, Added
    <2>4. Queueing'
      BY <1>1, <1>2, <1>4, <1>5, <1>7, <2>1 DEF asset_load_begins, Queueing
    <2>5. Drawn'
      <3>1. ToLoad(id)'
        <4>1. 1 \in DOMAIN todo /\ todo[1] = id
          BY <1>1 DEF AssetsInv, AssetsTypeOK
        <4> QED
          BY <4>1, <1>7 DEF ToLoad
      <3>2. \A i : ToLoad(i) => ToLoad(i)'
        BY <1>7 DEF ToLoad
      <3> QED
        BY <1>1, <1>2, <2>1, <3>1, <3>2 DEF asset_load_begins, AssetsInv, Drawn, Added
    <2>6. Current'
      <3>1. \A i \in Checked : i # id => changed'[i] = changed[i]
        BY <1>1, <1>7, AssetConstants DEF AssetsInv, AssetsTypeOK
      <3>2. \A x \in Slot : x # s => assets[x].id # id
        BY <1>2
      <3> QED
        BY <1>4, <2>1, <3>1, <3>2 DEF asset_load_begins, AssetsInv, Current
    <2> QED
      BY <2>2, <2>3, <2>4, <2>5, <2>6 DEF AssetsInv
  <1> QED
    BY <1>2, <1>6, <1>7 DEF asset_load_begins

LEMMA ReadAssetsInv == ASSUME AssetsInv, read_file PROVE AssetsInv'
  <1> USE DEF read_file
  <1>1. todo # <<>> /\ Head(todo) \in Id /\ Added
    BY Loading
  <1>2. /\ slot_of(Head(todo)) \in Slot /\ assets[slot_of(Head(todo))].id = Head(todo)
        /\ assets[slot_of(Head(todo))].state = "Queued"
    BY <1>1, SlotOf DEF AssetsInv
  <1>3. AssetsTypeOK'
    BY <1>1 DEF AssetsInv, AssetsTypeOK
  <1>4. Table' /\ NotYet' /\ Queueing' /\ Drawn'
    BY <1>1, <1>2 DEF AssetsInv, Table, Placed, NotYet, Added, Queueing, Drawn, ToLoad
  <1>5. Current'
    BY DEF AssetsInv, Current
  <1> QED
    BY <1>3, <1>4, <1>5 DEF AssetsInv

(* What a loader returns: a graphic is always loaded, a map is what was    *)
(* read of its file unless the file is broken.                             *)
LEMMA LoadedInfo ==
  ASSUME AssetsTypeOK, read # NotRead, NEW id \in Id
  PROVE  /\ loaded_info(id) \in Version \union {NoInfo, NoData}
         /\ id \in Graphic => loaded_info(id) \in Version /\ loaded_info(id) # NoInfo
         /\ id \in Checked =>
              \/ loaded_info(id) = read.version
              \/ loaded_info(id) = NoInfo /\ ~read.complete
         /\ read_clip \in Version \union {NoData}
  <1>1. read \in Content
    BY DEF AssetsTypeOK
  <1>2. read.version \in Version /\ read.complete \in BOOLEAN
    BY <1>1 DEF Content
  <1>3. read_clip \in Version \union {NoData}
    BY <1>2 DEF read_clip
  <1>4. clips[id] \in Version \union {NoClip, NoData}
    BY DEF AssetsTypeOK
  <1>5. CASE Types[id] = "Image"
    <2>1. loaded_info(id) = read.version
      BY <1>5 DEF loaded_info
    <2> QED
      BY <1>2, <1>3, <2>1, AssetConstants
  <1>6. CASE Types[id] = "Shader"
    <2>1. loaded_info(id) = 0 /\ id \notin Checked
      BY <1>6 DEF loaded_info, Checked, Images
    <2> QED
      BY <1>3, <2>1, AssetConstants
  <1>7. CASE Types[id] = "Map"
    <2>1. loaded_info(id) = (IF read.complete THEN read.version ELSE NoInfo) /\ id \notin Graphic
      BY <1>7 DEF loaded_info, Graphic, Images, Shaders
    <2> QED
      BY <1>2, <1>3, <2>1
  <1>8. CASE Types[id] = "Audio"
    <2>1. loaded_info(id) = IF clips[id] # NoClip THEN clips[id]
                            ELSE IF read_clip # NoData THEN read_clip ELSE NoInfo
      BY <1>8 DEF loaded_info
    <2>2. id \notin Graphic /\ id \notin Checked
      BY <1>8 DEF Graphic, Images, Shaders, Checked
    <2> QED
      BY <1>3, <1>4, <2>1, <2>2
  <1> QED
    BY <1>5, <1>6, <1>7, <1>8, AssetConstants DEF Loader

LEMMA EndAssetsInv == ASSUME AssetsInv, asset_load_ends PROVE AssetsInv'
  <1> DEFINE id == Head(todo)  s == slot_of(id)  info == loaded_info(id)
  <1>1. todo # <<>> /\ id \in Id /\ Added /\ Tail(todo) \in Seq(Id) /\ read # NotRead
    BY Loading DEF asset_load_ends, FinishLoad
  <1>2. /\ s \in Slot /\ assets[s].id = id
        /\ \A x \in Slot : assets[x].id = id => x = s
    BY <1>1, SlotOf DEF AssetsInv
  <1>3. assets \in [Slot -> Entry]
    BY EntryType DEF AssetsInv
  <1>4. \A x \in Slot : x # s => assets[x].state # "Queued"
    BY <1>1, <1>2, Loading
  <1>5. /\ info \in Version \union {NoInfo, NoData}
        /\ id \in Graphic => info \in Version /\ info # NoInfo
        /\ id \in Checked => info = read.version \/ (info = NoInfo /\ ~read.complete)
        /\ read_clip \in Version \union {NoData}
    BY <1>1, LoadedInfo DEF AssetsInv
  <1>6. /\ assets' \in [Slot -> Entry]
        /\ \A x \in Slot : assets'[x].id = assets[x].id
        /\ \A x \in Slot : x # s => assets'[x] = assets[x]
        /\ info # NoInfo => assets'[s].state = "Loaded" /\ assets'[s].info = info
        /\ info = NoInfo => assets'[s].state = "Errored"
    <2>1. CASE info # NoInfo
      <3>1. assets' = [assets EXCEPT ![s].state = "Loaded", ![s].info = info]
        BY <2>1 DEF asset_load_ends, FinishLoad
      <3> QED
        BY <1>2, <1>3, <1>5, <2>1, <3>1 DEF Entry
    <2>2. CASE info = NoInfo
      <3>1. assets' = [assets EXCEPT ![s].state = "Errored"]
        BY <2>2 DEF asset_load_ends, FinishLoad
      <3> QED
        BY <1>2, <1>3, <2>2, <3>1 DEF Entry
    <2> QED
      BY <2>1, <2>2
  <1>7. /\ todo' = Tail(todo) /\ read' = NotRead
        /\ UNCHANGED <<next_id, file_watches, file, changed, sorted>>
    BY DEF asset_load_ends, FinishLoad
  <1>8. AssetsTypeOK'
    <2>1. clips' \in [Id -> Version \union {NoClip, NoData}]
      BY <1>1, <1>5 DEF AssetsInv, AssetsTypeOK, asset_load_ends, FinishLoad
    <2> QED
      BY <1>1, <1>6, <1>7, <2>1 DEF AssetsInv, AssetsTypeOK, Entry
  <1>9. Table' /\ NotYet'
    <2>1. assets'[s].id # 0
      BY <1>1, <1>2, <1>6, AssetConstants
    <2> QED
      BY <1>1, <1>6, <1>7, <2>1 DEF AssetsInv, Table, Placed, NotYet, Added
  <1>10. Queueing'
    <2>1. \A x \in Slot : assets'[x].state # "Queued"
      BY <1>4, <1>6
    <2> QED
      BY <1>7, <2>1 DEF Queueing
  <1>11. Drawn'
    <2>1. ASSUME NEW x \in Slot, assets[x].id \in Graphic
          PROVE  /\ assets'[x].state = "Loaded" => assets'[x].info \in Version
                 /\ assets'[x].state = "Loaded" \/ \E i \in DOMAIN todo' : todo'[i] = assets[x].id
      <3>1. CASE x = s
        BY <1>2, <1>5, <1>6, <2>1, <3>1
      <3>2. CASE x # s /\ assets[x].state = "Loaded"
        BY <1>6, <2>1, <3>2 DEF AssetsInv, Drawn
      <3>3. CASE x # s /\ assets[x].state # "Loaded"
        <4>1. PICK i \in DOMAIN todo : todo[i] = assets[x].id
          BY <1>1, <2>1, <3>3 DEF AssetsInv, Drawn, ToLoad
        <4>2. todo[i] # Head(todo)
          BY <1>2, <3>3, <4>1
        <4>3. PICK j \in DOMAIN Tail(todo) : Tail(todo)[j] = todo[i]
          BY <1>1, <4>2, Loading
        <4>4. todo' = Tail(todo)
          BY <1>7
        <4>5. j \in DOMAIN todo' /\ todo'[j] = assets[x].id
          BY <4>1, <4>3, <4>4
        <4> QED
          BY <1>6, <3>3, <4>5
      <3> QED
        BY <3>1, <3>2, <3>3
    <2>2. \A x \in Slot : assets'[x].id = assets[x].id
      BY <1>6
    <2> QED
      BY <2>1, <2>2 DEF Drawn, ToLoad
  <1>12. Current'
    <2> SUFFICES ASSUME NEW x \in Slot, assets'[x].id \in Checked, ~changed[assets'[x].id]
                 PROVE  /\ assets'[x].state = "Loaded" =>
                             assets'[x].info = file[assets'[x].id].version
                        /\ assets'[x].state = "Errored" => ~file[assets'[x].id].complete
      BY <1>7 DEF Current
    <2>1. CASE x = s
      <3>1. read = file[id]
        BY <1>1, <1>2, <1>6, <2>1 DEF AssetsInv, Current
      <3>2. read.version # NoInfo
        BY <1>1, AssetConstants DEF AssetsInv, AssetsTypeOK, Content
      <3>3. id \in Checked /\ assets'[x].id = id
        BY <1>2, <1>6, <2>1
      <3>4. CASE info = NoInfo
        BY <1>5, <1>6, <2>1, <3>1, <3>2, <3>3, <3>4
      <3>5. CASE info # NoInfo
        BY <1>5, <1>6, <2>1, <3>1, <3>3, <3>5
      <3> QED
        BY <3>4, <3>5
    <2>2. CASE x # s
      BY <1>6, <2>2 DEF AssetsInv, Current
    <2> QED
      BY <2>1, <2>2
  <1> QED
    BY <1>8, <1>9, <1>10, <1>11, <1>12 DEF AssetsInv

-----------------------------------------------------------------------------
(* Between two handlers nothing is being loaded.                           *)
LEMMA Between ==
  ASSUME AssetsInv, Idle
  PROVE  /\ Added /\ todo = <<>> /\ read = NotRead
         /\ assets \in [Slot -> Entry]
         /\ \A s \in Slot : assets[s].state # "Queued"
         /\ \A s \in Slot : assets[s].id \in Graphic =>
              assets[s].state = "Loaded" /\ assets[s].info \in Version
  <1>1. Added /\ todo = <<>> /\ read = NotRead
    BY DEF Idle, AssetsInv, Queueing
  <1>2. \A id : ~ToLoad(id)
    BY <1>1 DEF ToLoad
  <1> QED
    BY <1>1, <1>2, EntryType DEF AssetsInv, Queueing, Drawn

(* A handler that unloads some entries, none of them a graphic it is not   *)
(* going to load.                                                          *)
LEMMA Unloads ==
  ASSUME AssetsInv, Idle, NEW ids,
         asset_unload(assets, ids), todo' \in Seq(Id),
         \A s \in Slot \intersect ids : assets[s].id \in Graphic =>
           \E i \in DOMAIN todo' : todo'[i] = assets[s].id,
         UNCHANGED <<next_id, file_watches, clips, read, file, changed, sorted>>
  PROVE  AssetsInv'
  <1>1. /\ assets' \in [Slot -> Entry]
        /\ \A s \in Slot :
             /\ assets'[s].id = assets[s].id
             /\ assets'[s] = assets[s] \/ (s \in ids /\ assets'[s].state = "Unloaded")
             /\ assets[s] = Unused => assets'[s] = Unused
    <2>1. assets' = [s \in Slot |-> IF s \in ids THEN unload(assets[s]) ELSE assets[s]]
      BY DEF asset_unload
    <2>2. ASSUME NEW s \in Slot
          PROVE  /\ assets'[s] \in Entry /\ assets'[s].id = assets[s].id
                 /\ assets'[s] = assets[s] \/ (s \in ids /\ assets'[s].state = "Unloaded")
                 /\ assets[s] = Unused => assets'[s] = Unused
      <3>1. assets[s] \in Entry
        BY Between
      <3> QED
        BY <2>1, <3>1, Unloading
    <2> QED
      BY <2>1, <2>2
  <1>2. AssetsTypeOK'
    BY <1>1 DEF AssetsInv, AssetsTypeOK, Entry
  <1>3. Table' /\ NotYet' /\ Queueing'
    BY <1>1, Between, Unloading DEF AssetsInv, Table, Placed, NotYet, Added, Queueing
  <1>4. Drawn'
    BY <1>1, Between DEF Drawn, ToLoad
  <1>5. Current'
    BY <1>1, Between DEF AssetsInv, Current
  <1> QED
    BY <1>2, <1>3, <1>4, <1>5 DEF AssetsInv

(* It may unload the one it is going to load.                              *)
LEMMA UnloadsOne ==
  ASSUME AssetsInv, Idle, NEW id \in Id, NEW ids \in SUBSET {id},
         asset_unload(assets, ids), todo' = <<id>>,
         UNCHANGED <<next_id, file_watches, clips, read, file, changed, sorted>>
  PROVE  AssetsInv'
  <1>1. todo' \in Seq(Id) /\ 1 \in DOMAIN todo' /\ todo'[1] = id
    OBVIOUS
  <1>2. assets[id].id = id \/ assets[id].id \notin Graphic
    BY Position, Unloading, AssetConstants DEF AssetsInv, Idle
  <1>3. \A s \in Slot \intersect ids : assets[s].id \in Graphic =>
          \E i \in DOMAIN todo' : todo'[i] = assets[s].id
    BY <1>1, <1>2
  <1> QED
    BY <1>1, <1>3, Unloads

LEMMA WatchAssetsInv == ASSUME AssetsInv, NEW i \in Id, file_watch_update(i) PROVE AssetsInv'
  <1> DEFINE id == file_watches[i]
  <1>1. id \in Id /\ Idle
    BY DEF file_watch_update, AssetsInv, AssetsTypeOK
  <1>2. asset_unload(assets, {id}) /\ todo' = <<id>>
    BY DEF file_watch_update
  <1> HIDE DEF id
  <1> QED
    BY <1>1, <1>2, UnloadsOne DEF file_watch_update

LEMMA ReloadAssetsInv == ASSUME AssetsInv, app_reload PROVE AssetsInv'
  <1>1. Idle /\ asset_unload(assets, Graphic) /\ todo' = Graphics
    BY DEF app_reload, Graphic
  <1>2. \A s \in Slot : assets[s].id \in Graphic => \E i \in DOMAIN todo' : todo'[i] = assets[s].id
    BY <1>1, AssetConstants
  <1>3. todo' \in Seq(Id)
    BY <1>1, AssetConstants
  <1> QED
    BY <1>1, <1>2, <1>3, Unloads DEF app_reload

LEMMA ShaderAssetsInv == ASSUME AssetsInv, debug_ui_window_shader PROVE AssetsInv'
  <1>1. PICK id \in Shaders :
          /\ asset_unload(assets, IF asset(id).state = "Loaded" THEN {id} ELSE {})
          /\ todo' = <<id>>
    BY DEF debug_ui_window_shader
  <1>2. id \in Id /\ Idle
    BY DEF debug_ui_window_shader, Shaders
  <1>3. PICK ids \in SUBSET {id} : asset_unload(assets, ids)
    BY <1>1
  <1> QED
    BY <1>1, <1>2, <1>3, UnloadsOne DEF debug_ui_window_shader

(* The table the window has sorted.                                        *)
LEMMA SortedTable ==
  ASSUME AssetsInv, Idle
  PROVE  /\ Sorted \in [Slot -> Entry]
         /\ \A s \in Slot :
              LET o == AssetMax - 1 - Len(Types) IN
              /\ Sorted[s].id = IF s - o \in 1 .. Len(Types) THEN s - o ELSE 0
              /\ Sorted[s] = Unused \/ \E x \in Slot : Sorted[s] = assets[x] /\ assets[x].id # 0
         /\ \A id \in Id : asset_unload(Sorted, {id}) => assets' = Sorted
  <1> DEFINE o == AssetMax - 1 - Len(Types)
  <1>1. ASSUME NEW s \in Slot
        PROVE  /\ Sorted[s] \in Entry
               /\ Sorted[s].id = IF s - o \in 1 .. Len(Types) THEN s - o ELSE 0
               /\ Sorted[s] = Unused \/ \E x \in Slot : Sorted[s] = assets[x] /\ assets[x].id # 0
    <2>1. CASE s + Len(Types) < AssetMax
      <3>1. Sorted[s] = Unused /\ ~(s - o \in 1 .. Len(Types))
        BY <2>1, Sizes DEF Sorted
      <3> QED
        BY <3>1, Unloading
    <2>2. CASE ~(s + Len(Types) < AssetMax)
      <3>1. s - o \in 1 .. Len(Types) /\ s + Len(Types) - AssetMax + 1 = s - o
        BY <2>2, Sizes
      <3>2. s - o \in Id /\ Sorted[s] = asset(s - o)
        BY <2>2, <3>1 DEF Sorted, Id
      <3>3. PICK x \in Slot : asset(s - o) = assets[x] /\ assets[x].id = s - o
        BY <3>2, SlotOf DEF AssetsInv, Idle
      <3>4. assets[x] \in Entry
        BY Between
      <3> QED
        BY <3>1, <3>2, <3>3, <3>4, Sizes
    <2> QED
      BY <2>1, <2>2
  <1>2. Sorted \in [Slot -> Entry] /\ DOMAIN Sorted = Slot
    BY <1>1 DEF Sorted
  <1>3. ASSUME NEW id \in Id, asset_unload(Sorted, {id}) PROVE assets' = Sorted
    <2>1. Sorted[id] = Unused
      BY Sizes DEF Sorted
    <2>2. \A s \in Slot : assets'[s] = Sorted[s]
      BY <1>3, <2>1, Unloading DEF asset_unload
    <2>3. assets' = [s \in Slot |-> assets'[s]]
      BY <1>3 DEF asset_unload
    <2>4. Sorted = [s \in Slot |-> Sorted[s]]
      BY <1>2
    <2> QED
      BY <2>2, <2>3, <2>4
  <1> QED
    BY <1>1, <1>2, <1>3

LEMMA WindowAssetsInv == ASSUME AssetsInv, ui_window_assets PROVE AssetsInv'
  <1>1. /\ Idle
        /\ UNCHANGED <<next_id, file_watches, clips, read, file, changed>>
    BY DEF ui_window_assets
  <1>2. assets' = Sorted
    BY <1>1, SortedTable DEF ui_window_assets
  <1>3. todo' \in Seq(Id)
    <2>1. todo \in Seq(Id) /\ <<>> \in Seq(Id) /\ \A id \in Id : <<id>> \in Seq(Id)
      BY DEF AssetsInv, AssetsTypeOK
    <2> QED
      BY <2>1 DEF ui_window_assets
  <1>4. next_id = Len(Types) + 1
    <2>1. next_id \in 1 .. Len(Types) + 1
      BY DEF AssetsInv, AssetsTypeOK
    <2> QED
      BY <1>1, <2>1, Sizes DEF Idle, Added
  <1> HIDE DEF ui_window_assets
  <1>5. AssetsTypeOK'
    <2>1. assets' \in [Slot -> Entry]
      BY <1>1, <1>2, SortedTable
    <2> QED
      BY <1>1, <1>3, <2>1 DEF AssetsInv, AssetsTypeOK, Entry
  <1>6. \A s \in Slot :
          /\ assets'[s] = Unused \/ \E x \in Slot : assets'[s] = assets[x] /\ assets[x].id # 0
          /\ assets'[s].state # "Queued"
    BY <1>1, <1>2, SortedTable, Between, Unloading
  <1>7. Table'
    <2> DEFINE o == AssetMax - 1 - Len(Types)
    <2>1. Placed(o)'
      <3>1. \A s \in Slot : assets'[s].id = IF s - o \in 1 .. Len(Types) THEN s - o ELSE 0
        BY <1>1, <1>2, SortedTable
      <3>2. next_id' - 1 = Len(Types)
        BY <1>1, <1>4, Sizes
      <3> QED
        BY <3>1, <3>2 DEF Placed
    <2>2. \A s \in Slot : assets'[s].id = 0 => assets'[s] = Unused
      BY <1>6
    <2> QED
      BY <2>1, <2>2 DEF Table, Offset
  <1>8. NotYet' /\ Queueing'
    BY <1>1, <1>6, Between DEF NotYet, Added, Queueing
  <1>9. Drawn'
    BY <1>1, <1>6, Between, Unloading, AssetConstants DEF Drawn
  <1>10. Current'
    BY <1>1, <1>6, Between, Unloading, AssetConstants DEF AssetsInv, Current
  <1> QED
    BY <1>5, <1>7, <1>8, <1>9, <1>10 DEF AssetsInv

LEMMA NextAssetsInv == AssetsInv /\ [AssetsNext]_assetVars => AssetsInv'
  <1> SUFFICES ASSUME AssetsInv, [AssetsNext]_assetVars PROVE AssetsInv'
    OBVIOUS
  <1>1. CASE asset_add
    BY <1>1, AddAssetsInv
  <1>2. CASE \E id \in OnDisk : Write(id)
    BY <1>2, WriteAssetsInv
  <1>3. CASE asset_load_begins
    BY <1>3, BeginAssetsInv
  <1>4. CASE read_file
    BY <1>4, ReadAssetsInv
  <1>5. CASE asset_load_ends
    BY <1>5, EndAssetsInv
  <1>6. CASE \E i \in Id : file_watch_update(i)
    BY <1>6, WatchAssetsInv
  <1>7. CASE app_reload
    BY <1>7, ReloadAssetsInv
  <1>8. CASE debug_ui_window_shader
    BY <1>8, ShaderAssetsInv
  <1>9. CASE ui_window_assets
    BY <1>9, WindowAssetsInv
  <1>10. CASE UNCHANGED assetVars
    BY <1>10
    DEF assetVars, AssetsInv, AssetsTypeOK, Table, Placed, NotYet, Added, Queueing, Drawn,
        ToLoad, Current
  <1> QED
    BY <1>1, <1>2, <1>3, <1>4, <1>5, <1>6, <1>7, <1>8, <1>9, <1>10 DEF AssetsNext

-----------------------------------------------------------------------------
(* The table of assets, what is queued and what is loaded: the invariant   *)
(* asset_load and asset_unload, file_watch_update, app_reload and the      *)
(* windows preserve.                                                       *)
THEOREM AssetsInvariant == AssetsSpec => []AssetsInv
  <1> QED
    BY InitAssetsInv, NextAssetsInv, PTL DEF AssetsSpec

(* The state of the assets keeps its types.                                *)
THEOREM AssetTypes == AssetsSpec => []AssetsTypeOK
  <1>1. AssetsInv => AssetsTypeOK
    BY DEF AssetsInv
  <1> QED
    BY <1>1, AssetsInvariant, PTL

(* No write to the file of an image or a map is lost, whenever it comes,   *)
(* also between the steps of asset_load.                                   *)
THEOREM WritesAreSeen == AssetsSpec => []UpToDate
  <1>1. AssetsInv => UpToDate
    <2> SUFFICES ASSUME AssetsInv, Idle, NEW id \in Checked, ~changed[id],
                        asset(id).state \in {"Loaded", "Errored"}
                 PROVE  \/ asset(id).state = "Loaded" /\ asset(id).info = file[id].version
                        \/ asset(id).state = "Errored" /\ ~file[id].complete
      BY DEF UpToDate, Checked
    <2>1. PICK s \in Slot : asset(id) = assets[s] /\ assets[s].id = id
      BY SlotOf, AssetConstants DEF AssetsInv, Idle
    <2> QED
      BY <2>1 DEF AssetsInv, Current
  <1> QED
    BY <1>1, AssetsInvariant, PTL

(* The draw commands find every texture and every shader, whatever files   *)
(* change and libraries are loaded (renderer_commands_init, app_reload).   *)
THEOREM GraphicsAreReady == AssetsSpec => []GraphicsReady
  <1>1. AssetsInv => GraphicsReady
    <2> SUFFICES ASSUME AssetsInv, Idle, NEW id \in Graphic
                 PROVE  asset(id).state = "Loaded" /\ asset(id).info \in Version
      BY DEF GraphicsReady, Graphic
    <2>1. PICK s \in Slot : asset(id) = assets[s] /\ assets[s].id = id
      BY SlotOf, AssetConstants DEF AssetsInv, Idle
    <2> QED
      BY <2>1, Between
  <1> QED
    BY <1>1, AssetsInvariant, PTL
=============================================================================
