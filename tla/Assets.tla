------------------------------- MODULE Assets -------------------------------
(***************************************************************************)
(* The table of assets (engine_assets.odin), the watch of their files      *)
(* (engine_file_watch.odin) and the audio clips (engine_audio.odin), in a  *)
(* build with HOT_RELOAD_ASSETS.                                           *)
(*                                                                         *)
(* Everything but the files belongs to one thread.  A handler unloads at   *)
(* once and leaves its loads in todo; a load takes three steps, since the  *)
(* file may be written before and after it is read.                        *)
(*                                                                         *)
(* An entry of the table with the id 0, the invalid one or one not in use, *)
(* is Unused: nothing tells them apart.                                    *)
(***************************************************************************)
EXTENDS Integers, Sequences, FiniteSets

CONSTANTS
  Types,       \* the Asset_Type of each asset, in the order of asset_add
  Startup,     \* the ids game_init loads, in its order
  Graphics,    \* those renderer_commands_init loads, in its order
  AssetMax,    \* len(assets)
  WriteMax     \* bound: the number of writes to files

Id   == 1 .. Len(Types)
Slot == 0 .. AssetMax - 1

Loader  == {"Image", "Audio", "Map", "Shader"}
OnDisk  == {id \in Id : Types[id] # "Shader"}      \* a shader is compiled into the library
Shaders == {id \in Id : Types[id] = "Shader"}
Images  == {id \in Id : Types[id] = "Image"}       \* loaded_textures
Breakable == OnDisk \ Images                       \* r_load_texture never fails

ASSUME AssetsAssumption ==
  /\ AssetMax \in Nat /\ AssetMax > 2 * Len(Types)
  /\ WriteMax \in Nat
  /\ Types \in Seq(Loader) /\ Startup \in Seq(Id) /\ Graphics \in Seq(Id)
  /\ {Graphics[i] : i \in DOMAIN Graphics} = Shaders \union Images

VARIABLES
  assets,        \* the table
  next_id,
  file_watches,  \* the ids that are watched
  clips,         \* the data of the clip of each asset
  todo,          \* the loads the running handler has still to do
  read,          \* what the running load has read of its file
  file,          \* the content of each file: a version, complete or not
  changed,       \* the modification time is later than try_loaded_at
  sorted         \* history: the window of the assets has sorted the table

assetVars == <<assets, next_id, file_watches, clips, todo, read, file, changed, sorted>>

Version == 0 .. WriteMax
NoInfo  == -1      \* Asset_Info is nil
Emptied == -2      \* it has its variant, with nothing in it
NoClip  == -3      \* the asset has no key in the map of clips
NoData  == -4      \* it has one, and the clip has no data

Content == [version : Version, complete : BOOLEAN]
NotRead == [version |-> NoInfo, complete |-> FALSE]

Unused == [id |-> 0, state |-> "Unloaded", info |-> NoInfo]

AssetsInit ==
  /\ assets = [s \in Slot |-> Unused]
  /\ next_id = 1
  /\ file_watches = <<>>
  /\ clips = [id \in Id |-> NoClip]
  /\ todo = <<>>
  /\ read = NotRead
  /\ file \in [Id -> [version : {0}, complete : BOOLEAN]]
  /\ \A id \in Id \ Breakable : file[id].complete
  /\ changed = [id \in Id |-> id \in OnDisk]       \* try_loaded_at is zero
  /\ sorted = FALSE

-----------------------------------------------------------------------------
(* asset_get_by_asset_id searches the table.                               *)
slot_of(id) == CHOOSE s \in Slot : assets[s].id = id
asset(id)   == assets[slot_of(id)]

(* Mutant: off by one.                                                     *)
added_late == next_id > Len(Types) + 1

Added == next_id > Len(Types)
Idle  == Added /\ todo = <<>>

(* game_init adds the assets and then loads some, the graphics last.       *)
asset_add ==
  /\ ~Added
  /\ assets' = [assets EXCEPT ![next_id] = [Unused EXCEPT !.id = next_id]]
  /\ file_watches' = Append(file_watches, next_id)
  /\ next_id' = next_id + 1
  /\ todo' = IF next_id' > Len(Types) THEN Startup \o Graphics ELSE <<>>
  /\ UNCHANGED <<clips, read, file, changed, sorted>>

(* Somebody writes a file, in one go or, as far as that matters, a part of *)
(* it.                                                                     *)
Write(id) ==
  /\ file[id].version < WriteMax
  /\ \E complete \in IF id \in Breakable THEN BOOLEAN ELSE {TRUE} :
       file' = [file EXCEPT ![id] = [version |-> file[id].version + 1, complete |-> complete]]
  /\ changed' = [changed EXCEPT ![id] = TRUE]
  /\ UNCHANGED <<assets, next_id, file_watches, clips, todo, read, sorted>>

-----------------------------------------------------------------------------
(* Mutant: an asset that is unloaded stays Loaded.                         *)
unload_keeps_state(a) ==
  [a EXCEPT !.info = IF @ = NoInfo \/ (a.id \in Id /\ Types[a.id] = "Map") THEN @ ELSE Emptied]

(* asset_unload on an entry: images, shaders and clips lose their info,    *)
(* a map keeps it.                                                         *)
unload(a) ==
  [a EXCEPT !.info = IF @ = NoInfo \/ (a.id \in Id /\ Types[a.id] = "Map") THEN @ ELSE Emptied,
            !.state = "Unloaded"]

(* asset_unload takes the id for the position in the table.                *)
asset_unload(table, ids) ==
  assets' = [s \in Slot |-> IF s \in ids THEN unload(table[s]) ELSE table[s]]

(* asset_load: nothing to do, or the state and the time first.             *)
asset_load_begins ==
  /\ todo # <<>>
  /\ LET id == Head(todo) IN
       \/ /\ asset(id).state = "Loaded"
          /\ todo' = Tail(todo)
          /\ UNCHANGED <<assets, changed>>
       \/ /\ asset(id).state \in {"Unloaded", "Errored"}
          /\ assets' = [assets EXCEPT ![slot_of(id)].state = "Queued"]
          /\ changed' = [changed EXCEPT ![id] = FALSE]
          /\ UNCHANGED todo
  /\ UNCHANGED <<next_id, file_watches, clips, read, file, sorted>>

read_file ==
  /\ todo # <<>>
  /\ asset(Head(todo)).state = "Queued"
  /\ read = NotRead
  /\ read' = file[Head(todo)]
  /\ UNCHANGED <<assets, next_id, file_watches, clips, todo, file, changed, sorted>>

(* What the loader of its type returns for the file, or NoInfo when it     *)
(* fails.  r_load_texture never fails; audio_load_clip returns the clip it *)
(* has, with or without data, and else leaves one in the map.              *)
read_clip == IF read.complete THEN read.version ELSE NoData

loaded_info(id) ==
  CASE Types[id] = "Image"  -> read.version
    [] Types[id] = "Shader" -> 0
    [] Types[id] = "Map"    -> IF read.complete THEN read.version ELSE NoInfo
    [] Types[id] = "Audio"  -> IF clips[id] # NoClip THEN clips[id]
                               ELSE IF read_clip # NoData THEN read_clip ELSE NoInfo

(* The rest of asset_load: the type's loader, and what has become of it.   *)
FinishLoad ==
  /\ todo # <<>>
  /\ read # NotRead
  /\ LET id == Head(todo)  info == loaded_info(id) IN
       /\ IF info # NoInfo
          THEN assets' = [assets EXCEPT ![slot_of(id)].state = "Loaded", ![slot_of(id)].info = info]
          ELSE assets' = [assets EXCEPT ![slot_of(id)].state = "Errored"]
       /\ clips' = IF Types[id] = "Audio" /\ clips[id] = NoClip
                   THEN [clips EXCEPT ![id] = read_clip]
                   ELSE clips
  /\ todo' = Tail(todo)
  /\ read' = NotRead
  /\ UNCHANGED <<next_id, file_watches, file, sorted>>

(* Mutant: try_loaded_at is the time after the reading.                    *)
asset_load_stamps_late ==
  /\ FinishLoad
  /\ changed' = [changed EXCEPT ![Head(todo)] = FALSE]

asset_load_ends == FinishLoad /\ UNCHANGED changed

-----------------------------------------------------------------------------
(* Mutant: what could not be loaded is not watched.                        *)
is_watched_loaded(id) == asset(id).state = "Loaded"

(* Queued never lasts until here, and nobody sets Locked.                  *)
is_watched(id) == asset(id).state \notin {"Locked", "Queued", "Unloaded"}

(* The visit of one watch in file_watch_update, with _asset_file_changed.  *)
file_watch_update(i) ==
  /\ Idle
  /\ i \in DOMAIN file_watches
  /\ LET id == file_watches[i] IN
       /\ is_watched(id)
       /\ changed[id]
       /\ asset_unload(assets, {id})
       /\ todo' = <<id>>
  /\ UNCHANGED <<next_id, file_watches, clips, read, file, changed, sorted>>

(* app_reload, of a new library: asset_reload unloads the shaders, then    *)
(* the textures are unloaded and renderer_commands_init loads all anew.    *)
app_reload ==
  /\ Idle
  /\ asset_unload(assets, Shaders \union Images)
  /\ todo' = Graphics
  /\ UNCHANGED <<next_id, file_watches, clips, read, file, changed, sorted>>

(* The window of the shaders unloads one, when it is loaded, and loads it. *)
debug_ui_window_shader ==
  /\ Idle
  /\ \E id \in Shaders :
       /\ asset_unload(assets, IF asset(id).state = "Loaded" THEN {id} ELSE {})
       /\ todo' = <<id>>
  /\ UNCHANGED <<next_id, file_watches, clips, read, file, changed, sorted>>

(* The window of the assets sorts the table itself, which puts the entries *)
(* with the id 0 first.  Its buttons then load, or unload, an asset.       *)
Sorted ==
  [s \in Slot |->
     IF s + Len(Types) < AssetMax THEN Unused
     ELSE asset(s + Len(Types) - AssetMax + 1)]

ui_window_assets ==
  /\ Idle
  /\ \/ assets' = Sorted /\ todo' \in {<<>>} \union {<<id>> : id \in Id}
     \/ /\ \E id \in Id : asset(id).state = "Loaded" /\ asset_unload(Sorted, {id})
        /\ UNCHANGED todo
  /\ sorted' = TRUE
  /\ UNCHANGED <<next_id, file_watches, clips, read, file, changed>>

-----------------------------------------------------------------------------
AssetsNext ==
  \/ asset_add
  \/ \E id \in OnDisk : Write(id)
  \/ asset_load_begins \/ read_file \/ asset_load_ends
  \/ \E i \in Id : file_watch_update(i)
  \/ app_reload \/ debug_ui_window_shader \/ ui_window_assets

(* A handler ends.  Every frame visits every watch, and a library is       *)
(* loaded between frames only, so the visits go on whatever is loaded.     *)
Fairness ==
  /\ WF_assetVars(asset_add)
  /\ WF_assetVars(asset_load_begins) /\ WF_assetVars(read_file) /\ WF_assetVars(asset_load_ends)
  /\ \A i \in Id : SF_assetVars(file_watch_update(i))

AssetsSpec     == AssetsInit /\ [][AssetsNext]_assetVars
AssetsFairSpec == AssetsSpec /\ Fairness

-----------------------------------------------------------------------------
(* The types of the variables.                                             *)
AssetsTypeOK ==
  /\ next_id \in 1 .. Len(Types) + 1
  /\ assets \in [Slot -> [id : Id \union {0},
                          state : {"Unloaded", "Queued", "Loaded", "Errored"},
                          info : Version \union {NoInfo, Emptied, NoData}]]
  /\ file_watches \in Seq(Id)
  /\ clips \in [Id -> Version \union {NoClip, NoData}]
  /\ todo \in Seq(Id)
  /\ read \in Content \union {NotRead}
  /\ file \in [Id -> Content]
  /\ changed \in [Id -> BOOLEAN]

(* No write is lost: an image or a map whose file is not newer than the    *)
(* last attempt to load it is what the file holds, or the file is broken,  *)
(* although the file may be written while it is loaded (asset_load sets    *)
(* try_loaded_at before it reads).                                         *)
UpToDate ==
  Idle => \A id \in Images \union {i \in Id : Types[i] = "Map"} :
    ~changed[id] /\ asset(id).state \in {"Loaded", "Errored"} =>
      \/ asset(id).state = "Loaded" /\ asset(id).info = file[id].version
      \/ asset(id).state = "Errored" /\ ~file[id].complete

(* Between two handlers a texture or a shader is there: the draw commands  *)
(* assert it (game_renderer.odin), and files change and libraries are      *)
(* replaced in any order.                                                  *)
GraphicsReady ==
  Idle => \A id \in Shaders \union Images :
    asset(id).state = "Loaded" /\ asset(id).info \in Version

(* A file that changed is loaded, also after an attempt that failed, when  *)
(* the asset had been asked for (_asset_file_changed tells "Asset          *)
(* reloaded"), as long as the window of the assets has not moved the       *)
(* entries away from the positions asset_unload takes the ids for.         *)
ChangesArrive ==
  \A id \in OnDisk :
    (Idle /\ changed[id] /\ asset(id).state \in {"Loaded", "Errored"}) ~> ~changed[id] \/ sorted
=============================================================================
