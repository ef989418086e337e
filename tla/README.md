# A verification model of the janitor game and its engine

The repository is a small game in Odin (`src/game`) on an engine of its own
(`src/engine`), loaded as a library that can be replaced while the game runs
(`src/app_loader`, `src/main.odin`).  Everything happens in one thread, frame
after frame; the hard part is not concurrency but the life of ids, slots and
pointers that outlive what they name, across frames, modes and reloads.

Paths below are relative to the repository's `src/` directory.

## The system

| Component | State | Operations | What makes it correct |
|---|---|---|---|
| Entity store, `engine/engine_entity.odin` | ids handed out, queue of freed ids, per component type an array and a map from entity to index | create, delete, set and delete a component, reset | an id belongs to one owner; 0 to nobody; array and map stay in step; a reused id is bare |
| Animation pool, `engine/engine_animation.odin` | 100 slots, 200 queues | create, delete, update, queue, reset | events are not skipped; animations end; queues run one after the other |
| Rooms, `game/game_play.odin` (`make_room_transition`) | current room, pointer to the running transition, camera | make a transition, enter and leave the level | the camera stands at the current room whenever the player may move; the player is freed again |
| Modes, `game/game_mode.odin` and `game_mode_*` | `Mode`, current level, a static id in the title | enter, run, exit, force from the debug window, reload | a level that is entered exists, nothing of it survives, ids deleted on exit are live |
| Adventurer and interactions, `game/game_play.odin` | mode, target, path; progress of each target; a static id of the cloud | think, move, fight, loot; pet, carry, throw; events of hearts | the entity deleted is the one that was made; the adventurer finishes the level |
| Path finding, `game/game_pathfinding.odin` | nodes with the costs and parents of earlier searches | `find_path` | the path is walkable and shortest, and found when there is one |
| Assets and file watch, `engine/engine_assets.odin`, `engine_file_watch.odin`; clips of `engine_audio.odin` | table of 100 assets, watched ids, clips | add, load, unload, reload on change, with a new library, from the debug window | no write of a file is lost; what is drawn is there |
| Level, `game/game_play.odin` (`player_update`, `player_interaction`, cleaning, clock) | water, mode of the cleaner, hands, messes, score, time left | walk, carry, throw, repair, refill, clean, leave | everything scores once; hands and parents agree; a frame that cleans has used water or added some; the level ends |
| Pointers and slices of a level, the same file with `engine_entity.odin` and `game_aseprite.odin` | targets of the curves; slices, copied maps and element pointers a frame takes; `recompute_colliders` | fetch again, create, delete, kill, open and close the door | a curve writes to its own entity; slices and maps are current where they are read; pointers lead to their own elements, which `adv_collider` does not always do after the door |
| Inputs, `engine/engine_platform.odin`, `update_player_inputs` of `game/game.odin` | down, pressed, released of each key and button; the controllers | begin a frame, handle the events, read the source of the frame | every release is seen once |
| Audio channels, volumes | channel table | play, stop, finished | not modelled yet |
| Level building, rendering, user interface, logger, profiling, build | | | see "Not modelled" |

How they interact.  `game_update` runs one frame: debug window, procedure of the
current mode, `mode_check_exit`, `animation_update`, rendering.  The mode
procedures create and delete entities and animations by direct calls; an
animation calls back into the game (the event of a heart deletes an entity)
and writes through pointers it was given.  A mode ends by zeroing the pool and
the store.  `PROJECT.json` lists under `hazards` what can go wrong in this at
the line where it bites.

## Modules

- `EntityStore` - the store as it is: the queue of freed ids (deletion pushes
  at the front, creation pops there), arrays that never shrink, swap-remove,
  the map of a copied component list, reset with the buffer of the queue in the
  freed arena.  `Spec` is for callers that forget an id they deleted (the
  contract the game's lists follow), `StaleSpec` for callers that do not.
- `EntityRegistry` - what the store promises: a set of live ids and, for each,
  its components.  `EntityStore!ImplementsRegistry` is the refinement.
- `AnimationPool` - slots, time, events and queues.  Time is a number from 0 to
  `One`; a frame adds a tick.  `time_scale` passes of one frame are consecutive
  `Update` steps.
- `RoomTransition` - an instance of `AnimationPool` under the part of
  `game_mode_play` that makes a transition when the player leaves the camera's
  bounds.  Where the player is, is left open: a transition may be made in any
  frame and in any of the directions `general_direction` tells (a diagonal has
  none), and the player may be out of bounds without one.
- `GameModes` - an instance of `EntityStore` under the mode machine.  The
  variable `step` walks through a frame: `frame`, `enter`, `run`, `exit`.  A new
  library may be loaded between two frames, which forgets the title's static id
  (history: `forgotten`).
- `Adventurer` - an instance of `EntityStore` under the adventurer, the
  interactions and the entities they make.  The history variable `history`
  remembers whether the player has carried a target away, and whether the cloud
  of a fight was lost: a second fight began before the first was finished, or a
  library was loaded meanwhile.
- `PlayLevel` - the level from the player's side.  The variable `step` walks
  through a frame in the order of the code: timers, player, adventurer,
  interaction, cleaning, clock, exit.  What lies in reach is any set of things
  whose collider has the right type.  The history variables `spent` and
  `refilled` remember, for one frame, whether the walk has lowered the water and
  whether the interaction has raised it.
- `LevelPointers` - the component arrays as sequences of owners, the positions
  that curves point to, and the slices and copied maps a frame works with.  A
  copied map shares its cells with the store's until that one grows.  `pointers`
  are those a frame takes once and uses later: to the transform and collider of
  the player at its beginning, and of the adventurer before its part.
- `Inputs` - keys and controllers.  A poll handles events one by one, then the
  game reads its inputs from one source.
- `FindPath` - the search, one turn of its loop per step, over nodes that keep
  what the last search wrote.  A node is its position; `start` and `end` are the
  two parameters of `find_path`.  Its specification is `PathSpec`.
- `Assets` - the table, the watch and the clips.  The files are written by
  somebody else at any time, so a load is three steps: state and time, reading,
  result.  `Startup` and `Graphics` are the loads of `game_init` and of
  `renderer_commands_init`, in their order.  The debug window of the shaders
  loads one anew, that of the assets sorts the table (history: `sorted`).  Its
  specifications are `AssetsSpec` and, with fairness, `AssetsFairSpec`.
- `EntityStoreProofs`, `AnimationPoolProofs`, `RoomTransitionProofs`,
  `GameModesProofs`, `LevelPointersProofs`, `PlayLevelProofs` - the theorems
  about the module each is named after.  `AdventurerProofs` is about `Adventurer`
  and the paths of `FindPath`, `EngineProofs` about `Inputs` and `Assets`.
- `MC*` with their `.cfg` files - instances for TLC.  Operators commented as
  mutants are wrong variants of the operator after them; putting one in the
  place of the other violates a property, which shows that the property looks
  at that code.

## What the runs check

| Run | Instance | Properties |
|---|---|---|
| `entity_store` | ids 1 to 3, two component types, three additions per type and five in all, no stale ids | `TypeOK`, `SlotsSound` (an id is in use or queued, once, and never 0), `NoSlotLeak`, `FreeIdsAreBare`, `IndexConsistent` (array and map), `RenderSortSafe` (the lengths the render sort asserts), `ImplementsRegistry` |
| `entity_store_reset` | | violates `SlotsBufferInArena`: the comment on `Entity_State` |
| `animation_pool` | two slots, two queues, all kinds, ticks 1 to 3 of `One` = 2 | `TypeOK`, `EndedMeansSent`, `OneAfterTheOther`, `ActiveEnds`, `FirstQueueRuns` |
| `room_transition` | three rooms in a row, three slots, hearts and clouds | `CameraAtCurrentRoom`, `TransitionIsInPool`, `PlayerFreed` |
| `room_transition_slots` | the same, no other animation | violates `SlotAlwaysAvailable`: the assertion of `animation_create_animation` |
| `game_modes` | two levels, transitions forced and libraries loaded at any time | `TitleDeletesLive`, unless a library came while the title was shown; as long as nothing is forced, which includes every release build, `LevelInRange`, `NothingLeftOfPlay`, `ModeReady` |
| `adventurer` | a slime and a chest that may be carried, two rooms, six ids, a heart, up to two messes per death | `CloudOfFight`, `HeartsAlive`, `MessesStay` until two fights overlap or a library is loaded in the middle of one; `AdventureEnds` if nothing is carried |
| `play_level` | a slime, a chest, the bucket, the last door, two messes, four units of water and of time, frames of one or two | `TypeOK` (water and time stay in their ranges), `EachScoresOnce`, `HandsAgree`, `CleaningNeedsWater`, `LevelEnds` |
| `level_pointers` | a level with a slime and one without, a cloud, a heart, two messes, up to seven bodies and six colliders | `OwnCurves`, `ReadsFresh` (slices, maps and pointers, with the one exception of `adv_collider` after the door) |
| `inputs` | one input with its key and button, another key, two controllers | `ReleaseSeen`, `NoGhostRelease`, `HoldArrives` |
| `find_path` | fourteen grids of nine cells, two searches | `PathIsWalkable`, `PathIsShortest`, `FailsOnlyUnreachable` |
| `assets` | an image, a shader, a clip, a map, two writes to each file | `AssetsTypeOK`, `UpToDate` (no write is lost), `GraphicsReady`, `ChangesArrive` until the window has sorted the table |

Why the bounds are enough.  Reuse of an id needs one id freed and two
creations; a swap needs two entries and a third tells the last from the next to
last.  A queue needs a front and one behind it.  Ticks up to three units of
an animation two units long contain frames that step over an event and over the
end.  Two searches are what it takes to meet the nodes of an earlier one; the
grids have a detour, a cut and the open room, and `MAX_ITERATION` = 8 is the
smallest value for which nine cells can always be searched, so the boundary is
hit.  Two writes to a file are one that breaks it, or comes while it is loaded,
and one that mends it.  A slime and a chest are two targets that a fight can be
interrupted between; three entities and their cloud, heart and messes take six
ids, so some are used again.  A level of four units in frames of one or two ends
exactly and by a frame that is too long, and its water does too; two messes are
one that is clean and one that is not, a speed of two passes the `Dirt` of three
without hitting it.  A cloud, a heart and messes after the
bodies of the level are swapped into each other's places, and the collider of a
door that comes first has the adventurer's, the last one, swapped into its place,
which is the case `ReadsFresh` excepts.  Two controllers are one that is
player 0 and one that takes its place.  `AddMax`, `TotalMax`, `QueueMax` (of `MCEntityStore`), `HeartMax`, `MessMax`,
`SearchMax`, `WriteMax`, `BodyMax`, `ColliderMax`, `Dirt` and `DeltaMax` bound
what would grow or be fine-grained.

Deadlock is checked in `inputs`, `play_level` and `level_pointers`.  The other
runs do not check it: the game stops on quitting, on a failed assertion
(`failure`) and, in the bounded runs, at the bounds.

## Fairness

There is one thread and a frame always follows: `game_update` calls
`animation_update` (`FairSpec` of `AnimationPool` and `RoomTransition`, together
with the play step there) and `adventurer_update` (`FairSpec` of `Adventurer`)
in every frame of the mode; `PlayLevel` is fair to the next part of
the frame (`Frame`), `Inputs` to the beginning of a frame and to the end of its
poll, which never waits for an event.  Nothing is assumed of the player, of other
creations or of the end of the mode.  In `Assets` a load goes on, and
`file_watch_update` of each watch is strongly fair: every frame ends with a visit
to every watch, and a library is replaced between two frames only, so that no
number of replacements keeps the visits away.  Writes need not happen.

## What is proved

For every value of the constants, with TLAPS:

- `EntityStoreProofs`: `TypeCorrect`, `SlotsAreSound`, `SlotsDoNotLeak`,
  `ReusedIdsAreBare` of `Spec`; `StaleIndexConsistent` and
  `StaleRenderSortSafe` of `StaleSpec`; `StoreImplementsRegistry`, the
  refinement.  The argument has two inductive invariants.  `StoreInv` is about
  the arrays and maps and holds whatever ids the callers pass: indices of a map
  are below the length of its array and no two owners share one, which is what
  the swap needs to repair the map.  `ClientInv` adds the life of ids, and needs
  that deleted ids are not passed again: a queued id is not in use, is queued
  once and has no component in any map.  From both, every step of the store is
  a step of the registry or leaves it alone.
- `AnimationPoolProofs`: `PoolTypeCorrect` and `NoEventIsSkipped`, from the
  inductive `PoolInv`: the types, and that an animation at `One` that has an
  event has sent it.  It is inductive because a clamped time and the test of
  the event are one step; the timestamps are at most `One` or there is none.
  `QueuesRunInOrder` needs `QueueInv` on top: a slot is in one place of one
  queue at most, what is queued is used, and so a slot that is handed out anew
  or moves to a front is not behind a front somewhere else.
- `RoomTransitionProofs`: `CameraArrives` and `TransitionKnown`.  No property of
  the camera is inductive without one about the curves: of all curves into the
  camera only that of the last transition may belong to an active animation,
  and that one is never stopped before its mode ends.  Nobody queues in this
  use of the pool, so its queues stay empty and its update starts and stops
  nothing.
- `GameModesProofs`: `TitleDeletesItsOwn`, `LevelsExist`, `NothingIsLeft`,
  `ModesAreReady`.  The invariant says that at most one id waits to be used
  again, and none once the first entity of the title has taken it; the id the
  title keeps is that of its second entity, so it is never 0 and never given
  away while the title is shown (a library loaded then makes it 0).  As long as no mode is forced, the mode on its
  way out is followed by one of five pairs.
- `AdventurerProofs`: `FightsHaveTheirCloud`, `HeartsAreAlive`, `MessesAreKept`.
  The invariant `EntitiesInv` joins the life of ids (one that waits is not in
  use, is not 0 and waits once) to what each entity is (only what is in use has
  a kind), to the one target that is being fought, whose cloud is the only one,
  and to the hearts, each of which is waited for by one event.  It is lost when
  two fights overlap or a library is loaded in the middle of one, and `history`
  says so.
- `AdventurerProofs`, of `FindPath`: `PathsAreWalkable`, `PathsAreShortest`,
  `FailuresAreReal`, for any width, height and set of walls.  `SearchInv` holds
  in every turn, also with the costs and parents of earlier searches in the
  nodes: the parent of a node that was visited is a neighbour of it which is
  closed and one move nearer to the start, so that the costs count the moves
  (`Tree`); no open node is estimated below a closed one, and every neighbour of a closed
  node was visited and costs at most one move more (`Frontier`).  The estimate
  counts diagonals, which no move takes, but it changes by at most one move
  between neighbours, so it never exceeds what a way costs.  From there two
  inductions, over the moves of a way and over the length of the path, give what
  the recursive definitions `Path` and `Within` stand for.  Induction is taken
  from the well-founded order of the finite sets (`Least`, `Induction`), as a
  statement about a set of numbers and not about a predicate.
- `EngineProofs`, of `Inputs`: `InputTypes`, `ReleasesAreSeen`, `ReleasesAreReal`,
  from the invariant that what is down in the tables is what is held, and that
  what is released in them has gone up since the frame began.
- `EngineProofs`, of `Assets`: `AssetTypes`, `WritesAreSeen`, `GraphicsAreReady`.
  None of them is inductive.  `AssetsInv` adds where the entries stand: at the
  position of their id or, once sorted, at the end of the table, so that the
  position `asset_unload` goes to is the asset's or nobody's (`Table`); that the
  entry being loaded is the only one that is queued (`Queueing`); that a texture
  or shader that is missing is among the loads the running handler has still to
  do (`Drawn`); and that what was read, or loaded, of a file that did not change
  since the attempt began is what the file holds (`Current`).
- `LevelPointersProofs`: `CurvesStayTheirOwn`.  The entities of a level come
  first in the array, for they were created first and are never deleted; a
  deletion of something later moves only elements behind them.
  `ReadsAreFresh` adds, for the slices and maps, that what has a collider has a
  body, and that clouds and hearts have no collider: a part of the frame that
  moves a collider, or may move the body of an owner, leaves
  `recompute_colliders` up until the arrays are fetched again, a cloud that comes
  is appended, and one that goes is removed in a map that is still shared.  For
  the pointers (`PointersInv`) bodies stay as they do for the curves; colliders
  are only appended until the adventurer opens the door, and then the swap moves
  one element, the last: whatever else a pointer leads to stays, and one that
  led there finds what the door had, nobody's.
- `PlayLevelProofs`: `LevelTypes`, `ScoresOnce`, `HandsAlwaysAgree`,
  `CleaningTakesWater`.  A mess is dead exactly when it is clean, and nothing
  dead is in reach.  For the water, a walk with free hands that leaves some has
  used some; the hands that the cleaning asks for are those of the walk, and
  water that was not there after the walk was added by the interaction, so a
  frame that cleans is `spent` or `refilled`.

Assumptions: `EntityMax >= 1`, the key of the name is a key, `None` is not a
component's value; the counts of the pool are positive, ticks too, and the kinds
are kinds; there is a level, and a controller is not the value for none; a level
has finitely many messes and things to repair, the sets of different things are
disjoint and the amounts of water, dirt and time are positive; an interaction
takes two frames at least; a level has the last door, whose transform the
adventurer reads, the player and the adventurer with their colliders, one body
for an entity and no collider without a body; every room and direction leads to
a room of the level, the first one where the map has none; the
table has room for all assets twice and the renderer loads every texture and
every shader.

Only model-checked: liveness (`ActiveEnds`, `FirstQueueRuns`, `PlayerFreed`,
`AdventureEnds`, `LevelEnds`, `HoldArrives`, `ChangesArrive`), which is out of
the prover's reach, as is ENABLED: every other property of the passing runs is
stated by a theorem.  Conversely the callers with stale ids (`StaleSpec`) are
covered by the proofs alone.

## What the checks show

The store is right for callers that forget deleted ids, and its arrays stay
sound for any caller.  Two statements of the code do not hold:

- `engine_entity.odin:15` says what is in `Entity_State` can be cleared by
  users; `entity_reset_memory` frees the buffer of `available_slots` and keeps
  using it.
- `engine_animation.odin:87` asserts that a slot is available; deleted
  animations keep theirs, and every door that is crossed takes one of 100 until
  the level ends.

Also seen while modelling, without a statement of this model that it contradicts:

- Ids and fights: after the library is loaded anew while the title is shown,
  leaving the title deletes entity 0 and the next creation returns it, although
  the comment at `engine_entity.odin:115` calls it always invalid.  A target
  carried away in the middle of a fight leaves its cloud behind when the
  adventurer begins another fight (`cloud` is one static variable), and the
  second fight's cloud is deleted twice; a library loaded in a fight makes the
  end of it delete entity 0 instead of the cloud.  The first of the two title entities
  is not deleted by the title and lives until Play resets the store.  The curve
  of a heart or cloud that is gone may write into another short-lived sprite.
- Rooms: a transition is made only if the direction from the middle of the room
  to the player is the direction of the walk, and `general_direction` has none
  for an exact diagonal (`game_play.odin:437`, the test at line 949).  A player
  that walks diagonally, along a wall and through a door for one, leaves the
  camera's bounds without a transition and is free to go on where the camera
  does not show it.  A later transition goes by the current room, not by where
  the player is, so it may lead to another room than the player's, or to the
  first one where the map has none.  When no transition runs the camera stands
  at the current room all the same, which is what `CameraAtCurrentRoom` says.
- Pointers: `adv_collider` is taken at `game_play.odin:456` and read at line 620
  after `entity_open_door` (line 615) may have removed the door's collider, whose
  place the last element takes.  When that is the adventurer's, the targets of
  that frame are looked for in the box the door had.  The debug text of
  `player_collider` at line 849 can be as wrong.
- Modes: zooming with the debug keys in a transition holds the player
  until the level ends; a debug transition forced in the frame that closes the
  window is repeated for ever.
- Level: the adventurer closes the last door, and the player can leave whenever
  it is closed; slimes that are dead go on leaving messes on their timer; what
  is carried does so at its position relative to the player, and its collider
  is there too; a torch that the map shows lit can be repaired for 100 points,
  and a chest before it is looted, which the adventurer then does all the same; refilling at the
  bucket without any water lets the same frame clean.
- Inputs: a key that is held makes the game ignore the controllers, and a tap
  within one poll is lost when no other key is held.
- Assets: once the window of the assets has sorted the table, `asset_unload`
  takes an id for a position it no longer is; "Asset reloaded"
  (`engine_assets.odin:159`) is notified in every frame from then on, and nothing
  is loaded.  A clip that failed to load is `Loaded` without data once its file
  changes, and one that was loaded never changes (`audio_unload_clip` is a TODO).
- Queues after an empty one stand still; a level of six rooms has more nodes
  than `MAX_ITERATION`.

## Abstractions

Component data are values without structure, and component types a small set.
Positions are rooms (the camera's in `RoomTransition`, all in `Adventurer`),
abstract ranges, or left open (the player's in `RoomTransition`); the rooms of
`Adventurer` are connected by doors as in the maps of the game.  `Adventurer` keeps only
the ids of the store and tells entities by their kind.  `FindPath` takes any of
equally good open nodes, where the code takes the first; integers are unbounded.
A loop event that falls exactly on the end of a cloud's animation is not
modelled.  In `GameModes` a frame's creations in Play are any number of named
entities, and the lists of a level are deleted with the reset that follows.  In
`Assets` a write is always seen as later than the attempt to load before it: the
clock of the files is taken to be as fine as that of the game.  The entries with
id 0 are one value, the table has room for all assets twice, as in the game, and
what the renderer does with a texture is left out.  In `PlayLevel` amounts are
whole numbers, water is used and a mess cleaned by the length of the frame, and
the timers of the mess makers may go off in any frame.  In `LevelPointers` a transform and a
sprite, which are always added and removed together, are one array, "body"; a
map grows at an insertion or does not; messes that find no room within the
bounds are left out, and `entity_kill` is followed to the end of the
adventurer's part of the frame before anything reads the arrays again.  In
`Inputs` an event happens when it is handled, and the mouse is left out.

## Not modelled

The audio channels and the logger are planned (below).  Level building is a translation of map files, done once per level.
Rendering, user interface, profiling and conversions keep no state the rest
reads back.  Scene transitions are a timer nothing waits for; the self-destruct
component is set on no entity.  Vendored bindings and build scripts are left
aside.

## Plan

Done, in this order: the entity store with its abstract registry and proofs,
the animation pool with proofs, the modules that use them - rooms, modes,
adventurer - the path search, and the assets; then the inputs, the pointers and
slices of a level, the level from the player's side, and the proofs about all of
these.

Next modules:

1. `AudioChannels`: main thread and mixer thread on the channel table.
2. `LoggerArena`: the arena that is emptied when it is full.
3. The grid arithmetic of `game_grid.odin` over bounded inputs.
4. The zoom keys in `RoomTransition`.

Next proofs: a refinement of the mode machine to the levels it promises, and
that a clip that has data keeps it.
