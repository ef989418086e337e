---------------------------- MODULE EntityStore ----------------------------
(***************************************************************************)
(* The entity and component store of the engine (engine_entity.odin).      *)
(*                                                                         *)
(* An entity is an index into the array entities: entities[e] = e while e  *)
(* is in use, ENTITY_INVALID otherwise.  Deleted indices wait in a queue,  *)
(* available_slots, and are handed out again before the array grows.       *)
(* Every component type owns one dense array (data) and one map from the   *)
(* entities to positions of that array (entity_indices).  A component is   *)
(* removed by swapping its array element with the LAST one; the code then  *)
(* shrinks neither the array nor the map's own length field, because it    *)
(* calls delete_key on a copy of the Component_List.                       *)
(*                                                                         *)
(* All the state lives in one arena that entity_reset_memory frees.        *)
(***************************************************************************)
EXTENDS Integers, Sequences

CONSTANTS
  EntityMax,   \* ENTITY_MAX: ids are 0 .. EntityMax - 1
  Keys,        \* the component types (Component_Key)
  NameKey,     \* the key of Component_Name
  Values,      \* what a component can hold
  None         \* stands for "no component" in what a reader sees

ASSUME EntityMaxAssumption == EntityMax \in Nat /\ EntityMax >= 1
ASSUME KeysAssumption      == NameKey \in Keys
ASSUME NoneAssumption      == None \notin Values

VARIABLES
  current_entity_id, \* the next id never used; also the length of entities
  entities,          \* entities[e]: e, or ENTITY_INVALID
  available_slots,   \* the queue of ids to use again, front first
  registered,        \* the keys present in the map components
  data,              \* data[k]: the dense array of k
  entity_indices,    \* entity_indices[k][e]: position of e's k, or NoIndex
  map_len,           \* map_len[k]: the length field of the map entity_indices[k]
  slots_buffer,      \* where the buffer of available_slots lives
  sound              \* FALSE once freed memory has been used and overwritten

vars == <<current_entity_id, entities, available_slots, registered, data,
          entity_indices, map_len, slots_buffer, sound>>

componentVars == <<registered, data, entity_indices, map_len>>
slotVars      == <<current_entity_id, entities, available_slots, slots_buffer>>

Entity         == 0 .. EntityMax - 1
ENTITY_INVALID == 0
NoIndex        == -1

(* Ids the store has handed out since the last reset, and 0.               *)
Issued == 0 .. current_entity_id - 1
(* Ids in use.                                                             *)
Live   == {e \in Issued : entities[e] # ENTITY_INVALID}

Has(k, e) == entity_indices[k][e] # NoIndex

(* The component array holds its first element at position 0.              *)
At(array, i) == array[i + 1]

-----------------------------------------------------------------------------
NoEntities   == [e \in Entity |-> ENTITY_INVALID]
NoComponents == [k \in Keys |-> [e \in Entity |-> NoIndex]]

Init ==
  /\ current_entity_id = 1
  /\ entities = NoEntities
  /\ available_slots = <<>>
  /\ registered = {}
  /\ data = [k \in Keys |-> <<>>]
  /\ entity_indices = NoComponents
  /\ map_len = [k \in Keys |-> 0]
  /\ slots_buffer = "none"
  /\ sound = TRUE

-----------------------------------------------------------------------------
(* Mutant: the queue is peeked instead of popped.                          *)
ReuseSlotPeek(e) ==
  /\ available_slots # <<>>
  /\ e = Head(available_slots)
  /\ entities' = [entities EXCEPT ![e] = e]
  /\ UNCHANGED <<current_entity_id, available_slots, slots_buffer>>

(* entity_create_entity_base: the front of the queue, else a new id.       *)
ReuseSlot(e) ==
  /\ available_slots # <<>>
  /\ e = Head(available_slots)
  /\ available_slots' = Tail(available_slots)
  /\ entities' = [entities EXCEPT ![e] = e]
  /\ UNCHANGED <<current_entity_id, slots_buffer>>

AppendEntity(e) ==
  /\ available_slots = <<>>
  /\ current_entity_id < EntityMax      \* assert "max entities reached"
  /\ e = current_entity_id
  /\ entities' = [entities EXCEPT ![e] = e]
  /\ current_entity_id' = current_entity_id + 1
  /\ UNCHANGED <<available_slots, slots_buffer>>

create_entity_base(e) == ReuseSlot(e) \/ AppendEntity(e)

(* _entity_add_component, then the store of the value: the array and the   *)
(* map grow by one element.                                                *)
AddComponent(k, e, v) ==
  /\ registered' = registered \union {k}
  /\ data' = [data EXCEPT ![k] = Append(@, v)]
  /\ entity_indices' = [entity_indices EXCEPT ![k][e] = Len(data[k])]
  /\ map_len' = [map_len EXCEPT ![k] = @ + 1]

(* A store to the component e already has: entity_set_component on it, or  *)
(* a write through the pointer entity_get_component returned.              *)
OverwriteComponent(k, e, v) ==
  /\ data' = [data EXCEPT ![k][entity_indices[k][e] + 1] = v]
  /\ UNCHANGED <<registered, entity_indices, map_len>>

set_component(k, e, v) ==
  \/ ~Has(k, e) /\ AddComponent(k, e, v)
  \/ Has(k, e)  /\ OverwriteComponent(k, e, v)

-----------------------------------------------------------------------------
(* Mutants: the re-pointing without the swap, the re-pointing without the  *)
(* delete_key, and a delete_key that reaches the map's own length field,   *)
(* with and without the test that the component is there.                  *)
SwapForgotten(array, i) == array

KeyKept(indices, e, last) ==
  [x \in Entity |-> IF indices[x] = last THEN indices[e] ELSE indices[x]]

(* _remove_component_with_typeid on one array and its map.  The element at *)
(* position i and the last one change places, and whoever owned the last   *)
(* one now owns position i.  Nothing shrinks.                              *)
SwapWithLast(array, i) ==
  [array EXCEPT ![i + 1] = array[Len(array)], ![Len(array)] = array[i + 1]]

RepointLast(indices, e, last) ==
  [x \in Entity |->
     IF x = e THEN NoIndex
     ELSE IF indices[x] = last THEN indices[e]
     ELSE indices[x]]

(* The arrays and positions once e has lost the components ks it has.      *)
DropComponents(ks, e) ==
  LET gone(k) == k \in ks /\ Has(k, e) IN
  /\ data' = [k \in Keys |->
                IF gone(k) THEN SwapWithLast(data[k], entity_indices[k][e])
                ELSE data[k]]
  /\ entity_indices' = [k \in Keys |->
                IF gone(k) THEN RepointLast(entity_indices[k], e, Len(data[k]) - 1)
                ELSE entity_indices[k]]
  /\ UNCHANGED registered

RemoveByReference(ks, e) ==
  /\ DropComponents(ks, e)
  /\ map_len' = [k \in Keys |-> map_len[k] - (IF k \in ks /\ Has(k, e) THEN 1 ELSE 0)]

RemoveUntested(ks, e) ==
  /\ DropComponents(ks, e)
  /\ map_len' = [k \in Keys |-> map_len[k] - (IF k \in ks THEN 1 ELSE 0)]

(* Remove from e the components of the keys ks that it has: delete_key     *)
(* works on a copy, so the map's length field stays as it was.             *)
RemoveComponents(ks, e) ==
  /\ DropComponents(ks, e)
  /\ UNCHANGED map_len

-----------------------------------------------------------------------------
(* The operations of the store.                                            *)
create_entity(e) ==
  /\ sound
  /\ create_entity_base(e)
  /\ UNCHANGED <<componentVars, sound>>

create_entity_name(e, name) ==
  /\ sound
  /\ create_entity_base(e)
  /\ set_component(NameKey, e, name)
  /\ UNCHANGED sound

entity_set_component(k, e, v) ==
  /\ sound
  /\ set_component(k, e, v)
  /\ UNCHANGED <<slotVars, sound>>

entity_delete_component(k, e) ==
  /\ sound
  /\ RemoveComponents({k}, e)
  /\ UNCHANGED <<slotVars, sound>>

(* Mutants: a deletion that keeps the id to itself, and one that only      *)
(* removes the name.                                                       *)
DeleteWithoutPush(e) ==
  /\ sound
  /\ RemoveComponents(registered, e)
  /\ entities' = [entities EXCEPT ![e] = ENTITY_INVALID]
  /\ UNCHANGED <<current_entity_id, available_slots, slots_buffer, sound>>

DeleteNameOnly(e) ==
  /\ sound
  /\ RemoveComponents({NameKey}, e)
  /\ entities' = [entities EXCEPT ![e] = ENTITY_INVALID]
  /\ available_slots' = <<e>> \o available_slots
  /\ slots_buffer' = IF slots_buffer = "none" THEN "arena" ELSE slots_buffer
  /\ UNCHANGED <<current_entity_id, sound>>

(* No test that e is in use: its id is queued whatever it is.              *)
entity_delete_entity(e) ==
  /\ sound
  /\ RemoveComponents(registered, e)
  /\ entities' = [entities EXCEPT ![e] = ENTITY_INVALID]
  /\ available_slots' = <<e>> \o available_slots
  /\ slots_buffer' = IF slots_buffer = "none" THEN "arena" ELSE slots_buffer
  /\ UNCHANGED <<current_entity_id, sound>>

(* Every element of entities, the ENTITY_INVALID ones included, is deleted *)
(* first: that queues at least one id, so the queue has a buffer in the    *)
(* arena when free_all takes the arena back.  Entities and components are  *)
(* made anew; the queue is only cleared and keeps the freed buffer.        *)
entity_reset_memory ==
  /\ sound
  /\ current_entity_id' = 1
  /\ entities' = NoEntities
  /\ available_slots' = <<>>
  /\ registered' = {}
  /\ data' = [k \in Keys |-> <<>>]
  /\ entity_indices' = NoComponents
  /\ map_len' = [k \in Keys |-> 0]
  /\ slots_buffer' = "freed"
  /\ UNCHANGED sound

(* A push or a pop through the freed buffer after another allocation of    *)
(* the arena has been placed over it: undefined from here on.              *)
UseFreedSlots ==
  /\ sound
  /\ slots_buffer = "freed"
  /\ sound' = FALSE
  /\ UNCHANGED <<slotVars, componentVars>>

-----------------------------------------------------------------------------
(* ids: the entities that the callers of the store may pass to it.         *)
Calls(ids) ==
  \/ \E e \in Entity : create_entity(e)
  \/ \E e \in Entity, v \in Values : create_entity_name(e, v)
  \/ \E k \in Keys, e \in ids, v \in Values : entity_set_component(k, e, v)
  \/ \E k \in Keys, e \in ids : entity_delete_component(k, e)
  \/ \E e \in ids : entity_delete_entity(e)
  \/ entity_reset_memory
  \/ UseFreedSlots

(* Callers that forget an id once they have deleted it.                    *)
Next == Calls(Live)
Spec == Init /\ [][Next]_vars

(* Callers that may keep an id past its deletion, as static variables and  *)
(* animation events of the game do.                                        *)
StaleNext == Calls(Issued)
StaleSpec == Init /\ [][StaleNext]_vars

-----------------------------------------------------------------------------
(* The types of the variables.                                             *)
TypeOK ==
  /\ current_entity_id \in 1 .. EntityMax
  /\ entities \in [Entity -> Entity]
  /\ available_slots \in Seq(Entity)
  /\ registered \subseteq Keys
  /\ data \in [Keys -> Seq(Values)]
  /\ entity_indices \in [Keys -> [Entity -> Nat \union {NoIndex}]]
  /\ map_len \in [Keys -> Nat]
  /\ slots_buffer \in {"none", "arena", "freed"}
  /\ sound \in BOOLEAN

(* Positions are inside the array they index.                              *)
IndexInArray ==
  \A k \in Keys : \A e \in Entity : Has(k, e) => entity_indices[k][e] < Len(data[k])

(* Two entities never share an element of a component array.               *)
IndexInjective ==
  \A k \in Keys : \A x, y \in Entity :
    Has(k, x) /\ Has(k, y) /\ entity_indices[k][x] = entity_indices[k][y] => x = y

(* Whatever ids the callers pass, the swap-remove keeps every component    *)
(* array and its map in step: a position is inside the array and belongs   *)
(* to one entity (_remove_component_with_typeid and _entity_add_component).*)
IndexConsistent == IndexInArray /\ IndexInjective

(* What the render sort of game_update asserts ("oh no", game.odin:377)    *)
(* and tests ("entity out of range"): the map's length field equals the    *)
(* array's length although removals shrink neither, and every owner of a   *)
(* component is an id below the length of entities.                        *)
RenderSortSafe ==
  \A k \in Keys :
    /\ map_len[k] = Len(data[k])
    /\ \A e \in Entity : Has(k, e) => e \in Issued

(* An id waits in the queue once, and only while it is not in use: no two  *)
(* creations can return the same entity, and 0 is never among them.        *)
SlotsSound ==
  /\ \A i, j \in 1 .. Len(available_slots) :
       available_slots[i] = available_slots[j] => i = j
  /\ \A i \in 1 .. Len(available_slots) :
       available_slots[i] \in Issued \ (Live \union {ENTITY_INVALID})

(* No id is lost: one that was handed out is in use or waits in the queue, *)
(* so "max entities reached" is only reported with every id in use.        *)
NoSlotLeak ==
  \A e \in Issued \ {ENTITY_INVALID} :
    e \in Live \/ \E i \in 1 .. Len(available_slots) : available_slots[i] = e

(* An entity that is not in use has no component: the components of a      *)
(* deleted entity are not inherited by the next user of its id.            *)
FreeIdsAreBare ==
  \A k \in Keys, e \in Entity : Has(k, e) => e \in Live

(* The comment on Entity_State (engine_entity.odin:15): everything below   *)
(* it is in the internal arena, which users may clear.  After a clear the  *)
(* queue's buffer is no longer memory the arena owns.                      *)
SlotsBufferInArena == slots_buffer # "freed"

-----------------------------------------------------------------------------
(* What the callers of the store see: which ids are in use and the value   *)
(* each of them has for each component.                                    *)
Content(e, k) ==
  IF Has(k, e) THEN At(data[k], entity_indices[k][e]) ELSE None

contents == [e \in Entity |-> [k \in Keys |-> Content(e, k)]]

Registry == INSTANCE EntityRegistry WITH live <- Live, contents <- contents

(* The store implements the registry: whatever the swaps do to the arrays, *)
(* a call changes the components of its own entity and of no other.        *)
ImplementsRegistry == Registry!Spec
=============================================================================
