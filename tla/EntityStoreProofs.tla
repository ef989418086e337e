------------------------- MODULE EntityStoreProofs -------------------------
(***************************************************************************)
(* Proofs about EntityStore, for every number of ids and all component     *)
(* types and values.                                                       *)
(***************************************************************************)
EXTENDS EntityStore, TLAPS

(* The array part and the map part of one component type, seen alone.      *)
Consistent(array, indices) ==
  /\ \A e \in Entity : indices[e] # NoIndex => indices[e] < Len(array)
  /\ \A x, y \in Entity :
       indices[x] # NoIndex /\ indices[x] = indices[y] => x = y

Indices == [Entity -> Nat \union {NoIndex}]

-----------------------------------------------------------------------------
(* Swapping an element with the last one keeps the array a sequence of     *)
(* values of the same length (the byte swap of engine_entity.odin:236).    *)
LEMMA SwapWithLastType ==
  ASSUME NEW s \in Seq(Values), NEW i \in 0 .. Len(s) - 1
  PROVE  /\ SwapWithLast(s, i) \in Seq(Values)
         /\ Len(SwapWithLast(s, i)) = Len(s)
         /\ SwapWithLast(s, i)[Len(s)] = s[i + 1]
         /\ i + 1 # Len(s) => SwapWithLast(s, i)[i + 1] = s[Len(s)]
         /\ \A j \in 1 .. Len(s) :
              j # i + 1 /\ j # Len(s) => SwapWithLast(s, i)[j] = s[j]
  <1>1. /\ Len(s) \in Nat
        /\ i + 1 \in 1 .. Len(s)
        /\ Len(s) \in 1 .. Len(s)
        /\ s[i + 1] \in Values
        /\ s[Len(s)] \in Values
    OBVIOUS
  <1>. QED
    BY <1>1 DEF SwapWithLast

(* Removing an owner and re-pointing the owner of the last element keeps   *)
(* the map well typed and in step with the array.                          *)
LEMMA RepointLastConsistent ==
  ASSUME NEW s \in Seq(Values), NEW f \in Indices, NEW e \in Entity,
         f[e] # NoIndex, Consistent(s, f)
  PROVE  /\ f[e] \in 0 .. Len(s) - 1
         /\ RepointLast(f, e, Len(s) - 1) \in Indices
         /\ Consistent(SwapWithLast(s, f[e]), RepointLast(f, e, Len(s) - 1))
  <1>1. /\ Len(s) \in Nat
        /\ f[e] \in 0 .. Len(s) - 1
    BY DEF Indices, NoIndex, Consistent
  <1>2. RepointLast(f, e, Len(s) - 1) \in Indices
    BY <1>1 DEF RepointLast, Indices, NoIndex
  <1>3. Len(SwapWithLast(s, f[e])) = Len(s)
    BY <1>1, SwapWithLastType
  <1>4. Consistent(SwapWithLast(s, f[e]), RepointLast(f, e, Len(s) - 1))
    BY <1>1, <1>3 DEF RepointLast, Consistent, Indices, NoIndex
  <1>. QED
    BY <1>1, <1>2, <1>4
-----------------------------------------------------------------------------
(* The invariant of the component arrays and maps, apart from the ids.     *)
ComponentInv ==
  /\ registered \subseteq Keys
  /\ data \in [Keys -> Seq(Values)]
  /\ entity_indices \in [Keys -> Indices]
  /\ map_len \in [Keys -> Nat]
  /\ \A k \in Keys : map_len[k] = Len(data[k])
  /\ \A k \in Keys : Consistent(data[k], entity_indices[k])

(* Adding or overwriting a component (entity_set_component) preserves it,  *)
(* and makes no other entity an owner.                                     *)
LEMMA SetComponentPreserves ==
  ASSUME ComponentInv, NEW k \in Keys, NEW e \in Entity, NEW v \in Values,
         set_component(k, e, v)
  PROVE  /\ ComponentInv'
         /\ \A j \in Keys, x \in Entity : Has(j, x)' => Has(j, x) \/ x = e
  <1>1. CASE ~Has(k, e) /\ AddComponent(k, e, v)
    <2>1. /\ data[k] \in Seq(Values)
          /\ Len(data[k]) \in Nat
          /\ Len(Append(data[k], v)) = Len(data[k]) + 1
      BY DEF ComponentInv
    <2>2. /\ registered' \subseteq Keys
          /\ data' \in [Keys -> Seq(Values)]
          /\ map_len' \in [Keys -> Nat]
          /\ entity_indices' \in [Keys -> Indices]
      BY <1>1, <2>1 DEF ComponentInv, AddComponent, Indices
    <2>3. ASSUME NEW j \in Keys
          PROVE  /\ map_len'[j] = Len(data'[j])
                 /\ Consistent(data'[j], entity_indices'[j])
      BY <1>1, <2>1, <2>2 DEF ComponentInv, AddComponent, Consistent, Indices, Has, NoIndex
    <2>4. \A j \in Keys, x \in Entity : Has(j, x)' => Has(j, x) \/ x = e
      BY <1>1, <2>1 DEF ComponentInv, AddComponent, Indices, Has, NoIndex
    <2>. QED
      BY <2>2, <2>3, <2>4 DEF ComponentInv
  <1>2. CASE Has(k, e) /\ OverwriteComponent(k, e, v)
    <2>1. /\ data[k] \in Seq(Values)
          /\ entity_indices[k][e] + 1 \in 1 .. Len(data[k])
      BY <1>2 DEF ComponentInv, Consistent, Indices, Has, NoIndex
    <2>2. /\ data'[k] \in Seq(Values)
          /\ Len(data'[k]) = Len(data[k])
          /\ data' \in [Keys -> Seq(Values)]
          /\ \A j \in Keys : Len(data'[j]) = Len(data[j])
      BY <1>2, <2>1 DEF ComponentInv, OverwriteComponent
    <2>. QED
      BY <1>2, <2>2 DEF ComponentInv, OverwriteComponent, Consistent, Has
  <1>. QED
    BY <1>1, <1>2 DEF set_component

(* Removing components preserves it; the entity has none of them after.    *)
LEMMA RemoveComponentsPreserves ==
  ASSUME ComponentInv, NEW ks \in SUBSET Keys, NEW e \in Entity,
         RemoveComponents(ks, e)
  PROVE  /\ ComponentInv'
         /\ \A j \in Keys, x \in Entity : Has(j, x)' <=> Has(j, x) /\ ~(x = e /\ j \in ks)
  <1>. DEFINE gone(k) == k \in ks /\ Has(k, e)
  <1>1. ASSUME NEW j \in Keys, gone(j)
        PROVE  /\ data'[j] \in Seq(Values)
               /\ Len(data'[j]) = Len(data[j])
               /\ entity_indices'[j] \in Indices
               /\ Consistent(data'[j], entity_indices'[j])
               /\ \A x \in Entity : Has(j, x)' <=> Has(j, x) /\ x # e
    <2>1. /\ data'[j] = SwapWithLast(data[j], entity_indices[j][e])
          /\ entity_indices'[j] = RepointLast(entity_indices[j], e, Len(data[j]) - 1)
      BY <1>1 DEF RemoveComponents, DropComponents
    <2>2. /\ data[j] \in Seq(Values)
          /\ entity_indices[j] \in Indices
          /\ entity_indices[j][e] # NoIndex
          /\ Consistent(data[j], entity_indices[j])
      BY <1>1 DEF ComponentInv, Has
    <2>3. /\ entity_indices[j][e] \in 0 .. Len(data[j]) - 1
          /\ entity_indices'[j] \in Indices
          /\ Consistent(data'[j], entity_indices'[j])
      BY <2>1, <2>2, RepointLastConsistent
    <2>4. /\ data'[j] \in Seq(Values)
          /\ Len(data'[j]) = Len(data[j])
      BY <2>1, <2>2, <2>3, SwapWithLastType
    <2>5. \A x \in Entity : Has(j, x)' <=> Has(j, x) /\ x # e
      BY <2>1, <2>2, <2>3 DEF Has, RepointLast, Indices, NoIndex
    <2>. QED
      BY <2>3, <2>4, <2>5
  <1>2. ASSUME NEW j \in Keys, ~gone(j)
        PROVE  data'[j] = data[j] /\ entity_indices'[j] = entity_indices[j]
    BY <1>2 DEF RemoveComponents, DropComponents
  <1>3. /\ DOMAIN data' = Keys /\ data' = [j \in Keys |-> data'[j]]
        /\ DOMAIN entity_indices' = Keys
        /\ entity_indices' = [j \in Keys |-> entity_indices'[j]]
        /\ registered' = registered /\ map_len' = map_len
    BY DEF RemoveComponents, DropComponents
  <1>4. \A j \in Keys : /\ data'[j] \in Seq(Values)
                        /\ Len(data'[j]) = Len(data[j])
                        /\ entity_indices'[j] \in Indices
                        /\ Consistent(data'[j], entity_indices'[j])
    BY <1>1, <1>2 DEF ComponentInv
  <1>5. ComponentInv'
    BY <1>3, <1>4 DEF ComponentInv
  <1>6. \A j \in Keys, x \in Entity : Has(j, x)' <=> Has(j, x) /\ ~(x = e /\ j \in ks)
    BY <1>1, <1>2 DEF Has
  <1>. QED
    BY <1>5, <1>6
-----------------------------------------------------------------------------
(* The inductive invariant of the store under callers that may pass any id *)
(* handed out since the last reset: the types, the arrays and maps in      *)
(* step, and every owner and every queued id below the length of entities. *)
IdInv ==
  /\ current_entity_id \in 1 .. EntityMax
  /\ entities \in [Entity -> Entity]
  /\ available_slots \in Seq(Entity)
  /\ slots_buffer \in {"none", "arena", "freed"}
  /\ sound \in BOOLEAN
  /\ \A i \in 1 .. Len(available_slots) : available_slots[i] \in Issued

OwnersIssued == \A k \in Keys, e \in Entity : Has(k, e) => e \in Issued

StoreInv == IdInv /\ ComponentInv /\ OwnersIssued

(* The invariant implies what the runs check.                              *)
LEMMA StoreInvImplies == StoreInv => TypeOK /\ IndexConsistent /\ RenderSortSafe
  <1>. SUFFICES ASSUME StoreInv PROVE TypeOK /\ IndexConsistent /\ RenderSortSafe
    OBVIOUS
  <1>1. TypeOK
    BY DEF StoreInv, IdInv, ComponentInv, TypeOK, Indices
  <1>2. IndexConsistent
    BY DEF StoreInv, ComponentInv, Consistent, IndexConsistent, IndexInArray,
           IndexInjective, Has
  <1>3. RenderSortSafe
    BY DEF StoreInv, ComponentInv, OwnersIssued, RenderSortSafe
  <1>. QED
    BY <1>1, <1>2, <1>3

LEMMA StoreInvInit == Init => StoreInv
  <1>. SUFFICES ASSUME Init PROVE StoreInv
    OBVIOUS
  <1>1. IdInv
    BY EntityMaxAssumption
    DEF Init, IdInv, Entity, Issued, NoEntities, ENTITY_INVALID
  <1>2. ComponentInv
    BY DEF Init, ComponentInv, NoComponents, Indices, Consistent, NoIndex
  <1>3. OwnersIssued
    BY DEF Init, OwnersIssued, NoComponents, Has
  <1>. QED
    BY <1>1, <1>2, <1>3 DEF StoreInv

(* Creating an entity returns an id that is below the new length.          *)
LEMMA CreatePreserves ==
  ASSUME IdInv, NEW e \in Entity, create_entity_base(e), sound' = sound
  PROVE  /\ IdInv'
         /\ e \in Issued'
         /\ Issued \subseteq Issued'
  <1>1. CASE ReuseSlot(e)
    <2>1. /\ Len(available_slots) \in Nat
          /\ available_slots' \in Seq(Entity)
          /\ Len(available_slots') = Len(available_slots) - 1
          /\ available_slots[1] = e
          /\ 1 \in 1 .. Len(available_slots)
          /\ \A i \in 1 .. Len(available_slots') :
               available_slots'[i] = available_slots[i + 1]
      BY <1>1 DEF ReuseSlot, IdInv
    <2>. QED
      BY <1>1, <2>1 DEF ReuseSlot, IdInv, Issued
  <1>2. CASE AppendEntity(e)
    BY <1>2, EntityMaxAssumption DEF AppendEntity, IdInv, Issued, Entity
  <1>. QED
    BY <1>1, <1>2 DEF create_entity_base

(* One step of the store under any caller preserves the invariant.         *)
LEMMA StoreInvStep == StoreInv /\ [StaleNext]_vars => StoreInv'
  <1>. SUFFICES ASSUME StoreInv, [StaleNext]_vars PROVE StoreInv'
    OBVIOUS
  <1>. USE DEF StoreInv
  <1>1. ASSUME NEW e \in Entity, create_entity(e)
        PROVE  StoreInv'
    <2>1. IdInv' /\ Issued \subseteq Issued'
      BY <1>1, CreatePreserves DEF create_entity
    <2>2. ComponentInv' /\ OwnersIssued'
      BY <1>1, <2>1 DEF create_entity, componentVars, ComponentInv, OwnersIssued, Has
    <2>. QED
      BY <2>1, <2>2
  <1>2. ASSUME NEW e \in Entity, NEW v \in Values, create_entity_name(e, v)
        PROVE  StoreInv'
    <2>1. IdInv' /\ e \in Issued' /\ Issued \subseteq Issued'
      BY <1>2, CreatePreserves DEF create_entity_name
    <2>2. /\ ComponentInv'
          /\ \A j \in Keys, x \in Entity : Has(j, x)' => Has(j, x) \/ x = e
      BY <1>2, KeysAssumption, SetComponentPreserves DEF create_entity_name
    <2>3. OwnersIssued'
      BY <2>1, <2>2 DEF OwnersIssued
    <2>. QED
      BY <2>1, <2>2, <2>3
  <1>3. ASSUME NEW k \in Keys, NEW e \in Issued, NEW v \in Values,
               entity_set_component(k, e, v)
        PROVE  StoreInv'
    <2>1. IdInv' /\ Issued' = Issued
      BY <1>3 DEF entity_set_component, slotVars, IdInv, Issued
    <2>2. e \in Entity
      BY EntityMaxAssumption DEF IdInv, Issued, Entity
    <2>3. /\ ComponentInv'
          /\ \A j \in Keys, x \in Entity : Has(j, x)' => Has(j, x) \/ x = e
      BY <1>3, <2>2, SetComponentPreserves DEF entity_set_component
    <2>4. OwnersIssued'
      BY <2>1, <2>3 DEF OwnersIssued
    <2>. QED
      BY <2>1, <2>3, <2>4
  <1>4. ASSUME NEW k \in Keys, NEW e \in Issued, entity_delete_component(k, e)
        PROVE  StoreInv'
    <2>1. IdInv' /\ Issued' = Issued
      BY <1>4 DEF entity_delete_component, slotVars, IdInv, Issued
    <2>2. e \in Entity /\ {k} \in SUBSET Keys
      BY EntityMaxAssumption DEF IdInv, Issued, Entity
    <2>3. /\ ComponentInv'
          /\ \A j \in Keys, x \in Entity : Has(j, x)' => Has(j, x)
      BY <1>4, <2>2, RemoveComponentsPreserves DEF entity_delete_component
    <2>4. OwnersIssued'
      BY <2>1, <2>3 DEF OwnersIssued
    <2>. QED
      BY <2>1, <2>3, <2>4
  <1>5. ASSUME NEW e \in Issued, entity_delete_entity(e)
        PROVE  StoreInv'
    <2>1. e \in Entity /\ registered \in SUBSET Keys
      BY EntityMaxAssumption DEF IdInv, Issued, Entity, ComponentInv
    <2>2. Issued' = Issued
      BY <1>5 DEF entity_delete_entity, Issued
    <2>3. /\ Len(available_slots) \in Nat
          /\ available_slots' \in Seq(Entity)
          /\ Len(available_slots') = Len(available_slots) + 1
          /\ available_slots'[1] = e
          /\ \A i \in 2 .. Len(available_slots') :
               available_slots'[i] = available_slots[i - 1]
      <3>1. /\ available_slots' = <<e>> \o available_slots
            /\ available_slots \in Seq(Entity)
        BY <1>5 DEF entity_delete_entity, IdInv
      <3>. QED
        BY <2>1, <3>1
    <2>4. \A i \in 1 .. Len(available_slots') : available_slots'[i] \in Issued
      BY <2>3 DEF IdInv
    <2>5. entities' \in [Entity -> Entity] /\ sound' = sound
          /\ slots_buffer' \in {"none", "arena", "freed"}
          /\ current_entity_id' = current_entity_id
      <3>1. ENTITY_INVALID \in Entity
        BY EntityMaxAssumption DEF ENTITY_INVALID, Entity
      <3>2. entities' \in [Entity -> Entity]
        BY <1>5, <3>1 DEF entity_delete_entity, IdInv
      <3>3. sound' = sound /\ current_entity_id' = current_entity_id
        BY <1>5 DEF entity_delete_entity
      <3>4. slots_buffer' \in {"none", "arena", "freed"}
        BY <1>5 DEF entity_delete_entity, IdInv
      <3>. QED
        BY <3>2, <3>3, <3>4
    <2>6. IdInv'
      BY <2>2, <2>3, <2>4, <2>5 DEF IdInv
    <2>7. /\ ComponentInv'
          /\ \A j \in Keys, x \in Entity : Has(j, x)' => Has(j, x)
      BY <1>5, <2>1, RemoveComponentsPreserves DEF entity_delete_entity
    <2>8. OwnersIssued'
      BY <2>2, <2>7 DEF OwnersIssued
    <2>. QED
      BY <2>6, <2>7, <2>8
  <1>6. CASE entity_reset_memory
    <2>1. IdInv'
      BY <1>6, EntityMaxAssumption
      DEF entity_reset_memory, IdInv, Entity, Issued, NoEntities, ENTITY_INVALID
    <2>2. ComponentInv'
      BY <1>6 DEF entity_reset_memory, ComponentInv, NoComponents, Indices, Consistent, NoIndex
    <2>3. OwnersIssued'
      BY <1>6 DEF entity_reset_memory, OwnersIssued, NoComponents, Has
    <2>. QED
      BY <2>1, <2>2, <2>3
  <1>7. CASE UseFreedSlots
    BY <1>7 DEF UseFreedSlots, slotVars, componentVars, IdInv, ComponentInv,
                OwnersIssued, Issued, Has
  <1>8. CASE UNCHANGED vars
    BY <1>8 DEF vars, IdInv, ComponentInv, OwnersIssued, Issued, Has
  <1>. QED
    BY <1>1, <1>2, <1>3, <1>4, <1>5, <1>6, <1>7, <1>8 DEF StaleNext, Calls

(* Whatever ids the callers pass, the variables keep their types.          *)
THEOREM StaleTypeOK == StaleSpec => []TypeOK
  BY StoreInvInit, StoreInvStep, StoreInvImplies, PTL DEF StaleSpec

(* Whatever ids the callers pass, the swap-remove keeps every component    *)
(* array and its map in step.                                              *)
THEOREM StaleIndexConsistent == StaleSpec => []IndexConsistent
  BY StoreInvInit, StoreInvStep, StoreInvImplies, PTL DEF StaleSpec

(* Whatever ids the callers pass, the assertion "oh no" of the render sort *)
(* and its bounds hold.                                                    *)
THEOREM StaleRenderSortSafe == StaleSpec => []RenderSortSafe
  BY StoreInvInit, StoreInvStep, StoreInvImplies, PTL DEF StaleSpec

-----------------------------------------------------------------------------
(* Callers that only pass ids in use are a special case of any caller.     *)
LEMMA NextIsStaleNext == [Next]_vars => [StaleNext]_vars
  <1>1. Live \subseteq Issued
    BY DEF Live
  <1>. QED
    BY <1>1 DEF Next, StaleNext, Calls

(* The ids: 0 is never in use, no id at or above the length is in use, an  *)
(* id in use has its own number in entities, every other id handed out     *)
(* waits in the queue exactly once.                                        *)
SlotInv ==
  /\ entities[0] = ENTITY_INVALID
  /\ SlotsSound
  /\ NoSlotLeak

(* Only ids in use have components, and only of registered types.          *)
OwnerInv ==
  /\ FreeIdsAreBare
  /\ \A k \in Keys, e \in Entity : Has(k, e) => k \in registered

ClientInv == StoreInv /\ SlotInv /\ OwnerInv

(* A created id was not in use, is not 0, and is the only change to Live.  *)
LEMMA CreateSlots ==
  ASSUME IdInv, SlotInv, NEW e \in Entity, create_entity_base(e)
  PROVE  /\ SlotInv'
         /\ e \notin Live /\ e # 0
         /\ Live' = Live \union {e}
  <1>1. CASE ReuseSlot(e)
    <2>1. /\ Len(available_slots) \in Nat
          /\ available_slots[1] = e
          /\ 1 \in 1 .. Len(available_slots)
          /\ Len(available_slots') = Len(available_slots) - 1
          /\ \A i \in 1 .. Len(available_slots') :
               available_slots'[i] = available_slots[i + 1]
          /\ \A i \in 2 .. Len(available_slots) :
               i - 1 \in 1 .. Len(available_slots') /\ available_slots'[i - 1] = available_slots[i]
      BY <1>1 DEF ReuseSlot, IdInv
    <2>2. e \in Issued /\ e \notin Live /\ e # 0 /\ Issued' = Issued
      BY <1>1, <2>1 DEF ReuseSlot, SlotInv, SlotsSound, ENTITY_INVALID, Issued
    <2>3. Live' = Live \union {e} /\ entities'[0] = ENTITY_INVALID
      <3>1. /\ 0 \in Entity /\ Issued \subseteq Entity
            /\ \A x \in Entity : entities'[x] = IF x = e THEN e ELSE entities[x]
        BY <1>1, EntityMaxAssumption DEF ReuseSlot, IdInv, Issued, Entity
      <3>2. entities'[0] = ENTITY_INVALID
        BY <2>2, <3>1 DEF SlotInv
      <3>3. \A x : x \in Live' <=> x \in Live \union {e}
        BY <2>2, <3>1 DEF Live, ENTITY_INVALID
      <3>. QED
        BY <3>2, <3>3
    <2>4. SlotsSound'
      <3>1. \A i, j \in 1 .. Len(available_slots') :
              available_slots'[i] = available_slots'[j] => i = j
        BY <2>1 DEF SlotInv, SlotsSound
      <3>2. \A i \in 1 .. Len(available_slots') :
              available_slots'[i] \in Issued \ (Live \union {ENTITY_INVALID})
        BY <2>1 DEF SlotInv, SlotsSound
      <3>3. \A i \in 1 .. Len(available_slots') : available_slots'[i] # e
        BY <2>1 DEF SlotInv, SlotsSound
      <3>. QED
        BY <2>2, <2>3, <3>1, <3>2, <3>3 DEF SlotsSound, ENTITY_INVALID
    <2>5. NoSlotLeak'
      <3>. SUFFICES ASSUME NEW x \in Issued, x # ENTITY_INVALID, x \notin Live'
                    PROVE  \E i \in 1 .. Len(available_slots') : available_slots'[i] = x
        BY <2>2 DEF NoSlotLeak, ENTITY_INVALID
      <3>1. PICK i \in 1 .. Len(available_slots) : available_slots[i] = x
        BY <2>3 DEF SlotInv, NoSlotLeak
      <3>. QED
        BY <2>1, <2>3, <3>1
    <2>. QED
      BY <2>2, <2>3, <2>4, <2>5 DEF SlotInv
  <1>2. CASE AppendEntity(e)
    <2>1. /\ e = current_entity_id /\ e # 0 /\ e \notin Issued
          /\ Issued' = Issued \union {e}
          /\ available_slots' = <<>> /\ Len(available_slots') = 0
          /\ available_slots = <<>> /\ Len(available_slots) = 0
      BY <1>2 DEF AppendEntity, IdInv, Issued
    <2>2. Live' = Live \union {e} /\ e \notin Live /\ entities'[0] = ENTITY_INVALID
      <3>1. e \in Entity /\ 0 \in Entity /\ Issued \subseteq Entity
        BY <2>1, EntityMaxAssumption DEF IdInv, Issued, Entity
      <3>2. /\ entities'[e] = e
            /\ \A x \in Entity : x # e => entities'[x] = entities[x]
        BY <1>2, <3>1 DEF AppendEntity, IdInv
      <3>3. e # ENTITY_INVALID
        BY <2>1 DEF ENTITY_INVALID
      <3>4. Live' = Live \union {e} /\ e \notin Live
        BY <2>1, <3>1, <3>2, <3>3 DEF Live
      <3>5. entities'[0] = ENTITY_INVALID
        BY <2>1, <3>1, <3>2 DEF SlotInv
      <3>. QED
        BY <3>4, <3>5
    <2>3. NoSlotLeak'
      BY <2>1, <2>2 DEF SlotInv, NoSlotLeak, ENTITY_INVALID
    <2>4. SlotsSound'
      BY <2>1 DEF SlotsSound
    <2>. QED
      BY <2>1, <2>2, <2>3, <2>4 DEF SlotInv
  <1>. QED
    BY <1>1, <1>2 DEF create_entity_base

(* Deleting an id in use takes it out of Live and queues it.               *)
LEMMA DeleteSlots ==
  ASSUME IdInv, SlotInv, NEW e \in Live, entity_delete_entity(e)
  PROVE  SlotInv' /\ Live' = Live \ {e}
  <1>1. /\ e \in Issued /\ e \in Entity /\ e # 0
        /\ Issued' = Issued
    BY EntityMaxAssumption
    DEF Live, Issued, SlotInv, IdInv, Entity, ENTITY_INVALID, entity_delete_entity
  <1>2. Live' = Live \ {e} /\ entities'[0] = ENTITY_INVALID
    <2>1. /\ 0 \in Entity /\ Issued \subseteq Entity
          /\ \A x \in Entity :
               entities'[x] = IF x = e THEN ENTITY_INVALID ELSE entities[x]
      BY <1>1, EntityMaxAssumption DEF entity_delete_entity, IdInv, Issued, Entity
    <2>2. entities'[0] = ENTITY_INVALID
      BY <2>1 DEF SlotInv
    <2>3. \A x : x \in Live' <=> x \in Live \ {e}
      BY <1>1, <2>1 DEF Live
    <2>. QED
      BY <2>2, <2>3
  <1>3. /\ Len(available_slots) \in Nat
        /\ Len(available_slots') = Len(available_slots) + 1
        /\ available_slots'[1] = e
        /\ \A i \in 2 .. Len(available_slots') :
             available_slots'[i] = available_slots[i - 1]
        /\ \A i \in 1 .. Len(available_slots) :
             i + 1 \in 1 .. Len(available_slots') /\ available_slots'[i + 1] = available_slots[i]
    BY <1>1 DEF entity_delete_entity, IdInv
  <1>4. \A i \in 1 .. Len(available_slots) : available_slots[i] # e
    BY DEF SlotInv, SlotsSound
  <1>5. SlotsSound'
    <2>1. \A i, j \in 1 .. Len(available_slots') :
            available_slots'[i] = available_slots'[j] => i = j
      <3>. SUFFICES ASSUME NEW i \in 1 .. Len(available_slots'),
                           NEW j \in 1 .. Len(available_slots'),
                           available_slots'[i] = available_slots'[j], i # j
                    PROVE  FALSE
        OBVIOUS
      <3>1. \A n \in 2 .. Len(available_slots') :
              /\ n - 1 \in 1 .. Len(available_slots)
              /\ available_slots'[n] = available_slots[n - 1]
              /\ available_slots'[n] # e
        BY <1>3, <1>4
      <3>2. i \in 2 .. Len(available_slots') /\ j \in 2 .. Len(available_slots')
        BY <1>3, <3>1
      <3>3. available_slots[i - 1] = available_slots[j - 1] => i - 1 = j - 1
        BY <3>1, <3>2 DEF SlotInv, SlotsSound
      <3>. QED
        BY <3>1, <3>2, <3>3
    <2>2. \A i \in 1 .. Len(available_slots') :
            available_slots'[i] \in Issued \ (Live' \union {ENTITY_INVALID})
      BY <1>1, <1>2, <1>3 DEF SlotInv, SlotsSound, ENTITY_INVALID
    <2>. QED
      BY <1>1, <2>1, <2>2 DEF SlotsSound
  <1>6. NoSlotLeak'
    <2>. SUFFICES ASSUME NEW x \in Issued, x # ENTITY_INVALID, x \notin Live'
                  PROVE  \E i \in 1 .. Len(available_slots') : available_slots'[i] = x
      BY <1>1 DEF NoSlotLeak, ENTITY_INVALID
    <2>1. CASE x = e
      BY <1>3, <2>1
    <2>2. CASE x # e
      <3>1. PICK i \in 1 .. Len(available_slots) : available_slots[i] = x
        BY <1>2, <2>2 DEF SlotInv, NoSlotLeak
      <3>. QED
        BY <1>3, <3>1
    <2>. QED
      BY <2>1, <2>2
  <1>. QED
    BY <1>2, <1>5, <1>6 DEF SlotInv

LEMMA ClientInvInit == Init => ClientInv
  <1>. SUFFICES ASSUME Init PROVE ClientInv
    OBVIOUS
  <1>1. 0 \in Entity /\ Issued = {0} /\ Live = {} /\ Len(available_slots) = 0
    BY EntityMaxAssumption DEF Init, Entity, Issued, Live, NoEntities, ENTITY_INVALID
  <1>2. SlotInv
    BY <1>1 DEF Init, SlotInv, SlotsSound, NoSlotLeak, NoEntities, ENTITY_INVALID
  <1>3. OwnerInv
    BY DEF Init, OwnerInv, FreeIdsAreBare, Has, NoComponents
  <1>. QED
    BY <1>2, <1>3, StoreInvInit DEF ClientInv

(* One step of callers that forget deleted ids preserves the invariant.    *)
LEMMA ClientInvStep == ClientInv /\ [Next]_vars => ClientInv'
  <1>. SUFFICES ASSUME ClientInv, [Next]_vars PROVE ClientInv'
    OBVIOUS
  <1>. USE DEF ClientInv
  <1>0. /\ StoreInv' /\ IdInv /\ ComponentInv
        /\ Live \subseteq Entity
    <2>1. StoreInv'
      BY NextIsStaleNext, StoreInvStep
    <2>2. IdInv /\ ComponentInv
      BY DEF StoreInv
    <2>3. Live \subseteq Entity
      BY <2>2, EntityMaxAssumption DEF IdInv, Live, Issued, Entity
    <2>. QED
      BY <2>1, <2>2, <2>3
  <1>1. ASSUME NEW e \in Entity, create_entity(e)
        PROVE  SlotInv' /\ OwnerInv'
    <2>1. SlotInv' /\ Live' = Live \union {e}
      BY <1>0, <1>1, CreateSlots DEF create_entity
    <2>2. OwnerInv'
      BY <1>1, <2>1 DEF create_entity, componentVars, OwnerInv, FreeIdsAreBare, Has
    <2>. QED
      BY <2>1, <2>2
  <1>2. ASSUME NEW e \in Entity, NEW v \in Values, create_entity_name(e, v)
        PROVE  SlotInv' /\ OwnerInv'
    <2>1. SlotInv' /\ Live' = Live \union {e}
      BY <1>0, <1>2, CreateSlots DEF create_entity_name
    <2>2. /\ \A j \in Keys, x \in Entity : Has(j, x)' => Has(j, x) \/ (x = e /\ j = NameKey)
          /\ registered \subseteq registered'
          /\ Has(NameKey, e) \/ NameKey \in registered'
      BY <1>0, <1>2, KeysAssumption
      DEF create_entity_name, set_component, AddComponent, OverwriteComponent, Has,
          ComponentInv, Indices, NoIndex
    <2>3. OwnerInv'
      BY <2>1, <2>2, KeysAssumption DEF OwnerInv, FreeIdsAreBare
    <2>. QED
      BY <2>1, <2>3
  <1>3. ASSUME NEW k \in Keys, NEW e \in Live, NEW v \in Values,
               entity_set_component(k, e, v)
        PROVE  SlotInv' /\ OwnerInv'
    <2>1. SlotInv' /\ Live' = Live
      BY <1>3 DEF entity_set_component, slotVars, SlotInv, SlotsSound, NoSlotLeak, Live, Issued
    <2>2. /\ \A j \in Keys, x \in Entity : Has(j, x)' => Has(j, x) \/ (x = e /\ j = k)
          /\ registered \subseteq registered'
          /\ Has(k, e) \/ k \in registered'
      BY <1>0, <1>3
      DEF entity_set_component, set_component, AddComponent, OverwriteComponent, Has,
          ComponentInv, Indices, NoIndex
    <2>3. OwnerInv'
      BY <1>0, <2>1, <2>2 DEF OwnerInv, FreeIdsAreBare
    <2>. QED
      BY <2>1, <2>3
  <1>4. ASSUME NEW k \in Keys, NEW e \in Live, entity_delete_component(k, e)
        PROVE  SlotInv' /\ OwnerInv'
    <2>1. SlotInv' /\ Live' = Live
      BY <1>4 DEF entity_delete_component, slotVars, SlotInv, SlotsSound, NoSlotLeak, Live, Issued
    <2>2. /\ \A j \in Keys, x \in Entity : Has(j, x)' => Has(j, x)
          /\ registered' = registered
      BY <1>0, <1>4, {k} \in SUBSET Keys, RemoveComponentsPreserves
      DEF entity_delete_component, RemoveComponents, DropComponents
    <2>3. OwnerInv'
      BY <2>1, <2>2 DEF OwnerInv, FreeIdsAreBare
    <2>. QED
      BY <2>1, <2>3
  <1>5. ASSUME NEW e \in Live, entity_delete_entity(e)
        PROVE  SlotInv' /\ OwnerInv'
    <2>1. SlotInv' /\ Live' = Live \ {e}
      BY <1>0, <1>5, DeleteSlots
    <2>2. /\ \A j \in Keys, x \in Entity :
               Has(j, x)' => Has(j, x) /\ ~(x = e /\ j \in registered)
          /\ registered' = registered
      BY <1>0, <1>5, registered \in SUBSET Keys, RemoveComponentsPreserves
      DEF entity_delete_entity, RemoveComponents, DropComponents, ComponentInv
    <2>3. OwnerInv'
      BY <2>1, <2>2 DEF OwnerInv, FreeIdsAreBare
    <2>. QED
      BY <2>1, <2>3
  <1>6. CASE entity_reset_memory
    <2>1. /\ 0 \in Entity /\ Issued' = {0} /\ Live' = {}
          /\ available_slots' = <<>> /\ Len(available_slots') = 0
          /\ entities'[0] = ENTITY_INVALID
      BY <1>6, EntityMaxAssumption
      DEF entity_reset_memory, Entity, Issued, Live, NoEntities, ENTITY_INVALID
    <2>2. SlotInv'
      BY <2>1 DEF SlotInv, SlotsSound, NoSlotLeak, ENTITY_INVALID
    <2>3. OwnerInv'
      BY <1>6 DEF entity_reset_memory, OwnerInv, FreeIdsAreBare, Has, NoComponents
    <2>. QED
      BY <1>0, <2>2, <2>3
  <1>7. CASE UseFreedSlots
    BY <1>0, <1>7 DEF UseFreedSlots, slotVars, componentVars, SlotInv, SlotsSound, NoSlotLeak,
                OwnerInv, FreeIdsAreBare, Live, Issued, Has
  <1>8. CASE UNCHANGED vars
    BY <1>0, <1>8 DEF vars, SlotInv, SlotsSound, NoSlotLeak, OwnerInv, FreeIdsAreBare,
                Live, Issued, Has
  <1>. QED
    BY <1>0, <1>1, <1>2, <1>3, <1>4, <1>5, <1>6, <1>7, <1>8 DEF Next, Calls

LEMMA ClientInvAlways == Spec => []ClientInv
  BY ClientInvInit, ClientInvStep, PTL DEF Spec

(* The variables keep their types.                                         *)
THEOREM TypeCorrect == Spec => []TypeOK
  <1>1. ClientInv => TypeOK
    BY StoreInvImplies DEF ClientInv
  <1>. QED
    BY <1>1, ClientInvAlways, PTL

(* As long as callers forget the ids they delete, a creation never returns *)
(* an id in use, never 0, and never the same id to two creations.          *)
THEOREM SlotsAreSound == Spec => []SlotsSound
  <1>1. ClientInv => SlotsSound
    BY DEF ClientInv, SlotInv
  <1>. QED
    BY <1>1, ClientInvAlways, PTL

(* Then no id is lost either: "max entities reached" means all are in use. *)
THEOREM SlotsDoNotLeak == Spec => []NoSlotLeak
  <1>1. ClientInv => NoSlotLeak
    BY DEF ClientInv, SlotInv
  <1>. QED
    BY <1>1, ClientInvAlways, PTL

(* And the next user of an id does not inherit components.                 *)
THEOREM ReusedIdsAreBare == Spec => []FreeIdsAreBare
  <1>1. ClientInv => FreeIdsAreBare
    BY DEF ClientInv, OwnerInv
  <1>. QED
    BY <1>1, ClientInvAlways, PTL

-----------------------------------------------------------------------------
(* Refinement: the store implements EntityRegistry.                        *)

(* A component the entity keeps has the same value before and after the    *)
(* swap, wherever the swap put it.                                         *)
LEMMA SwapKeepsOthers ==
  ASSUME NEW s \in Seq(Values), NEW f \in Indices, NEW e \in Entity, NEW x \in Entity,
         Consistent(s, f), f[e] # NoIndex, f[x] # NoIndex, x # e
  PROVE  At(SwapWithLast(s, f[e]), RepointLast(f, e, Len(s) - 1)[x]) = At(s, f[x])
  <1>1. /\ Len(s) \in Nat
        /\ f[e] \in 0 .. Len(s) - 1 /\ f[x] \in 0 .. Len(s) - 1
        /\ f[x] # f[e]
    BY DEF Indices, NoIndex, Consistent
  <1>2. CASE f[x] = Len(s) - 1
    <2>1. RepointLast(f, e, Len(s) - 1)[x] = f[e]
      BY <1>2 DEF RepointLast
    <2>2. SwapWithLast(s, f[e])[f[e] + 1] = s[Len(s)]
      BY <1>1, <1>2, SwapWithLastType
    <2>. QED
      BY <1>1, <1>2, <2>1, <2>2 DEF At
  <1>3. CASE f[x] # Len(s) - 1
    <2>1. RepointLast(f, e, Len(s) - 1)[x] = f[x]
      BY <1>3 DEF RepointLast
    <2>2. SwapWithLast(s, f[e])[f[x] + 1] = s[f[x] + 1]
      <3>1. f[x] + 1 \in 1 .. Len(s) /\ f[x] + 1 # f[e] + 1 /\ f[x] + 1 # Len(s)
        BY <1>1, <1>3
      <3>. QED
        BY <1>1, <3>1, SwapWithLastType
    <2>. QED
      BY <2>1, <2>2 DEF At
  <1>. QED
    BY <1>2, <1>3

(* Setting a component changes that component of that entity alone.        *)
LEMMA SetComponentContents ==
  ASSUME ComponentInv, NEW k \in Keys, NEW e \in Entity, NEW v \in Values,
         set_component(k, e, v)
  PROVE  contents' = [contents EXCEPT ![e][k] = v]
  <1>1. ASSUME NEW x \in Entity, NEW j \in Keys
        PROVE  Content(x, j)' = IF x = e /\ j = k THEN v ELSE Content(x, j)
    <2>1. CASE ~Has(k, e) /\ AddComponent(k, e, v)
      <3>1. /\ data[k] \in Seq(Values) /\ Len(data[k]) \in Nat
            /\ data'[k] = Append(data[k], v)
            /\ data'[k][Len(data[k]) + 1] = v
            /\ \A i \in 1 .. Len(data[k]) : data'[k][i] = data[k][i]
            /\ j # k => data'[j] = data[j] /\ entity_indices'[j] = entity_indices[j]
            /\ entity_indices'[k][e] = Len(data[k])
            /\ x # e => entity_indices'[k][x] = entity_indices[k][x]
        BY <2>1 DEF ComponentInv, AddComponent, Indices
      <3>2. Has(k, x) => entity_indices[k][x] + 1 \in 1 .. Len(data[k])
        BY <3>1 DEF ComponentInv, Consistent, Indices, Has, NoIndex
      <3>3. CASE j # k
        BY <3>1, <3>3 DEF Content, Has, At
      <3>4. CASE j = k /\ x = e
        <4>1. entity_indices'[k][e] # NoIndex
          BY <3>1 DEF NoIndex
        <4>. QED
          BY <3>1, <3>4, <4>1 DEF Content, Has, At
      <3>5. CASE j = k /\ x # e
        <4>1. Has(k, x)' <=> Has(k, x)
          BY <3>1, <3>5 DEF Has
        <4>2. Has(k, x) => At(data[k], entity_indices[k][x])'
                            = At(data[k], entity_indices[k][x])
          BY <3>1, <3>2, <3>5 DEF At
        <4>. QED
          BY <3>5, <4>1, <4>2 DEF Content
      <3>. QED
        BY <3>3, <3>4, <3>5
    <2>2. CASE Has(k, e) /\ OverwriteComponent(k, e, v)
      <3>1. /\ data[k] \in Seq(Values) /\ Len(data[k]) \in Nat
            /\ entity_indices[k][e] + 1 \in 1 .. Len(data[k])
            /\ Has(k, x) => entity_indices[k][x] + 1 \in 1 .. Len(data[k])
            /\ x # e /\ Has(k, x) => entity_indices[k][x] + 1 # entity_indices[k][e] + 1
        BY <2>2 DEF ComponentInv, Consistent, Indices, Has, NoIndex
      <3>2. /\ entity_indices' = entity_indices
            /\ j # k => data'[j] = data[j]
            /\ data'[k] = [data[k] EXCEPT ![entity_indices[k][e] + 1] = v]
        BY <2>2 DEF ComponentInv, OverwriteComponent
      <3>3. /\ data'[k][entity_indices[k][e] + 1] = v
            /\ x # e /\ Has(k, x) =>
                 data'[k][entity_indices[k][x] + 1] = data[k][entity_indices[k][x] + 1]
        BY <3>1, <3>2
      <3>. QED
        BY <2>2, <3>2, <3>3 DEF Content, Has, At
    <2>. QED
      BY <2>1, <2>2 DEF set_component
  <1>. QED
    BY <1>1 DEF contents

(* Removing components from an entity changes no other one's.              *)
LEMMA RemoveComponentsContents ==
  ASSUME ComponentInv, NEW ks \in SUBSET Keys, NEW e \in Entity,
         RemoveComponents(ks, e)
  PROVE  \A x \in Entity, j \in Keys :
           Content(x, j)' = IF x = e /\ j \in ks THEN None ELSE Content(x, j)
  <1>. SUFFICES ASSUME NEW x \in Entity, NEW j \in Keys
                PROVE  Content(x, j)' = IF x = e /\ j \in ks THEN None ELSE Content(x, j)
    OBVIOUS
  <1>1. Has(j, x)' <=> Has(j, x) /\ ~(x = e /\ j \in ks)
    BY RemoveComponentsPreserves
  <1>2. CASE j \in ks /\ Has(j, e)
    <2>1. /\ data'[j] = SwapWithLast(data[j], entity_indices[j][e])
          /\ entity_indices'[j] = RepointLast(entity_indices[j], e, Len(data[j]) - 1)
      BY <1>2 DEF RemoveComponents, DropComponents
    <2>2. CASE Has(j, x) /\ x # e
      BY <1>1, <1>2, <2>1, <2>2, SwapKeepsOthers DEF ComponentInv, Has, Content
    <2>3. CASE ~(Has(j, x) /\ x # e)
      BY <1>1, <1>2, <2>3 DEF Content
    <2>. QED
      BY <2>2, <2>3
  <1>3. CASE ~(j \in ks /\ Has(j, e))
    <2>1. data'[j] = data[j] /\ entity_indices'[j] = entity_indices[j]
      BY <1>3 DEF RemoveComponents, DropComponents
    <2>. QED
      BY <1>1, <1>3, <2>1 DEF Content, Has
  <1>. QED
    BY <1>2, <1>3

(* Each step of the store is a step of the registry, or leaves it alone.   *)
LEMMA RefinementStep ==
  ClientInv /\ [Next]_vars => [Registry!Next]_(Registry!registryVars)
  <1>. SUFFICES ASSUME ClientInv, [Next]_vars
                PROVE  [Registry!Next]_(Registry!registryVars)
    OBVIOUS
  <1>0. /\ IdInv /\ ComponentInv /\ SlotInv /\ OwnerInv
        /\ Live \subseteq Entity /\ Entity = Registry!Ids
    <2>1. IdInv /\ ComponentInv /\ SlotInv /\ OwnerInv
      BY DEF ClientInv, StoreInv
    <2>2. Live \subseteq Entity
      BY <2>1, EntityMaxAssumption DEF IdInv, Live, Issued, Entity
    <2>. QED
      BY <2>1, <2>2 DEF Entity, Registry!Ids
  <1>a. \A e \in Entity : e \notin Live => contents[e] = Registry!Bare
    BY <1>0 DEF OwnerInv, FreeIdsAreBare, contents, Content, Registry!Bare
  <1>1. ASSUME NEW e \in Entity, create_entity(e)
        PROVE  Registry!Create(e)
    <2>1. e \notin Live /\ e # 0 /\ Live' = Live \union {e}
      BY <1>0, <1>1, CreateSlots DEF create_entity
    <2>2. contents' = contents
      BY <1>1 DEF create_entity, componentVars, contents, Content, Has
    <2>. QED
      BY <1>0, <2>1, <2>2 DEF Registry!Create
  <1>2. ASSUME NEW e \in Entity, NEW v \in Values, create_entity_name(e, v)
        PROVE  Registry!CreateNamed(e, v)
    <2>1. e \notin Live /\ e # 0 /\ Live' = Live \union {e}
      BY <1>0, <1>2, CreateSlots DEF create_entity_name
    <2>2. contents' = [contents EXCEPT ![e][NameKey] = v]
      BY <1>0, <1>2, KeysAssumption, SetComponentContents DEF create_entity_name
    <2>3. contents[e] = Registry!Bare
      BY <1>a, <2>1
    <2>4. contents' = [contents EXCEPT ![e] = [Registry!Bare EXCEPT ![NameKey] = v]]
      BY <2>2, <2>3 DEF contents
    <2>. QED
      BY <1>0, <2>1, <2>4 DEF Registry!CreateNamed
  <1>3. ASSUME NEW k \in Keys, NEW e \in Live, NEW v \in Values,
               entity_set_component(k, e, v)
        PROVE  Registry!Store(e, k, v)
    <2>1. Live' = Live
      BY <1>3 DEF entity_set_component, slotVars, Live, Issued
    <2>2. contents' = [contents EXCEPT ![e][k] = v]
      BY <1>0, <1>3, SetComponentContents DEF entity_set_component
    <2>. QED
      BY <2>1, <2>2 DEF Registry!Store
  <1>4. ASSUME NEW k \in Keys, NEW e \in Live, entity_delete_component(k, e)
        PROVE  Registry!Remove(e, k)
    <2>1. Live' = Live
      BY <1>4 DEF entity_delete_component, slotVars, Live, Issued
    <2>2. \A x \in Entity, j \in Keys :
            Content(x, j)' = IF x = e /\ j = k THEN None ELSE Content(x, j)
      BY <1>0, <1>4, {k} \in SUBSET Keys, RemoveComponentsContents DEF entity_delete_component
    <2>3. contents' = [contents EXCEPT ![e][k] = None]
      BY <1>0, <2>2 DEF contents
    <2>. QED
      BY <2>1, <2>3 DEF Registry!Remove
  <1>5. ASSUME NEW e \in Live, entity_delete_entity(e)
        PROVE  Registry!Delete(e)
    <2>1. Live' = Live \ {e}
      BY <1>0, <1>5, DeleteSlots
    <2>2. \A x \in Entity, j \in Keys :
            Content(x, j)' = IF x = e /\ j \in registered THEN None ELSE Content(x, j)
      BY <1>0, <1>5, registered \in SUBSET Keys, RemoveComponentsContents
      DEF entity_delete_entity, ComponentInv
    <2>3. \A j \in Keys : j \notin registered => Content(e, j) = None
      BY <1>0 DEF OwnerInv, Content
    <2>4. contents' = [contents EXCEPT ![e] = Registry!Bare]
      BY <1>0, <2>2, <2>3 DEF contents, Registry!Bare
    <2>. QED
      BY <2>1, <2>4 DEF Registry!Delete
  <1>6. CASE entity_reset_memory
    <2>1. Live' = {}
      BY <1>6, EntityMaxAssumption
      DEF entity_reset_memory, Entity, Issued, Live, NoEntities, ENTITY_INVALID
    <2>2. contents' = [e \in Registry!Ids |-> Registry!Bare]
      BY <1>0, <1>6
      DEF entity_reset_memory, contents, Content, Has, NoComponents, Registry!Bare
    <2>. QED
      BY <2>1, <2>2 DEF Registry!Reset, Registry!Next
  <1>7. CASE UseFreedSlots
    BY <1>7 DEF UseFreedSlots, slotVars, componentVars, contents, Content, Has, Live,
                Issued, Registry!registryVars
  <1>8. CASE UNCHANGED vars
    BY <1>8 DEF vars, contents, Content, Has, Live, Issued, Registry!registryVars
  <1>9. Live \subseteq Registry!Ids
    BY <1>0
  <1>. QED
    BY <1>0, <1>1, <1>2, <1>3, <1>4, <1>5, <1>6, <1>7, <1>8, <1>9
    DEF Next, Calls, Registry!Next

LEMMA RefinementInit == Init => Registry!Init
  BY EntityMaxAssumption
  DEF Init, Registry!Init, Registry!Ids, Registry!Bare, contents, Content, Has, Live,
      Issued, Entity, NoEntities, NoComponents, ENTITY_INVALID

(* The arrays, maps, swaps and queue of the store implement the registry:  *)
(* an operation changes its own entity's components and no other's, and a  *)
(* creation returns a fresh, bare entity.                                  *)
THEOREM StoreImplementsRegistry == Spec => ImplementsRegistry
  BY ClientInvAlways, RefinementInit, RefinementStep, PTL
  DEF Spec, ImplementsRegistry, Registry!Spec
=============================================================================
