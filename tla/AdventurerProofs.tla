-------------------------- MODULE AdventurerProofs --------------------------
(* What the adventurer makes and unmakes, for any targets and rooms, and   *)
(* any number of hearts and messes; and the paths it walks, for any grid.  *)
EXTENDS Adventurer, FindPath, SequenceTheorems, FiniteSetTheorems, WellFoundedInduction, TLAPS


(* The ids of the store: one that waits is not in use, and waits once.     *)
Ids ==
  /\ current_entity_id \in Nat \ {0} /\ current_entity_id <= EntityMax
  /\ entities \in [Store!Entity -> Store!Entity] /\ entities[0] = 0
  /\ available_slots \in Seq(Store!Entity)
  /\ \A n \in 1 .. Len(available_slots) :
       /\ available_slots[n] < current_entity_id /\ available_slots[n] # 0
       /\ entities[available_slots[n]] = 0
  /\ \A m, n \in 1 .. Len(available_slots) : available_slots[m] = available_slots[n] => m = n

KindsOfLive ==
  /\ kind \in [Store!Entity -> {"none", "Cloud", "Mess", "Hearts"}]
  /\ \A e \in Store!Entity : kind[e] # "none" => e \in Store!Live

(* One target at a time is being attacked or looted, and has the cloud.    *)
OneFight ==
  /\ progress \in [Targets -> Nat]
  /\ \A t, u \in Targets : progress[t] > 0 /\ progress[u] > 0 => t = u
  /\ mode = "Combat" => target \in Targets

Clouds == {e \in Store!Entity : kind[e] = "Cloud"}

OneCloud == Clouds = IF \E t \in Targets : progress[t] > 0 THEN {cloud} ELSE {}

HeartsOnce ==
  /\ hearts \in Seq(Store!Entity)
  /\ \A n \in 1 .. Len(hearts) : kind[hearts[n]] = "Hearts"
  /\ \A m, n \in 1 .. Len(hearts) : hearts[m] = hearts[n] => m = n

EntitiesInv == Ids /\ KindsOfLive /\ OneFight /\ OneCloud /\ HeartsOnce

IInv == history # "cloud lost" => EntitiesInv

-----------------------------------------------------------------------------
LEMMA ZeroIsEntity == 0 \in Store!Entity
  BY TargetAssumption DEF Store!Entity

(* A creation returns an id that nobody has.                               *)
LEMMA Created ==
  ASSUME Ids, KindsOfLive, NEW k \in {"Cloud", "Mess", "Hearts"},
         NEW e \in Store!Entity, Create(e, k)
  PROVE  /\ Ids' /\ KindsOfLive'
         /\ kind[e] = "none" /\ kind' = [kind EXCEPT ![e] = k]
  <1>1. kind' = [kind EXCEPT ![e] = k] /\ (Store!ReuseSlot(e) \/ Store!AppendEntity(e))
    BY DEF Create, Store!create_entity, Store!create_entity_base
  <1>2. CASE Store!ReuseSlot(e)
    <2>1. /\ available_slots # <<>> /\ e = Head(available_slots)
          /\ available_slots' = Tail(available_slots)
          /\ entities' = [entities EXCEPT ![e] = e] /\ current_entity_id' = current_entity_id
      BY <1>2 DEF Store!ReuseSlot
    <2>2. available_slots \in Seq(Store!Entity) /\ Len(available_slots) \in Nat \ {0}
      BY <2>1, EmptySeq DEF Ids
    <2>3. /\ e = available_slots[1]
          /\ available_slots' \in Seq(Store!Entity) /\ Len(available_slots') = Len(available_slots) - 1
          /\ \A n \in 1 .. Len(available_slots') : available_slots'[n] = available_slots[n + 1]
      BY <2>1, <2>2
    <2>4. e < current_entity_id /\ e # 0 /\ entities[e] = 0
      BY <2>2, <2>3 DEF Ids
    <2>5. \A n \in 1 .. Len(available_slots') : n + 1 \in 1 .. Len(available_slots) /\ n + 1 # 1
      BY <2>2, <2>3
    <2>6. \A n \in 1 .. Len(available_slots') : available_slots'[n] # e
      BY <2>2, <2>3, <2>5 DEF Ids
    <2>7. Ids'
      BY <2>1, <2>2, <2>3, <2>4, <2>5, <2>6, ZeroIsEntity DEF Ids
    <2>8. kind[e] = "none"
      BY <2>4 DEF KindsOfLive, Store!Live, Store!ENTITY_INVALID
    <2>9. KindsOfLive'
      BY <1>1, <2>1, <2>4 DEF KindsOfLive, Ids, Store!Live, Store!Issued, Store!ENTITY_INVALID, Store!Entity
    <2> QED
      BY <1>1, <2>7, <2>8, <2>9
  <1>3. CASE Store!AppendEntity(e)
    <2>1. /\ e = current_entity_id /\ current_entity_id' = current_entity_id + 1
          /\ available_slots' = available_slots /\ available_slots = <<>>
          /\ entities' = [entities EXCEPT ![e] = e] /\ current_entity_id < EntityMax
      BY <1>3 DEF Store!AppendEntity
    <2>2. Len(available_slots) = 0
      BY <2>1
    <2>3. Ids'
      BY <2>1, <2>2, TargetAssumption, ZeroIsEntity DEF Ids, Store!Entity
    <2>4. kind[e] = "none"
      BY <2>1 DEF KindsOfLive, Ids, Store!Live, Store!Issued
    <2>5. KindsOfLive'
      BY <1>1, <2>1 DEF KindsOfLive, Ids, Store!Live, Store!Issued, Store!ENTITY_INVALID, Store!Entity
    <2> QED
      BY <1>1, <2>3, <2>4, <2>5
  <1> QED
    BY <1>1, <1>2, <1>3

(* The deletion of an entity that is in use.                               *)
LEMMA Deleted ==
  ASSUME Ids, KindsOfLive, NEW e \in Store!Entity, kind[e] # "none", Delete(e)
  PROVE  Ids' /\ KindsOfLive' /\ kind' = [kind EXCEPT ![e] = "none"]
  <1>1. /\ kind' = [kind EXCEPT ![e] = "none"]
        /\ entities' = [entities EXCEPT ![e] = 0]
        /\ available_slots' = <<e>> \o available_slots
        /\ current_entity_id' = current_entity_id
    BY DEF Delete, Store!entity_delete_entity, Store!ENTITY_INVALID
  <1>2. e \in Nat /\ e < current_entity_id /\ entities[e] # 0
    BY DEF KindsOfLive, Store!Live, Store!Issued, Store!Entity, Store!ENTITY_INVALID, Ids
  <1>3. e # 0
    BY <1>2 DEF Ids
  <1>4. <<e>> \in Seq(Store!Entity) /\ Len(<<e>>) = 1 /\ <<e>>[1] = e
    OBVIOUS
  <1>5. /\ available_slots' \in Seq(Store!Entity) /\ Len(available_slots') = Len(available_slots) + 1
        /\ available_slots'[1] = e
        /\ \A n \in 2 .. Len(available_slots') : available_slots'[n] = available_slots[n - 1]
    <2>1. available_slots \in Seq(Store!Entity) /\ Len(available_slots) \in Nat
      BY LenProperties DEF Ids
    <2> QED
      BY <1>1, <1>4, <2>1, ConcatProperties
  <1>6. \A n \in 2 .. Len(available_slots') : available_slots'[n] # e /\ n - 1 \in 1 .. Len(available_slots)
    <2>1. Len(available_slots) \in Nat
      BY LenProperties DEF Ids
    <2>2. \A n \in 2 .. Len(available_slots') : n - 1 \in 1 .. Len(available_slots)
      BY <1>5, <2>1
    <2> QED
      BY <1>2, <1>5, <2>2 DEF Ids
  <1>7. \A n \in 1 .. Len(available_slots') : n = 1 \/ n \in 2 .. Len(available_slots')
    BY <1>5, LenProperties DEF Ids
  <1>8. \A n \in 1 .. Len(available_slots') :
          /\ available_slots'[n] < current_entity_id /\ available_slots'[n] # 0
          /\ entities'[available_slots'[n]] = 0
    <2> TAKE n \in 1 .. Len(available_slots')
    <2>1. CASE n = 1
      BY <1>1, <1>2, <1>3, <1>5, <2>1 DEF Ids
    <2>2. CASE n \in 2 .. Len(available_slots')
      <3>1. n - 1 \in 1 .. Len(available_slots) /\ available_slots'[n] = available_slots[n - 1]
        BY <1>5, <1>6, <2>2
      <3>2. available_slots[n - 1] \in Store!Entity
        BY <3>1, ElementOfSeq DEF Ids
      <3> QED
        BY <1>1, <3>1, <3>2 DEF Ids
    <2> QED
      BY <1>7, <2>1, <2>2
  <1>9. \A m, n \in 1 .. Len(available_slots') : available_slots'[m] = available_slots'[n] => m = n
    <2> SUFFICES ASSUME NEW m \in 1 .. Len(available_slots'), NEW n \in 1 .. Len(available_slots'),
                        available_slots'[m] = available_slots'[n]
                 PROVE  m = n
      OBVIOUS
    <2>1. CASE m = 1 \/ n = 1
      BY <1>5, <1>6, <1>7, <2>1
    <2>2. CASE m \in 2 .. Len(available_slots') /\ n \in 2 .. Len(available_slots')
      BY <1>5, <1>6, <2>2 DEF Ids
    <2> QED
      BY <1>7, <2>1, <2>2
  <1>10. entities' \in [Store!Entity -> Store!Entity] /\ entities'[0] = 0
    BY <1>1, <1>3, ZeroIsEntity DEF Ids
  <1>11. KindsOfLive'
    BY <1>1 DEF KindsOfLive, Ids, Store!Live, Store!Issued, Store!ENTITY_INVALID, Store!Entity
  <1> QED
    BY <1>1, <1>5, <1>8, <1>9, <1>10, <1>11 DEF Ids

-----------------------------------------------------------------------------
LEMMA InitIsSound == Init => EntitiesInv
  <1> SUFFICES ASSUME Init PROVE EntitiesInv
    OBVIOUS
  <1>1. /\ current_entity_id = 1 /\ entities = [e \in Store!Entity |-> 0] /\ available_slots = <<>>
        /\ kind = [e \in Store!Entity |-> "none"] /\ mode = "Idle" /\ hearts = <<>>
        /\ progress = [t \in Targets |-> 0]
    BY DEF Init, Store!Init, Store!NoEntities, Store!ENTITY_INVALID
  <1>2. Ids
    BY <1>1, TargetAssumption, ZeroIsEntity DEF Ids
  <1>3. KindsOfLive /\ OneFight /\ HeartsOnce
    BY <1>1 DEF KindsOfLive, OneFight, HeartsOnce
  <1>4. OneCloud
    BY <1>1 DEF OneCloud, Clouds
  <1> QED
    BY <1>2, <1>3, <1>4 DEF EntitiesInv

(* What leaves the entities, the progress and the hearts alone.            *)
LEMMA Quiet ==
  ASSUME EntitiesInv,
         UNCHANGED <<current_entity_id, entities, available_slots, kind, progress, cloud, hearts>>,
         mode' = "Combat" => target' \in Targets
  PROVE  EntitiesInv'
  BY DEF EntitiesInv, Ids, KindsOfLive, OneFight, OneCloud, Clouds, HeartsOnce, Store!Live, Store!Issued

(* The hearts that are shown keep their entities as long as the change of  *)
(* an entity's kind is not at theirs.                                      *)
LEMMA HeartsKept ==
  ASSUME HeartsOnce, NEW e \in Store!Entity, NEW k \in {"none", "Cloud", "Mess"},
         kind \in [Store!Entity -> {"none", "Cloud", "Mess", "Hearts"}],
         kind[e] # "Hearts", kind' = [kind EXCEPT ![e] = k], UNCHANGED hearts
  PROVE  HeartsOnce'
  <1>1. \A n \in 1 .. Len(hearts) : hearts[n] \in Store!Entity /\ hearts[n] # e
    BY ElementOfSeq DEF HeartsOnce
  <1> QED
    BY <1>1 DEF HeartsOnce

(* A fight that begins is the only one, unless two have overlapped.        *)
LEMMA NoFightBefore ==
  ASSUME EntitiesInv, BeginInteract
  PROVE  history' = "cloud lost" \/ \A t \in Targets : progress[t] = 0
  <1>1. progress \in [Targets -> Nat]
    BY DEF EntitiesInv, OneFight
  <1> DEFINE fights == \E t \in Targets : progress[t] > 0
  <1>2. history' = IF fights THEN "cloud lost" ELSE history
    BY DEF BeginInteract
  <1>3. fights \/ \A t \in Targets : progress[t] = 0
    BY <1>1
  <1> HIDE DEF fights
  <1>4. CASE fights
    BY <1>2, <1>4
  <1>5. CASE ~fights
    BY <1>3, <1>5
  <1> QED
    BY <1>4, <1>5

LEMMA BeginInteractIsSound ==
  ASSUME EntitiesInv, BeginInteract, \A t \in Targets : progress[t] = 0
  PROVE  EntitiesInv'
  <1>1. PICK e \in Store!Entity : Create(e, "Cloud") /\ cloud' = e
    BY DEF BeginInteract
  <1>2. /\ mode = "Combat" /\ progress' = [progress EXCEPT ![target] = 1]
        /\ mode' = mode /\ target' = target /\ hearts' = hearts
    BY DEF BeginInteract, Interacting, walkVars
  <1>3. Ids' /\ KindsOfLive' /\ kind[e] = "none" /\ kind' = [kind EXCEPT ![e] = "Cloud"]
    BY <1>1, Created DEF EntitiesInv
  <1>4. target \in Targets
    BY <1>2 DEF EntitiesInv, OneFight
  <1>5. OneFight' /\ \E t \in Targets : progress'[t] > 0
    <2>1. progress \in [Targets -> Nat]
      BY DEF EntitiesInv, OneFight
    <2>2. progress' = [progress EXCEPT ![target] = 1]
      BY <1>2
    <2>3. progress' \in [Targets -> Nat] /\ progress'[target] > 0
      BY <1>4, <2>1, <2>2
    <2>4. \A t \in Targets : progress'[t] > 0 => t = target
      <3> TAKE t \in Targets
      <3>1. CASE t # target
        <4>1. progress'[t] = progress[t]
          BY <2>1, <2>2, <3>1
        <4> QED
          BY <4>1
      <3> QED
        BY <3>1
    <2> QED
      BY <1>2, <1>4, <2>3, <2>4 DEF OneFight
  <1>6. OneCloud'
    <2>1. \A x \in Store!Entity : kind[x] # "Cloud"
      BY DEF EntitiesInv, OneCloud, Clouds
    <2>2. \A x \in Store!Entity : kind'[x] = "Cloud" <=> x = e
      BY <1>3, <2>1 DEF EntitiesInv, KindsOfLive
    <2> QED
      BY <1>1, <1>5, <2>2 DEF OneCloud, Clouds
  <1>7. HeartsOnce'
    BY <1>2, <1>3, HeartsKept DEF EntitiesInv, KindsOfLive
  <1> QED
    BY <1>3, <1>5, <1>6, <1>7 DEF EntitiesInv

(* The entity that is deleted at the end of a fight is the cloud.          *)
LEMMA FightHasCloud ==
  ASSUME EntitiesInv, FinishInteract
  PROVE  /\ target \in Targets /\ progress[target] > 0
         /\ cloud \in Store!Entity /\ kind[cloud] = "Cloud" /\ Clouds = {cloud}
  <1>1. target \in Targets
    BY DEF FinishInteract, Interacting, EntitiesInv, OneFight
  <1>2. progress[target] = Full - 1 /\ Full - 1 > 0
    BY TargetAssumption DEF FinishInteract
  <1>3. Clouds = {cloud}
    BY <1>1, <1>2 DEF EntitiesInv, OneCloud
  <1> QED
    BY <1>1, <1>2, <1>3 DEF Clouds

LEMMA FinishInteractIsSound ==
  ASSUME EntitiesInv, FinishInteract
  PROVE  EntitiesInv'
  <1>1. /\ Delete(cloud) /\ progress' = [progress EXCEPT ![target] = 0]
        /\ mode' = "Thinking" /\ hearts' = hearts /\ cloud' = cloud
    BY DEF FinishInteract, Finished
  <1>2. /\ target \in Targets /\ progress[target] > 0
        /\ cloud \in Store!Entity /\ kind[cloud] = "Cloud" /\ Clouds = {cloud}
    BY FightHasCloud
  <1>3. Ids' /\ KindsOfLive' /\ kind' = [kind EXCEPT ![cloud] = "none"]
    BY <1>1, <1>2, Deleted DEF EntitiesInv
  <1>4. OneFight' /\ ~ \E t \in Targets : progress'[t] > 0
    BY <1>1, <1>2 DEF EntitiesInv, OneFight
  <1>5. OneCloud'
    <2>1. \A x \in Store!Entity : kind'[x] # "Cloud"
      BY <1>2, <1>3 DEF EntitiesInv, KindsOfLive, Clouds
    <2> QED
      BY <1>4, <2>1 DEF OneCloud, Clouds
  <1>6. HeartsOnce'
    BY <1>1, <1>2, <1>3, HeartsKept DEF EntitiesInv, KindsOfLive
  <1> QED
    BY <1>3, <1>4, <1>5, <1>6 DEF EntitiesInv

LEMMA ContinueInteractIsSound ==
  ASSUME EntitiesInv, ContinueInteract
  PROVE  EntitiesInv'
  <1>1. /\ UNCHANGED <<current_entity_id, entities, available_slots, kind, cloud, hearts, mode, target>>
        /\ mode = "Combat" /\ progress[target] > 0
        /\ progress' = [progress EXCEPT ![target] = @ + 1]
    BY TargetAssumption DEF ContinueInteract, Interacting, storeVars, walkVars
  <1>2. target \in Targets
    BY <1>1 DEF EntitiesInv, OneFight
  <1>3. OneFight' /\ progress'[target] > 0
    BY <1>1, <1>2 DEF EntitiesInv, OneFight
  <1>4. OneCloud'
    BY <1>1, <1>2, <1>3 DEF EntitiesInv, OneCloud, Clouds
  <1>5. Ids' /\ KindsOfLive' /\ HeartsOnce'
    BY <1>1 DEF EntitiesInv, Ids, KindsOfLive, HeartsOnce, Store!Live, Store!Issued
  <1> QED
    BY <1>3, <1>4, <1>5 DEF EntitiesInv

(* A change of an entity that is no cloud, and becomes none.               *)
LEMMA CloudsKept ==
  ASSUME EntitiesInv, NEW e \in Store!Entity, NEW k \in {"none", "Mess", "Hearts"},
         kind[e] # "Cloud", kind' = [kind EXCEPT ![e] = k],
         UNCHANGED <<progress, cloud, mode, target>>
  PROVE  OneFight' /\ OneCloud'
  <1>1. Clouds' = Clouds
    BY DEF EntitiesInv, KindsOfLive, Clouds
  <1> QED
    BY <1>1 DEF EntitiesInv, OneFight, OneCloud

LEMMA CreateMessIsSound ==
  ASSUME EntitiesInv, CreateMess
  PROVE  EntitiesInv'
  <1>1. PICK e \in Store!Entity : Create(e, "Mess")
    BY DEF CreateMess
  <1>2. UNCHANGED <<progress, cloud, mode, target, hearts>>
    BY DEF CreateMess, walkVars
  <1>3. Ids' /\ KindsOfLive' /\ kind[e] = "none" /\ kind' = [kind EXCEPT ![e] = "Mess"]
    BY <1>1, Created DEF EntitiesInv
  <1>4. OneFight' /\ OneCloud'
    BY <1>2, <1>3, CloudsKept
  <1>5. HeartsOnce'
    BY <1>2, <1>3, HeartsKept DEF EntitiesInv, KindsOfLive
  <1> QED
    BY <1>3, <1>4, <1>5 DEF EntitiesInv

LEMMA PetIsSound ==
  ASSUME EntitiesInv, Pet
  PROVE  EntitiesInv'
  <1>1. PICK e \in Store!Entity : Create(e, "Hearts") /\ hearts' = Append(hearts, e)
    BY DEF Pet
  <1>2. UNCHANGED <<progress, cloud, mode, target>>
    BY DEF Pet, walkVars
  <1>3. Ids' /\ KindsOfLive' /\ kind[e] = "none" /\ kind' = [kind EXCEPT ![e] = "Hearts"]
    BY <1>1, Created DEF EntitiesInv
  <1>4. OneFight' /\ OneCloud'
    BY <1>2, <1>3, CloudsKept
  <1>5. HeartsOnce'
    <2>1. hearts \in Seq(Store!Entity) /\ Len(hearts) \in Nat
      BY LenProperties DEF EntitiesInv, HeartsOnce
    <2>2. /\ hearts' \in Seq(Store!Entity) /\ Len(hearts') = Len(hearts) + 1
          /\ hearts'[Len(hearts) + 1] = e
          /\ \A n \in 1 .. Len(hearts) : hearts'[n] = hearts[n]
      BY <1>1, <2>1
    <2>3. \A n \in 1 .. Len(hearts) : hearts[n] # e /\ hearts[n] \in Store!Entity
      BY <1>3, <2>1, ElementOfSeq DEF EntitiesInv, HeartsOnce
    <2>4. \A n \in 1 .. Len(hearts') : n = Len(hearts) + 1 \/ n \in 1 .. Len(hearts)
      BY <2>1, <2>2
    <2>5. \A n \in 1 .. Len(hearts') : kind'[hearts'[n]] = "Hearts"
      BY <1>3, <2>2, <2>3, <2>4 DEF EntitiesInv, HeartsOnce, KindsOfLive
    <2>6. \A m, n \in 1 .. Len(hearts') : hearts'[m] = hearts'[n] => m = n
      BY <2>2, <2>3, <2>4 DEF EntitiesInv, HeartsOnce
    <2> QED
      BY <2>2, <2>5, <2>6 DEF HeartsOnce
  <1> QED
    BY <1>3, <1>4, <1>5 DEF EntitiesInv

LEMMA HeartEndsIsSound ==
  ASSUME EntitiesInv, HeartEnds
  PROVE  EntitiesInv'
  <1> DEFINE e == Head(hearts)
  <1>1. /\ hearts # <<>> /\ Delete(e) /\ hearts' = Tail(hearts)
        /\ UNCHANGED <<progress, cloud, mode, target>>
    BY DEF HeartEnds, walkVars
  <1>2. hearts \in Seq(Store!Entity) /\ Len(hearts) \in Nat \ {0}
    BY <1>1, EmptySeq DEF EntitiesInv, HeartsOnce
  <1>3. e \in Store!Entity /\ e = hearts[1] /\ kind[e] = "Hearts"
    BY <1>1, <1>2 DEF EntitiesInv, HeartsOnce
  <1>4. Ids' /\ KindsOfLive' /\ kind' = [kind EXCEPT ![e] = "none"]
    BY <1>1, <1>3, Deleted DEF EntitiesInv
  <1>5. OneFight' /\ OneCloud'
    BY <1>1, <1>3, <1>4, CloudsKept
  <1>6. HeartsOnce'
    <2>1. /\ hearts' \in Seq(Store!Entity) /\ Len(hearts') = Len(hearts) - 1
          /\ \A n \in 1 .. Len(hearts') : hearts'[n] = hearts[n + 1]
      BY <1>1, <1>2
    <2>2. \A n \in 1 .. Len(hearts') : n + 1 \in 1 .. Len(hearts) /\ n + 1 # 1
      BY <1>2, <2>1
    <2>3. \A n \in 1 .. Len(hearts') : hearts'[n] \in Store!Entity /\ hearts'[n] # e
      BY <1>2, <1>3, <2>1, <2>2, ElementOfSeq DEF EntitiesInv, HeartsOnce
    <2>4. \A n \in 1 .. Len(hearts') : kind'[hearts'[n]] = "Hearts"
      BY <1>4, <2>1, <2>2, <2>3 DEF EntitiesInv, HeartsOnce, KindsOfLive
    <2>5. \A m, n \in 1 .. Len(hearts') : hearts'[m] = hearts'[n] => m = n
      <3> SUFFICES ASSUME NEW m \in 1 .. Len(hearts'), NEW n \in 1 .. Len(hearts'),
                          hearts'[m] = hearts'[n]
                   PROVE  m = n
        OBVIOUS
      <3>1. m + 1 = n + 1
        BY <2>1, <2>2 DEF EntitiesInv, HeartsOnce
      <3> QED
        BY <3>1
    <2> QED
      BY <2>1, <2>4, <2>5 DEF HeartsOnce
  <1> QED
    BY <1>4, <1>5, <1>6 DEF EntitiesInv

LEMMA ReloadIsSound ==
  ASSUME EntitiesInv, Reload
  PROVE  history' = "cloud lost" \/ EntitiesInv'
  <1>1. UNCHANGED <<current_entity_id, entities, available_slots, kind, progress, hearts, mode, target>>
    BY DEF Reload, storeVars, walkVars
  <1> DEFINE fights == \E t \in Targets : progress[t] > 0
  <1>2. history' = IF fights THEN "cloud lost" ELSE history
    BY DEF Reload
  <1>3. Clouds' = Clouds /\ (~fights => Clouds = {} /\ OneCloud')
    BY <1>1 DEF EntitiesInv, OneCloud, Clouds
  <1>4. Ids' /\ KindsOfLive' /\ OneFight' /\ HeartsOnce'
    BY <1>1 DEF EntitiesInv, Ids, KindsOfLive, OneFight, HeartsOnce, Store!Live, Store!Issued
  <1> HIDE DEF fights
  <1> QED
    BY <1>2, <1>3, <1>4 DEF EntitiesInv

LEMMA StepIsSound ==
  ASSUME EntitiesInv, [Next]_vars, history' # "cloud lost"
  PROVE  EntitiesInv'
  <1>1. CASE LeaveIdle \/ Arrive \/ OpenLastDoor \/ MovePlayer \/ Carry \/ entity_throw \/ UNCHANGED vars
    BY <1>1, Quiet DEF LeaveIdle, Arrive, OpenLastDoor, MovePlayer, Carry, entity_throw, vars,
                       storeVars, walkVars, otherVars, EntitiesInv, OneFight
  <1>2. CASE ThinkOfTarget \/ ThinkOfExit \/ ThinkOfNothing
    BY <1>2, Quiet DEF ThinkOfTarget, ThinkOfExit, ThinkOfNothing, Think, storeVars
  <1>3. CASE Meet
    BY <1>3, Quiet DEF Meet, Wanted, storeVars
  <1>4. CASE Approach
    BY <1>4, Quiet DEF Approach, Wanted, storeVars, EntitiesInv, OneFight
  <1>5. CASE BeginInteract
    BY <1>5, NoFightBefore, BeginInteractIsSound
  <1>6. CASE ContinueInteract
    BY <1>6, ContinueInteractIsSound
  <1>7. CASE FinishInteract
    BY <1>7, FinishInteractIsSound
  <1>8. CASE CreateMess
    BY <1>8, CreateMessIsSound
  <1>9. CASE Pet
    BY <1>9, PetIsSound
  <1>10. CASE HeartEnds
    BY <1>10, HeartEndsIsSound
  <1>11. CASE Reload
    BY <1>11, ReloadIsSound
  <1> QED
    BY <1>1, <1>2, <1>3, <1>4, <1>5, <1>6, <1>7, <1>8, <1>9, <1>10, <1>11 DEF Next, AdventurerUpdate

(* That the cloud of a fight was lost is not forgotten.                    *)
LEMMA HistoryIsKept == [Next]_vars /\ history = "cloud lost" => history' = "cloud lost"
  BY DEF Next, AdventurerUpdate, LeaveIdle, Arrive, OpenLastDoor, MovePlayer, Carry, entity_throw, vars,
         ThinkOfTarget, ThinkOfExit, ThinkOfNothing, Think, Meet, Approach, BeginInteract,
         ContinueInteract, FinishInteract, CreateMess, Pet, HeartEnds, Reload

-----------------------------------------------------------------------------
(* Until the cloud of a fight is lost the entities of the level are as     *)
(* EntitiesInv says, whatever the player carries, throws and pets.         *)
THEOREM InductiveInvariant == Spec => []IInv
  <1>1. Init => IInv
    BY InitIsSound DEF IInv
  <1>2. IInv /\ [Next]_vars => IInv'
    BY StepIsSound, HistoryIsKept DEF IInv
  <1> QED
    BY <1>1, <1>2, PTL DEF Spec

(* The static variable of entity_interact names the one cloud that is      *)
(* shown while a target is attacked or looted, and no cloud outlives it.   *)
THEOREM FightsHaveTheirCloud == Spec => []CloudOfFight
  <1>1. IInv => CloudOfFight
    BY DEF IInv, EntitiesInv, OneCloud, Clouds, CloudOfFight
  <1> QED
    BY <1>1, InductiveInvariant, PTL

(* The event of a heart finds the heart it was made for                    *)
(* (entity_create_heart), however many are shown.                          *)
THEOREM HeartsAreAlive == Spec => []HeartsAlive
  <1>1. IInv => HeartsAlive
    BY DEF IInv, EntitiesInv, HeartsOnce, HeartsAlive
  <1> QED
    BY <1>1, InductiveInvariant, PTL

(* Neither the end of a fight nor the event of a heart deletes a mess, and *)
(* no creation takes the id of one (entity_kill, entity_create_mess).      *)
THEOREM MessesAreKept == Spec => MessesStay
  <1>1. ASSUME IInv, [Next]_vars, history # "cloud lost",
               NEW e \in Store!Entity, kind[e] = "Mess"
        PROVE  kind'[e] = "Mess"
    <2>1. EntitiesInv
      BY <1>1 DEF IInv
    <2>2. CASE BeginInteract \/ CreateMess \/ Pet
      <3>1. PICK x \in Store!Entity, k \in {"Cloud", "Mess", "Hearts"} : Create(x, k)
        BY <2>2 DEF BeginInteract, CreateMess, Pet
      <3>2. kind[x] = "none" /\ kind' = [kind EXCEPT ![x] = k]
        BY <2>1, <3>1, Created DEF EntitiesInv
      <3> QED
        BY <1>1, <2>1, <3>2 DEF EntitiesInv, KindsOfLive
    <2>3. CASE FinishInteract
      <3>1. kind[cloud] = "Cloud" /\ kind' = [kind EXCEPT ![cloud] = "none"]
        BY <2>1, <2>3, FightHasCloud DEF FinishInteract, Delete
      <3> QED
        BY <1>1, <2>1, <3>1 DEF EntitiesInv, KindsOfLive
    <2>4. CASE HeartEnds
      <3>1. hearts # <<>> /\ kind' = [kind EXCEPT ![Head(hearts)] = "none"]
        BY <2>4 DEF HeartEnds, Delete
      <3>2. hearts \in Seq(Store!Entity) /\ Len(hearts) \in Nat \ {0}
        BY <2>1, <3>1, EmptySeq DEF EntitiesInv, HeartsOnce
      <3>3. kind[Head(hearts)] = "Hearts"
        BY <2>1, <3>1, <3>2 DEF EntitiesInv, HeartsOnce
      <3> QED
        BY <1>1, <2>1, <3>1, <3>3 DEF EntitiesInv, KindsOfLive
    <2>5. CASE kind' = kind
      BY <1>1, <2>5
    <2>6. BeginInteract \/ CreateMess \/ Pet \/ FinishInteract \/ HeartEnds \/ kind' = kind
      BY <1>1 DEF Next, AdventurerUpdate, LeaveIdle, Arrive, OpenLastDoor, MovePlayer, Carry,
                  entity_throw, ContinueInteract, Reload, vars, ThinkOfTarget, ThinkOfExit, ThinkOfNothing,
                  Think, Meet, Approach
    <2> QED
      BY <2>2, <2>3, <2>4, <2>5, <2>6
  <1>2. IInv /\ [Next]_vars =>
          [history # "cloud lost" =>
             \A e \in Store!Entity : kind[e] = "Mess" => kind'[e] = "Mess"]_vars
    BY <1>1
  <1> QED
    BY <1>2, InductiveInvariant, PTL DEF Spec, MessesStay

-----------------------------------------------------------------------------
(* FindPath.  A square that was seen is open or closed.                    *)
Visited == open_set \union closed_set

(* The cost of the best way over p, were the estimate true.                *)
Estimate(p) == g_cost[p] + calculate_distance(p, end)

SearchTypes ==
  /\ walk \subseteq Position
  /\ g_cost \in [Position -> Nat] /\ h_cost \in [Position -> Nat]
  /\ parent \in [Position -> Position \union {NoParent}]
  /\ start \in Position /\ end \in Position
  /\ open_set \subseteq Position /\ closed_set \subseteq Position
  /\ open_set \intersect closed_set = {}
  /\ iterations \in Nat
  /\ result \in {"none", "searching", "found", "failed"}

(* How the search came to the node q, the start apart.                     *)
ComesFrom(q) ==
  /\ q \in walk
  /\ parent[q] \in closed_set /\ parent[q] \in get_node_neighbours(q)
  /\ g_cost[q] = g_cost[parent[q]] + 10
  /\ h_cost[q] = calculate_distance(q, end)

(* The number of moves to a node; every node that is closed may add one.   *)
CostsMoves(q) ==
  \E d \in Nat : /\ g_cost[q] = g_cost[start] + 10 * d
                 /\ d <= Cardinality(closed_set)
                 /\ q \in closed_set => d < Cardinality(closed_set)

Tree ==
  /\ start \in Visited
  /\ start \in open_set => open_set = {start} /\ closed_set = {}
  /\ \A q \in Visited \ {start} : ComesFrom(q)
  /\ \A q \in Visited : CostsMoves(q)

(* The nodes are closed in the order of their estimates, and nothing that  *)
(* can be reached from one that was expanded has been left out.            *)
Frontier ==
  /\ \A q \in closed_set, p \in open_set : Estimate(q) <= Estimate(p)
  /\ \A r \in closed_set \ {end} : \A q \in get_node_neighbours(r) \intersect walk :
       q \in Visited /\ g_cost[q] <= g_cost[r] + 10

Outcome ==
  /\ result = "found" <=> end \in closed_set
  /\ result = "searching" => iterations = Cardinality(closed_set)
  /\ result = "failed" => open_set = {} \/ Cardinality(closed_set) > MAX_ITERATION

SearchInv ==
  /\ SearchTypes
  /\ result = "none" => open_set = {} /\ closed_set = {}
  /\ result # "none" => Tree /\ Frontier /\ Outcome

-----------------------------------------------------------------------------
(* Distances.                                                              *)
LEMMA GridNumbers ==
  ASSUME NEW p \in Position
  PROVE  p = <<p[1], p[2]>> /\ p[1] \in Int /\ p[2] \in Int
  BY GridAssumption DEF Position

LEMMA DistanceType ==
  ASSUME NEW p \in Position, NEW q \in Position
  PROVE  calculate_distance(p, q) \in Nat
  BY GridNumbers DEF calculate_distance, Distance

LEMMA NoDistance ==
  ASSUME NEW p \in Position
  PROVE  calculate_distance(p, p) = 0 /\ p \notin get_node_neighbours(p)
  BY GridNumbers DEF calculate_distance, Distance, get_node_neighbours

LEMMA Neighbours ==
  ASSUME NEW p \in Position, NEW q \in get_node_neighbours(p)
  PROVE  /\ q \in Position /\ p \in get_node_neighbours(q)
         /\ calculate_distance(p, q) = 10
  BY GridNumbers DEF calculate_distance, Distance, get_node_neighbours

(* The estimate never drops by more than a move costs.                     *)
LEMMA Consistent ==
  ASSUME NEW p \in Position, NEW q \in get_node_neighbours(p), NEW t \in Position
  PROVE  calculate_distance(p, t) <= calculate_distance(q, t) + 10
  <1>1. /\ q \in Position /\ p[1] \in Int /\ p[2] \in Int /\ q[1] \in Int /\ q[2] \in Int
        /\ t[1] \in Int /\ t[2] \in Int
    BY GridNumbers DEF get_node_neighbours
  <1>2. \/ p[1] = q[1] /\ (p[2] = q[2] + 1 \/ p[2] = q[2] - 1)
        \/ p[2] = q[2] /\ (p[1] = q[1] + 1 \/ p[1] = q[1] - 1)
    BY <1>1 DEF get_node_neighbours, Distance
  <1>3. ASSUME NEW x \in Int, NEW y \in Int, NEW a \in Int, NEW b \in Int, NEW c \in Int, NEW d \in Int,
               \/ x = a /\ (y = b + 1 \/ y = b - 1)
               \/ y = b /\ (x = a + 1 \/ x = a - 1)
        PROVE  calculate_distance(<<x, y>>, <<c, d>>) <= calculate_distance(<<a, b>>, <<c, d>>) + 10
    <2> DEFINE dx == Distance(x, c)
               dy == Distance(y, d)
               da == Distance(a, c)
               db == Distance(b, d)
    <2>1. /\ dx \in Nat /\ dy \in Nat /\ da \in Nat /\ db \in Nat
          /\ \/ dx = da /\ (dy = db + 1 \/ dy = db - 1)
             \/ dy = db /\ (dx = da + 1 \/ dx = da - 1)
      BY <1>3 DEF Distance
    <2>2. /\ calculate_distance(<<x, y>>, <<c, d>>) = IF dx > dy THEN 14 * dy + 10 * (dx - dy) ELSE 14 * dx + 10 * (dy - dx)
          /\ calculate_distance(<<a, b>>, <<c, d>>) = IF da > db THEN 14 * db + 10 * (da - db) ELSE 14 * da + 10 * (db - da)
      BY DEF calculate_distance
    <2> HIDE DEF dx, dy, da, db
    <2> QED
      BY <2>1, <2>2
  <1>4. p = <<p[1], p[2]>> /\ q = <<q[1], q[2]>> /\ t = <<t[1], t[2]>>
    BY <1>1, GridNumbers
  <1> QED
    BY <1>1, <1>2, <1>3, <1>4

LEMMA FiniteGrid == IsFiniteSet(Position) /\ Cells \in Nat
  <1>1. Width - 1 \in Int /\ Height - 1 \in Int /\ 0 \in Int
    BY GridAssumption
  <1>2. IsFiniteSet(0 .. Width - 1) /\ IsFiniteSet(0 .. Height - 1)
    BY <1>1, FS_Interval
  <1> QED
    BY <1>2, FS_Product, FS_CardinalityType DEF Position, Cells

-----------------------------------------------------------------------------
LEMMA InitSearch == PathInit => SearchInv
  <1> SUFFICES ASSUME PathInit PROVE SearchInv
    OBVIOUS
  <1>1. walk \subseteq Position
    BY GridAssumption DEF PathInit, Position
  <1>2. <<0, 0>> \in Position
    BY GridAssumption DEF Position
  <1>3. SearchTypes
    BY <1>1, <1>2 DEF PathInit, SearchTypes
  <1> QED
    BY <1>3 DEF PathInit, SearchInv

(* A search begins, whatever an earlier one has left in the nodes.         *)
LEMMA BeginSearchPreserves == SearchInv /\ BeginSearch => SearchInv'
  <1> SUFFICES ASSUME SearchInv, BeginSearch PROVE SearchInv'
    OBVIOUS
  <1>1. SearchTypes'
    BY DEF SearchInv, SearchTypes, BeginSearch
  <1>2. Cardinality(closed_set') = 0
    BY FS_EmptySet DEF BeginSearch
  <1>3. open_set' = {start'} /\ closed_set' = {} /\ Visited' = {start'}
    BY DEF BeginSearch, Visited
  <1>4. CostsMoves(start)'
    <2>1. g_cost'[start'] \in Nat
      BY <1>1 DEF SearchTypes
    <2> QED
      BY <1>2, <1>3, <2>1 DEF CostsMoves
  <1>5. Tree'
    BY <1>3, <1>4 DEF Tree
  <1>6. Frontier' /\ Outcome'
    BY <1>2, <1>3 DEF Frontier, Outcome, BeginSearch
  <1> QED
    BY <1>1, <1>5, <1>6 DEF SearchInv, BeginSearch

(* Of the open nodes, the best one has the least estimate.                 *)
LEMMA BestEstimate ==
  ASSUME SearchTypes, Tree, NEW current, Best(current)
  PROVE  /\ current \in open_set
         /\ \A q \in open_set : Estimate(current) <= Estimate(q)
  <1>1. current \in open_set /\ current \in Position
    BY DEF Best, SearchTypes
  <1>2. CASE current = start
    <2>1. open_set = {start}
      BY <1>1, <1>2 DEF Tree
    <2>2. Estimate(current) \in Nat
      BY <1>1, DistanceType DEF SearchTypes, Estimate
    <2> QED
      BY <1>1, <1>2, <2>1, <2>2
  <1>3. CASE current # start
    <2>1. start \notin open_set
      BY <1>1, <1>3 DEF Tree
    <2>2. ASSUME NEW q \in open_set PROVE f_cost(q) = Estimate(q)
      BY <2>1 DEF Tree, Visited, ComesFrom, f_cost, Estimate
    <2>3. ASSUME NEW q \in open_set PROVE f_cost(current) <= f_cost(q)
      <3>1. /\ g_cost[current] \in Nat /\ h_cost[current] \in Nat
            /\ g_cost[q] \in Nat /\ h_cost[q] \in Nat
        BY <1>1 DEF SearchTypes
      <3> QED
        BY <3>1 DEF Best, f_cost
    <2> QED
      BY <1>1, <2>2, <2>3
  <1> QED
    BY <1>2, <1>3

LEMMA GiveUpPreserves == SearchInv /\ GiveUp => SearchInv'
  <1> SUFFICES ASSUME SearchInv, GiveUp PROVE SearchInv'
    OBVIOUS
  <1> QED
    BY DEF SearchInv, GiveUp, SearchTypes, Tree, Frontier, Outcome, Visited, ComesFrom, CostsMoves, Estimate

-----------------------------------------------------------------------------
(* A turn of the loop: what becomes of the sets and of the nodes.          *)
Turn(current) ==
  /\ current \in Position /\ current \in open_set /\ current \notin closed_set
  /\ current # end /\ current \notin Improved(current)
  /\ Improved(current) \subseteq Position \ closed_set
  /\ closed_set' = closed_set \union {current}
  /\ open_set' = (open_set \ {current}) \union Improved(current)
  /\ Visited' = Visited \union Improved(current)
  /\ \A q \in Position \ Improved(current) :
       g_cost'[q] = g_cost[q] /\ h_cost'[q] = h_cost[q] /\ parent'[q] = parent[q]
  /\ \A q \in Improved(current) :
       /\ g_cost'[q] = g_cost[current] + 10 /\ h_cost'[q] = calculate_distance(q, end)
       /\ parent'[q] = current /\ current \in get_node_neighbours(q)
       /\ q \in get_node_neighbours(current) /\ q \in walk
       /\ q \in open_set => g_cost'[q] < g_cost[q]
  /\ \A q \in (get_node_neighbours(current) \intersect walk) \ closed_set :
       q \notin Improved(current) => q \in open_set /\ g_cost[q] <= g_cost[current] + 10
  /\ Cardinality(closed_set) \in Nat
  /\ Cardinality(closed_set') = Cardinality(closed_set) + 1
  /\ start \notin Improved(current)
  /\ UNCHANGED <<walk, start, end>>

LEMMA ExpandIsATurn ==
  ASSUME SearchTypes, Tree, NEW current \in Position, Expand(current)
  PROVE  Turn(current) /\ SearchTypes'
  <1> DEFINE better == Improved(current)
  <1>1. current \in open_set /\ current \notin closed_set /\ current # end
    BY DEF Expand, Best, SearchTypes
  <1>2. ASSUME NEW q \in get_node_neighbours(current)
        PROVE  /\ q \in Position /\ current \in get_node_neighbours(q)
               /\ calculate_distance(current, q) = 10
    BY Neighbours
  <1>3. better \subseteq Position \ closed_set /\ current \notin better
    BY <1>2, NoDistance DEF Improved
  <1>4. /\ closed_set' = closed_set \union {current}
        /\ open_set' = (open_set \ {current}) \union better
        /\ g_cost' = [q \in Position |-> IF q \in better
                         THEN g_cost[current] + calculate_distance(current, q) ELSE g_cost[q]]
        /\ h_cost' = [q \in Position |-> IF q \in better
                         THEN calculate_distance(q, end) ELSE h_cost[q]]
        /\ parent' = [q \in Position |-> IF q \in better THEN current ELSE parent[q]]
        /\ UNCHANGED <<walk, start, end>>
    BY DEF Expand
  <1>5. Visited' = Visited \union better
    BY <1>1, <1>4 DEF Visited
  <1>6. \A q \in Position \ better :
          g_cost'[q] = g_cost[q] /\ h_cost'[q] = h_cost[q] /\ parent'[q] = parent[q]
    BY <1>4
  <1>7. ASSUME NEW q \in better
        PROVE  /\ g_cost'[q] = g_cost[current] + 10 /\ h_cost'[q] = calculate_distance(q, end)
               /\ parent'[q] = current /\ current \in get_node_neighbours(q)
               /\ q \in get_node_neighbours(current) /\ q \in walk
               /\ q \in open_set => g_cost'[q] < g_cost[q]
    <2>1. /\ q \in get_node_neighbours(current) /\ q \in walk /\ q \in Position
          /\ q \in open_set => g_cost[current] + calculate_distance(current, q) < g_cost[q]
      BY <1>3 DEF Improved
    <2> HIDE DEF better
    <2> QED
      BY <1>2, <1>4, <2>1
  <1>8. ASSUME NEW q \in (get_node_neighbours(current) \intersect walk) \ closed_set, q \notin better
        PROVE  q \in open_set /\ g_cost[q] <= g_cost[current] + 10
    <2>1. q \in open_set /\ ~(g_cost[current] + 10 < g_cost[q])
      BY <1>2, <1>8 DEF Improved
    <2>2. g_cost[q] \in Nat /\ g_cost[current] \in Nat
      BY <1>2 DEF SearchTypes
    <2> QED
      BY <2>1, <2>2
  <1>9. IsFiniteSet(closed_set) /\ Cardinality(closed_set) \in Nat
    BY FiniteGrid, FS_Subset, FS_CardinalityType DEF SearchTypes
  <1>10. Cardinality(closed_set') = Cardinality(closed_set) + 1
    BY <1>1, <1>4, <1>9, FS_AddElement
  <1>11. start \notin better
    <2>1. start = current \/ start \in closed_set
      BY <1>1 DEF Tree, Visited
    <2> QED
      BY <1>3, <2>1
  <1>12. SearchTypes'
    <2>1. open_set' \subseteq Position /\ closed_set' \subseteq Position /\ open_set' \intersect closed_set' = {}
      BY <1>1, <1>3, <1>4 DEF SearchTypes
    <2>2. g_cost' \in [Position -> Nat]
      <3>1. \A q \in better : g_cost[current] + calculate_distance(current, q) = g_cost[current] + 10
        BY <1>2 DEF Improved
      <3>2. g_cost \in [Position -> Nat] /\ g_cost[current] + 10 \in Nat
        BY DEF SearchTypes
      <3> HIDE DEF better
      <3> QED
        BY <1>4, <3>1, <3>2
    <2>3. h_cost' \in [Position -> Nat]
      <3> HIDE DEF better
      <3> QED
        BY <1>4, DistanceType DEF SearchTypes
    <2>4. parent' \in [Position -> Position \union {NoParent}]
      <3> HIDE DEF better
      <3> QED
        BY <1>4 DEF SearchTypes
    <2>5. iterations' \in Nat /\ result' \in {"none", "searching", "found", "failed"}
      BY DEF Expand, SearchTypes
    <2> QED
      BY <1>4, <2>1, <2>2, <2>3, <2>4, <2>5 DEF SearchTypes
  <1> QED
    BY <1>1, <1>3, <1>4, <1>5, <1>6, <1>7, <1>8, <1>9, <1>10, <1>11, <1>12 DEF Turn

(* After a turn the way to every node is known as it was before.           *)
LEMMA TurnKeepsTree ==
  ASSUME SearchTypes, Tree, NEW current, Turn(current)
  PROVE  Tree'
  <1>1. ASSUME NEW q \in closed_set \union {current, start}
        PROVE  g_cost'[q] = g_cost[q] /\ h_cost'[q] = h_cost[q] /\ parent'[q] = parent[q]
    BY DEF Turn, SearchTypes
  <1>2. ASSUME NEW q \in Visited' \ {start'} PROVE ComesFrom(q)'
    <2>1. CASE q \in Improved(current)
      BY <1>1, <2>1 DEF Turn, ComesFrom
    <2>2. CASE q \notin Improved(current)
      <3>1. q \in Visited \ {start} /\ q \in Position
        BY <2>2 DEF Turn, Visited, SearchTypes
      <3>2. ComesFrom(q)
        BY <3>1 DEF Tree
      <3> QED
        BY <1>1, <2>2, <3>1, <3>2 DEF Turn, ComesFrom
    <2> QED
      BY <2>1, <2>2
  <1>3. ASSUME NEW q \in Visited' PROVE CostsMoves(q)'
    <2>1. CASE q \in Improved(current)
      <3>1. PICK d \in Nat : g_cost[current] = g_cost[start] + 10 * d /\ d <= Cardinality(closed_set)
        BY DEF Turn, Tree, Visited, CostsMoves
      <3>2. g_cost'[q] = g_cost'[start'] + 10 * (d + 1) /\ d + 1 <= Cardinality(closed_set')
        <4>1. g_cost'[q] = g_cost[current] + 10 /\ start' = start /\ g_cost'[start] = g_cost[start]
          BY <1>1, <2>1 DEF Turn
        <4>2. g_cost[start] \in Nat /\ Cardinality(closed_set) \in Nat /\ Cardinality(closed_set') = Cardinality(closed_set) + 1
          BY DEF Turn, SearchTypes
        <4> QED
          BY <3>1, <4>1, <4>2
      <3>3. q \notin closed_set'
        BY <2>1 DEF Turn
      <3> QED
        BY <3>2, <3>3 DEF CostsMoves
    <2>2. CASE q \notin Improved(current)
      <3>1. q \in Visited /\ q \in Position
        BY <1>3, <2>2 DEF Turn, Visited, SearchTypes
      <3>2. PICK d \in Nat : /\ g_cost[q] = g_cost[start] + 10 * d /\ d <= Cardinality(closed_set)
        BY <3>1 DEF Tree, CostsMoves
      <3>3. g_cost'[q] = g_cost'[start'] + 10 * d /\ d < Cardinality(closed_set')
        BY <1>1, <2>2, <3>1, <3>2 DEF Turn
      <3> QED
        BY <3>2, <3>3 DEF CostsMoves, Turn
    <2> QED
      BY <2>1, <2>2
  <1>4. start' \in Visited' /\ start' \notin open_set'
    BY DEF Turn, Tree, Visited
  <1> QED
    BY <1>2, <1>3, <1>4 DEF Tree

(* Nor do the estimates get out of order.                                  *)
LEMMA TurnKeepsFrontier ==
  ASSUME SearchTypes, Tree, Frontier, NEW current, Best(current), Turn(current)
  PROVE  Frontier'
  <1>1. \A q \in open_set : Estimate(current) <= Estimate(q)
    BY BestEstimate
  <1>2. ASSUME NEW q \in Position PROVE Estimate(q) \in Nat
    BY DistanceType DEF Estimate, SearchTypes
  <1>3. ASSUME NEW q \in Position \ Improved(current) PROVE Estimate(q)' = Estimate(q)
    BY DEF Turn, Estimate
  <1>4. ASSUME NEW q \in Improved(current) PROVE Estimate(q)' >= Estimate(current) /\ Estimate(q)' \in Nat
    <2>1. calculate_distance(current, end) <= calculate_distance(q, end) + 10
      BY Consistent DEF Turn, SearchTypes
    <2>2. /\ calculate_distance(current, end) \in Nat /\ calculate_distance(q, end) \in Nat
          /\ g_cost[current] \in Nat
      BY DistanceType DEF Turn, SearchTypes
    <2> QED
      BY <2>1, <2>2 DEF Turn, Estimate
  <1>5. ASSUME NEW q \in closed_set PROVE Estimate(q) <= Estimate(current)
    BY DEF Frontier, Turn
  <1>6. ASSUME NEW q \in closed_set', NEW p \in open_set' PROVE Estimate(q)' <= Estimate(p)'
    <2>1. q \in Position \ Improved(current) /\ current \in Position
      BY DEF Turn, SearchTypes
    <2>2. Estimate(q)' \in Nat /\ Estimate(q)' <= Estimate(current)
      BY <1>2, <1>3, <1>5, <2>1 DEF Turn
    <2>3. CASE p \in Improved(current)
      BY <1>2, <1>4, <2>1, <2>2, <2>3
    <2>4. CASE p \notin Improved(current)
      <3>1. p \in open_set /\ p \in Position
        BY <2>4 DEF Turn, SearchTypes
      <3> QED
        BY <1>1, <1>2, <1>3, <2>1, <2>2, <2>4, <3>1
    <2> QED
      BY <2>3, <2>4
  <1>7. ASSUME NEW r \in closed_set' \ {end'}, NEW q \in get_node_neighbours(r) \intersect walk'
        PROVE  q \in Visited' /\ g_cost'[q] <= g_cost'[r] + 10
    <2>1. /\ r \in Position \ Improved(current) /\ q \in Position /\ q \in walk
          /\ g_cost'[r] = g_cost[r] /\ g_cost[r] \in Nat /\ g_cost[q] \in Nat
      BY Neighbours DEF Turn, SearchTypes
    <2>2. CASE r \in closed_set
      <3>1. q \in Visited /\ g_cost[q] <= g_cost[r] + 10
        BY <1>7, <2>1, <2>2 DEF Frontier, Turn
      <3>2. g_cost'[q] <= g_cost[q]
        <4>1. CASE q \in Improved(current)
          <5>1. q \in open_set /\ g_cost'[q] < g_cost[q] /\ g_cost'[q] = g_cost[current] + 10 /\ g_cost[current] \in Nat
            BY <3>1, <4>1 DEF Turn, Visited, SearchTypes
          <5> QED
            BY <2>1, <5>1
        <4>2. CASE q \notin Improved(current)
          BY <2>1, <4>2 DEF Turn
        <4> QED
          BY <4>1, <4>2
      <3>3. g_cost'[q] \in Nat
        BY <2>1 DEF Turn, SearchTypes
      <3> QED
        BY <2>1, <3>1, <3>2, <3>3 DEF Turn
    <2>3. CASE r = current
      <3>1. CASE q \in Improved(current)
        BY <2>1, <2>3, <3>1 DEF Turn
      <3>2. CASE q \notin Improved(current) /\ q \notin closed_set
        BY <1>7, <2>1, <2>3, <3>2 DEF Turn, Visited
      <3>3. CASE q \in closed_set
        <4>1. Estimate(q) <= Estimate(current)
          BY <1>5, <3>3
        <4>2. calculate_distance(current, end) <= calculate_distance(q, end) + 10
          BY <1>7, <2>1, <2>3, Consistent DEF SearchTypes
        <4>3. calculate_distance(current, end) \in Nat /\ calculate_distance(q, end) \in Nat
          BY <2>1, <2>3, DistanceType DEF SearchTypes
        <4>4. g_cost[q] <= g_cost[current] + 10
          BY <2>1, <2>3, <4>1, <4>2, <4>3 DEF Estimate
        <4>5. q \in Visited' /\ g_cost'[q] = g_cost[q]
          BY <2>1, <3>3 DEF Turn, Visited
        <4> QED
          BY <2>1, <2>3, <4>4, <4>5
      <3> QED
        BY <3>1, <3>2, <3>3
    <2> QED
      BY <2>2, <2>3 DEF Turn
  <1> QED
    BY <1>6, <1>7 DEF Frontier

LEMMA ExpandPreserves ==
  ASSUME SearchInv, NEW current \in Position, Expand(current)
  PROVE  SearchInv'
  <1>1. SearchTypes /\ Tree /\ Frontier /\ Outcome /\ Best(current)
    BY DEF SearchInv, Expand
  <1>2. Turn(current) /\ SearchTypes'
    BY <1>1, ExpandIsATurn
  <1>3. Tree' /\ Frontier'
    BY <1>1, <1>2, TurnKeepsTree, TurnKeepsFrontier
  <1>4. result = "searching" /\ result' = IF iterations' > MAX_ITERATION THEN "failed" ELSE "searching"
    BY DEF Expand
  <1>5. iterations' = Cardinality(closed_set')
    BY <1>1, <1>2, <1>4 DEF Expand, Outcome, Turn
  <1>6. end' \notin closed_set'
    BY <1>1, <1>2, <1>4 DEF Outcome, Turn
  <1>7. Outcome'
    BY <1>4, <1>5, <1>6 DEF Outcome
  <1>8. result' # "none"
    BY <1>4
  <1> QED
    BY <1>2, <1>3, <1>7, <1>8 DEF SearchInv

LEMMA ReachPreserves == SearchInv /\ Reach => SearchInv'
  <1> SUFFICES ASSUME SearchInv, Reach PROVE SearchInv'
    OBVIOUS
  <1>1. SearchTypes /\ Tree /\ Frontier /\ Best(end) /\ end \in open_set
    BY DEF SearchInv, Reach, Best
  <1>2. /\ closed_set' = closed_set \union {end} /\ open_set' = open_set \ {end}
        /\ UNCHANGED <<walk, g_cost, h_cost, parent, start, end, iterations>>
        /\ result' = "found" /\ Visited' = Visited
    BY <1>1 DEF Reach, Visited
  <1>3. SearchTypes'
    BY <1>1, <1>2 DEF SearchTypes
  <1>4. Cardinality(closed_set) \in Nat /\ Cardinality(closed_set') = Cardinality(closed_set) + 1
    <2>1. IsFiniteSet(closed_set) /\ end \notin closed_set
      BY <1>1, FiniteGrid, FS_Subset DEF SearchTypes
    <2> QED
      BY <1>2, <2>1, FS_AddElement, FS_CardinalityType
  <1>5. Tree'
    <2>1. \A q \in Visited \ {start} : ComesFrom(q)'
      BY <1>1, <1>2 DEF Tree, ComesFrom
    <2>2. ASSUME NEW q \in Visited PROVE CostsMoves(q)'
      <3>1. PICK d \in Nat : g_cost[q] = g_cost[start] + 10 * d /\ d <= Cardinality(closed_set)
        BY <1>1 DEF Tree, CostsMoves
      <3>2. d < Cardinality(closed_set')
        BY <1>4, <3>1
      <3>3. g_cost'[q] = g_cost'[start'] + 10 * d
        BY <1>2, <3>1
      <3>4. d <= Cardinality(closed_set')
        BY <1>4, <3>2
      <3> QED
        BY <3>2, <3>3, <3>4 DEF CostsMoves
    <2>3. start \notin open_set'
      BY <1>1, <1>2 DEF Tree
    <2> QED
      BY <1>1, <1>2, <2>1, <2>2, <2>3 DEF Tree
  <1>6. Frontier'
    <2>1. \A q \in Position : Estimate(q)' = Estimate(q)
      BY <1>2 DEF Estimate
    <2>2. \A p \in open_set : Estimate(end) <= Estimate(p)
      BY <1>1, BestEstimate
    <2>3. ASSUME NEW q \in closed_set', NEW p \in open_set' PROVE Estimate(q)' <= Estimate(p)'
      BY <1>1, <1>2, <2>1, <2>2 DEF Frontier, SearchTypes
    <2>4. ASSUME NEW r \in closed_set' \ {end'}, NEW q \in get_node_neighbours(r) \intersect walk'
          PROVE  q \in Visited' /\ g_cost'[q] <= g_cost'[r] + 10
      BY <1>1, <1>2, <2>4 DEF Frontier
    <2> QED
      BY <2>3, <2>4 DEF Frontier
  <1>7. Outcome'
    BY <1>2 DEF Outcome
  <1> QED
    BY <1>2, <1>3, <1>5, <1>6, <1>7 DEF SearchInv

LEMMA NextSearch == SearchInv /\ [PathNext]_pathVars => SearchInv'
  <1> SUFFICES ASSUME SearchInv, [PathNext]_pathVars PROVE SearchInv'
    OBVIOUS
  <1>1. CASE BeginSearch
    BY <1>1, BeginSearchPreserves
  <1>2. ASSUME NEW p \in Position, Expand(p) PROVE SearchInv'
    BY <1>2, ExpandPreserves
  <1>3. CASE Reach
    BY <1>3, ReachPreserves
  <1>4. CASE GiveUp
    BY <1>4, GiveUpPreserves
  <1>5. CASE UNCHANGED pathVars
    BY <1>5 DEF pathVars, SearchInv, SearchTypes, Tree, Frontier, Outcome, Visited, ComesFrom,
                CostsMoves, Estimate
  <1> QED
    BY <1>1, <1>2, <1>3, <1>4, <1>5 DEF PathNext

(* Whatever earlier searches have left in the nodes.                       *)
THEOREM SearchIsSound == PathSpec => []SearchInv
  BY InitSearch, NextSearch, PTL DEF PathSpec

-----------------------------------------------------------------------------
(* Induction over the numbers of a set, from the well-founded order of     *)
(* finite sets.                                                            *)
LEMMA Least ==
  ASSUME NEW T \in SUBSET Nat, T # {}
  PROVE  \E x \in T : \A y \in T : x <= y
  <1> DEFINE R == StrictSubsetOrdering(Nat)
             U == {0 .. n : n \in T}
  <1>1. IsWellFoundedOn(R, FiniteSubsetsOf(Nat))
    BY FS_StrictSubsetOrderingWellFounded
  <1>2. U \subseteq FiniteSubsetsOf(Nat) /\ U # {}
    <2>1. ASSUME NEW n \in Nat PROVE 0 .. n \in SUBSET Nat /\ IsFiniteSet(0 .. n)
      BY FS_Interval
    <2> QED
      BY <2>1 DEF FiniteSubsetsOf
  <1>3. \E u \in U : \A v \in U : <<v, u>> \notin R
    <2> HIDE DEF R, U
    <2> QED
      BY <1>1, <1>2, WFMin
  <1>4. PICK x \in T : \A y \in T : <<0 .. y, 0 .. x>> \notin R
    BY <1>3
  <1>5. ASSUME NEW y \in T, y < x PROVE FALSE
    <2>1. 0 .. y \in SUBSET Nat /\ 0 .. x \in SUBSET Nat /\ 0 .. y \subseteq 0 .. x
      BY <1>5
    <2>2. x \in 0 .. x /\ x \notin 0 .. y
      BY <1>5
    <2> QED
      BY <1>4, <2>1, <2>2 DEF StrictSubsetOrdering
  <1> QED
    BY <1>5

LEMMA Induction ==
  ASSUME NEW S \in SUBSET Nat, 0 \in S, \A n \in Nat : n \in S => n + 1 \in S
  PROVE  S = Nat
  <1> SUFFICES ASSUME Nat \ S # {} PROVE FALSE
    OBVIOUS
  <1>1. PICK x \in Nat \ S : \A y \in Nat \ S : x <= y
    BY Least
  <1>2. x # 0 /\ x - 1 \in Nat /\ x - 1 \in S
    BY <1>1
  <1> QED
    BY <1>1, <1>2

-----------------------------------------------------------------------------
(* The path and the reference are what their recursive definitions say.    *)
LEMMA PathDefined ==
  /\ Path[0] = end
  /\ \A n \in 1 .. Cells : Path[n] = IF Path[n - 1] = start THEN start ELSE parent[Path[n - 1]]
  <1> DEFINE Body(f, n) == IF n = 0 THEN end ELSE IF f[n - 1] = start THEN start ELSE parent[f[n - 1]]
             Ok(f, m) == f = [n \in 0 .. m |-> Body(f, n)]
             S == {m \in Nat : \E f : Ok(f, m)}
  <1>1. 0 \in S
    <2>1. Ok([n \in 0 .. 0 |-> end], 0)
      OBVIOUS
    <2> QED
      BY <2>1
  <1>2. ASSUME NEW m \in Nat, m \in S PROVE m + 1 \in S
    <2>1. PICK f : Ok(f, m)
      BY <1>2
    <2> DEFINE g == [n \in 0 .. m + 1 |-> IF n = m + 1 THEN Body(f, m + 1) ELSE f[n]]
    <2>2. \A n \in 0 .. m : g[n] = f[n] /\ f[n] = Body(f, n)
      BY <2>1
    <2>3. \A n \in 0 .. m : g[n] = Body(g, n)
      BY <2>2
    <2>4. g[m + 1] = Body(g, m + 1)
      BY <2>2
    <2>5. \A n \in 0 .. m + 1 : g[n] = Body(g, n)
      BY <2>3, <2>4
    <2>6. Ok(g, m + 1)
      BY <2>5
    <2> HIDE DEF g
    <2> QED
      BY <2>6
  <1>3. Cells \in S
    <2> HIDE DEF S
    <2>1. S \in SUBSET Nat
      BY DEF S
    <2> QED
      BY <1>1, <1>2, <2>1, Induction, FiniteGrid
  <1>4. Path = CHOOSE f : Ok(f, Cells)
    BY DEF Path
  <1>5. Ok(Path, Cells)
    <2> HIDE DEF Ok
    <2> QED
      BY <1>3, <1>4
  <1> HIDE DEF S
  <1> QED
    BY <1>5, FiniteGrid

Nearby(Z) == Z \union {q \in walk : get_node_neighbours(q) \intersect Z # {}}

WithinBody(f, n) == IF n = 0 THEN {start} ELSE Nearby(f[n - 1])

LEMMA WithinDefined ==
  /\ Within[0] = {start}
  /\ \A n \in 1 .. Cells : Within[n] = Nearby(Within[n - 1])
  <1> DEFINE Ok(f, m) == f = [n \in 0 .. m |-> WithinBody(f, n)]
             S == {m \in Nat : \E f : Ok(f, m)}
  <1>1. Within = CHOOSE f : Ok(f, Cells)
    BY DEF Within, WithinBody, Nearby
  <1>2. \A f, g : WithinBody(f, 0) = WithinBody(g, 0)
    BY DEF WithinBody
  <1>3. ASSUME NEW n \in Nat \ {0}, NEW f, NEW g, f[n - 1] = g[n - 1]
        PROVE  WithinBody(f, n) = WithinBody(g, n)
    <2>1. WithinBody(f, n) = Nearby(f[n - 1]) /\ WithinBody(g, n) = Nearby(g[n - 1])
      BY DEF WithinBody
    <2> QED
      BY <1>3, <2>1
  <1>4. 0 \in S
    <2>1. Ok([n \in 0 .. 0 |-> WithinBody(<<>>, 0)], 0)
      BY <1>2
    <2> QED
      BY <2>1
  <1>5. ASSUME NEW m \in Nat, m \in S PROVE m + 1 \in S
    <2>1. PICK f : Ok(f, m)
      BY <1>5
    <2> DEFINE g == [n \in 0 .. m + 1 |-> IF n = m + 1 THEN WithinBody(f, m + 1) ELSE f[n]]
    <2>2. \A n \in 0 .. m : g[n] = f[n] /\ f[n] = WithinBody(f, n)
      BY <2>1
    <2>3. ASSUME NEW n \in 0 .. m + 1 PROVE g[n] = WithinBody(g, n)
      <3>1. g[n] = WithinBody(f, n)
        <4>1. CASE n = m + 1
          BY <4>1
        <4>2. CASE n # m + 1
          <5>1. n \in 0 .. m
            BY <4>2
          <5> HIDE DEF g
          <5> QED
            BY <2>2, <5>1
        <4> QED
          BY <4>1, <4>2
      <3>2. n # 0 => n \in Nat \ {0} /\ f[n - 1] = g[n - 1]
        <4>1. n # 0 => n - 1 \in 0 .. m /\ n \in Nat \ {0}
          OBVIOUS
        <4> HIDE DEF g
        <4> QED
          BY <2>2, <4>1
      <3> QED
        BY <1>2, <1>3, <3>1, <3>2
    <2>4. Ok(g, m + 1)
      BY <2>3
    <2> HIDE DEF g
    <2> QED
      BY <2>4
  <1>6. Cells \in S
    <2> HIDE DEF S
    <2>1. S \in SUBSET Nat
      BY DEF S
    <2> QED
      BY <1>4, <1>5, <2>1, Induction, FiniteGrid
  <1>7. Ok(Within, Cells)
    <2> HIDE DEF Ok
    <2> QED
      BY <1>1, <1>6
  <1>8. \A n \in 0 .. Cells : Within[n] = WithinBody(Within, n)
    BY <1>7
  <1>9. WithinBody(Within, 0) = {start} /\ \A n \in 1 .. Cells : WithinBody(Within, n) = Nearby(Within[n - 1])
    BY DEF WithinBody
  <1> QED
    BY <1>8, <1>9, FiniteGrid

-----------------------------------------------------------------------------
(* The moves from the start to a node that has been visited.               *)
LEMMA AtLeastOneMove ==
  ASSUME SearchTypes, Tree, NEW q \in Visited
  PROVE  /\ q \in Position /\ g_cost[q] \in Nat /\ g_cost[start] \in Nat
         /\ g_cost[start] <= g_cost[q]
         /\ q # start => g_cost[start] + 10 <= g_cost[q]
  <1>1. /\ q \in Position /\ g_cost[q] \in Nat /\ g_cost[start] \in Nat
    BY DEF SearchTypes, Visited
  <1>2. \A p \in Visited : g_cost[start] <= g_cost[p]
    BY <1>1 DEF Tree, CostsMoves
  <1>3. q # start => parent[q] \in Visited /\ g_cost[q] = g_cost[parent[q]] + 10
    BY DEF Tree, ComesFrom, Visited
  <1>4. q # start => g_cost[parent[q]] \in Nat
    BY <1>3 DEF Visited, SearchTypes
  <1> QED
    BY <1>1, <1>2, <1>3, <1>4

(* The node n steps back along the path is n moves cheaper, or the start.  *)
OnPath(n) ==
  /\ Path[n] \in closed_set
  /\ Path[n] = start \/ g_cost[Path[n]] = g_cost[end] - 10 * n

LEMMA PathGoesBack ==
  ASSUME SearchTypes, Tree, end \in closed_set, NEW n \in 0 .. Cells
  PROVE  OnPath(n)
  <1> DEFINE S == {m \in Nat : m \in 0 .. Cells => OnPath(m)}
  <1>1. 0 \in S
    BY PathDefined, AtLeastOneMove DEF OnPath, Visited
  <1>2. ASSUME NEW m \in Nat, m \in S PROVE m + 1 \in S
    <2> SUFFICES ASSUME m + 1 \in 0 .. Cells PROVE OnPath(m + 1)
      OBVIOUS
    <2>1. OnPath(m) /\ m + 1 \in 1 .. Cells
      BY <1>2, FiniteGrid
    <2>2. Path[m + 1] = IF Path[m] = start THEN start ELSE parent[Path[m]]
      BY <2>1, PathDefined
    <2>3. CASE Path[m] = start
      BY <2>1, <2>2, <2>3 DEF OnPath
    <2>4. CASE Path[m] # start
      <3>1. ComesFrom(Path[m]) /\ g_cost[Path[m]] = g_cost[end] - 10 * m
        BY <2>1, <2>4 DEF OnPath, Tree, Visited
      <3>2. Path[m + 1] \in closed_set /\ g_cost[Path[m]] = g_cost[Path[m + 1]] + 10
        BY <2>2, <2>4, <3>1 DEF ComesFrom
      <3>3. g_cost[Path[m + 1]] \in Nat /\ g_cost[end] \in Nat
        BY <3>2 DEF SearchTypes
      <3> QED
        BY <3>1, <3>2, <3>3 DEF OnPath
    <2> QED
      BY <2>3, <2>4
  <1>3. S \in SUBSET Nat
    OBVIOUS
  <1> HIDE DEF S
  <1>4. n \in S
    BY <1>1, <1>2, <1>3, Induction, FiniteGrid
  <1> QED
    BY <1>4 DEF S

(* So the path is at the start once it has gone back as many moves as the  *)
(* target costs, and these are fewer than there are cells.                 *)
LEMMA PathEnds ==
  ASSUME SearchTypes, Tree, end \in closed_set,
         NEW n \in 0 .. Cells, g_cost[end] <= g_cost[start] + 10 * n
  PROVE  Path[n] = start
  <1>1. OnPath(n)
    BY PathGoesBack
  <1>2. Path[n] # start => g_cost[start] + 10 <= g_cost[Path[n]]
    BY <1>1, AtLeastOneMove DEF OnPath, Visited
  <1>3. g_cost[end] \in Nat /\ g_cost[start] \in Nat
    BY DEF SearchTypes
  <1> QED
    BY <1>1, <1>2, <1>3 DEF OnPath

LEMMA MovesOfTarget ==
  ASSUME SearchTypes, Tree, end \in closed_set
  PROVE  \E d \in 0 .. Cells : g_cost[end] = g_cost[start] + 10 * d
  <1>1. PICK d \in Nat : g_cost[end] = g_cost[start] + 10 * d /\ d <= Cardinality(closed_set)
    BY DEF Tree, CostsMoves, Visited
  <1>2. Cardinality(closed_set) <= Cells /\ Cardinality(closed_set) \in Nat
    BY FiniteGrid, FS_Subset, FS_CardinalityType DEF SearchTypes, Cells
  <1>3. d \in 0 .. Cells
    BY <1>1, <1>2, FiniteGrid
  <1> QED
    BY <1>1, <1>3

(* What find_path returns can be walked, on any grid, whatever earlier     *)
(* searches have left in the nodes.                                        *)
THEOREM PathsAreWalkable == PathSpec => []PathIsWalkable
  <1> SUFFICES SearchInv => PathIsWalkable
    BY SearchIsSound, PTL
  <1> SUFFICES ASSUME SearchInv, result = "found" PROVE PathIsWalkable
    BY DEF PathIsWalkable
  <1>1. SearchTypes /\ Tree /\ end \in closed_set
    BY DEF SearchInv, Outcome
  <1>2. Path[Cells] = start
    <2>1. PICK d \in 0 .. Cells : g_cost[end] = g_cost[start] + 10 * d
      BY <1>1, MovesOfTarget
    <2>2. g_cost[end] <= g_cost[start] + 10 * Cells
      BY <1>1, <2>1, FiniteGrid DEF SearchTypes
    <2> QED
      BY <1>1, <2>2, PathEnds, FiniteGrid
  <1>3. ASSUME NEW n \in 1 .. Cells, Path[n - 1] # start
        PROVE  Path[n - 1] \in walk /\ Path[n] \in get_node_neighbours(Path[n - 1])
    <2>1. n - 1 \in 0 .. Cells
      BY FiniteGrid
    <2>2. ComesFrom(Path[n - 1])
      BY <1>1, <1>3, <2>1, PathGoesBack DEF OnPath, Tree, Visited
    <2>3. Path[n] = parent[Path[n - 1]]
      BY <1>3, PathDefined
    <2> QED
      BY <2>2, <2>3 DEF ComesFrom
  <1> QED
    BY <1>2, <1>3 DEF PathIsWalkable

-----------------------------------------------------------------------------
LEMMA WithinGrid ==
  ASSUME SearchTypes, NEW n \in 0 .. Cells
  PROVE  Within[n] \subseteq Position
  <1> DEFINE S == {m \in Nat : m \in 0 .. Cells => Within[m] \subseteq Position}
  <1>1. 0 \in S
    BY WithinDefined DEF SearchTypes
  <1>2. ASSUME NEW m \in Nat, m \in S PROVE m + 1 \in S
    <2> SUFFICES ASSUME m + 1 \in 0 .. Cells PROVE Within[m + 1] \subseteq Position
      OBVIOUS
    <2>1. m + 1 \in 1 .. Cells /\ Within[m] \subseteq Position
      BY <1>2, FiniteGrid
    <2>2. Within[m + 1] = Nearby(Within[m])
      BY <2>1, WithinDefined
    <2> QED
      BY <2>1, <2>2 DEF Nearby, SearchTypes
  <1>3. S \in SUBSET Nat
    OBVIOUS
  <1> HIDE DEF S
  <1>4. n \in S
    BY <1>1, <1>2, <1>3, Induction, FiniteGrid
  <1> QED
    BY <1>4 DEF S

(* A node is as many steps away as it costs moves, or nearer.              *)
LEMMA VisitedIsWithin ==
  ASSUME SearchTypes, Tree, NEW n \in 0 .. Cells
  PROVE  \A q \in Visited : g_cost[q] <= g_cost[start] + 10 * n => q \in Within[n]
  <1> DEFINE P(m) == \A q \in Visited : g_cost[q] <= g_cost[start] + 10 * m => q \in Within[m]
             S == {m \in Nat : m \in 0 .. Cells => P(m)}
  <1>1. 0 \in S
    <2>1. ASSUME NEW q \in Visited, g_cost[q] <= g_cost[start] + 10 * 0 PROVE q = start
      BY <2>1, AtLeastOneMove
    <2> QED
      BY <2>1, WithinDefined
  <1>2. ASSUME NEW m \in Nat, m \in S PROVE m + 1 \in S
    <2> SUFFICES ASSUME m + 1 \in 0 .. Cells,
                        NEW q \in Visited, g_cost[q] <= g_cost[start] + 10 * (m + 1)
                 PROVE  q \in Within[m + 1]
      OBVIOUS
    <2>1. m + 1 \in 1 .. Cells /\ P(m)
      BY <1>2, FiniteGrid
    <2>2. Within[m + 1] = Nearby(Within[m])
      BY <2>1, WithinDefined
    <2>3. CASE q = start
      <3>1. g_cost[q] <= g_cost[start] + 10 * m
        BY <2>3, AtLeastOneMove
      <3> QED
        BY <2>1, <2>2, <3>1 DEF Nearby
    <2>4. CASE q # start
      <3>1. ComesFrom(q)
        BY <2>4 DEF Tree
      <3>2. parent[q] \in Visited /\ g_cost[q] = g_cost[parent[q]] + 10 /\ q \in walk
            /\ parent[q] \in get_node_neighbours(q)
        BY <3>1 DEF ComesFrom, Visited
      <3>3. g_cost[parent[q]] <= g_cost[start] + 10 * m
        BY <3>2, AtLeastOneMove
      <3>4. parent[q] \in Within[m]
        BY <2>1, <3>2, <3>3
      <3> QED
        BY <2>2, <3>2, <3>4 DEF Nearby
    <2> QED
      BY <2>3, <2>4
  <1>3. S \in SUBSET Nat
    OBVIOUS
  <1> HIDE DEF S
  <1>4. n \in S
    BY <1>1, <1>2, <1>3, Induction, FiniteGrid
  <1> QED
    BY <1>4 DEF S

(* What is n steps away has been expanded at no more than n moves, or a    *)
(* node that is not yet, or the target, is on a way that promises as much. *)
Covered(q, n) ==
  \/ q \in closed_set \ {end} /\ g_cost[q] <= g_cost[start] + 10 * n
  \/ \E p \in open_set \union (closed_set \intersect {end}) :
       Estimate(p) <= g_cost[start] + 10 * n + calculate_distance(q, end)

LEMMA ReachableIsCovered ==
  ASSUME SearchTypes, Tree, Frontier, NEW n \in 0 .. Cells
  PROVE  \A q \in Within[n] : Covered(q, n)
  <1> DEFINE S == {m \in Nat : m \in 0 .. Cells => \A q \in Within[m] : Covered(q, m)}
  <1>1. \A q \in Position : Estimate(q) \in Nat /\ calculate_distance(q, end) \in Nat /\ g_cost[q] \in Nat
    BY DistanceType DEF Estimate, SearchTypes
  <1>2. start \in Position /\ end \in Position /\ closed_set \subseteq Position /\ open_set \subseteq Position
    BY DEF SearchTypes
  <1>3. 0 \in S
    <2>1. start \in Visited /\ Estimate(start) = g_cost[start] + calculate_distance(start, end)
      BY DEF Tree, Estimate
    <2>2. Covered(start, 0)
      BY <1>1, <1>2, <2>1 DEF Covered, Visited
    <2> QED
      BY <2>2, WithinDefined
  <1>4. ASSUME NEW m \in Nat, m \in S PROVE m + 1 \in S
    <2> SUFFICES ASSUME m + 1 \in 0 .. Cells, NEW q \in Within[m + 1] PROVE Covered(q, m + 1)
      OBVIOUS
    <2>1. m + 1 \in 1 .. Cells /\ m \in 0 .. Cells /\ \A r \in Within[m] : Covered(r, m)
      BY <1>4, FiniteGrid
    <2>2. Within[m + 1] = Nearby(Within[m]) /\ q \in Position /\ Within[m] \subseteq Position
      BY <2>1, WithinDefined, WithinGrid
    <2>3. CASE q \in Within[m]
      <3>1. Covered(q, m)
        BY <2>1, <2>3
      <3> QED
        BY <1>1, <1>2, <2>2, <3>1 DEF Covered
    <2>4. CASE q \notin Within[m]
      <3>1. PICK r \in Within[m] : r \in get_node_neighbours(q) /\ q \in walk
        BY <2>2, <2>4 DEF Nearby
      <3>2. Covered(r, m) /\ r \in Position /\ q \in get_node_neighbours(r)
        BY <2>1, <2>2, <3>1, Neighbours
      <3>3. CASE \E p \in open_set \union (closed_set \intersect {end}) :
                   Estimate(p) <= g_cost[start] + 10 * m + calculate_distance(r, end)
        <4>1. calculate_distance(r, end) <= calculate_distance(q, end) + 10
          BY <1>2, <3>2, Consistent
        <4>2. PICK p \in open_set \union (closed_set \intersect {end}) :
                     Estimate(p) <= g_cost[start] + 10 * m + calculate_distance(r, end)
          BY <3>3
        <4>3. Estimate(p) <= g_cost[start] + 10 * (m + 1) + calculate_distance(q, end)
          BY <1>1, <1>2, <2>2, <3>2, <4>1, <4>2
        <4> QED
          BY <4>3 DEF Covered
      <3>4. CASE r \in closed_set \ {end} /\ g_cost[r] <= g_cost[start] + 10 * m
        <4>1. q \in Visited /\ g_cost[q] <= g_cost[r] + 10
          BY <3>1, <3>2, <3>4 DEF Frontier
        <4>2. g_cost[q] <= g_cost[start] + 10 * (m + 1)
          BY <1>1, <1>2, <2>2, <3>2, <3>4, <4>1
        <4>3. Estimate(q) <= g_cost[start] + 10 * (m + 1) + calculate_distance(q, end)
          BY <1>1, <1>2, <2>2, <4>2 DEF Estimate
        <4> QED
          BY <4>1, <4>2, <4>3 DEF Covered, Visited
      <3> QED
        BY <3>2, <3>3, <3>4 DEF Covered
    <2> QED
      BY <2>3, <2>4
  <1>5. S \in SUBSET Nat
    OBVIOUS
  <1> HIDE DEF S
  <1>6. n \in S
    BY <1>3, <1>4, <1>5, Induction, FiniteGrid
  <1> QED
    BY <1>6 DEF S

(* Steps is the least number of steps when there is one.                   *)
LEMMA StepsDefined ==
  ASSUME Reachable
  PROVE  Steps \in 0 .. Cells /\ end \in Within[Steps]
  <1> DEFINE T == {n \in Nat : n <= Cells /\ end \in Within[n]}
  <1>1. Cells \in T
    BY FiniteGrid DEF Reachable
  <1>2. PICK n \in T : \A m \in T : n <= m
    BY <1>1, Least
  <1>3. n \in 0 .. Cells /\ end \in Within[n]
    BY <1>2
  <1>4. \A m \in 0 .. n - 1 : end \notin Within[m]
    BY <1>2, FiniteGrid
  <1> QED
    BY <1>3, <1>4 DEF Steps

(* No path is shorter than the one find_path returns: A* is right here on  *)
(* any grid, with an estimate that counts diagonals no move can take and   *)
(* with costs left over from earlier searches.                             *)
THEOREM PathsAreShortest == PathSpec => []PathIsShortest
  <1> SUFFICES SearchInv => PathIsShortest
    BY SearchIsSound, PTL
  <1> SUFFICES ASSUME SearchInv, result = "found" PROVE Reachable /\ Path[Steps] = start
    BY DEF PathIsShortest
  <1>1. SearchTypes /\ Tree /\ Frontier /\ end \in closed_set /\ end \in Position
    BY DEF SearchInv, Outcome, SearchTypes
  <1>2. Reachable
    <2>1. PICK d \in 0 .. Cells : g_cost[end] = g_cost[start] + 10 * d
      BY <1>1, MovesOfTarget
    <2>2. g_cost[end] <= g_cost[start] + 10 * Cells
      BY <1>1, <2>1, FiniteGrid DEF SearchTypes
    <2> QED
      BY <1>1, <2>2, VisitedIsWithin, FiniteGrid DEF Visited, Reachable
  <1>3. Steps \in 0 .. Cells /\ Covered(end, Steps)
    BY <1>1, <1>2, StepsDefined, ReachableIsCovered
  <1>4. calculate_distance(end, end) = 0
    BY <1>1, NoDistance
  <1>5. \A p \in open_set : Estimate(end) <= Estimate(p)
    BY <1>1 DEF Frontier
  <1>6. /\ g_cost[end] \in Nat /\ g_cost[start] \in Nat /\ Estimate(end) = g_cost[end]
        /\ \A p \in open_set : Estimate(p) \in Nat
    BY <1>1, <1>4, DistanceType DEF SearchTypes, Estimate
  <1>7. g_cost[end] <= g_cost[start] + 10 * Steps
    BY <1>3, <1>4, <1>5, <1>6 DEF Covered
  <1> QED
    BY <1>1, <1>2, <1>3, <1>7, PathEnds

LEMMA FailedIsUnreachable ==
  ASSUME SearchInv, result = "failed"
  PROVE  ~Reachable \/ Cells > MAX_ITERATION + 1
  <1>1. SearchTypes /\ Tree /\ Frontier /\ end \notin closed_set
    BY DEF SearchInv, Outcome
  <1>2. CASE open_set = {}
    <2>1. ASSUME Reachable PROVE FALSE
      <3>1. Covered(end, Cells)
        BY <1>1, <2>1, ReachableIsCovered, FiniteGrid DEF Reachable
      <3> QED
        BY <1>1, <1>2, <3>1 DEF Covered
    <2> QED
      BY <2>1
  <1>3. CASE Cardinality(closed_set) > MAX_ITERATION
    <2>1. IsFiniteSet(closed_set) /\ Cardinality(closed_set) \in Nat
      BY <1>1, FiniteGrid, FS_Subset, FS_CardinalityType DEF SearchTypes
    <2>2. Cardinality(closed_set \union {end}) = Cardinality(closed_set) + 1
      BY <1>1, <2>1, FS_AddElement
    <2>3. Cardinality(closed_set \union {end}) <= Cells
      BY <1>1, FiniteGrid, FS_Subset DEF SearchTypes, Cells
    <2> QED
      BY <1>3, <2>1, <2>2, <2>3, FiniteGrid, GridAssumption
  <1> QED
    BY <1>2, <1>3 DEF SearchInv, Outcome

(* A search that gives up has looked at everything that can be reached,    *)
(* unless the grid has so many cells that the turns may run out.           *)
THEOREM FailuresAreReal == PathSpec => []FailsOnlyUnreachable
  <1>1. SearchInv => FailsOnlyUnreachable
    BY FailedIsUnreachable DEF FailsOnlyUnreachable
  <1> QED
    BY <1>1, SearchIsSound, PTL
=============================================================================
