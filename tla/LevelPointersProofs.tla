-------------------------- MODULE LevelPointersProofs --------------------------
(* The curves of a level and the slices and pointers of its frames, for    *)
(* any levels and any number of slimes, hearts and messes.                 *)
EXTENDS LevelPointers, TLAPS

Array == Seq(Thing \union {None})

(* What a level places comes before all that comes and goes.               *)
LevelFirst(array) ==
  \A i, j \in DOMAIN array : i < j /\ array[j] \in LevelThing => array[i] \in LevelThing

CurvesHold(array, cs) ==
  \A c \in cs : /\ c.at \in DOMAIN array
                /\ c.of \in LevelThing \/ array[c.at] \in LevelThing => array[c.at] = c.of

IInv ==
  /\ owners \in [Component -> Array]
  /\ curves \subseteq [of : Thing, at : Nat]
  /\ step = "outside" => curves = {}
  /\ LevelFirst(owners["body"])
  /\ CurvesHold(owners["body"], curves)

(* From the array a to the array b nothing of the level moves.             *)
LevelStays(a, b) ==
  \A i \in DOMAIN a : /\ i \in DOMAIN b
                      /\ a[i] \in LevelThing \/ b[i] \in LevelThing => b[i] = a[i]

-----------------------------------------------------------------------------
LEMMA CurvesFollow ==
  ASSUME NEW a \in Array, NEW b \in Array, NEW cs,
         LevelStays(a, b), CurvesHold(a, cs)
  PROVE  CurvesHold(b, cs)
  BY DEF LevelStays, CurvesHold

LEMMA PositionOf ==
  ASSUME NEW array \in Array, NEW t \in Owned(array)
  PROVE  position(array, t) \in DOMAIN array /\ array[position(array, t)] = t
  <1>1. \E i \in DOMAIN array : array[i] = t
    BY DEF Owned
  <1> QED
    BY <1>1 DEF position

(* A body that is removed is not of the level, and neither is the last one *)
(* that takes its place.                                                   *)
LEMMA RemovedKeepsLevel ==
  ASSUME NEW array \in Array, NEW t \in Transient, t \in Owned(array), LevelFirst(array)
  PROVE  /\ Removed(array, t) \in Array
         /\ LevelStays(array, Removed(array, t))
         /\ LevelFirst(Removed(array, t))
  <1> DEFINE p == position(array, t)
             n == Len(array)
             b == Removed(array, t)
  <1>1. p \in 1 .. n /\ array[p] = t /\ n \in Nat /\ n \in DOMAIN array
    BY PositionOf DEF Array
  <1>2. array[p] \notin LevelThing /\ None \notin LevelThing
    BY <1>1, PointersAssumption DEF Thing
  <1>3. array[n] \notin LevelThing
    BY <1>1, <1>2 DEF LevelFirst, Array
  <1>4. /\ b \in Array /\ DOMAIN b = DOMAIN array
        /\ \A i \in DOMAIN array :
             b[i] = IF i = n THEN None ELSE IF i = p THEN array[n] ELSE array[i]
    BY <1>1 DEF Removed, Array
  <1>5. \A i \in DOMAIN array : array[i] \in LevelThing \/ b[i] \in LevelThing => b[i] = array[i]
    BY <1>1, <1>2, <1>3, <1>4
  <1>6. LevelFirst(b)
    BY <1>4, <1>5 DEF LevelFirst
  <1> QED
    BY <1>4, <1>5, <1>6 DEF LevelStays

LEMMA AppendedKeepsLevel ==
  ASSUME NEW array \in Array, NEW t \in Transient, LevelFirst(array)
  PROVE  /\ Append(array, t) \in Array
         /\ Len(Append(array, t)) \in DOMAIN Append(array, t)
         /\ Append(array, t)[Len(Append(array, t))] = t
         /\ LevelStays(array, Append(array, t))
         /\ LevelFirst(Append(array, t))
  <1> DEFINE b == Append(array, t)
  <1>1. /\ b \in Array /\ Len(array) \in Nat /\ DOMAIN array = 1 .. Len(array)
        /\ DOMAIN b = 1 .. Len(array) + 1 /\ Len(b) = Len(array) + 1
        /\ b[Len(array) + 1] = t /\ \A i \in DOMAIN array : b[i] = array[i]
    BY DEF Array, Thing
  <1>2. t \notin LevelThing
    BY PointersAssumption
  <1> QED
    BY <1>1, <1>2 DEF LevelStays, LevelFirst

-----------------------------------------------------------------------------
(* The deletion of a cloud or a heart.                                     *)
LEMMA DeleteStays ==
  ASSUME IInv, NEW t \in Transient, Delete(t)
  PROVE  /\ owners' \in [Component -> Array]
         /\ LevelStays(owners["body"], owners'["body"]) /\ LevelFirst(owners'["body"])
  <1>1. \A k \in Component : owners[k] \in Array
    BY DEF IInv
  <1>2. ASSUME NEW k \in Component PROVE Has(k, t) => Removed(owners[k], t) \in Array
    <2> SUFFICES ASSUME Has(k, t) PROVE Removed(owners[k], t) \in Array
      OBVIOUS
    <2>1. /\ position(owners[k], t) \in DOMAIN owners[k]
          /\ owners[k] \in Seq(Thing \union {None})
      BY <1>1, PositionOf DEF Has, Array
    <2> QED
      BY <2>1 DEF Removed, Array
  <1>3. owners' \in [Component -> Array]
    BY <1>1, <1>2 DEF Delete
  <1>4. "body" \in Component /\ LevelFirst(owners["body"])
    BY DEF Component, IInv
  <1>5. CASE Has("body", t)
    <2>1. owners'["body"] = Removed(owners["body"], t) /\ t \in Owned(owners["body"])
      BY <1>4, <1>5 DEF Delete, Has
    <2> QED
      BY <1>1, <1>3, <1>4, <2>1, RemovedKeepsLevel
  <1>6. CASE ~Has("body", t)
    BY <1>3, <1>4, <1>6 DEF Delete, LevelStays
  <1> QED
    BY <1>5, <1>6

LEMMA DeletePreserves ==
  ASSUME IInv, step # "outside", NEW t \in Transient, Delete(t), UNCHANGED curves, step' # "outside"
  PROVE  IInv'
  <1>1. owners["body"] \in Array /\ owners'["body"] \in Array
    BY DeleteStays DEF IInv, Component
  <1>2. CurvesHold(owners'["body"], curves)
    BY <1>1, DeleteStays, CurvesFollow DEF IInv
  <1> QED
    BY <1>2, DeleteStays DEF IInv

(* The creation of a cloud or a heart, with its animation, or of a mess.   *)
LEMMA CreateStays ==
  ASSUME IInv, NEW t \in Transient, NEW components \in SUBSET Component, "body" \in components,
         Create(t, components)
  PROVE  /\ owners' \in [Component -> Array]
         /\ LevelStays(owners["body"], owners'["body"]) /\ LevelFirst(owners'["body"])
         /\ Len(owners'["body"]) \in DOMAIN owners'["body"]
         /\ owners'["body"][Len(owners'["body"])] = t
  <1>1. \A k \in Component : owners[k] \in Array
    BY DEF IInv
  <1>2. owners' = [k \in Component |-> IF k \in components THEN Append(owners[k], t) ELSE owners[k]]
    BY DEF Create
  <1>3. t \in Thing \union {None} /\ "body" \in Component
    BY DEF Thing, Component
  <1>4. owners' \in [Component -> Array]
    BY <1>1, <1>2, <1>3 DEF Array
  <1> QED
    BY <1>1, <1>2, <1>3, <1>4, AppendedKeepsLevel DEF IInv

LEMMA CreatePreserves ==
  ASSUME IInv, NEW t \in Transient, NEW components \in SUBSET Component, "body" \in components,
         Create(t, components), Animate(t) \/ UNCHANGED curves, step' # "outside"
  PROVE  IInv'
  <1>1. owners["body"] \in Array /\ owners'["body"] \in Array
    BY CreateStays DEF IInv, Component
  <1>2. CurvesHold(owners'["body"], curves)
    BY <1>1, CreateStays, CurvesFollow DEF IInv
  <1>3. t \notin LevelThing /\ Len(owners'["body"]) \in Nat
    BY <1>1, PointersAssumption DEF Array
  <1>4. CurvesHold(owners'["body"], curves')
    BY <1>2, <1>3, CreateStays DEF Animate, CurvesHold
  <1>5. curves' \subseteq [of : Thing, at : Nat]
    BY <1>3 DEF Animate, IInv, Thing
  <1> QED
    BY <1>4, <1>5, CreateStays DEF IInv

(* Steps that touch neither the bodies nor the curves.                     *)
LEMMA ColliderPreserves ==
  ASSUME IInv, UNCHANGED curves, step' # "outside",
         owners' \in [Component -> Array], owners'["body"] = owners["body"]
  PROVE  IInv'
  BY DEF IInv

(* The entering of a level, when there is no curve left.                   *)
LEMMA EnterPreserves == IInv /\ EnterLevel => IInv'
  <1> SUFFICES ASSUME IInv, EnterLevel PROVE IInv'
    OBVIOUS
  <1>1. PICK level \in Levels :
          /\ owners' = level
          /\ curves' = curves \union
               {[of |-> t, at |-> position(level.body, t)] : t \in Animated \intersect Owned(level.body)}
    BY DEF EnterLevel
  <1> DEFINE bodies == level.body
  <1>2. /\ level \in [body : Seq(LevelThing), collider : Seq(LevelThing)]
        /\ level["body"] = bodies
    BY PointersAssumption
  <1>3. bodies \in Seq(LevelThing) /\ level["collider"] \in Seq(LevelThing)
    BY <1>2
  <1>4. bodies \in Array /\ level["collider"] \in Array
    BY <1>3 DEF Array, Thing
  <1>5. level \in [Component -> Array]
    BY <1>2, <1>4 DEF Component
  <1>6. LevelFirst(bodies)
    BY <1>3 DEF LevelFirst
  <1>7. curves' = {[of |-> t, at |-> position(bodies, t)] : t \in Animated \intersect Owned(bodies)}
    BY <1>1 DEF IInv, EnterLevel
  <1>8. \A t \in Owned(bodies) : position(bodies, t) \in DOMAIN bodies /\ bodies[position(bodies, t)] = t
    BY <1>4, PositionOf
  <1>9. CurvesHold(bodies, curves')
    BY <1>7, <1>8 DEF CurvesHold
  <1>10. curves' \subseteq [of : Thing, at : Nat]
    BY <1>3, <1>7, <1>8, PointersAssumption DEF Thing
  <1> QED
    BY <1>1, <1>2, <1>5, <1>6, <1>9, <1>10 DEF IInv, EnterLevel

(* The door loses or gets its collider.                                    *)
LEMMA DoorPreserves == IInv /\ (entity_open_door \/ entity_close_door) => IInv'
  <1> SUFFICES ASSUME IInv, entity_open_door \/ entity_close_door PROVE IInv'
    OBVIOUS
  <1>1. /\ "collider" \in Component /\ owners["collider"] \in Array /\ Door \in Thing
        /\ owners \in [Component -> Array]
    BY PointersAssumption DEF IInv, Component, Thing
  <1>2. Has("collider", Door) => Removed(owners["collider"], Door) \in Array
    <2> SUFFICES ASSUME Has("collider", Door) PROVE Removed(owners["collider"], Door) \in Array
      OBVIOUS
    <2>1. /\ position(owners["collider"], Door) \in DOMAIN owners["collider"]
          /\ owners["collider"] \in Seq(Thing \union {None})
      BY <1>1, PositionOf DEF Has, Array
    <2> QED
      BY <2>1 DEF Removed, Array
  <1>3. Append(owners["collider"], Door) \in Array
    BY <1>1 DEF Array
  <1>4. ASSUME NEW a \in Array, owners' = owners \/ owners' = [owners EXCEPT !["collider"] = a]
        PROVE  owners' \in [Component -> Array] /\ owners'["body"] = owners["body"]
    BY <1>1, <1>4 DEF Component
  <1>5. CASE entity_open_door
    <2>1. UNCHANGED curves /\ step' # "outside"
      BY <1>5 DEF entity_open_door
    <2>2. owners' = [owners EXCEPT !["collider"] =
                       IF Has("collider", Door) THEN Removed(owners["collider"], Door)
                                                ELSE owners["collider"]]
      BY <1>5 DEF entity_open_door
    <2>3. owners' \in [Component -> Array] /\ owners'["body"] = owners["body"]
      BY <1>1, <1>2, <1>4, <2>2
    <2> QED
      BY <2>1, <2>3, ColliderPreserves
  <1>6. CASE entity_close_door
    <2>1. UNCHANGED curves /\ step' # "outside"
      BY <1>6, Zenon DEF entity_close_door
    <2>2. owners' = owners \/ owners' = [owners EXCEPT !["collider"] = Append(owners["collider"], Door)]
      BY <1>6, Zenon DEF entity_close_door
    <2>3. owners' \in [Component -> Array] /\ owners'["body"] = owners["body"]
      BY <1>3, <1>4, <2>2
    <2> QED
      BY <2>1, <2>3, ColliderPreserves
  <1> QED
    BY <1>5, <1>6

-----------------------------------------------------------------------------
LEMMA InitIInv == Init => IInv
  BY DEF Init, IInv, Array, Component, LevelFirst, CurvesHold

LEMMA NextIInv == IInv /\ [Next]_vars => IInv'
  <1> SUFFICES ASSUME IInv, [Next]_vars PROVE IInv'
    OBVIOUS
  <1>1. /\ owners \in [Component -> Array]
        /\ Component \in SUBSET Component /\ {"body"} \in SUBSET Component /\ "body" \in Component
        /\ Cloud \in Transient /\ Hearts \subseteq Transient /\ Messes \subseteq Transient
    BY DEF IInv, Component, Transient
  <1>2. CASE EnterLevel
    BY <1>2, EnterPreserves
  <1>3. CASE BeginFrame
    BY <1>1, <1>3, ColliderPreserves DEF BeginFrame
  <1>4. CASE update_timers
    BY <1>1, <1>4, CreatePreserves DEF update_timers
  <1>5. CASE player_update
    BY <1>1, <1>5, ColliderPreserves DEF player_update, check_update_components
  <1>6. CASE entity_open_door \/ entity_close_door
    BY <1>6, DoorPreserves
  <1>7. CASE BeginFight
    BY <1>1, <1>7, CreatePreserves DEF BeginFight
  <1>8. CASE FinishLoot
    BY <1>1, <1>8, DeletePreserves DEF FinishLoot
  <1>9. CASE FinishAttack
    BY <1>1, <1>9, DeletePreserves DEF FinishAttack
  <1>10. CASE CreateMess
    BY <1>1, <1>10, CreatePreserves DEF CreateMess
  <1>11. CASE AdventurerEnds
    BY <1>1, <1>11, ColliderPreserves DEF AdventurerEnds, check_update_components
  <1>12. CASE LookAround
    BY <1>1, <1>12, ColliderPreserves DEF LookAround
  <1>13. CASE Pet
    <2>1. PICK h \in Hearts : Create(h, {"body"}) /\ Animate(h)
      BY <1>13 DEF Pet
    <2>2. step' # "outside"
      BY <1>13 DEF Pet
    <2> QED
      BY <1>1, <2>1, <2>2, CreatePreserves
  <1>14. CASE entity_clean
    BY <1>1, <1>14, ColliderPreserves DEF entity_clean
  <1>15. CASE InteractionEnds
    BY <1>1, <1>15, ColliderPreserves DEF InteractionEnds, check_update_components
  <1>16. CASE EndFrame
    BY <1>1, <1>16, ColliderPreserves DEF EndFrame
  <1>17. CASE HeartEnds
    BY <1>1, <1>17, DeletePreserves DEF HeartEnds
  <1>18. CASE NextFrame
    BY <1>1, <1>18, ColliderPreserves DEF NextFrame
  <1>19. CASE ExitLevel
    BY <1>19 DEF ExitLevel, IInv, Array, Component, LevelFirst, CurvesHold
  <1>20. CASE UNCHANGED vars
    BY <1>20 DEF vars, IInv
  <1> QED
    BY <1>2, <1>3, <1>4, <1>5, <1>6, <1>7, <1>8, <1>9, <1>10, <1>11, <1>12, <1>13, <1>14,
       <1>15, <1>16, <1>17, <1>18, <1>19, <1>20 DEF Next

(* The strengthened invariant: entities of the level are first in the      *)
(* array of bodies, so what takes a removed one's place never is of it.    *)
THEOREM LevelComesFirst == Spec => []IInv
  BY InitIInv, NextIInv, PTL DEF Spec

(* For any levels: whatever clouds, hearts and messes come and go, a curve *)
(* of an entity of the level keeps writing to that entity's components,    *)
(* and no other curve does.                                                *)
THEOREM CurvesStayTheirOwn == Spec => []OwnCurves
  <1>1. IInv => OwnCurves
    BY DEF IInv, OwnCurves, CurvesHold
  <1> QED
    BY <1>1, LevelComesFirst, PTL

-----------------------------------------------------------------------------
(* The colliders and their owners.                                         *)
ArraysInv ==
  /\ NoDuplicate(owners["body"])
  /\ Owned(owners["collider"]) \subseteq Owned(owners["body"])
  /\ Owned(owners["collider"]) \intersect ({Cloud} \union Hearts) = {}
  /\ step # "outside" => /\ Door \in Owned(owners["body"])
                          /\ {Player, Adventurer} \subseteq Owned(owners["collider"])

(* What a part of the frame finds of the bodies of colliders.              *)
BodiesFound ==
  \A t \in Owned(owners["collider"]) :
     /\ t \in Owned(Found("body"))
     /\ position(Found("body"), t) = position(owners["body"], t)
     /\ position(Found("body"), t) <= slices["body"].len

CollidersFetched == slices["collider"] = [len |-> Len(owners["collider"]), map |-> Shared]

(* The adventurer has changed no collider, or the flag is up.              *)
NotDue == step = "adventured" /\ ~recompute_colliders

SlicesInv ==
  /\ recompute_colliders \in BOOLEAN
  /\ step = "timers" => recompute_colliders \/ slices = Fetched
  /\ step = "adventurer" => slices = Fetched
  /\ step = "opened" => recompute_colliders
  /\ step \in {"opened", "interaction", "interacting", "draw"} \/ NotDue => CollidersFetched
  /\ step = "interaction" \/ NotDue => BodiesFound

(* The pointers ps lead to what they were taken for.                       *)
Lead(array, ps) == \A p \in ps : p.at \in DOMAIN array /\ array[p.at] = p.of

PointersInv ==
  /\ pointers \in [Component -> SUBSET [of : {Player, Adventurer}, at : Nat]]
  /\ Lead(owners["body"], pointers["body"])
  /\ step \in {"timers", "adventurer"} => Lead(owners["collider"], pointers["collider"])
  /\ step = "opened" => \A p \in pointers["collider"] :
       \/ PointsToOwn(p, "collider")
       \/ p.at = Len(owners["collider"]) /\ owners["collider"][p.at] = None
  /\ step \in {"outside", "frame", "animate"} => pointers = NoPointers

(* A death, whose messes are still to be made, has put the flag up.        *)
MessesDue == messes # 0 => step = "adventured" /\ recompute_colliders

FrameInv == IInv /\ ArraysInv /\ SlicesInv /\ MessesDue /\ PointersInv

LEMMA OwnedAppend ==
  ASSUME NEW array \in Array, NEW t \in Thing
  PROVE  /\ Owned(Append(array, t)) = Owned(array) \union {t}
         /\ NoDuplicate(array) /\ t \notin Owned(array) =>
              /\ NoDuplicate(Append(array, t))
              /\ \A x \in Owned(array) : position(Append(array, t), x) = position(array, x)
  <1> DEFINE b == Append(array, t)
  <1>1. /\ b \in Array /\ Len(array) \in Nat /\ DOMAIN array = 1 .. Len(array)
        /\ DOMAIN b = 1 .. Len(array) + 1
        /\ b[Len(array) + 1] = t /\ \A i \in DOMAIN array : b[i] = array[i]
    BY DEF Array, Thing
  <1>2. t # None
    BY PointersAssumption
  <1> HIDE DEF b
  <1>3. Owned(b) = Owned(array) \union {t}
    <2>1. \A i \in DOMAIN b : b[i] = t \/ (i \in DOMAIN array /\ b[i] = array[i])
      BY <1>1
    <2>2. Len(array) + 1 \in DOMAIN b /\ DOMAIN array \subseteq DOMAIN b
      BY <1>1
    <2> QED
      BY <1>1, <1>2, <2>1, <2>2 DEF Owned
  <1>4. ASSUME NoDuplicate(array), t \notin Owned(array)
        PROVE  NoDuplicate(b) /\ \A x \in Owned(array) : position(b, x) = position(array, x)
    <2>1. \A i \in DOMAIN array : array[i] # t
      BY <1>2, <1>4 DEF Owned
    <2>2. NoDuplicate(b)
      BY <1>1, <1>4, <2>1 DEF NoDuplicate
    <2>3. ASSUME NEW x \in Owned(array) PROVE position(b, x) = position(array, x)
      <3>1. /\ position(array, x) \in DOMAIN array /\ array[position(array, x)] = x
            /\ position(b, x) \in DOMAIN b /\ b[position(b, x)] = x
        BY <1>1, <1>3, PositionOf
      <3>2. position(array, x) \in DOMAIN b /\ b[position(array, x)] = x /\ x # None
        BY <1>1, <3>1 DEF Owned
      <3> QED
        BY <2>2, <3>1, <3>2 DEF NoDuplicate
    <2> QED
      BY <2>2, <2>3
  <1> QED
    BY <1>3, <1>4 DEF b

LEMMA OwnedRemoved ==
  ASSUME NEW array \in Array, NEW t \in Owned(array)
  PROVE  /\ Removed(array, t) \in Array /\ Len(Removed(array, t)) = Len(array)
         /\ Owned(Removed(array, t)) \subseteq Owned(array)
         /\ Owned(array) \ {t} \subseteq Owned(Removed(array, t))
         /\ NoDuplicate(array) => NoDuplicate(Removed(array, t))
  <1> DEFINE p == position(array, t)
             n == Len(array)
             b == Removed(array, t)
  <1>1. p \in 1 .. n /\ array[p] = t /\ n \in Nat /\ n \in DOMAIN array /\ DOMAIN array = 1 .. n
    BY PositionOf DEF Array
  <1>2. /\ b \in Array /\ DOMAIN b = DOMAIN array /\ Len(b) = n
        /\ \A i \in DOMAIN array :
             b[i] = IF i = n THEN None ELSE IF i = p THEN array[n] ELSE array[i]
    BY <1>1 DEF Removed, Array
  <1> HIDE DEF b, p, n
  <1>3. Owned(b) \subseteq Owned(array)
    BY <1>1, <1>2 DEF Owned
  <1>4. ASSUME NEW x \in Owned(array), x # t PROVE x \in Owned(b)
    <2>1. PICK i \in DOMAIN array : array[i] = x
      BY DEF Owned
    <2>2. x # None
      BY DEF Owned
    <2>3. CASE i = n
      <3>1. p # n /\ b[p] = x
        BY <1>1, <1>2, <1>4, <2>1, <2>3
      <3> QED
        BY <1>1, <1>2, <2>2, <3>1 DEF Owned
    <2>4. CASE i # n
      <3>1. b[i] = x
        BY <1>1, <1>2, <1>4, <2>1, <2>4
      <3> QED
        BY <1>2, <2>1, <2>2, <3>1 DEF Owned
    <2> QED
      BY <2>3, <2>4
  <1>5. NoDuplicate(array) => NoDuplicate(b)
    BY <1>1, <1>2 DEF NoDuplicate
  <1> QED
    BY <1>2, <1>3, <1>4, <1>5 DEF b, n

LEMMA DeleteArrays ==
  ASSUME IInv, ArraysInv, step # "outside", NEW t \in {Cloud} \union Hearts, Delete(t)
  PROVE  /\ ArraysInv'
         /\ owners'["collider"] = owners["collider"]
         /\ Len(owners'["body"]) = Len(owners["body"])
  <1>1. /\ "body" \in Component /\ "collider" \in Component
        /\ owners["body"] \in Array /\ owners["collider"] \in Array
    BY DEF IInv, Component
  <1>2. owners'["collider"] = owners["collider"]
    <2>1. ~Has("collider", t)
      BY DEF ArraysInv, Has
    <2> QED
      BY <1>1, <2>1 DEF Delete
  <1>3. Door # t
    BY PointersAssumption DEF Transient
  <1>4. CASE Has("body", t)
    <2>1. owners'["body"] = Removed(owners["body"], t) /\ t \in Owned(owners["body"])
      BY <1>1, <1>4 DEF Delete, Has
    <2>2. /\ Len(owners'["body"]) = Len(owners["body"])
          /\ Owned(owners["body"]) \ {t} \subseteq Owned(owners'["body"])
          /\ NoDuplicate(owners'["body"])
      BY <1>1, <2>1, OwnedRemoved DEF ArraysInv
    <2> QED
      BY <1>2, <1>3, <2>2 DEF ArraysInv
  <1>5. CASE ~Has("body", t)
    <2>1. owners'["body"] = owners["body"]
      BY <1>1, <1>5 DEF Delete
    <2> QED
      BY <1>2, <2>1 DEF ArraysInv
  <1> QED
    BY <1>4, <1>5

LEMMA CreateArrays ==
  ASSUME IInv, ArraysInv, step # "outside", NEW t \in Transient,
         NEW components \in SUBSET Component, "body" \in components, Create(t, components),
         t \in Messes \/ "collider" \notin components
  PROVE  /\ ArraysInv'
         /\ "collider" \notin components =>
              owners'["collider"] = owners["collider"] /\ slices'["collider"] = slices["collider"]
  <1>1. /\ "body" \in Component /\ "collider" \in Component
        /\ owners["body"] \in Array /\ owners["collider"] \in Array
        /\ t \in Thing
    BY DEF IInv, Component, Thing
  <1>2. owners'["body"] = Append(owners["body"], t) /\ t \notin Owned(owners["body"])
    BY <1>1 DEF Create, CanCreate, Has
  <1>3. Owned(owners'["body"]) = Owned(owners["body"]) \union {t} /\ NoDuplicate(owners'["body"])
    BY <1>1, <1>2, OwnedAppend DEF ArraysInv
  <1>4. CASE "collider" \notin components
    <2>1. owners'["collider"] = owners["collider"] /\ slices'["collider"] = slices["collider"]
      BY <1>1, <1>4 DEF Create
    <2> QED
      BY <1>3, <2>1, <1>4 DEF ArraysInv
  <1>5. CASE "collider" \in components
    <2>1. owners'["collider"] = Append(owners["collider"], t)
      BY <1>1, <1>5 DEF Create
    <2>2. Owned(owners'["collider"]) = Owned(owners["collider"]) \union {t}
      BY <1>1, <2>1, OwnedAppend
    <2>3. t \notin {Cloud} \union Hearts
      BY <1>5, PointersAssumption
    <2> QED
      BY <1>3, <1>5, <2>2, <2>3 DEF ArraysInv
  <1> QED
    BY <1>4, <1>5

-----------------------------------------------------------------------------
AllFetched == slices = Fetched

(* What has just been fetched is found.                                    *)
LEMMA FetchedFound == IInv /\ ArraysInv /\ AllFetched => CollidersFetched /\ BodiesFound
  <1> SUFFICES ASSUME IInv, ArraysInv, slices = Fetched PROVE CollidersFetched /\ BodiesFound
    BY DEF AllFetched
  <1>1. /\ "body" \in Component /\ "collider" \in Component /\ owners["body"] \in Array
    BY DEF IInv, Component
  <1>2. /\ slices["body"] = [len |-> Len(owners["body"]), map |-> Shared]
        /\ slices["collider"] = [len |-> Len(owners["collider"]), map |-> Shared]
    BY <1>1 DEF Fetched
  <1>3. Found("body") = owners["body"] /\ slices["body"].len = Len(owners["body"])
    BY <1>2 DEF Found
  <1>4. \A t \in Owned(owners["body"]) : position(owners["body"], t) <= Len(owners["body"])
    BY <1>1, PositionOf DEF Array
  <1> QED
    BY <1>2, <1>3, <1>4 DEF CollidersFetched, BodiesFound, ArraysInv

LEMMA FetchedFoundNext ==
  IInv' /\ ArraysInv' /\ slices' = Fetched' => CollidersFetched' /\ BodiesFound'
  <1>1. IInv' /\ ArraysInv' /\ AllFetched' => CollidersFetched' /\ BodiesFound'
    BY FetchedFound, PTL
  <1> QED
    BY <1>1 DEF AllFetched

(* check_update_components after a part of the frame.                      *)
LEMMA CheckedFound ==
  ASSUME IInv', ArraysInv', UNCHANGED <<owners, recompute_colliders>>, check_update_components(step'),
         recompute_colliders \/ (CollidersFetched /\ BodiesFound)
  PROVE  CollidersFetched' /\ BodiesFound'
  <1>1. CASE recompute_colliders
    <2>1. slices' = Fetched'
      BY <1>1 DEF Fetched, check_update_components
    <2> QED
      BY <2>1, FetchedFoundNext
  <1>2. CASE ~recompute_colliders
    BY <1>2 DEF CollidersFetched, BodiesFound, Found, check_update_components
  <1> QED
    BY <1>1, <1>2

(* A fight begins: the cloud's body comes last.                            *)
LEMMA FightFound ==
  ASSUME FrameInv, BeginFight
  PROVE  CollidersFetched' /\ BodiesFound'
  <1>1. /\ "body" \in Component /\ "collider" \in Component
        /\ owners["body"] \in Array /\ Cloud \in Thing
    BY DEF FrameInv, IInv, Component, Thing, Transient
  <1>2. slices = Fetched /\ Create(Cloud, {"body"})
    BY DEF FrameInv, SlicesInv, BeginFight
  <1>3. /\ slices["body"] = [len |-> Len(owners["body"]), map |-> Shared]
        /\ slices["collider"] = [len |-> Len(owners["collider"]), map |-> Shared]
    BY <1>1, <1>2 DEF Fetched
  <1>4. /\ owners'["body"] = Append(owners["body"], Cloud)
        /\ owners'["collider"] = owners["collider"] /\ slices'["collider"] = slices["collider"]
        /\ \/ slices'["body"] = slices["body"]
           \/ slices'["body"] = [slices["body"] EXCEPT !.map = owners["body"]]
    BY <1>1, <1>2 DEF Create
  <1>5. Cloud \notin Owned(owners["body"])
    BY <1>1, <1>2 DEF Create, CanCreate, Has
  <1>6. slices'["body"].len = Len(owners["body"])
    BY <1>3, <1>4
  <1>7. Found("body")' = owners'["body"] \/ Found("body")' = owners["body"]
    <2>1. slices'["body"].map = Shared \/ slices'["body"].map = owners["body"]
      BY <1>3, <1>4
    <2> QED
      BY <2>1 DEF Found
  <1>8. /\ Owned(owners'["body"]) = Owned(owners["body"]) \union {Cloud}
        /\ \A t \in Owned(owners["body"]) :
             position(owners'["body"], t) = position(owners["body"], t)
    BY <1>1, <1>4, <1>5, OwnedAppend DEF FrameInv, ArraysInv
  <1>9. \A t \in Owned(owners["body"]) : position(owners["body"], t) <= Len(owners["body"])
    BY <1>1, PositionOf DEF Array
  <1>10. Owned(owners'["collider"]) \subseteq Owned(owners["body"])
    BY <1>4 DEF FrameInv, ArraysInv
  <1>11. BodiesFound'
    BY <1>6, <1>7, <1>8, <1>9, <1>10 DEF BodiesFound
  <1>12. CollidersFetched'
    BY <1>3, <1>4 DEF CollidersFetched
  <1> QED
    BY <1>11, <1>12

(* The loot is finished: the cloud's body goes.                            *)
LEMMA LootFound ==
  ASSUME FrameInv, IInv', ArraysInv', FinishLoot
  PROVE  CollidersFetched' /\ BodiesFound'
  <1>1. Delete(Cloud) /\ step # "outside" /\ slices' = slices /\ slices = Fetched
    BY DEF FinishLoot, Delete, FrameInv, SlicesInv
  <1>2. /\ owners'["collider"] = owners["collider"]
        /\ Len(owners'["body"]) = Len(owners["body"])
    BY <1>1, DeleteArrays DEF FrameInv
  <1>3. slices' = Fetched'
    <2>1. Component = {"body", "collider"}
      BY DEF Component
    <2>2. \A k \in Component : Len(owners'[k]) = Len(owners[k])
      BY <1>2, <2>1
    <2> QED
      BY <1>1, <2>2 DEF Fetched
  <1> QED
    BY <1>3, FetchedFoundNext

-----------------------------------------------------------------------------
LEMMA DoorArrays ==
  ASSUME FrameInv, entity_open_door \/ entity_close_door
  PROVE  /\ ArraysInv' /\ step # "outside" /\ step' # "outside" /\ recompute_colliders' = TRUE
         /\ entity_open_door => CollidersFetched'
  <1>1. /\ "body" \in Component /\ "collider" \in Component
        /\ owners \in [Component -> Array] /\ owners["collider"] \in Array
        /\ Door \in Thing /\ Door \notin {Cloud} \union Hearts \union {Player, Adventurer}
    BY PointersAssumption DEF FrameInv, IInv, Component, Thing, Transient
  <1>2. /\ Door \in Owned(owners["body"]) /\ {Player, Adventurer} \subseteq Owned(owners["collider"])
        /\ step = "adventurer" /\ slices = Fetched
    BY DEF FrameInv, ArraysInv, SlicesInv, entity_open_door, entity_close_door
  <1>3. CASE entity_open_door
    <2>1. /\ owners'["body"] = owners["body"]
          /\ owners'["collider"] = IF Has("collider", Door) THEN Removed(owners["collider"], Door)
                                   ELSE owners["collider"]
          /\ slices' = slices /\ step' = "opened" /\ recompute_colliders' = TRUE
      BY <1>1, <1>3 DEF entity_open_door
    <2>2. /\ Owned(owners'["collider"]) \subseteq Owned(owners["collider"])
          /\ Owned(owners["collider"]) \ {Door} \subseteq Owned(owners'["collider"])
          /\ Len(owners'["collider"]) = Len(owners["collider"])
      BY <1>1, <2>1, OwnedRemoved DEF Has
    <2>3. ArraysInv'
      BY <1>1, <1>2, <2>1, <2>2 DEF FrameInv, ArraysInv
    <2>4. CollidersFetched'
      BY <1>1, <1>2, <2>1, <2>2 DEF CollidersFetched, Fetched
    <2> QED
      BY <1>2, <2>1, <2>3, <2>4
  <1>4. CASE entity_close_door
    <2>1. step' = "adventured" /\ recompute_colliders' = TRUE
      BY <1>4, Zenon DEF entity_close_door
    <2>2. owners' = owners \/ owners' = [owners EXCEPT !["collider"] = Append(owners["collider"], Door)]
      BY <1>4, Zenon DEF entity_close_door
    <2>3. /\ owners'["body"] = owners["body"]
          /\ \/ owners'["collider"] = owners["collider"]
             \/ owners'["collider"] = Append(owners["collider"], Door)
      BY <1>1, <2>2
    <2>4. /\ Owned(owners'["collider"]) \subseteq Owned(owners["collider"]) \union {Door}
          /\ Owned(owners["collider"]) \subseteq Owned(owners'["collider"])
      BY <1>1, <2>3, OwnedAppend
    <2>5. ArraysInv'
      BY <1>1, <1>2, <2>3, <2>4 DEF FrameInv, ArraysInv
    <2>6. ~entity_open_door
      BY <2>1 DEF entity_open_door
    <2> QED
      BY <1>2, <2>1, <2>5, <2>6
  <1> QED
    BY <1>3, <1>4

LEMMA EnterArrays == ASSUME IInv, EnterLevel PROVE ArraysInv'
  <1>1. PICK level \in Levels : owners' = level
    BY DEF EnterLevel
  <1>2. /\ level \in [body : Seq(LevelThing), collider : Seq(LevelThing)]
        /\ level["body"] = level.body /\ level["collider"] = level.collider
    BY PointersAssumption
  <1>3. Owned(level.collider) \subseteq LevelThing
    BY <1>2 DEF Owned
  <1>4. Owned(level.collider) \intersect ({Cloud} \union Hearts) = {}
    BY <1>3, PointersAssumption DEF Transient
  <1> QED
    BY <1>1, <1>2, <1>4, LevelsAssumption DEF ArraysInv

(* No other step touches the arrays.                                       *)
LEMMA KeptArrays ==
  ASSUME FrameInv, owners' = owners, step # "outside" \/ step' = "outside" PROVE ArraysInv'
  BY DEF FrameInv, ArraysInv

LEMMA InitFrameInv == Init => FrameInv
  <1> SUFFICES ASSUME Init PROVE FrameInv
    OBVIOUS
  <1>1. owners["body"] = <<>> /\ owners["collider"] = <<>>
    BY DEF Init, Component
  <1>2. ArraysInv
    BY <1>1 DEF Init, ArraysInv, NoDuplicate, Owned
  <1>3. SlicesInv
    BY DEF Init, SlicesInv, NotDue
  <1>4. PointersInv
    BY DEF Init, PointersInv, NoPointers, Lead, Component
  <1> QED
    BY <1>2, <1>3, <1>4, InitIInv DEF Init, FrameInv, MessesDue

LEMMA NextMessesDue == FrameInv /\ [Next]_vars => MessesDue'
  <1> SUFFICES ASSUME FrameInv, [Next]_vars PROVE MessesDue'
    OBVIOUS
  <1>1. MessesDue /\ recompute_colliders \in BOOLEAN
    BY DEF FrameInv, SlicesInv
  <1> USE <1>1 DEF MessesDue
  <1>2. CASE EnterLevel \/ BeginFrame \/ update_timers \/ player_update
    BY <1>2 DEF EnterLevel, BeginFrame, update_timers, player_update, check_update_components
  <1>3. CASE entity_open_door \/ entity_close_door \/ BeginFight \/ FinishLoot
    BY <1>3, Zenon DEF entity_open_door, entity_close_door, BeginFight, FinishLoot
  <1>4. CASE FinishAttack \/ CreateMess \/ AdventurerEnds
    BY <1>4 DEF FinishAttack, CreateMess, AdventurerEnds
  <1>5. CASE LookAround \/ Pet \/ entity_clean \/ InteractionEnds
    BY <1>5 DEF LookAround, Pet, entity_clean, InteractionEnds, check_update_components
  <1>6. CASE EndFrame \/ HeartEnds \/ NextFrame \/ ExitLevel
    BY <1>6 DEF EndFrame, HeartEnds, NextFrame, ExitLevel
  <1>7. CASE UNCHANGED vars
    BY <1>7 DEF vars
  <1> QED
    BY <1>2, <1>3, <1>4, <1>5, <1>6, <1>7 DEF Next

(* The bodies of the level stay where they are within a level.             *)
LEMMA BodiesStay ==
  ASSUME FrameInv, Next, step # "outside", step' # "outside"
  PROVE  LevelStays(owners["body"], owners'["body"])
  <1>1. /\ IInv /\ "body" \in Component
        /\ Component \in SUBSET Component /\ {"body"} \in SUBSET Component
        /\ Cloud \in Transient /\ Hearts \subseteq Transient /\ Messes \subseteq Transient
        /\ owners \in [Component -> Array]
    BY DEF FrameInv, IInv, Component, Transient
  <1>2. ASSUME owners'["body"] = owners["body"] PROVE LevelStays(owners["body"], owners'["body"])
    BY <1>2 DEF LevelStays
  <1>3. ASSUME owners' = owners PROVE LevelStays(owners["body"], owners'["body"])
    BY <1>2, <1>3
  <1>4. ~EnterLevel /\ ~ExitLevel
    BY DEF EnterLevel, ExitLevel
  <1>5. CASE BeginFrame \/ player_update \/ AdventurerEnds \/ LookAround \/ entity_clean
             \/ InteractionEnds \/ EndFrame \/ NextFrame
    <2>1. owners' = owners
      BY <1>5 DEF BeginFrame, player_update, AdventurerEnds, LookAround, entity_clean,
                  InteractionEnds, EndFrame, NextFrame
    <2> QED
      BY <1>3, <2>1
  <1>6. CASE update_timers \/ CreateMess
    <2>1. PICK m \in Messes : Create(m, Component)
      BY <1>6 DEF update_timers, CreateMess
    <2> QED
      BY <1>1, <2>1, CreateStays
  <1>7. CASE entity_open_door
    <2>1. owners'["body"] = owners["body"]
      BY <1>1, <1>7 DEF entity_open_door
    <2> QED
      BY <1>2, <2>1
  <1>8. CASE entity_close_door
    <2>1. owners' = owners \/ owners' = [owners EXCEPT !["collider"] = Append(owners["collider"], Door)]
      BY <1>8, Zenon DEF entity_close_door
    <2>2. owners'["body"] = owners["body"]
      BY <1>1, <2>1
    <2> QED
      BY <1>2, <2>2
  <1>9. CASE BeginFight
    BY <1>1, <1>9, CreateStays DEF BeginFight
  <1>10. CASE FinishLoot \/ FinishAttack
    <2>1. Delete(Cloud)
      BY <1>10 DEF FinishLoot, FinishAttack
    <2> QED
      BY <1>1, <2>1, DeleteStays
  <1>11. CASE Pet
    <2>1. PICK h \in Hearts : Create(h, {"body"})
      BY <1>11 DEF Pet
    <2> QED
      BY <1>1, <2>1, CreateStays
  <1>12. CASE HeartEnds
    <2>1. PICK h \in Hearts : Delete(h)
      BY <1>12 DEF HeartEnds
    <2> QED
      BY <1>1, <2>1, DeleteStays
  <1> QED
    BY <1>4, <1>5, <1>6, <1>7, <1>8, <1>9, <1>10, <1>11, <1>12 DEF Next

(* The pointers that are kept over a step.                                 *)
LEMMA KeptPointers ==
  ASSUME FrameInv, Next, step # "outside", step' # "outside", pointers' = pointers
  PROVE  /\ pointers' \in [Component -> SUBSET [of : {Player, Adventurer}, at : Nat]]
         /\ Lead(owners'["body"], pointers'["body"])
  <1>1. /\ pointers \in [Component -> SUBSET [of : {Player, Adventurer}, at : Nat]]
        /\ Lead(owners["body"], pointers["body"]) /\ "body" \in Component
    BY DEF FrameInv, PointersInv, Component
  <1>2. \A p \in pointers["body"] : p.of \in LevelThing
    BY <1>1, PointersAssumption
  <1>3. LevelStays(owners["body"], owners'["body"])
    BY BodiesStay
  <1> QED
    BY <1>1, <1>2, <1>3 DEF Lead, LevelStays

(* A pointer that is taken leads to what it is taken for.                  *)
LEMMA TakenLeads ==
  ASSUME FrameInv, step # "outside", NEW t \in {Player, Adventurer}, NEW k \in Component
  PROVE  /\ PointerTo(t, owners[k]) \in [of : {Player, Adventurer}, at : Nat]
         /\ Lead(owners[k], {PointerTo(t, owners[k])})
  <1>1. owners[k] \in Array /\ t \in Owned(owners[k])
    BY DEF FrameInv, IInv, ArraysInv, Component
  <1>2. /\ position(owners[k], t) \in DOMAIN owners[k] /\ owners[k][position(owners[k], t)] = t
        /\ position(owners[k], t) \in Nat
    BY <1>1, PositionOf DEF Array
  <1> QED
    BY <1>2 DEF PointerTo, Lead

LEMMA NoPointersInv == ASSUME pointers' = NoPointers PROVE PointersInv'
  <1>1. pointers'["body"] = {} /\ pointers'["collider"] = {}
    BY DEF NoPointers, Component
  <1>2. pointers' \in [Component -> SUBSET [of : {Player, Adventurer}, at : Nat]]
    BY DEF NoPointers
  <1> QED
    BY <1>1, <1>2 DEF PointersInv, Lead

(* The pointers of the player and the adventurer are taken.                *)
LEMMA TakenPointers ==
  ASSUME FrameInv, BeginFrame \/ player_update PROVE PointersInv'
  <1>1. /\ step' \in {"timers", "adventurer"} /\ step # "outside" /\ owners' = owners
    BY DEF BeginFrame, player_update, check_update_components
  <1>2. /\ "body" \in Component /\ "collider" \in Component
        /\ pointers \in [Component -> SUBSET [of : {Player, Adventurer}, at : Nat]]
    BY DEF FrameInv, PointersInv, Component
  <1>3. CASE BeginFrame
    <2>1. pointers' = [k \in Component |-> {PointerTo(Player, owners[k])}]
      BY <1>3 DEF BeginFrame
    <2>2. pointers' \in [Component -> SUBSET [of : {Player, Adventurer}, at : Nat]]
      BY <1>1, <2>1, TakenLeads
    <2>3. ASSUME NEW k \in Component PROVE Lead(owners[k], pointers'[k])
      BY <1>1, <2>1, TakenLeads
    <2> QED
      BY <1>1, <1>2, <2>2, <2>3 DEF PointersInv
  <1>4. CASE player_update
    <2>1. /\ step = "timers" /\ slices' = IF recompute_colliders THEN Fetched ELSE slices
          /\ pointers' = [k \in Component |-> pointers[k] \union {PointerTo(Adventurer, Found(k)')}]
      BY <1>4 DEF player_update, check_update_components
    <2>2. slices' = Fetched
      BY <2>1 DEF FrameInv, SlicesInv
    <2>3. \A k \in Component : Found(k)' = owners[k]
      BY <1>1, <2>2 DEF Found, Fetched
    <2>4. pointers' = [k \in Component |-> pointers[k] \union {PointerTo(Adventurer, owners[k])}]
      BY <2>1, <2>3
    <2>5. pointers' \in [Component -> SUBSET [of : {Player, Adventurer}, at : Nat]]
      BY <1>1, <1>2, <2>4, TakenLeads
    <2>6. ASSUME NEW k \in Component PROVE Lead(owners[k], pointers'[k])
      <3>1. Lead(owners[k], pointers[k])
        BY <2>1 DEF FrameInv, PointersInv, Component
      <3>2. Lead(owners[k], {PointerTo(Adventurer, owners[k])})
        BY <1>1, TakenLeads
      <3>3. pointers'[k] = pointers[k] \union {PointerTo(Adventurer, owners[k])}
        BY <2>4
      <3> QED
        BY <3>1, <3>2, <3>3 DEF Lead
    <2> QED
      BY <1>1, <1>2, <2>5, <2>6 DEF PointersInv
  <1> QED
    BY <1>3, <1>4

(* The door is opened: what has a pointer stays, but for the last element. *)
LEMMA OpenedPointers == ASSUME FrameInv, entity_open_door PROVE PointersInv'
  <1>1. /\ "body" \in Component /\ "collider" \in Component
        /\ owners \in [Component -> Array] /\ owners["collider"] \in Array
        /\ pointers \in [Component -> SUBSET [of : {Player, Adventurer}, at : Nat]]
        /\ Door \notin {Player, Adventurer}
    BY PointersAssumption DEF FrameInv, IInv, PointersInv, Component
  <1>2. /\ step = "adventurer" /\ step' = "opened" /\ pointers' = pointers
        /\ owners'["collider"] = IF Has("collider", Door) THEN Removed(owners["collider"], Door)
                                 ELSE owners["collider"]
    BY <1>1 DEF entity_open_door
  <1>3. Lead(owners["collider"], pointers["collider"])
    BY <1>2 DEF FrameInv, PointersInv
  <1>4. ASSUME NEW p \in pointers["collider"]
        PROVE  \/ owners'["collider"][p.at] = p.of
               \/ p.at = Len(owners'["collider"]) /\ owners'["collider"][p.at] = None
    <2>1. p.of # Door /\ p.at \in DOMAIN owners["collider"] /\ owners["collider"][p.at] = p.of
      BY <1>1, <1>3 DEF Lead
    <2>2. CASE Has("collider", Door)
      <3> DEFINE array == owners["collider"]
                 d == position(array, Door)
                 b == Removed(array, Door)
      <3>1. d \in DOMAIN array /\ array[d] = Door
        BY <1>1, <2>2, PositionOf DEF Has
      <3>2. /\ DOMAIN b = DOMAIN array /\ Len(b) = Len(array) /\ Len(array) \in DOMAIN array
            /\ \A i \in DOMAIN array :
                 b[i] = IF i = Len(array) THEN None ELSE IF i = d THEN array[Len(array)] ELSE array[i]
        BY <1>1, <3>1 DEF Removed, Array
      <3>3. p.at # d
        BY <2>1, <3>1
      <3> QED
        BY <1>2, <2>1, <2>2, <3>2, <3>3
    <2>3. CASE ~Has("collider", Door)
      BY <1>2, <2>1, <2>3
    <2> QED
      BY <2>2, <2>3
  <1>5. Next /\ step # "outside" /\ step' # "outside"
    BY <1>2 DEF Next
  <1> QED
    BY <1>2, <1>4, <1>5, KeptPointers DEF PointersInv, PointsToOwn

LEMMA NextPointers == FrameInv /\ [Next]_vars => PointersInv'
  <1> SUFFICES ASSUME FrameInv, [Next]_vars PROVE PointersInv'
    OBVIOUS
  <1>1. CASE EnterLevel \/ EndFrame \/ HeartEnds \/ NextFrame \/ ExitLevel
    <2>1. pointers' = NoPointers
      BY <1>1 DEF EnterLevel, EndFrame, HeartEnds, NextFrame, ExitLevel, FrameInv, PointersInv
    <2> QED
      BY <2>1, NoPointersInv
  <1>2. CASE BeginFrame \/ player_update
    BY <1>2, TakenPointers
  <1>3. CASE update_timers
    <2>1. PICK m \in Messes : Create(m, Component)
      BY <1>3 DEF update_timers
    <2>2. step = "timers" /\ step' = step /\ pointers' = pointers
      BY <1>3 DEF update_timers
    <2>3. /\ owners'["collider"] = Append(owners["collider"], m) /\ owners["collider"] \in Array
          /\ m \in Thing
      BY <2>1 DEF Create, FrameInv, IInv, Component, Thing, Transient
    <2>4. Lead(owners["collider"], pointers["collider"])
      BY <2>2 DEF FrameInv, PointersInv
    <2>5. Lead(owners'["collider"], pointers'["collider"])
      BY <2>2, <2>3, <2>4 DEF Lead, Array
    <2>6. Next
      BY <1>3 DEF Next
    <2> QED
      BY <2>2, <2>5, <2>6, KeptPointers DEF PointersInv
  <1>4. CASE entity_open_door
    BY <1>4, OpenedPointers
  <1>5. CASE entity_close_door \/ BeginFight \/ FinishLoot \/ FinishAttack \/ CreateMess
             \/ AdventurerEnds \/ LookAround \/ Pet \/ entity_clean \/ InteractionEnds
    <2>1. /\ step \in {"adventurer", "opened", "adventured", "interaction", "interacting"}
          /\ step' \in {"adventured", "interaction", "interacting", "draw"} /\ pointers' = pointers
      <3>1. CASE entity_close_door \/ BeginFight \/ FinishLoot \/ FinishAttack
        BY <3>1, Zenon DEF entity_close_door, BeginFight, FinishLoot, FinishAttack
      <3>2. CASE CreateMess \/ AdventurerEnds
        BY <3>2 DEF CreateMess, AdventurerEnds, check_update_components
      <3>3. CASE LookAround \/ Pet \/ entity_clean \/ InteractionEnds
        BY <3>3 DEF LookAround, Pet, entity_clean, InteractionEnds, check_update_components
      <3> QED
        BY <1>5, <3>1, <3>2, <3>3
    <2>2. Next
      BY <1>5 DEF Next
    <2> QED
      BY <2>1, <2>2, KeptPointers DEF PointersInv
  <1>6. CASE UNCHANGED vars
    BY <1>6 DEF vars, FrameInv, PointersInv, Lead, PointsToOwn, NoPointers
  <1> QED
    BY <1>1, <1>2, <1>3, <1>4, <1>5, <1>6 DEF Next

LEMMA NextFrameInv == FrameInv /\ [Next]_vars => FrameInv'
  <1> SUFFICES ASSUME FrameInv, [Next]_vars PROVE ArraysInv' /\ SlicesInv'
    BY NextIInv, NextMessesDue, NextPointers DEF FrameInv
  <1>1. IInv /\ IInv' /\ ArraysInv /\ SlicesInv /\ MessesDue
    BY NextIInv DEF FrameInv
  <1>2. /\ Component \in SUBSET Component /\ {"body"} \in SUBSET Component
        /\ "body" \in Component /\ "collider" \notin {"body"}
        /\ Cloud \in Transient /\ Hearts \subseteq Transient /\ Messes \subseteq Transient
    BY DEF Component, Transient
  <1>3. CASE EnterLevel
    BY <1>1, <1>3, EnterArrays DEF EnterLevel, SlicesInv, NotDue
  <1>4. CASE BeginFrame
    <2>1. slices' = Fetched' /\ owners' = owners /\ step' = "timers" /\ step = "frame"
          /\ recompute_colliders' = recompute_colliders
      BY <1>4 DEF BeginFrame, Fetched
    <2> QED
      BY <1>1, <2>1, KeptArrays DEF SlicesInv, NotDue
  <1>5. CASE update_timers
    BY <1>1, <1>2, <1>5, CreateArrays DEF update_timers, SlicesInv, NotDue
  <1>6. CASE player_update
    <2>1. /\ owners' = owners /\ step = "timers" /\ step' = "adventurer"
          /\ recompute_colliders' = recompute_colliders
          /\ slices' = IF recompute_colliders THEN Fetched ELSE slices
      BY <1>6 DEF player_update, check_update_components
    <2>2. slices' = Fetched'
      BY <1>1, <2>1 DEF SlicesInv, Fetched
    <2> QED
      BY <1>1, <2>1, <2>2, KeptArrays DEF SlicesInv, NotDue
  <1>7. CASE entity_open_door
    <2>1. step' = "opened"
      BY <1>7 DEF entity_open_door
    <2> QED
      BY <1>7, <2>1, DoorArrays DEF SlicesInv, NotDue
  <1>8. CASE entity_close_door
    <2>1. step' = "adventured"
      BY <1>8, Zenon DEF entity_close_door
    <2> QED
      BY <1>8, <2>1, DoorArrays DEF SlicesInv, NotDue
  <1>9. CASE BeginFight
    <2>1. /\ step = "adventurer" /\ step' = "adventured" /\ Create(Cloud, {"body"})
          /\ recompute_colliders' = recompute_colliders
      BY <1>9 DEF BeginFight
    <2>2. ArraysInv'
      BY <1>1, <1>2, <2>1, CreateArrays
    <2> QED
      BY <1>1, <1>9, <2>1, <2>2, FightFound DEF SlicesInv
  <1>10. CASE FinishLoot
    <2>1. /\ step = "adventurer" /\ step' = "adventured" /\ Delete(Cloud)
          /\ recompute_colliders' = recompute_colliders
      BY <1>10 DEF FinishLoot
    <2>2. ArraysInv'
      BY <1>1, <2>1, DeleteArrays
    <2> QED
      BY <1>1, <1>10, <2>1, <2>2, LootFound DEF SlicesInv
  <1>11. CASE FinishAttack
    <2>1. /\ step = "adventurer" /\ step' = "adventured" /\ Delete(Cloud)
          /\ recompute_colliders' = TRUE
      BY <1>11 DEF FinishAttack
    <2> QED
      BY <1>1, <2>1, DeleteArrays DEF SlicesInv, NotDue
  <1>12. CASE CreateMess
    <2>1. PICK m \in Messes : Create(m, Component)
      BY <1>12 DEF CreateMess
    <2>2. step = "adventured" /\ step' = step /\ recompute_colliders' = TRUE
      BY <1>1, <1>12 DEF CreateMess, MessesDue, SlicesInv
    <2>3. ArraysInv'
      BY <1>1, <1>2, <2>1, <2>2, CreateArrays
    <2> QED
      BY <2>2, <2>3 DEF SlicesInv, NotDue
  <1>13. CASE AdventurerEnds
    <2>1. /\ step \in {"adventurer", "opened", "adventured"} /\ step' = "interaction"
          /\ check_update_components(step')
          /\ UNCHANGED <<owners, recompute_colliders>>
      BY <1>13 DEF AdventurerEnds, check_update_components
    <2>2. recompute_colliders \/ (CollidersFetched /\ BodiesFound)
      BY <1>1, <2>1, FetchedFound DEF SlicesInv, NotDue, AllFetched
    <2>3. ArraysInv'
      BY <2>1, KeptArrays
    <2> QED
      BY <1>1, <2>1, <2>2, <2>3, CheckedFound DEF SlicesInv, NotDue
  <1>14. CASE LookAround
    <2>1. /\ step = "interaction" /\ step' = "interacting"
          /\ UNCHANGED <<owners, slices, recompute_colliders>>
      BY <1>14 DEF LookAround
    <2> QED
      BY <1>1, <2>1, KeptArrays DEF SlicesInv, NotDue, CollidersFetched
  <1>15. CASE Pet
    <2>1. PICK h \in Hearts : Create(h, {"body"})
      BY <1>15 DEF Pet
    <2>2. step = "interacting" /\ step' = step /\ recompute_colliders' = recompute_colliders
      BY <1>15 DEF Pet
    <2> QED
      BY <1>1, <1>2, <2>1, <2>2, CreateArrays DEF SlicesInv, NotDue, CollidersFetched
  <1>16. CASE entity_clean
    <2>1. /\ step = "interacting" /\ step' = step /\ recompute_colliders' = TRUE
          /\ UNCHANGED <<owners, slices>>
      BY <1>16 DEF entity_clean
    <2> QED
      BY <1>1, <2>1, KeptArrays DEF SlicesInv, NotDue, CollidersFetched
  <1>17. CASE InteractionEnds
    <2>1. /\ step = "interacting" /\ step' = "draw"
          /\ slices' = IF recompute_colliders THEN Fetched ELSE slices
          /\ UNCHANGED <<owners, recompute_colliders>>
      BY <1>17 DEF InteractionEnds, check_update_components
    <2>2. CollidersFetched
      BY <1>1, <2>1 DEF SlicesInv
    <2>3. CollidersFetched'
      BY <2>1, <2>2 DEF CollidersFetched, Fetched, Component
    <2> QED
      BY <1>1, <2>1, <2>3, KeptArrays DEF SlicesInv, NotDue
  <1>18. CASE EndFrame
    <2>1. /\ step = "draw" /\ step' = "animate" /\ recompute_colliders' = FALSE
          /\ owners' = owners
      BY <1>18 DEF EndFrame
    <2> QED
      BY <2>1, KeptArrays DEF SlicesInv, NotDue
  <1>19. CASE HeartEnds
    <2>1. PICK h \in Hearts : Delete(h)
      BY <1>19 DEF HeartEnds
    <2>2. step = "animate" /\ step' = step /\ recompute_colliders' = recompute_colliders
      BY <1>19 DEF HeartEnds
    <2> QED
      BY <1>1, <2>1, <2>2, DeleteArrays DEF SlicesInv, NotDue
  <1>20. CASE NextFrame
    <2>1. /\ step = "animate" /\ step' = "frame"
          /\ UNCHANGED <<owners, recompute_colliders>>
      BY <1>20 DEF NextFrame
    <2> QED
      BY <1>1, <2>1, KeptArrays DEF SlicesInv, NotDue
  <1>21. CASE ExitLevel
    <2>1. /\ owners'["body"] = <<>> /\ owners'["collider"] = <<>>
          /\ step' = "outside" /\ recompute_colliders' = FALSE
      BY <1>21 DEF ExitLevel, Component
    <2>2. Owned(<<>>) = {} /\ NoDuplicate(<<>>)
      BY DEF Owned, NoDuplicate
    <2> QED
      BY <2>1, <2>2 DEF ArraysInv, SlicesInv, NotDue
  <1>22. CASE UNCHANGED vars
    BY <1>1, <1>22
    DEF vars, ArraysInv, SlicesInv, NotDue, CollidersFetched, BodiesFound, Found, Fetched
  <1> QED
    BY <1>3, <1>4, <1>5, <1>6, <1>7, <1>8, <1>9, <1>10, <1>11, <1>12, <1>13, <1>14, <1>15,
       <1>16, <1>17, <1>18, <1>19, <1>20, <1>21, <1>22 DEF Next

(* What each part of a frame may rely on: whoever has a collider has a     *)
(* body, and either the flag is up or nothing it looks at has moved.       *)
THEOREM FlagTellsChanges == Spec => []FrameInv
  BY InitFrameInv, NextFrameInv, PTL DEF Spec

(* For any levels and any number of messes and hearts: the slices and maps *)
(* a part of a frame reads are those of that moment, and its pointers lead *)
(* to the player's and the adventurer's own components, but for the        *)
(* adventurer's collider after the opening of the last door: the pointer   *)
(* is right, or it was to the last element, where the door's box is left.  *)
THEOREM ReadsAreFresh == Spec => []ReadsFresh
  <1>1. FrameInv => SlicesFresh
    <2> SUFFICES ASSUME FrameInv PROVE SlicesFresh
      OBVIOUS
    <2>1. /\ "collider" \in Component /\ owners["collider"] \in Array
          /\ IInv /\ ArraysInv /\ SlicesInv
      BY DEF FrameInv, IInv, Component
    <2>2. ASSUME step \in {"adventurer", "opened", "interaction", "draw"} PROVE Fresh("collider")
      <3>1. CollidersFetched
        BY <2>1, <2>2, FetchedFound DEF SlicesInv, AllFetched
      <3>2. slices["collider"].map = Shared /\ slices["collider"].len = Len(owners["collider"])
        BY <3>1 DEF CollidersFetched
      <3>3. \A i \in DOMAIN owners["collider"] : i <= Len(owners["collider"])
        BY <2>1 DEF Array
      <3> QED
        BY <3>2, <3>3 DEF Fresh, Found
    <2>3. ASSUME step \in {"adventurer", "interaction"} PROVE BodiesFound
      BY <2>1, <2>3, FetchedFound DEF SlicesInv, AllFetched
    <2> QED
      BY <2>2, <2>3 DEF SlicesFresh, BodiesFound
  <1>2. FrameInv => PointersKept
    BY DEF FrameInv, PointersInv, Lead, PointersKept, PointsToOwn
  <1>3. FrameInv => ReadsFresh
    BY <1>1, <1>2 DEF ReadsFresh
  <1> QED
    BY <1>3, FlagTellsChanges, PTL
=============================================================================
