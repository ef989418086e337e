------------------------ MODULE RoomTransitionProofs ------------------------
(* Theorems about the rooms, for any rooms and doors, any number of slots  *)
(* and any ticks.                                                          *)
EXTENDS RoomTransition, TLAPS

Types ==
  /\ animations \in [Pool!Slot -> Pool!Animation]
  /\ queues = [q \in Pool!Queue |-> <<>>]
  /\ curves \in [Pool!Slot -> (Rooms \union {OnTheWay}) \X (Rooms \union {OnTheWay})]
  /\ room_transition \in Pool!Slot \union {Pool!NoSlot}
  /\ current_room_index \in Rooms
  /\ camera \in Rooms \union {OnTheWay}

(* Only the last transition may still move the camera; its animation is    *)
(* never stopped, not even at its end.                                     *)
CurvesOfOne ==
  \A i \in Pool!Slot : curves[i] # NoCurve =>
    animations[i].used /\ (animations[i].active => i = room_transition)

LastTransition ==
  room_transition # Pool!NoSlot =>
    /\ playing
    /\ animations[room_transition].used /\ animations[room_transition].active
    /\ curves[room_transition][2] \in Rooms
    /\ failure = "none" => curves[room_transition][2] = current_room_index

IInv == Types /\ CurvesOfOne /\ LastTransition /\ CameraAtCurrentRoom

-----------------------------------------------------------------------------
LEMMA NoSlotIsNone == Pool!NoSlot \notin Pool!Slot
  BY DEF Pool!NoSlot, Pool!Slot

LEMMA NewType ==
  ASSUME NEW kind \in Pool!Kind
  PROVE  Pool!New(kind) \in Pool!Animation
  BY PoolAssumption DEF Pool!New, Pool!Animation, Pool!Kind, Pool!NoEvent

LEMMA TransitionType ==
  /\ Pool!New(TransitionKind) \in Pool!Animation
  /\ Pool!New(TransitionKind).used /\ Pool!New(TransitionKind).active
  /\ Pool!New(TransitionKind).t = 0
  <1>1. TransitionKind \in Pool!Kind
    BY PoolAssumption DEF TransitionKind, Pool!Kind, Pool!NoEvent
  <1> QED
    BY <1>1, NewType DEF Pool!New, TransitionKind

(* A pass over the pool stops and starts nothing, as nobody queues.        *)
LEMMA PoolUpdates ==
  ASSUME Types, Pool!Update
  PROVE  /\ UNCHANGED <<queues, failure>>
         /\ animations' \in [Pool!Slot -> Pool!Animation]
         /\ \A i \in Pool!Slot : animations'[i].used = animations[i].used
                                 /\ animations'[i].active = animations[i].active
  <1>1. PICK tick \in Ticks : Pool!animation_update(tick)
    BY DEF Pool!Update
  <1> DEFINE moved == [i \in Pool!Slot |-> Pool!Advance(animations[i], tick)]
  <1>2. Pool!Visited = {}
    <2>1. ASSUME NEW q \in Pool!Queue PROVE q \in 0 .. q /\ queues[q] = <<>>
      BY PoolAssumption DEF Types, Pool!Queue
    <2> QED
      BY <2>1 DEF Pool!Visited
  <1>3. ~Pool!PopsEmpty(moved) /\ Pool!Started(moved) = {} /\ Pool!Stopped(moved) = {}
    BY <1>2 DEF Pool!PopsEmpty, Pool!Started, Pool!Stopped, Pool!Fronts
  <1>4. /\ animations' = [i \in Pool!Slot |->
             [moved[i] EXCEPT !.active = (moved[i].active \/ i \in Pool!Started(moved))
                                           /\ i \notin Pool!Stopped(moved)]]
        /\ queues' = [q \in Pool!Queue |-> Pool!AfterVisit(q, moved)]
        /\ UNCHANGED failure
    BY <1>1, <1>3 DEF Pool!animation_update
  <1>5. queues' = queues
    BY <1>2, <1>4 DEF Pool!AfterVisit, Types
  <1>6. ASSUME NEW i \in Pool!Slot
        PROVE  /\ animations'[i] \in Pool!Animation
               /\ animations'[i].used = animations[i].used
               /\ animations'[i].active = animations[i].active
    <2> DEFINE a == animations[i]
               next_t == Pool!NextTime(a, tick)
               sent == a.sent \/ next_t >= a.event
               b == Pool!Advance(a, tick)
    <2>1. a \in Pool!Animation
      BY DEF Types
    <2>2. next_t \in 0 .. One /\ sent \in BOOLEAN
      BY <2>1, PoolAssumption DEF Pool!NextTime, Pool!Animation
    <2>3. b = IF a.active THEN [a EXCEPT !.t = next_t, !.sent = sent] ELSE a
      BY DEF Pool!Advance
    <2>4. b \in Pool!Animation /\ b.used = a.used /\ b.active = a.active
      <3> HIDE DEF a, next_t, sent, b
      <3> QED
        BY <2>1, <2>2, <2>3 DEF Pool!Animation
    <2>5. animations'[i] = [b EXCEPT !.active = b.active]
      <3>1. (b.active \/ i \in Pool!Started(moved)) /\ i \notin Pool!Stopped(moved) <=> b.active
        BY <1>3
      <3>2. b.active \in BOOLEAN
        BY <2>4 DEF Pool!Animation
      <3>3. ((b.active \/ i \in Pool!Started(moved)) /\ i \notin Pool!Stopped(moved)) = b.active
        BY <3>1, <3>2
      <3> QED
        BY <1>4, <3>3
    <2> HIDE DEF a, b
    <2>6. animations'[i] \in Pool!Animation /\ animations'[i].used = b.used /\ animations'[i].active = b.active
      BY <2>4, <2>5 DEF Pool!Animation
    <2> QED
      BY <2>4, <2>6 DEF a
  <1>7. animations' \in [Pool!Slot -> Pool!Animation]
    BY <1>4, <1>6
  <1> QED
    BY <1>4, <1>5, <1>6, <1>7

-----------------------------------------------------------------------------
LEMMA InitIInv == Init => IInv
  <1> SUFFICES ASSUME Init PROVE IInv
    OBVIOUS
  <1>1. Pool!Zero \in Pool!Animation
    BY PoolAssumption DEF Pool!Zero, Pool!Animation, Pool!NoEvent
  <1>2. Types
    BY <1>1 DEF Init, Pool!Init, Types, NoCurve
  <1>3. CurvesOfOne /\ LastTransition /\ CameraAtCurrentRoom
    BY DEF Init, CurvesOfOne, LastTransition, CameraAtCurrentRoom, NoCurve
  <1> QED
    BY <1>2, <1>3 DEF IInv, Init

LEMMA LeaveIInv == IInv /\ LeaveRoom => IInv'
  <1> SUFFICES ASSUME IInv, LeaveRoom PROVE IInv'
    OBVIOUS
  <1> USE DEF IInv, LeaveRoom
  <1>1. PICK direction \in Direction : make_room_transition(direction)
    OBVIOUS
  <1>2. current_room_index' \in Rooms
    BY <1>1, RoomAssumption DEF make_room_transition, Types
  <1>3. CASE Pool!NoSlotAvailable /\ UNCHANGED <<curves, room_transition>>
    <2>1. UNCHANGED <<animations, queues, curves, room_transition, camera, playing>> /\ failure' # "none"
      BY <1>3 DEF Pool!NoSlotAvailable
    <2> QED
      BY <1>1, <1>2, <2>1 DEF Types, CurvesOfOne, LastTransition, CameraAtCurrentRoom
  <1>4. ASSUME NEW i \in Pool!Slot, Pool!available_index(i), animations' = Replaced(i),
               curves' = [curves EXCEPT ![i] = <<camera, current_room_index'>>], room_transition' = i,
               UNCHANGED <<queues, failure>>
        PROVE  IInv'
    <2>1. ~animations[i].used /\ curves[i] = NoCurve /\ i # room_transition
      BY <1>4, NoSlotIsNone DEF Pool!available_index, CurvesOfOne, LastTransition
    <2>2. ASSUME NEW j \in Pool!Slot, j # i
          PROVE  /\ animations'[j] \in Pool!Animation
                 /\ animations'[j].used = animations[j].used
                 /\ animations'[j].active => animations[j].active /\ j # room_transition
      BY <1>4, <2>2 DEF Replaced, Types, Pool!Animation
    <2>3. animations'[i] = Pool!New(TransitionKind)
      BY <1>4 DEF Replaced
    <2>4. Types'
      <3>1. animations' \in [Pool!Slot -> Pool!Animation]
        BY <1>4, <2>2, <2>3, TransitionType DEF Replaced
      <3> QED
        BY <1>2, <1>4, <3>1 DEF Types
    <2>5. CurvesOfOne'
      BY <1>4, <2>2, <2>3, TransitionType DEF CurvesOfOne, NoCurve, Types
    <2>6. LastTransition'
      BY <1>2, <1>4, <2>3, TransitionType DEF LastTransition, Types
    <2>7. is_room_transitioning'
      BY <1>4, <2>3, TransitionType, NoSlotIsNone, PoolAssumption
      DEF is_room_transitioning, Pool!animation_is_done
    <2> QED
      BY <1>1, <1>2, <2>4, <2>5, <2>6, <2>7 DEF CameraAtCurrentRoom
  <1> QED
    BY <1>1, <1>3, <1>4 DEF make_room_transition

LEMMA StayIInv == IInv /\ StayInRoom => IInv'
  BY DEF IInv, StayInRoom, roomVars, Types, CurvesOfOne, LastTransition, CameraAtCurrentRoom,
         is_room_transitioning, Pool!animation_is_done

LEMMA OtherIInv == IInv /\ CreateOther => IInv'
  <1> SUFFICES ASSUME IInv, CreateOther PROVE IInv'
    OBVIOUS
  <1> USE DEF IInv, CreateOther, roomVars
  <1>1. CASE Pool!NoSlotAvailable
    BY <1>1 DEF Pool!NoSlotAvailable, Types, CurvesOfOne, LastTransition, CameraAtCurrentRoom
  <1>2. ASSUME NEW i \in Pool!Slot, NEW kind \in Kinds, Pool!animation_create_animation(i, kind)
        PROVE  IInv'
    <2>1. /\ animations' = [animations EXCEPT ![i] = Pool!New(kind)]
          /\ UNCHANGED <<queues, failure>> /\ ~animations[i].used
      BY <1>2 DEF Pool!animation_create_animation, Pool!available_index
    <2>2. i # room_transition /\ curves[i] = NoCurve
      BY <2>1, NoSlotIsNone DEF LastTransition, CurvesOfOne
    <2>3. Types'
      BY <2>1, NewType, PoolAssumption DEF Types
    <2>4. \A j \in Pool!Slot : j # i => animations'[j] = animations[j]
      BY <2>1 DEF Types
    <2>5. CurvesOfOne' /\ LastTransition' /\ CameraAtCurrentRoom'
      BY <2>1, <2>2, <2>4 DEF Types, CurvesOfOne, LastTransition, CameraAtCurrentRoom,
         is_room_transitioning, Pool!animation_is_done
    <2> QED
      BY <2>3, <2>5
  <1> QED
    BY <1>1, <1>2

LEMMA ExitIInv == IInv /\ PlayExit => IInv'
  <1> SUFFICES ASSUME IInv, PlayExit PROVE IInv'
    OBVIOUS
  <1>1. Pool!Zero \in Pool!Animation
    BY PoolAssumption DEF Pool!Zero, Pool!Animation, Pool!NoEvent
  <1> QED
    BY <1>1 DEF IInv, PlayExit, Pool!animation_reset_memory, Types, CurvesOfOne, LastTransition,
                CameraAtCurrentRoom, NoCurve

LEMMA EnterIInv == IInv /\ PlayEnter => IInv'
  BY DEF IInv, PlayEnter, Types, CurvesOfOne, LastTransition, CameraAtCurrentRoom

LEMMA AnimateIInv == IInv /\ Animate => IInv'
  <1> SUFFICES ASSUME IInv, Animate PROVE IInv'
    OBVIOUS
  <1> USE DEF IInv, Animate, roomVars
  <1>1. /\ UNCHANGED <<queues, failure>>
        /\ animations' \in [Pool!Slot -> Pool!Animation]
        /\ \A i \in Pool!Slot : animations'[i].used = animations[i].used
                                /\ animations'[i].active = animations[i].active
    BY PoolUpdates
  <1>2. CurvesOfOne' /\ LastTransition'
    BY <1>1 DEF CurvesOfOne, LastTransition, Types
  <1>3. CASE room_transition = Pool!NoSlot
    <2>1. Moved = {}
      BY <1>3, NoSlotIsNone DEF Moved, CurvesOfOne
    <2> QED
      BY <1>1, <1>2, <1>3, <2>1 DEF Types, CameraAtCurrentRoom, is_room_transitioning
  <1>4. CASE room_transition # Pool!NoSlot
    <2>1. room_transition \in Pool!Slot /\ curves[room_transition] # NoCurve
      BY <1>4, RoomAssumption DEF Types, LastTransition, NoCurve
    <2>2. Moved = {room_transition}
      BY <1>4, <2>1 DEF Moved, CurvesOfOne, LastTransition
    <2>3. camera' = CameraAt(room_transition, animations'[room_transition].t)
      <3>1. room_transition <= room_transition
        BY <2>1, PoolAssumption DEF Pool!Slot
      <3> DEFINE last == CHOOSE i \in Moved : \A j \in Moved : j <= i
      <3>2. last = room_transition
        BY <2>2, <3>1
      <3> QED
        BY <2>2, <3>2
    <2>4. Types'
      BY <1>1, <2>1, <2>3 DEF Types, CameraAt
    <2>5. animations'[room_transition].t \in 0 .. One
      BY <1>1, <2>1 DEF Pool!Animation
    <2>6. ~is_room_transitioning' => animations'[room_transition].t = One
      BY <1>4, <2>5, PoolAssumption DEF is_room_transitioning, Pool!animation_is_done
    <2>7. CameraAtCurrentRoom'
      <3> SUFFICES ASSUME failure' = "none", ~is_room_transitioning' PROVE camera' = current_room_index'
        BY DEF CameraAtCurrentRoom
      <3>1. camera' = curves[room_transition][2]
        BY <2>3, <2>6 DEF CameraAt
      <3> QED
        BY <1>1, <1>4, <3>1 DEF LastTransition
    <2> QED
      BY <1>2, <2>4, <2>7
  <1> QED
    BY <1>3, <1>4

LEMMA StutterIInv == IInv /\ UNCHANGED vars => IInv'
  BY DEF IInv, vars, Types, CurvesOfOne, LastTransition, CameraAtCurrentRoom, is_room_transitioning,
         Pool!animation_is_done

-----------------------------------------------------------------------------
(* The last transition is the only one that moves the camera               *)
(* (make_room_transition).                                                 *)
THEOREM InductiveInvariant == Spec => []IInv
  <1>1. IInv /\ [Next]_vars => IInv'
    BY LeaveIInv, StayIInv, OtherIInv, ExitIInv, EnterIInv, AnimateIInv, StutterIInv DEF Next
  <1> QED
    BY <1>1, InitIInv, PTL DEF Spec

(* Whenever the player may move, the camera stands at the current room,    *)
(* wherever the player is and however many transitions, levels and other   *)
(* animations there have been (make_room_transition).                      *)
THEOREM CameraArrives == Spec => []CameraAtCurrentRoom
  <1>1. IInv => CameraAtCurrentRoom
    BY DEF IInv
  <1> QED
    BY <1>1, InductiveInvariant, PTL

(* The pointer to the last transition names an animation of the pool       *)
(* (is_room_transitioning).                                                *)
THEOREM TransitionKnown == Spec => []TransitionIsInPool
  <1>1. IInv => TransitionIsInPool
    BY DEF IInv, LastTransition, TransitionIsInPool
  <1> QED
    BY <1>1, InductiveInvariant, PTL
=============================================================================
