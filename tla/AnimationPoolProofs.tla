------------------------ MODULE AnimationPoolProofs ------------------------
(* Theorems about AnimationPool, for any number of slots and queues, any   *)
(* ticks and any kinds of animations.                                      *)
EXTENDS AnimationPool, SequenceTheorems, TLAPS

(* A new animation has the type of an animation.                           *)
LEMMA NewType == ASSUME NEW kind \in Kinds PROVE New(kind) \in Animation
  BY PoolAssumption DEF New, Animation, Kind, NoEvent

LEMMA ZeroType == Zero \in Animation
  BY PoolAssumption DEF Zero, Animation, NoEvent

(* Time stays between 0 and One, whatever the tick.                        *)
LEMMA NextTimeType ==
  ASSUME NEW a \in Animation, NEW tick \in Ticks
  PROVE  NextTime(a, tick) \in 0 .. One
  BY PoolAssumption DEF Animation, NextTime

(* An animation that has advanced is an animation, and once it is at its   *)
(* end it has called its event, if this already held before.               *)
LEMMA AdvanceType ==
  ASSUME NEW a \in Animation, NEW tick \in Ticks
  PROVE  Advance(a, tick) \in Animation
  <1>1. NextTime(a, tick) \in 0 .. One
    BY NextTimeType
  <1>2. (a.sent \/ NextTime(a, tick) >= a.event) \in BOOLEAN
    OBVIOUS
  <1> QED
    BY <1>1, <1>2 DEF Advance, Animation

LEMMA AdvanceSends ==
  ASSUME NEW a \in Animation, NEW tick \in Ticks,
         a.t >= One /\ a.event # NoEvent => a.sent
  PROVE  Advance(a, tick).t >= One /\ Advance(a, tick).event # NoEvent => Advance(a, tick).sent
  <1>1. CASE a.active
    <2>1. NextTime(a, tick) \in 0 .. One
      BY NextTimeType
    <2>2. a.event \in 0 .. NoEvent /\ One \in Nat
      BY PoolAssumption DEF Animation
    <2>3. /\ Advance(a, tick).t = NextTime(a, tick)
          /\ Advance(a, tick).event = a.event
          /\ NextTime(a, tick) >= a.event => Advance(a, tick).sent
      BY <1>1 DEF Advance, Animation
    <2> QED
      BY <2>1, <2>2, <2>3 DEF NoEvent
  <1>2. CASE ~a.active
    BY <1>2 DEF Advance
  <1> QED
    BY <1>1, <1>2

(* A visit keeps a queue a sequence of slots.                              *)
LEMMA AfterVisitType ==
  ASSUME TypeOK, NEW moved \in [Slot -> Animation], NEW q \in Queue, ~PopsEmpty(moved)
  PROVE  AfterVisit(q, moved) \in Seq(Slot)
  <1>1. CASE q \notin Visited
    BY <1>1 DEF AfterVisit, TypeOK
  <1>2. CASE q \in Visited
    <2>0. q \in 0 .. q
      BY PoolAssumption DEF Queue
    <2>1. queues[q] \in Seq(Slot) /\ queues[q] # <<>>
      BY <1>2, <2>0 DEF Visited, TypeOK
    <2>2. Front(q) \in Slot
      BY <2>1 DEF Front
    <2>3. AfterDone(q, moved) \in Seq(Slot)
      BY <2>1 DEF AfterDone
    <2>4. CASE moved[Front(q)].parallel
      <3>1. AfterDone(q, moved) # <<>>
        BY <1>2, <2>4 DEF PopsEmpty
      <3>2. Append(Tail(AfterDone(q, moved)), Front(q)) \in Seq(Slot)
        BY <2>2, <2>3, <3>1
      <3> QED
        BY <1>2, <2>4, <3>2 DEF AfterVisit
    <2> QED
      BY <1>2, <2>3, <2>4 DEF AfterVisit
  <1> QED
    BY <1>1, <1>2

-----------------------------------------------------------------------------
(* The invariant: types, and events called in time.                        *)
PoolInv == TypeOK /\ EndedMeansSent

LEMMA InitEstablishes == Init => PoolInv
  <1> SUFFICES ASSUME Init PROVE PoolInv
    OBVIOUS
  <1>1. TypeOK
    BY ZeroType DEF Init, TypeOK
  <1>2. EndedMeansSent
    BY PoolAssumption DEF Init, EndedMeansSent, animation_is_done, Zero
  <1> QED
    BY <1>1, <1>2 DEF PoolInv

LEMMA UpdatePreserves ==
  ASSUME PoolInv, NEW tick \in Ticks, animation_update(tick)
  PROVE  PoolInv'
  <1> DEFINE moved == [i \in Slot |-> Advance(animations[i], tick)]
  <1>1. moved \in [Slot -> Animation]
    BY AdvanceType DEF PoolInv, TypeOK
  <1>2. CASE PopsEmpty(moved)
    <2>1. UNCHANGED <<animations, queues>> /\ failure' = "pop_front of an empty queue"
      BY <1>2 DEF animation_update
    <2> QED
      BY <2>1 DEF PoolInv, TypeOK, EndedMeansSent, animation_is_done
  <1>3. CASE ~PopsEmpty(moved)
    <2> DEFINE now(i) == (moved[i].active \/ i \in Started(moved)) /\ i \notin Stopped(moved)
    <2>1. /\ animations' = [i \in Slot |-> [moved[i] EXCEPT !.active = now(i)]]
          /\ queues' = [q \in Queue |-> AfterVisit(q, moved)]
          /\ UNCHANGED failure
      BY <1>3 DEF animation_update
    <2>2. ASSUME NEW i \in Slot
          PROVE  /\ animations'[i] \in Animation
                 /\ animations'[i].t = moved[i].t
                 /\ animations'[i].event = moved[i].event
                 /\ animations'[i].sent = moved[i].sent
      <3>1. animations'[i] = [moved[i] EXCEPT !.active = now(i)]
        BY <2>1
      <3>2. moved[i] \in Animation /\ now(i) \in BOOLEAN
        BY <1>1
      <3> HIDE DEF moved, now
      <3> QED
        BY <3>1, <3>2 DEF Animation
    <2>3. animations' \in [Slot -> Animation]
      BY <2>1, <2>2
    <2>4. queues' \in [Queue -> Seq(Slot)]
      BY <1>1, <1>3, <2>1, AfterVisitType DEF PoolInv
    <2>5. TypeOK'
      BY <2>1, <2>3, <2>4 DEF PoolInv, TypeOK
    <2>6. EndedMeansSent'
      <3> SUFFICES ASSUME NEW i \in Slot,
                          animations'[i].t >= One, animations'[i].event # NoEvent
                   PROVE  animations'[i].sent
        BY DEF EndedMeansSent, animation_is_done
      <3>1. animations[i] \in Animation
        BY DEF PoolInv, TypeOK
      <3>2. animations[i].t >= One /\ animations[i].event # NoEvent => animations[i].sent
        BY DEF PoolInv, EndedMeansSent, animation_is_done
      <3>3. moved[i].t >= One /\ moved[i].event # NoEvent => moved[i].sent
        BY <3>1, <3>2, AdvanceSends
      <3> QED
        BY <2>2, <3>3
    <2> QED
      BY <2>5, <2>6 DEF PoolInv
  <1> QED
    BY <1>2, <1>3

LEMMA NextPreserves == PoolInv /\ [Next]_poolVars => PoolInv'
  <1> SUFFICES ASSUME PoolInv, [Next]_poolVars PROVE PoolInv'
    OBVIOUS
  <1> USE DEF PoolInv
  <1>1. ASSUME NEW i \in Slot, NEW kind \in Kinds, animation_create_animation(i, kind)
        PROVE  PoolInv'
    <2>1. animations' = [animations EXCEPT ![i] = New(kind)] /\ UNCHANGED <<queues, failure>>
      BY <1>1 DEF animation_create_animation
    <2>2. TypeOK'
      BY <2>1, NewType DEF TypeOK
    <2>3. ~(New(kind).t >= One)
      BY PoolAssumption DEF New
    <2>4. EndedMeansSent'
      BY <2>1, <2>3 DEF EndedMeansSent, animation_is_done, TypeOK
    <2> QED
      BY <2>2, <2>4
  <1>2. CASE NoSlotAvailable
    BY <1>2 DEF NoSlotAvailable, TypeOK, EndedMeansSent, animation_is_done
  <1>3. ASSUME NEW i \in Slot, animation_delete_animation(i) PROVE PoolInv'
    <2>1. animations' = [animations EXCEPT ![i] = [animations[i] EXCEPT !.active = FALSE]]
          /\ UNCHANGED <<queues, failure>>
      BY <1>3 DEF animation_delete_animation
    <2>2. animations[i] \in Animation
      BY DEF TypeOK
    <2>3. /\ [animations[i] EXCEPT !.active = FALSE] \in Animation
          /\ [animations[i] EXCEPT !.active = FALSE].t = animations[i].t
          /\ [animations[i] EXCEPT !.active = FALSE].event = animations[i].event
          /\ [animations[i] EXCEPT !.active = FALSE].sent = animations[i].sent
      BY <2>2 DEF Animation
    <2> QED
      BY <2>1, <2>3 DEF TypeOK, EndedMeansSent, animation_is_done
  <1>4. ASSUME NEW q \in Queue, NEW i \in Slot, animation_make_queue(q, i) PROVE PoolInv'
    BY <1>4 DEF animation_make_queue, TypeOK, EndedMeansSent, animation_is_done
  <1>5. ASSUME NEW q \in Queue, NEW i \in Slot, push_back(q, i) PROVE PoolInv'
    BY <1>5 DEF push_back, TypeOK, EndedMeansSent, animation_is_done
  <1>6. CASE animation_reset_memory
    <2>1. TypeOK'
      BY <1>6, ZeroType DEF animation_reset_memory, TypeOK
    <2>2. EndedMeansSent'
      BY <1>6, PoolAssumption DEF animation_reset_memory, EndedMeansSent, animation_is_done, Zero
    <2> QED
      BY <2>1, <2>2
  <1>7. CASE Update
    BY <1>7, UpdatePreserves DEF Update
  <1>8. CASE UNCHANGED poolVars
    BY <1>8 DEF poolVars, TypeOK, EndedMeansSent, animation_is_done
  <1> QED
    BY <1>1, <1>2, <1>3, <1>4, <1>5, <1>6, <1>7, <1>8 DEF Next

-----------------------------------------------------------------------------
(* The entries of the queues: a slot waits at one place, and it is used.   *)
Places == {p \in Queue \X (Nat \ {0}) : p[2] <= Len(queues[p[1]])}
At(p)  == queues[p[1]][p[2]]

OnePlace      == \A p, r \in Places : At(p) = At(r) => p = r
QueuedAreUsed == \A p \in Places : animations[At(p)].used

QueueInv == PoolInv /\ OnePlace /\ QueuedAreUsed /\ OneAfterTheOther

LEMMA PlaceInQueue ==
  ASSUME TypeOK, NEW q \in Queue, NEW n \in 1 .. Len(queues[q])
  PROVE  <<q, n>> \in Places /\ At(<<q, n>>) = queues[q][n] /\ queues[q][n] \in Slot
         /\ queues[q][n] \in Queued
  <1>1. queues[q] \in Seq(Slot)
    BY DEF TypeOK
  <1>2. Len(queues[q]) \in Nat /\ queues[q][n] \in Slot
    BY <1>1, LenProperties, ElementOfSeq
  <1> QED
    BY <1>1, <1>2 DEF Places, At, Queued, Entries

LEMMA PlaceType ==
  ASSUME TypeOK, NEW p \in Places
  PROVE  p[1] \in Queue /\ p[2] \in 1 .. Len(queues[p[1]]) /\ p = <<p[1], p[2]>> /\ At(p) \in Slot
  <1>1. p[1] \in Queue /\ queues[p[1]] \in Seq(Slot)
    BY DEF TypeOK, Places
  <1> QED
    BY <1>1 DEF Places, At

(* Where the entry at place n of queue q was before the visit.             *)
Before(q, moved, n) ==
  IF q \notin Visited THEN n
  ELSE IF moved[Front(q)].parallel
       THEN IF n = Len(AfterVisit(q, moved)) THEN 1
            ELSE IF FrontDone(q, moved) THEN n + 2 ELSE n + 1
       ELSE IF FrontDone(q, moved) THEN n + 1 ELSE n

(* A visit moves entries, it makes none: each comes from a place of its    *)
(* own, and behind the front there is no former front but a parallel one.  *)
LEMMA VisitMoves ==
  ASSUME TypeOK, NEW moved \in [Slot -> Animation], NEW q \in Queue, ~PopsEmpty(moved),
         NEW n \in 1 .. Len(AfterVisit(q, moved))
  PROVE  /\ Before(q, moved, n) \in 1 .. Len(queues[q])
         /\ AfterVisit(q, moved)[n] = queues[q][Before(q, moved, n)]
         /\ \A m \in 1 .. Len(AfterVisit(q, moved)) :
              Before(q, moved, m) = Before(q, moved, n) => m = n
         /\ n >= 2 =>
              \/ Before(q, moved, n) >= 2
              \/ q \in Visited /\ moved[Front(q)].parallel
  <1> DEFINE s == queues[q]
             v == AfterVisit(q, moved)
             d == AfterDone(q, moved)
  <1>1. s \in Seq(Slot)
    BY DEF TypeOK
  <1>2. CASE q \notin Visited
    BY <1>1, <1>2 DEF Before, AfterVisit
  <1>3. CASE q \in Visited
    <2>0. q \in 0 .. q
      BY PoolAssumption DEF Queue
    <2>1. s # <<>> /\ Front(q) = s[1] /\ Len(s) >= 1
      BY <1>1, <1>3, <2>0 DEF Visited, Front
    <2>2. CASE ~moved[Front(q)].parallel /\ ~FrontDone(q, moved)
      BY <1>1, <1>3, <2>2 DEF Before, AfterVisit, AfterDone
    <2>3. CASE ~moved[Front(q)].parallel /\ FrontDone(q, moved)
      <3>1. v = Tail(s)
        BY <1>3, <2>3 DEF AfterVisit, AfterDone
      <3>2. Len(v) = Len(s) - 1 /\ \A k \in 1 .. Len(v) : v[k] = s[k + 1]
        BY <1>1, <2>1, <3>1
      <3> QED
        BY <1>1, <1>3, <2>3, <3>2 DEF Before
    <2>4. CASE moved[Front(q)].parallel
      <3> DEFINE k == IF FrontDone(q, moved) THEN 2 ELSE 1
      <3>1. d # <<>> /\ d \in Seq(Slot)
        BY <1>1, <1>3, <2>1, <2>4 DEF PopsEmpty, AfterDone
      <3>2. v = Append(Tail(d), Front(q))
        BY <1>3, <2>4 DEF AfterVisit
      <3>3. Len(d) = Len(s) - (k - 1) /\ \A m \in 1 .. Len(d) : d[m] = s[m + k - 1]
        BY <1>1, <2>1 DEF AfterDone
      <3>4. Len(d) >= 1 /\ Tail(d) \in Seq(Slot) /\ Len(Tail(d)) = Len(d) - 1
            /\ \A m \in 1 .. Len(Tail(d)) : Tail(d)[m] = d[m + 1]
        BY <3>1
      <3>5. Len(v) = Len(d) /\ v[Len(v)] = s[1] /\ \A m \in 1 .. Len(v) - 1 : v[m] = d[m + 1]
        BY <2>1, <3>2, <3>4
      <3>6. \A m \in 1 .. Len(v) : Before(q, moved, m) = IF m = Len(v) THEN 1 ELSE m + k
        BY <1>3, <2>4 DEF Before
      <3>7. Len(s) \in Nat /\ Len(d) \in Nat
        BY <1>1, <3>1
      <3>8. n \in 1 .. Len(v) /\ k \in {1, 2}
        OBVIOUS
      <3> HIDE DEF s, v, d, k
      <3>9. Before(q, moved, n) \in 1 .. Len(s) /\ v[n] = s[Before(q, moved, n)]
        BY <3>3, <3>5, <3>6, <3>7, <3>8, <2>1
      <3>10. \A m \in 1 .. Len(v) : Before(q, moved, m) = Before(q, moved, n) => m = n
        <4>1. Len(v) \in Nat
          BY <3>5, <3>7
        <4>2. ASSUME NEW m \in 1 .. Len(v), (IF m = Len(v) THEN 1 ELSE m + k) = (IF n = Len(v) THEN 1 ELSE n + k)
              PROVE  m = n
          BY <3>8, <4>1, <4>2
        <4> QED
          BY <3>6, <3>8, <4>2
      <3> QED
        BY <1>3, <2>4, <3>9, <3>10 DEF s, v
    <2> QED
      BY <2>2, <2>3, <2>4
  <1> QED
    BY <1>2, <1>3

(* A step that changes no queue, and no queued animation but to stop it.   *)
LEMMA QueuesKept ==
  ASSUME QueueInv, UNCHANGED queues,
         \A p \in Places : /\ animations'[At(p)].used = animations[At(p)].used
                           /\ animations'[At(p)].parallel = animations[At(p)].parallel
                           /\ animations'[At(p)].active => animations[At(p)].active
  PROVE  OnePlace' /\ QueuedAreUsed' /\ OneAfterTheOther'
  <1>1. Places' = Places /\ \A p \in Places : At(p)' = At(p)
    BY DEF Places, At
  <1>2. OnePlace' /\ QueuedAreUsed'
    BY <1>1 DEF QueueInv, OnePlace, QueuedAreUsed
  <1>3. ASSUME NEW q \in Queue, NEW n \in 2 .. Len(queues[q]), animations'[queues[q][n]].active
        PROVE  animations'[queues[q][n]].parallel
    <2>1. n \in 1 .. Len(queues[q])
      <3>1. queues[q] \in Seq(Slot)
        BY DEF QueueInv, PoolInv, TypeOK
      <3> QED
        BY <3>1, LenProperties
    <2>2. <<q, n>> \in Places /\ At(<<q, n>>) = queues[q][n]
      BY <2>1, PlaceInQueue DEF QueueInv, PoolInv
    <2> QED
      BY <1>3, <2>2 DEF QueueInv, OneAfterTheOther
  <1> QED
    BY <1>2, <1>3 DEF OneAfterTheOther

(* An animation that is used, not active and in no queue is put at the end *)
(* of one.                                                                 *)
LEMMA Enqueue ==
  ASSUME QueueInv, NEW q \in Queue, NEW i \in Slot, Queueable(i),
         queues' = [queues EXCEPT ![q] = Append(queues[q], i)], UNCHANGED animations
  PROVE  OnePlace' /\ QueuedAreUsed' /\ OneAfterTheOther'
  <1>0. PICK last : last = <<q, Len(queues[q]) + 1>>
    OBVIOUS
  <1>1. queues[q] \in Seq(Slot) /\ queues \in [Queue -> Seq(Slot)] /\ Len(queues[q]) \in Nat
    <2>1. queues[q] \in Seq(Slot) /\ queues \in [Queue -> Seq(Slot)]
      BY DEF QueueInv, PoolInv, TypeOK
    <2> QED
      BY <2>1, LenProperties
  <1>2. queues'[q] = Append(queues[q], i) /\ \A r \in Queue \ {q} : queues'[r] = queues[r]
    BY <1>1
  <1>3. Len(queues'[q]) = Len(queues[q]) + 1
        /\ queues'[q][Len(queues[q]) + 1] = i
        /\ \A n \in 1 .. Len(queues[q]) : queues'[q][n] = queues[q][n]
    BY <1>1, <1>2
  <1>4. ASSUME NEW p \in Places', p # last
        PROVE  p \in Places /\ At(p)' = At(p)
    <2>1. p \in Queue \X (Nat \ {0}) /\ p[2] <= Len(queues'[p[1]])
      BY DEF Places
    <2>2. CASE p[1] = q
      <3>1. p[2] # Len(queues[q]) + 1 /\ p[2] \in Nat \ {0} /\ p[2] <= Len(queues[q]) + 1
        BY <1>0, <1>3, <1>4, <2>1, <2>2
      <3>2. p[2] \in 1 .. Len(queues[q])
        BY <1>1, <3>1
      <3> QED
        BY <1>3, <2>1, <2>2, <3>2 DEF Places, At
    <2>3. CASE p[1] # q
      BY <1>2, <2>1, <2>3 DEF Places, At
    <2> QED
      BY <2>2, <2>3
  <1>5. At(last)' = i
    BY <1>0, <1>3 DEF At
  <1>6. ASSUME NEW p \in Places PROVE At(p) # i /\ animations[At(p)].used
    <2>1. p[1] \in Queue /\ p[2] \in 1 .. Len(queues[p[1]]) /\ p = <<p[1], p[2]>>
      BY PlaceType DEF QueueInv, PoolInv
    <2>2. At(p) \in Queued
      BY <2>1 DEF Queued, Entries, At
    <2> QED
      BY <2>2 DEF Queueable, QueueInv, QueuedAreUsed
  <1>7. OnePlace'
    <2> SUFFICES ASSUME NEW p \in Places', NEW r \in Places', At(p)' = At(r)' PROVE p = r
      BY DEF OnePlace
    <2> QED
      BY <1>4, <1>5, <1>6 DEF QueueInv, OnePlace
  <1>8. QueuedAreUsed'
    <2> SUFFICES ASSUME NEW p \in Places' PROVE animations[At(p)'].used
      BY DEF QueuedAreUsed
    <2> QED
      BY <1>4, <1>5, <1>6 DEF Queueable
  <1>9. OneAfterTheOther'
    <2> SUFFICES ASSUME NEW r \in Queue, NEW n \in 2 .. Len(queues'[r]),
                        animations[queues'[r][n]].active
                 PROVE  animations[queues'[r][n]].parallel
      BY DEF OneAfterTheOther
    <2>1. CASE r # q
      BY <1>2, <2>1 DEF QueueInv, OneAfterTheOther
    <2>2. CASE r = q
      <3>1. n # Len(queues[q]) + 1
        BY <1>3, <2>2 DEF Queueable
      <3>2. n \in 2 .. Len(queues[q]) /\ n \in 1 .. Len(queues[q])
        BY <1>1, <1>3, <2>2, <3>1
      <3> QED
        BY <1>3, <2>2, <3>2 DEF QueueInv, OneAfterTheOther
    <2> QED
      BY <2>1, <2>2
  <1> QED
    BY <1>7, <1>8, <1>9

(* A pass of animation_update: what it starts is at the front of a queue.  *)
LEMMA UpdateKeepsOrder ==
  ASSUME QueueInv, NEW tick \in Ticks, animation_update(tick)
  PROVE  OnePlace' /\ QueuedAreUsed' /\ OneAfterTheOther'
  <1> DEFINE moved == [i \in Slot |-> Advance(animations[i], tick)]
             from(p) == <<p[1], Before(p[1], moved, p[2])>>
  <1>0. TypeOK
    BY DEF QueueInv, PoolInv
  <1>1. moved \in [Slot -> Animation]
    BY <1>0, AdvanceType DEF TypeOK
  <1>2. \A i \in Slot : /\ moved[i].used = animations[i].used
                        /\ moved[i].active = animations[i].active
                        /\ moved[i].parallel = animations[i].parallel
    BY <1>0 DEF Advance, TypeOK, Animation
  <1>3. CASE PopsEmpty(moved)
    <2>1. UNCHANGED <<animations, queues>>
      BY <1>3 DEF animation_update
    <2> QED
      BY <2>1, QueuesKept
  <1>4. CASE ~PopsEmpty(moved)
    <2> DEFINE now(i) == (moved[i].active \/ i \in Started(moved)) /\ i \notin Stopped(moved)
    <2>1. /\ animations' = [i \in Slot |-> [moved[i] EXCEPT !.active = now(i)]]
          /\ queues' = [q \in Queue |-> AfterVisit(q, moved)]
      BY <1>4 DEF animation_update
    <2>2. ASSUME NEW i \in Slot
          PROVE  /\ animations'[i].used = animations[i].used
                 /\ animations'[i].parallel = animations[i].parallel
                 /\ animations'[i].active => animations[i].active \/ i \in Fronts
      <3>1. animations'[i] = [moved[i] EXCEPT !.active = now(i)] /\ moved[i] \in Animation
        BY <1>1, <2>1
      <3>2. now(i) => moved[i].active \/ i \in Fronts
        BY DEF Started
      <3> HIDE DEF moved, now
      <3>3. animations'[i].used = moved[i].used /\ animations'[i].parallel = moved[i].parallel
            /\ animations'[i].active = now(i)
        BY <3>1 DEF Animation
      <3> QED
        BY <1>2, <3>2, <3>3
    <2> HIDE DEF moved
    <2>3. ASSUME NEW q \in Queue, NEW n \in 1 .. Len(queues'[q])
          PROVE  /\ <<q, Before(q, moved, n)>> \in Places
                 /\ queues'[q][n] = At(<<q, Before(q, moved, n)>>)
                 /\ queues'[q][n] \in Slot
      <3>1. Before(q, moved, n) \in 1 .. Len(queues[q])
            /\ queues'[q][n] = queues[q][Before(q, moved, n)]
        BY <1>0, <1>1, <1>4, <2>1, <2>3, VisitMoves
      <3> QED
        BY <1>0, <3>1, PlaceInQueue
    <2>4. ASSUME NEW p \in Places'
          PROVE  /\ p[1] \in Queue /\ p[2] \in 1 .. Len(queues'[p[1]]) /\ p = <<p[1], p[2]>>
                 /\ from(p) \in Places /\ At(p)' = At(from(p)) /\ At(p)' \in Slot
      <3>1. p[1] \in Queue /\ p[2] \in 1 .. Len(queues'[p[1]]) /\ p = <<p[1], p[2]>>
        <4>1. PoolInv'
          BY UpdatePreserves DEF QueueInv
        <4>2. queues'[p[1]] \in Seq(Slot) /\ p \in Queue \X (Nat \ {0}) /\ p[2] <= Len(queues'[p[1]])
          BY <4>1 DEF PoolInv, TypeOK, Places
        <4> QED
          BY <4>2
      <3> QED
        BY <2>3, <3>1 DEF At
    <2>5. OnePlace'
      <3> SUFFICES ASSUME NEW p \in Places', NEW r \in Places', At(p)' = At(r)' PROVE p = r
        BY DEF OnePlace
      <3>1. from(p) = from(r)
        <4>1. At(from(p)) = At(from(r)) /\ from(p) \in Places /\ from(r) \in Places
          BY <2>4
        <4> HIDE DEF from
        <4> QED
          BY <4>1 DEF QueueInv, OnePlace
      <3>2. p[1] = r[1] /\ Before(p[1], moved, p[2]) = Before(p[1], moved, r[2])
        BY <3>1
      <3>3. p[1] \in Queue /\ p[2] \in 1 .. Len(AfterVisit(p[1], moved))
            /\ r[2] \in 1 .. Len(AfterVisit(p[1], moved))
        BY <2>1, <2>4, <3>2
      <3>4. p[2] = r[2]
        BY <1>0, <1>1, <1>4, <3>2, <3>3, VisitMoves
      <3> QED
        BY <2>4, <3>2, <3>4
    <2>6. QueuedAreUsed'
      <3> SUFFICES ASSUME NEW p \in Places' PROVE animations'[At(p)'].used
        BY DEF QueuedAreUsed
      <3>1. animations[At(from(p))].used
        BY <2>4 DEF QueueInv, QueuedAreUsed
      <3> QED
        BY <2>2, <2>4, <3>1
    <2>7. OneAfterTheOther'
      <3> SUFFICES ASSUME NEW q \in Queue, NEW n \in 2 .. Len(queues'[q]),
                          animations'[queues'[q][n]].active
                   PROVE  animations'[queues'[q][n]].parallel
        BY DEF OneAfterTheOther
      <3> DEFINE m == Before(q, moved, n)
                 i == queues'[q][n]
      <3>1. n \in 1 .. Len(queues'[q]) /\ n \in 1 .. Len(AfterVisit(q, moved)) /\ n >= 2
        BY <2>1
      <3>2. /\ m \in 1 .. Len(queues[q]) /\ i = queues[q][m]
            /\ m >= 2 \/ (q \in Visited /\ moved[Front(q)].parallel)
        BY <1>0, <1>1, <1>4, <2>1, <3>1, VisitMoves
      <3>3. <<q, m>> \in Places /\ i = At(<<q, m>>) /\ i \in Slot
        BY <2>3, <3>1
      <3> HIDE DEF m, i
      <3>4. \A r \in Visited : Front(r) = At(<<r, 1>>) /\ <<r, 1>> \in Places
        <4> TAKE r \in Visited
        <4>1. r \in Queue /\ r \in 0 .. r
          BY PoolAssumption DEF Visited, Queue
        <4>2. queues[r] # <<>> /\ queues[r] \in Seq(Slot)
          BY <1>0, <4>1 DEF Visited, TypeOK
        <4>3. Len(queues[r]) \in Nat \ {0}
          BY <4>2, EmptySeq
        <4> QED
          BY <4>1, <4>2, <4>3 DEF Front, At, Places
      <3>5. CASE m >= 2
        <4>1. i \notin Fronts
          <5> SUFFICES ASSUME NEW r \in Visited, i = Front(r) PROVE FALSE
            BY DEF Fronts
          <5>1. <<q, m>> = <<r, 1>>
            BY <3>3, <3>4 DEF QueueInv, OnePlace
          <5> QED
            BY <3>5, <5>1
        <4>2. animations[i].active
          BY <2>2, <3>3, <4>1 DEF i
        <4>3. animations[i].parallel
          <5>1. m \in 2 .. Len(queues[q])
            BY <3>2, <3>5
          <5> QED
            BY <3>2, <4>2, <5>1 DEF QueueInv, OneAfterTheOther
        <4> QED
          BY <2>2, <3>3, <4>3 DEF i
      <3>6. CASE ~(m >= 2)
        <4>1. m = 1 /\ q \in Visited /\ moved[Front(q)].parallel
          BY <3>2, <3>6
        <4>2. moved[i].parallel
          BY <3>3, <3>4, <4>1
        <4> QED
          BY <1>2, <2>2, <3>3, <4>2 DEF i
      <3> QED
        BY <3>5, <3>6
    <2> QED
      BY <2>5, <2>6, <2>7
  <1> QED
    BY <1>3, <1>4

LEMMA NextKeepsOrder == QueueInv /\ [Next]_poolVars => QueueInv'
  <1> SUFFICES ASSUME QueueInv, [Next]_poolVars PROVE OnePlace' /\ QueuedAreUsed' /\ OneAfterTheOther'
    BY NextPreserves DEF QueueInv
  <1>0. TypeOK /\ \A p \in Places : At(p) \in Slot
    BY PlaceType DEF QueueInv, PoolInv
  <1>1. ASSUME NEW i \in Slot, NEW kind \in Kinds, animation_create_animation(i, kind)
        PROVE  OnePlace' /\ QueuedAreUsed' /\ OneAfterTheOther'
    <2>1. animations' = [animations EXCEPT ![i] = New(kind)] /\ UNCHANGED queues /\ ~animations[i].used
      BY <1>1 DEF animation_create_animation, available_index
    <2>2. \A p \in Places : animations'[At(p)] = animations[At(p)]
      BY <1>0, <2>1 DEF TypeOK, QueueInv, QueuedAreUsed
    <2> QED
      BY <2>1, <2>2, QueuesKept
  <1>2. ASSUME NEW i \in Slot \ Queued, animation_delete_animation(i)
        PROVE  OnePlace' /\ QueuedAreUsed' /\ OneAfterTheOther'
    <2>1. animations' = [animations EXCEPT ![i] = [animations[i] EXCEPT !.active = FALSE]] /\ UNCHANGED queues
      BY <1>2 DEF animation_delete_animation
    <2>2. \A p \in Places : At(p) \in Queued
      BY <1>0, PlaceType, PlaceInQueue DEF At
    <2>3. \A p \in Places : animations'[At(p)] = animations[At(p)]
      BY <1>0, <2>1, <2>2 DEF TypeOK
    <2> QED
      BY <2>1, <2>3, QueuesKept
  <1>3. ASSUME NEW q \in Queue, NEW i \in Slot, Queueable(i), animation_make_queue(q, i)
        PROVE  OnePlace' /\ QueuedAreUsed' /\ OneAfterTheOther'
    <2>1. queues[q] = <<>> /\ queues' = [queues EXCEPT ![q] = <<i>>] /\ UNCHANGED animations
      BY <1>3 DEF animation_make_queue, animation_queue_is_done
    <2>2. Append(queues[q], i) = <<i>>
      BY <2>1
    <2> QED
      BY <1>3, <2>1, <2>2, Enqueue
  <1>4. ASSUME NEW q \in Queue, NEW i \in Slot, Queueable(i), push_back(q, i)
        PROVE  OnePlace' /\ QueuedAreUsed' /\ OneAfterTheOther'
    BY <1>4, Enqueue DEF push_back
  <1>5. CASE animation_reset_memory
    <2>1. queues' = [q \in Queue |-> <<>>]
      BY <1>5 DEF animation_reset_memory
    <2>2. \A q \in Queue : Len(queues'[q]) = 0
      BY <2>1
    <2>3. Places' = {}
      BY <2>2 DEF Places
    <2> QED
      BY <2>2, <2>3 DEF OnePlace, QueuedAreUsed, OneAfterTheOther
  <1>6. CASE Update
    BY <1>6, UpdateKeepsOrder DEF Update
  <1>7. CASE NoSlotAvailable \/ UNCHANGED poolVars
    BY <1>7, QueuesKept DEF NoSlotAvailable, poolVars
  <1> QED
    BY <1>1, <1>2, <1>3, <1>4, <1>5, <1>6, <1>7 DEF Next

-----------------------------------------------------------------------------
(* The pool and the queues keep their types: time stays between 0 and its  *)
(* end, and queues hold slots of the pool (animation_update).              *)
THEOREM PoolTypeCorrect == Spec => []TypeOK
  <1>1. PoolInv => TypeOK
    BY DEF PoolInv
  <1> QED
    BY <1>1, InitEstablishes, NextPreserves, PTL DEF Spec

(* No event is skipped by a long frame: whatever ticks the frames take, an *)
(* animation at its end has called its event (animation_update).           *)
THEOREM NoEventIsSkipped == Spec => []EndedMeansSent
  <1>1. PoolInv => EndedMeansSent
    BY DEF PoolInv
  <1> QED
    BY <1>1, InitEstablishes, NextPreserves, PTL DEF Spec

(* A queue runs one animation after the other, however the queues are      *)
(* filled and whatever ticks the frames take, because an animation waits   *)
(* at one place only (animation_update, the loop over the queues).         *)
THEOREM QueuesRunInOrder == Spec => []OneAfterTheOther
  <1>1. Init => QueueInv
    <2> SUFFICES ASSUME Init PROVE QueueInv
      OBVIOUS
    <2>1. \A q \in Queue : Len(queues[q]) = 0
      BY DEF Init
    <2>2. Places = {}
      BY <2>1 DEF Places
    <2> QED
      BY <2>1, <2>2, InitEstablishes DEF QueueInv, OnePlace, QueuedAreUsed, OneAfterTheOther
  <1>2. QueueInv => OneAfterTheOther
    BY DEF QueueInv
  <1> QED
    BY <1>1, <1>2, NextKeepsOrder, PTL DEF Spec
=============================================================================
