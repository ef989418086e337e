--------------------------- MODULE AnimationPool ---------------------------
(***************************************************************************)
(* The animation pool and the animation queues (engine_animation.odin).    *)
(*                                                                         *)
(* The pool is a fixed array; a slot is free while its speed is 0.  A      *)
(* deleted animation is only made inactive, so its slot stays taken until  *)
(* animation_reset_memory.  Time runs from 0 to One; one pass of           *)
(* animation_update adds the same tick to every active animation.  Curves  *)
(* that only write values are left out; an event curve is kept as the time *)
(* at which its procedure must be called and whether it has been.          *)
(***************************************************************************)
EXTENDS Integers, Sequences

CONSTANTS
  AnimationCount, \* ANIMATION_ANIMATIONS_COUNT
  QueueCount,     \* ANIMATION_QUEUES_COUNT
  One,            \* the end of an animation, in units of time
  Ticks,          \* the ticks a frame may take
  Kinds           \* the animations that callers create

Slot    == 0 .. AnimationCount - 1
Queue   == 0 .. QueueCount - 1
NoEvent == One + 1
NoSlot  == -1

(* What a caller sets when it creates an animation; event is the timestamp *)
(* of its event curve, NoEvent without one.                                *)
Kind == [active : BOOLEAN, loop : BOOLEAN, parallel : BOOLEAN, event : 0 .. NoEvent]

ASSUME PoolAssumption ==
  /\ AnimationCount \in Nat \ {0}
  /\ QueueCount \in Nat \ {0}
  /\ One \in Nat \ {0}
  /\ Ticks \subseteq Nat \ {0}
  /\ Kinds \subseteq Kind

VARIABLES
  animations, \* [Slot -> Animation]
  queues,     \* [Queue -> sequence of slots, front first]
  failure     \* the assertion that has stopped the program, or "none"

poolVars == <<animations, queues, failure>>

(* used stands for speed # 0; sent says whether the procedure of the event *)
(* has been called.                                                        *)
Animation == [used : BOOLEAN, active : BOOLEAN, loop : BOOLEAN, parallel : BOOLEAN,
              t : 0 .. One, event : 0 .. NoEvent, sent : BOOLEAN]

Zero == [used |-> FALSE, active |-> FALSE, loop |-> FALSE, parallel |-> FALSE,
         t |-> 0, event |-> NoEvent, sent |-> FALSE]

New(kind) == [used |-> TRUE, active |-> kind.active, loop |-> kind.loop,
              parallel |-> kind.parallel, t |-> 0, event |-> kind.event, sent |-> FALSE]

Entries(q) == {queues[q][n] : n \in 1 .. Len(queues[q])}
Queued     == UNION {Entries(q) : q \in Queue}

animation_is_done(i)       == animations[i].t >= One
animation_queue_is_done(q) == queues[q] = <<>>

-----------------------------------------------------------------------------
Init ==
  /\ animations = [i \in Slot |-> Zero]
  /\ queues = [q \in Queue |-> <<>>]
  /\ failure = "none"

(* animation_get_available_index: the first slot whose speed is 0.         *)
available_index(i) ==
  /\ ~animations[i].used
  /\ \A j \in Slot : j < i => animations[j].used

(* animation_create_animation, and what its caller sets at once.           *)
animation_create_animation(i, kind) ==
  /\ failure = "none"
  /\ available_index(i)
  /\ animations' = [animations EXCEPT ![i] = New(kind)]
  /\ UNCHANGED <<queues, failure>>

(* The assertion of animation_create_animation.                            *)
NoSlotAvailable ==
  /\ failure = "none"
  /\ \A i \in Slot : animations[i].used
  /\ failure' = "no animation slot available"
  /\ UNCHANGED <<animations, queues>>

animation_delete_animation(i) ==
  /\ failure = "none"
  /\ animations' = [animations EXCEPT ![i].active = FALSE]
  /\ UNCHANGED <<queues, failure>>

(* The caller pushes an animation to the first empty queue, which          *)
(* animation_make_queue returns.                                           *)
animation_make_queue(q, i) ==
  /\ failure = "none"
  /\ animation_queue_is_done(q)
  /\ \A p \in Queue : p < q => ~animation_queue_is_done(p)
  /\ queues' = [queues EXCEPT ![q] = <<i>>]
  /\ UNCHANGED <<animations, failure>>

(* The caller pushes one more animation to a queue it has made.            *)
push_back(q, i) ==
  /\ failure = "none"
  /\ ~animation_queue_is_done(q)
  /\ queues' = [queues EXCEPT ![q] = Append(@, i)]
  /\ UNCHANGED <<animations, failure>>

animation_reset_memory ==
  /\ failure = "none"
  /\ animations' = [i \in Slot |-> Zero]
  /\ queues' = [q \in Queue |-> <<>>]
  /\ UNCHANGED failure

-----------------------------------------------------------------------------
(* One pass of animation_update.  Mutants: no clamp at the end, and an end *)
(* that is never reached.                                                  *)
NextTimeUnclamped(a, tick) == a.t + tick

NextTimeShort(a, tick) ==
  IF a.t + tick < One THEN a.t + tick ELSE IF a.loop THEN 0 ELSE One - 1

NextTime(a, tick) ==
  IF a.t + tick <= One THEN a.t + tick ELSE IF a.loop THEN 0 ELSE One

(* Mutant: the event is tested against the time before the step.           *)
AdvanceEventFirst(a, tick) ==
  IF a.active
  THEN [a EXCEPT !.t = NextTime(a, tick), !.sent = @ \/ a.t >= a.event]
  ELSE a

(* An active animation takes the time of the frame and calls the event it  *)
(* has reached, if it has not been called.                                 *)
Advance(a, tick) ==
  IF a.active
  THEN [a EXCEPT !.t = NextTime(a, tick),
                 !.sent = @ \/ NextTime(a, tick) >= a.event]
  ELSE a

(* Then the queues, in order, up to the first empty one: the front is      *)
(* started, or removed once it is done; a parallel front goes to the back. *)
Visited  == {q \in Queue : \A p \in 0 .. q : queues[p] # <<>>}
Front(q) == Head(queues[q])
Fronts   == {Front(q) : q \in Visited}

FrontDone(q, moved) == moved[Front(q)].t >= One

(* Mutants: every queued animation is started, and a done one stays.       *)
StartedAll(moved) == {i \in Queued : moved[i].t < One}
AfterDoneKept(q, moved) == queues[q]

Started(moved)   == {i \in Fronts : moved[i].t < One}
Stopped(moved)   == {i \in Fronts : moved[i].t >= One}
AfterDone(q, moved) == IF FrontDone(q, moved) THEN Tail(queues[q]) ELSE queues[q]

AfterVisit(q, moved) ==
  IF q \notin Visited THEN queues[q]
  ELSE IF moved[Front(q)].parallel
       THEN Append(Tail(AfterDone(q, moved)), Front(q))
       ELSE AfterDone(q, moved)

(* A parallel animation that is done and alone in its queue is popped      *)
(* twice; the second pop_front finds the queue empty.                      *)
PopsEmpty(moved) ==
  \E q \in Visited : moved[Front(q)].parallel /\ AfterDone(q, moved) = <<>>

animation_update(tick) ==
  /\ failure = "none"
  /\ LET moved == [i \in Slot |-> Advance(animations[i], tick)] IN
       \/ /\ PopsEmpty(moved)
          /\ failure' = "pop_front of an empty queue"
          /\ UNCHANGED <<animations, queues>>
       \/ /\ ~PopsEmpty(moved)
          /\ animations' = [i \in Slot |->
               [moved[i] EXCEPT !.active = (@ \/ i \in Started(moved)) /\ i \notin Stopped(moved)]]
          /\ queues' = [q \in Queue |-> AfterVisit(q, moved)]
          /\ UNCHANGED failure

-----------------------------------------------------------------------------
(* Callers queue an animation once, inactive, and leave it to the queue.   *)
Queueable(i) == animations[i].used /\ ~animations[i].active /\ i \notin Queued

Update == \E tick \in Ticks : animation_update(tick)

Next ==
  \/ \E i \in Slot, kind \in Kinds : animation_create_animation(i, kind)
  \/ NoSlotAvailable
  \/ \E i \in Slot \ Queued : animation_delete_animation(i)
  \/ \E q \in Queue, i \in Slot : Queueable(i) /\ animation_make_queue(q, i)
  \/ \E q \in Queue, i \in Slot : Queueable(i) /\ push_back(q, i)
  \/ animation_reset_memory
  \/ Update

Spec == Init /\ [][Next]_poolVars

(* game_update calls animation_update in every frame.                      *)
FairSpec == Spec /\ WF_poolVars(Update)

-----------------------------------------------------------------------------
(* The types of the variables.                                             *)
TypeOK ==
  /\ animations \in [Slot -> Animation]
  /\ queues \in [Queue -> Seq(Slot)]
  /\ failure \in {"none", "no animation slot available", "pop_front of an empty queue"}

(* An animation at its end has called its event, however long the frames   *)
(* were: the entity of a heart is deleted by such an event, and by nothing *)
(* else (the event curve of animation_update).                             *)
EndedMeansSent ==
  \A i \in Slot :
    animation_is_done(i) /\ animations[i].event # NoEvent => animations[i].sent

(* A queue runs one animation after the other: behind the front, only      *)
(* parallel animations that have had their turn are active                 *)
(* (animation_update, the loop over the queues).                           *)
OneAfterTheOther ==
  \A q \in Queue : \A n \in 2 .. Len(queues[q]) :
    animations[queues[q][n]].active => animations[queues[q][n]].parallel

(* An active animation that does not loop comes to its end unless somebody *)
(* stops it: the player stands still until that of a room transition does  *)
(* (animation_update).                                                     *)
ActiveEnds ==
  \A i \in Slot :
    animations[i].active /\ ~animations[i].loop
      ~> animation_is_done(i) \/ ~animations[i].active \/ failure # "none"

(* An animation put in the first queue, behind others, has its turn and    *)
(* leaves the queue, if none in it loops or is parallel (animation_update, *)
(* the loop over the queues).                                              *)
Serial(q) == \A i \in Entries(q) : ~animations[i].loop /\ ~animations[i].parallel

FirstQueueRuns ==
  \A i \in Slot :
    i \in Entries(0) ~> i \notin Entries(0) \/ ~Serial(0) \/ failure # "none"
=============================================================================
