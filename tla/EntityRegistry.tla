--------------------------- MODULE EntityRegistry ---------------------------
(***************************************************************************)
(* What the entity store promises to the game: a set of live entities and, *)
(* for each of them, at most one value of each component type.  Nothing is *)
(* said of arrays, positions or queues.                                    *)
(***************************************************************************)
EXTENDS Integers

CONSTANTS EntityMax, Keys, NameKey, Values, None

VARIABLES
  live,      \* the entities in use
  contents   \* contents[e][k]: e's component of type k, or None

registryVars == <<live, contents>>

Ids  == 0 .. EntityMax - 1
Bare == [k \in Keys |-> None]

Init ==
  /\ live = {}
  /\ contents = [e \in Ids |-> Bare]

(* The id is fresh and is never 0; the new entity has no component.        *)
Create(e) ==
  /\ e \in Ids \ (live \union {0})
  /\ live' = live \union {e}
  /\ UNCHANGED contents

CreateNamed(e, name) ==
  /\ e \in Ids \ (live \union {0})
  /\ live' = live \union {e}
  /\ contents' = [contents EXCEPT ![e] = [Bare EXCEPT ![NameKey] = name]]

Store(e, k, v) ==
  /\ e \in live
  /\ contents' = [contents EXCEPT ![e][k] = v]
  /\ UNCHANGED live

Remove(e, k) ==
  /\ e \in live
  /\ contents' = [contents EXCEPT ![e][k] = None]
  /\ UNCHANGED live

Delete(e) ==
  /\ e \in live
  /\ live' = live \ {e}
  /\ contents' = [contents EXCEPT ![e] = Bare]

Reset ==
  /\ live' = {}
  /\ contents' = [e \in Ids |-> Bare]

Next ==
  \/ \E e \in Ids : Create(e)
  \/ \E e \in Ids, v \in Values : CreateNamed(e, v)
  \/ \E e \in Ids, k \in Keys, v \in Values : Store(e, k, v)
  \/ \E e \in Ids, k \in Keys : Remove(e, k)
  \/ \E e \in Ids : Delete(e)
  \/ Reset

Spec == Init /\ [][Next]_registryVars
=============================================================================
