------------------------------- MODULE SearchIndex -------------------------------
(***************************************************************************)
(* What semantic search is promised about a voice note's text: the vector  *)
(* it ranks by may lag behind the text, but whenever it is replaced it is  *)
(* replaced by the vector of the text then current, and it goes with the   *)
(* note.  EmbeddingRegeneration implements this specification.             *)
(***************************************************************************)
EXTENDS Naturals

CONSTANT Note      \* voice note ids

VARIABLES
  current,         \* current[n]: versions of note n, 0 when there is no note n
  indexed          \* indexed[n]: the version its vector was made from, 0 if none

vars == <<current, indexed>>

(* A note starts with its vector, or was there before vectors were kept.   *)
Init == /\ current \in [Note -> {0, 1}]
        /\ indexed = [n \in Note |-> 0]

Arrive(n)  == /\ current[n] = 0
              /\ current' = [current EXCEPT ![n] = 1]
              /\ indexed' = [indexed EXCEPT ![n] = 1]

Edit(n)    == /\ current[n] # 0
              /\ current' = [current EXCEPT ![n] = @ + 1]
              /\ UNCHANGED indexed

CatchUp(n) == /\ indexed[n] < current[n]
              /\ indexed' = [indexed EXCEPT ![n] = current[n]]
              /\ UNCHANGED current

Leave(n)   == /\ current[n] # 0
              /\ current' = [current EXCEPT ![n] = 0]
              /\ indexed' = [indexed EXCEPT ![n] = 0]

Next == \E n \in Note : Arrive(n) \/ Edit(n) \/ CatchUp(n) \/ Leave(n)

Spec == Init /\ [][Next]_vars
=================================================================================
