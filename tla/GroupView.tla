----------------------------- MODULE GroupView ------------------------------
(***************************************************************************)
(* What group membership promises, without roots, lists or connections:    *)
(* each node has a view of who belongs.  A commitment enters a view only   *)
(* after its owner has offered it by joining, and leaves one only because  *)
(* its owner has left, because the view is full, or because the node       *)
(* itself starts over.  HLessEnd/src/group-service.ts says so to its       *)
(* callers; the module Membership implements it.                           *)
(***************************************************************************)
CONSTANTS
  Nodes,
  Creator,
  Fitting   \* the sets of commitments a view has room for

VARIABLES
  view,     \* node -> commitments it takes for members
  offered,  \* commitments whose owner has ever joined
  left      \* commitments whose owner has ever left

vars == <<view, offered, left>>

Init ==
  /\ view = [n \in Nodes |-> IF n = Creator THEN {Creator} ELSE {}]
  /\ offered = {Creator} /\ left = {}

Look(n) ==
  /\ view' = [view EXCEPT ![n] = {Creator}]
  /\ UNCHANGED <<offered, left>>

Enter(n) ==
  /\ view' = [view EXCEPT ![n] = {Creator, n}]
  /\ offered' = offered \cup {n}
  /\ UNCHANGED left

Quit(n) ==
  /\ view' = [view EXCEPT ![n] = {}]
  /\ left' = left \cup {n}
  /\ UNCHANGED offered

Crash(n) ==
  /\ view' = [view EXCEPT ![n] = {}]
  /\ UNCHANGED <<offered, left>>

(* n hears of S: all of it is added if there is room.                      *)
Learn(n, S) ==
  /\ S \subseteq offered
  /\ \E v \in SUBSET (view[n] \cup S) :
       /\ view[n] \cup S \in Fitting => v = view[n] \cup S
       /\ view' = [view EXCEPT ![n] = v]
  /\ UNCHANGED <<offered, left>>

Forget(n, S) ==
  /\ S \subseteq left
  /\ view' = [view EXCEPT ![n] = @ \ S]
  /\ UNCHANGED <<offered, left>>

Next ==
  \E n \in Nodes :
    \/ Look(n) \/ Enter(n) \/ Quit(n) \/ Crash(n)
    \/ \E S \in SUBSET Nodes : Learn(n, S) \/ Forget(n, S)

Spec == Init /\ [][Next]_vars
=============================================================================
