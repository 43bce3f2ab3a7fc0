----------------------------- MODULE MCTraffic ------------------------------
(* Two nodes linked to each other, and two replicas of one document.       *)
EXTENDS ChannelTraffic

CONSTANTS a, b

Linked == [n \in {a, b} |-> {a, b} \ {n}]
=============================================================================
