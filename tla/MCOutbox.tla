------------------------------ MODULE MCOutbox ------------------------------
(* Two messages, and two passes over the queue that may overlap.           *)
EXTENDS Outbox

CONSTANTS m1, m2, f1, f2

IdsOfTwo  == {m1, m2}
TwoPasses == {f1, f2}
=============================================================================
