----------------------------- MODULE MCMessaging -----------------------------
(* Two nodes that have yet to pair, and one message.                       *)
EXTENDS Messaging

CONSTANTS a, b, m1, f1

Pair == {a, b}
RankOf == [n \in Nodes |-> IF n = a THEN 1 ELSE 2]
OneMsg  == {m1}
ByA     == [id \in Msgs |-> a]
OnePass == {f1}
None    == {}
NobodyAndB == {{}, {b}}
Strangers  == [n \in Nodes |-> {}]
Undeclared == [n \in Nodes |-> {}]
=============================================================================
