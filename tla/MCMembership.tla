---------------------------- MODULE MCMembership ----------------------------
(* Membership of one group of three nodes that are all connected, without  *)
(* faults and with them; and, with a state of its own, of a group that has *)
(* more members than its trees have room for, and an observer.  A          *)
(* behaviour is of one of the three instances.                             *)
EXTENDS Membership

CONSTANTS a, b, c, k1, k2

Three  == {a, b, c}
Clique == {l \in Nodes \X Nodes : l[1] # l[2]}
RankOf == [n \in Nodes |-> CASE n = a -> 1 [] n = b -> 2 [] n = c -> 3]
Nobody == {}
JustB  == {b}
TwoTasks == {k1, k2}

(* How often each node imports or joins; a has created the group.          *)
OneEach == [n \in Nodes |-> IF n = a THEN 0 ELSE 1]
TwoForC == [n \in Nodes |-> IF n = c THEN 2 ELSE IF n = b THEN 1 ELSE 0]

VARIABLES
  fullKnown, fullHeld, fullTree, fullDeparted, fullJoined, fullLeft, fullState, fullLive,
  fullWire, fullAnswering, fullCalls, fullLosses, fullRestarts,
  subject

Faulty == INSTANCE Membership WITH Calls <- OneEach, MaxLosses <- 1, MaxRestarts <- 1
Full == INSTANCE Membership WITH
  Capacity <- 2, ChunkSize <- 1, Observers <- {c}, Calls <- TwoForC, Leavers <- {},
  MaxLosses <- 0, MaxRestarts <- 1,
  known <- fullKnown, held <- fullHeld, tree <- fullTree, departed <- fullDeparted,
  joined <- fullJoined, left <- fullLeft, state <- fullState, live <- fullLive,
  wire <- fullWire, answering <- fullAnswering, calls <- fullCalls,
  losses <- fullLosses, restarts <- fullRestarts

full ==
  <<fullKnown, fullHeld, fullTree, fullDeparted, fullJoined, fullLeft, fullState, fullLive,
    fullWire, fullAnswering, fullCalls, fullLosses, fullRestarts>>
all == <<vars, full, subject>>

MCInit == Init /\ Full!Init /\ subject \in {"calm", "faulty", "full"}

MCNext ==
  /\ \/ subject = "calm" /\ Next /\ UNCHANGED full
     \/ subject = "faulty" /\ Faulty!Next /\ UNCHANGED full
     \/ subject = "full" /\ Full!Next /\ UNCHANGED vars
  /\ UNCHANGED subject

MCSpec ==
  /\ MCInit /\ [][MCNext]_all
  /\ WF_all(subject = "full" /\ Full!Progress /\ UNCHANGED <<vars, subject>>)

(* Exchanges end, also in a group that has more members than its trees     *)
(* have room for, and whose trees therefore never agree (membership-       *)
(* sync.ts handleMemberList).                                              *)
GroupExchangesEnd == Full!ExchangesEnd
=============================================================================
