------------------------------- MODULE MCNode -------------------------------
(* What a node tells its user: a conversation between two nodes, one of    *)
(* three nodes that a list leaves one out of, and the reactions to a       *)
(* message.  The three share no state: a behaviour is of the one that      *)
(* `subject` names.                                                        *)
EXTENDS Node, TLC

CONSTANTS a, b, c, m1, m2, f1, thumb

Pair     == {a, b}
OneMsg   == {m1}
OnePass  == {f1}
OneEmoji == {thumb}
RankOf   == [n \in Nodes |-> IF n = a THEN 1 ELSE 2]
ByA      == [id \in Msgs |-> a]
None     == {}
NobodyAndB == {{}, {b}}
Strangers  == [n \in Nodes |-> {}]
Undeclared == [n \in Nodes |-> {}]

(* All three have paired.  a has declared b and c, c the others, and b has *)
(* declared a only; a and b edit their lists.                              *)
Triangle == [n \in {a, b, c} |-> {a, b, c} \ {n}]
Listing  == (a :> {b, c}) @@ (b :> {a}) @@ (c :> {a, b})

VARIABLES
  doc3, registry3, live3, online3, due3, stage3, outbox3, createdAt3, clock3, pass3, wire3,
  ingest3, emitted3, baseline3, sighted3, announced3, handed3, losses3,
  subject

Three == INSTANCE Messaging WITH
  Nodes <- {a, b, c}, Rank <- (a :> 1) @@ (b :> 2) @@ (c :> 3),
  Msgs <- {m1, m2}, Author <- (m1 :> b) @@ (m2 :> c), Anonymous <- {},
  GuestLists <- {{b}}, Contacts <- Triangle, Declared <- Listing, Editors <- {a, b},
  MaxChanges <- 2, MaxLosses <- 0,
  doc <- doc3, registry <- registry3, live <- live3, online <- online3, due <- due3,
  stage <- stage3, outbox <- outbox3, createdAt <- createdAt3, clock <- clock3,
  pass <- pass3, wire <- wire3, ingest <- ingest3, emitted <- emitted3,
  baseline <- baseline3, sighted <- sighted3, announced <- announced3,
  handed <- handed3, losses <- losses3

three ==
  <<doc3, registry3, live3, online3, due3, stage3, outbox3, createdAt3, clock3, pass3, wire3,
    ingest3, emitted3, baseline3, sighted3, announced3, handed3, losses3>>

(* The ranks of actors matter to the reactions only.                       *)
MCInit ==
  /\ NodeInit /\ Three!Init
  /\ subject \in {"messages", "three", "reactions"}
  /\ subject # "reactions" => actor[a] < actor[b] /\ actor[b] = 2

(* Bounds on the conversation of three: c is connected to b alone, only b  *)
(* dials, c does not get to reading its frames, what is merged into its    *)
(* document apart, and one of the two messages is sent.                    *)
Bounded ==
  /\ c \notin live3'[a] /\ ~due3'[a] /\ ~due3'[c] /\ ingest3'[c] = {}
  /\ "unsent" \in {stage3'[m1], stage3'[m2]}

MCNext ==
  /\ UNCHANGED subject
  /\ \/ subject = "messages" /\ OnMessages /\ UNCHANGED three
     \/ subject = "reactions" /\ OnReactions /\ UNCHANGED three
     \/ subject = "three" /\ Three!Next /\ Bounded /\ UNCHANGED node

MCSpec == MCInit /\ [][MCNext]_<<node, three, subject>>

(* Once a's or b's removal of c has come to both, c stays out until one of *)
(* them adds it again (Messaging: document-manager.ts removeParticipant,   *)
(* session-manager.ts publish and handleMessageFrame, sync-engine.ts).     *)
RemovedStaysOut == Three!StaysOut
=============================================================================
