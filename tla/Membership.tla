----------------------------- MODULE Membership -----------------------------
(***************************************************************************)
(* The members of one group, as its nodes see them: the bounded tree of    *)
(* identity commitments (core/src/crdt/membership-tree.ts), the departure  *)
(* tombstones (membership-departure.ts), the exchange of roots and lists   *)
(* (membership-sync.ts), and the calls that start them                     *)
(* (HLessEnd/src/group-service.ts, wired in client.ts).                    *)
(*                                                                         *)
(* Every node has one commitment, named here by the node.  A root stands   *)
(* for the set it is computed from: equal roots, equal sets.  Departures   *)
(* are signed by who departs, and are modelled as what they name.          *)
(***************************************************************************)
EXTENDS Naturals, Sequences, FiniteSets, SequencesExt

CONSTANTS
  Nodes,
  Creator,     \* whose commitment the genesis anchor holds
  Rank,        \* the order of the commitments' bytes
  Capacity,    \* DEFAULT_MAX_MEMBERS, also MAX_PENDING_COMMITMENTS
  ChunkSize,   \* MAX_MEMBERS_PER_FRAME
  Links,       \* pairs of nodes that are paired and may connect
  Observers,   \* nodes that import the group some time before they join it
  Calls,       \* bound on the calls of importGroup and joinGroup per node
  Leavers,     \* nodes that may leave
  Tasks,       \* answers a node may be in the middle of, per peer
  MaxLosses,   \* bound on connections lost
  MaxRestarts  \* bound on process restarts

ASSUME MembershipAssumption ==
  /\ IsFiniteSet(Nodes) /\ Creator \in Nodes
  /\ Rank \in [Nodes -> Nat]
  /\ \A c, d \in Nodes : Rank[c] = Rank[d] => c = d
  /\ Capacity \in Nat \ {0, 1} /\ ChunkSize \in Nat \ {0}
  /\ Links \subseteq Nodes \X Nodes
  /\ \A n, m \in Nodes : <<n, m>> \in Links => n # m /\ <<m, n>> \in Links
  /\ Observers \subseteq Nodes /\ Leavers \subseteq Nodes
  /\ Calls \in [Nodes -> Nat]
  /\ MaxLosses \in Nat /\ MaxRestarts \in Nat

VARIABLES
  known,      \* nodes that have stored the group and its anchor
  held,       \* nodes that have a tree (GroupService.membership)
  tree,       \* node -> commitments in its tree
  departed,   \* node -> commitments it has a departure of
  state,      \* node -> peer -> list being received, and whether it was answered
  live,       \* node -> peers its end of a connection is up to
  wire,       \* from -> to -> frames in flight, oldest first
  answering,  \* from -> to -> task -> frames of an answer still to be sent
  joined, left,            \* histories: nodes that ever joined, that ever left
  calls, losses, restarts  \* how much of each bound is used

replica == <<known, held, tree, departed, joined, left>>
budget  == <<calls, losses, restarts>>
vars == <<replica, state, live, wire, answering, budget>>

(* ------------------------------- the tree ------------------------------ *)

lowest(t) == CHOOSE c \in t : \A d \in t : Rank[c] <= Rank[d]

insert(t, c) ==
  IF c \in t THEN t
  ELSE (IF Cardinality(t) >= Capacity THEN t \ {lowest(t)} ELSE t) \cup {c}

bootstrapFromAnchor == {Creator}

sorted(S) == SetToSortSeq(S, LAMBDA c, d : Rank[c] < Rank[d])

Listed(chunks) == UNION {chunks[i] : i \in DOMAIN chunks}

(* Faulty variants: departures are forgotten when a list is merged; the    *)
(* list is adopted as it is.                                               *)
mergeAll(t, chunks, gone)   == t \cup Listed(chunks)
mergeAdopt(t, chunks, gone) == Listed(chunks) \ gone

(* merge: what is listed and has not departed is inserted, chunk by chunk  *)
(* and each in order, which matters only if it does not fit.               *)
merge(t, chunks, gone) ==
  LET into(u, S) == FoldLeft(insert, u, sorted(S \ gone))
      all        == t \cup (Listed(chunks) \ gone)
  IN  IF Cardinality(all) <= Capacity THEN all
      ELSE all \cap FoldLeft(into, t, chunks)

(* ------------------------------- frames -------------------------------- *)

Frame == [type : {"root", "list", "departure"}, members : SUBSET Nodes, final : BOOLEAN]

Root(t)      == [type |-> "root", members |-> t, final |-> TRUE]
Departure(n) == [type |-> "departure", members |-> {n}, final |-> TRUE]

(* The MEMBER_LIST frames of S, in order; one if it is empty.              *)
chunk(S) ==
  LET index(c) == Cardinality({d \in S : Rank[d] < Rank[c]})
      count    == IF S = {} THEN 1 ELSE (Cardinality(S) + ChunkSize - 1) \div ChunkSize
  IN  [k \in 1 .. count |->
        [type |-> "list", final |-> k = count,
         members |-> {c \in S : index(c) \div ChunkSize = k - 1}]]

Unheard == [pending |-> <<>>, responded |-> FALSE]

Buffered(chunks) == FoldLeft(LAMBDA sum, S : sum + Cardinality(S), 0, chunks)

(* n's frame to each peer of its live connections; lost if the other end   *)
(* is down.                                                                *)
Broadcast(n, frame) ==
  wire' = [wire EXCEPT ![n] = [m \in Nodes |->
             IF m \in live[n] /\ n \in live[m] THEN Append(wire[n][m], frame)
                                               ELSE wire[n][m]]]

(* n has taken the head of wire[m][n] and answers with frames: the first   *)
(* is sent at once, each of the others after an await.                     *)
Answer(n, m, frames) ==
  LET rest == [wire EXCEPT ![m][n] = Tail(@)] IN
  IF frames = <<>> THEN wire' = rest /\ UNCHANGED answering
  ELSE /\ wire' = IF n \in live[m] THEN [rest EXCEPT ![n][m] = Append(@, Head(frames))]
                                   ELSE rest
       /\ \E k \in Tasks :
            /\ answering[n][m][k] = <<>>
            /\ answering' = [answering EXCEPT ![n][m][k] = Tail(frames)]
-----------------------------------------------------------------------------
Neighbours(n) == {m \in Nodes : <<n, m>> \in Links}
Silence == [m \in Nodes |-> <<>>]
NoTask  == [k \in Tasks |-> <<>>]

(* The creator has created the group; everybody is connected.              *)
Init ==
  /\ known = {Creator} /\ held = {Creator}
  /\ tree = [n \in Nodes |-> IF n = Creator THEN bootstrapFromAnchor ELSE {}]
  /\ departed = [n \in Nodes |-> {}]
  /\ joined = {Creator} /\ left = {}
  /\ state = [n \in Nodes |-> [m \in Nodes |-> Unheard]]
  /\ live = [n \in Nodes |-> Neighbours(n)]
  /\ wire = [n \in Nodes |-> Silence]
  /\ answering = [n \in Nodes |-> [m \in Nodes |-> NoTask]]
  /\ calls = [n \in Nodes |-> 0] /\ losses = 0 /\ restarts = 0

Call(n) ==
  /\ calls[n] < Calls[n]
  /\ calls' = [calls EXCEPT ![n] = @ + 1]
  /\ UNCHANGED <<losses, restarts>>

(* importGroup: adopts the anchored set; says nothing to anybody.          *)
Import(n) ==
  /\ n \in Observers
  /\ Call(n)
  /\ known' = known \cup {n} /\ held' = held \cup {n}
  /\ tree' = [tree EXCEPT ![n] = bootstrapFromAnchor]
  /\ UNCHANGED <<departed, joined, left, state, live, wire, answering>>

(* joinGroup, by a node that is no observer together with the import.      *)
Join(n) ==
  LET t == insert(bootstrapFromAnchor, n) IN
  /\ n \in known \/ n \notin Observers
  /\ Call(n)
  /\ known' = known \cup {n} /\ held' = held \cup {n}
  /\ tree' = [tree EXCEPT ![n] = t]
  /\ Broadcast(n, Root(t))
  /\ joined' = joined \cup {n}
  /\ UNCHANGED <<departed, left, state, live, answering>>

(* leaveGroup, of a group it has stored: a departure not yet known here is *)
(* announced, the tree is dropped.                                         *)
Leave(n) ==
  /\ n \in Leavers /\ n \in known
  /\ departed' = [departed EXCEPT ![n] = @ \cup {n}]
  /\ IF n \in departed[n] THEN UNCHANGED wire ELSE Broadcast(n, Departure(n))
  /\ held' = held \ {n}
  /\ tree' = [tree EXCEPT ![n] = {}]
  /\ left' = left \cup {n}
  /\ UNCHANGED <<known, joined, state, live, answering, budget>>

(* --------------------- inbound frames, at n from m --------------------- *)

handleMemberRoot(n, m, frame) ==
  /\ frame.type = "root"
  /\ \/ /\ n \notin held
        /\ Answer(n, m, <<>>) /\ UNCHANGED state
     \/ /\ n \in held /\ frame.members = tree[n]
        /\ state' = [state EXCEPT ![n][m] = [pending |-> @.pending, responded |-> FALSE]]
        /\ Answer(n, m, <<>>)
     \/ /\ n \in held /\ frame.members # tree[n]
        /\ Answer(n, m, chunk(tree[n])) /\ UNCHANGED state
  /\ UNCHANGED <<tree, departed>>

(* What to answer a list with, given what its sender lacks.  Faulty        *)
(* variants: always the difference; never anything.                        *)
ReplyAlways(responded, missing) == chunk(missing)
ReplyNever(responded, missing)  == <<>>

Reply(responded, missing) == IF responded \/ missing = {} THEN <<>> ELSE chunk(missing)

(* Chunks are kept until the final one; one too many drops them all; then  *)
(* they are merged, and answered once with what the peer lacks.            *)
handleMemberList(n, m, frame) ==
  LET chunks  == Append(state[n][m].pending, frame.members)
      merged  == merge(tree[n], chunks, departed[n])
      missing == merged \ Listed(chunks)
      answer  == Reply(state[n][m].responded, missing)
  IN  /\ frame.type = "list"
      /\ \/ /\ n \notin held
            /\ Answer(n, m, <<>>) /\ UNCHANGED <<tree, state>>
         \/ /\ n \in held /\ Buffered(chunks) > Capacity
            /\ state' = [state EXCEPT ![n][m] = Unheard]
            /\ Answer(n, m, <<>>) /\ UNCHANGED tree
         \/ /\ n \in held /\ Buffered(chunks) <= Capacity /\ ~frame.final
            /\ state' = [state EXCEPT ![n][m] = [pending |-> chunks, responded |-> @.responded]]
            /\ Answer(n, m, <<>>) /\ UNCHANGED tree
         \/ /\ n \in held /\ Buffered(chunks) <= Capacity /\ frame.final
            /\ tree' = [tree EXCEPT ![n] = merged]
            /\ state' = [state EXCEPT ![n][m] =
                 [pending |-> <<>>, responded |-> answer # <<>>]]
            /\ Answer(n, m, answer)
      /\ UNCHANGED departed

(* A departure not known yet is kept, with or without a tree.              *)
handleDeparture(n, m, frame) ==
  /\ frame.type = "departure"
  /\ departed' = [departed EXCEPT ![n] = @ \cup frame.members]
  /\ tree' = [tree EXCEPT ![n] = @ \ (frame.members \ departed[n])]
  /\ Answer(n, m, <<>>) /\ UNCHANGED state

Receive(n, m) ==
  /\ wire[m][n] # <<>> /\ m \in live[n]
  /\ LET frame == Head(wire[m][n]) IN
       \/ handleMemberRoot(n, m, frame)
       \/ handleMemberList(n, m, frame)
       \/ handleDeparture(n, m, frame)
  /\ UNCHANGED <<known, held, joined, left, live, budget>>

(* The next frame of an answer to m (routeMembershipFrame's loop).         *)
Continue(n, m, k) ==
  /\ answering[n][m][k] # <<>>
  /\ answering' = [answering EXCEPT ![n][m][k] = Tail(@)]
  /\ wire' = IF n \in live[m] THEN [wire EXCEPT ![n][m] = Append(@, Head(answering[n][m][k]))]
                              ELSE wire
  /\ UNCHANGED <<replica, state, live, budget>>

(* ----------------------------- connections ----------------------------- *)

(* n's end of its connection to m goes down: what was coming in is lost,   *)
(* and the part of what was going out that had not left yet.               *)
LinkLost(n, m) ==
  /\ losses < MaxLosses /\ m \in live[n]
  /\ live' = [live EXCEPT ![n] = @ \ {m}]
  /\ \E sent \in 0 .. Len(wire[n][m]) :
       wire' = [wire EXCEPT ![m][n] = <<>>, ![n][m] = SubSeq(@, 1, sent)]
  /\ answering' = [answering EXCEPT ![n][m] = NoTask]
  /\ losses' = losses + 1
  /\ UNCHANGED <<replica, state, calls, restarts>>

(* A new connection.  What the two had begun to receive from each other is *)
(* kept: nobody calls removePeer.                                          *)
Connect(n, m) ==
  /\ <<n, m>> \in Links /\ m \notin live[n]
  /\ live' = [live EXCEPT ![n] = @ \cup {m}, ![m] = @ \cup {n}]
  /\ wire' = [wire EXCEPT ![n][m] = <<>>, ![m][n] = <<>>]
  /\ answering' = [answering EXCEPT ![n][m] = NoTask, ![m][n] = NoTask]
  /\ UNCHANGED <<replica, state, budget>>

(* The process of n stops and starts: the group and its anchor are stored, *)
(* trees, departures and exchanges are not.                                *)
Restart(n) ==
  /\ restarts < MaxRestarts
  /\ restarts' = restarts + 1
  /\ held' = held \ {n}
  /\ tree' = [tree EXCEPT ![n] = {}]
  /\ departed' = [departed EXCEPT ![n] = {}]
  /\ state' = [state EXCEPT ![n] = [m \in Nodes |-> Unheard]]
  /\ live' = [m \in Nodes |-> IF m = n THEN {} ELSE live[m] \ {n}]
  /\ wire' = [m \in Nodes |-> IF m = n THEN Silence ELSE [wire[m] EXCEPT ![n] = <<>>]]
  /\ answering' = [m \in Nodes |-> IF m = n THEN [l \in Nodes |-> NoTask]
                                            ELSE [answering[m] EXCEPT ![n] = NoTask]]
  /\ UNCHANGED <<known, joined, left, calls, losses>>

Next ==
  \/ \E n \in Nodes : Import(n) \/ Join(n) \/ Leave(n) \/ Restart(n)
  \/ \E n, m \in Nodes :
       \/ Receive(n, m) \/ LinkLost(n, m) \/ Connect(n, m)
       \/ \E k \in Tasks : Continue(n, m, k)

Spec == Init /\ [][Next]_vars

(* Frames that can be delivered are, and answers begun are finished.       *)
Progress == \E n, m \in Nodes : Receive(n, m) \/ \E k \in Tasks : Continue(n, m, k)

FairSpec == Spec /\ WF_vars(Progress)
-----------------------------------------------------------------------------
PeerState == [pending : Seq(SUBSET Nodes), responded : BOOLEAN]

(* Types; a tree that is not held is empty.                                *)
TypeOK ==
  /\ known \subseteq Nodes /\ held \subseteq known
  /\ tree \in [Nodes -> SUBSET Nodes] /\ departed \in [Nodes -> SUBSET Nodes]
  /\ \A n \in Nodes \ held : tree[n] = {}
  /\ joined \subseteq Nodes /\ left \subseteq Nodes
  /\ state \in [Nodes -> [Nodes -> PeerState]]
  /\ live \in [Nodes -> SUBSET Nodes]
  /\ wire \in [Nodes -> [Nodes -> Seq(Frame)]]
  /\ answering \in [Nodes -> [Nodes -> [Tasks -> Seq(Frame)]]]
  /\ calls \in [Nodes -> Nat] /\ losses \in Nat /\ restarts \in Nat

(* "The remove half always wins, so a peer that has not yet seen a         *)
(* departure cannot re-add the member by offering the commitment back"     *)
(* (membership-sync.ts): whatever lists are merged, whole, in pieces or    *)
(* after a lost connection, a node's tree holds no commitment it has a     *)
(* departure of, but the two its own calls put there.                      *)
RemoveWins ==
  \A n \in Nodes : tree[n] \cap departed[n] \subseteq {n, Creator}

(* Neither a tree nor a list being received ever outgrows the capacity,    *)
(* though frames, each within its own limit, keep coming.                  *)
Bounded ==
  \A n \in Nodes :
    /\ Cardinality(tree[n]) <= Capacity
    /\ \A m \in Nodes : Buffered(state[n][m].pending) <= Capacity

(* The sets of commitments a tree has room for.                            *)
Fitting == {S \in SUBSET Nodes : Cardinality(S) <= Capacity}

(* What GroupView promises is what the trees do: a commitment that was     *)
(* never offered by its owner appears in no tree, by whatever stale chunk  *)
(* or late answer, and merging a list, even one cut short, drops nobody.   *)
View == INSTANCE GroupView WITH view <- tree, offered <- joined

(* The exchange of roots, lists and departures implements GroupView        *)
(* (membership-sync.ts merge, handleDeparture).                            *)
ViewSpec == View!Spec

Quiet == \A n, m \in Nodes : wire[n][m] = <<>> /\ answering[n][m] = NoTask

SameTrees      == \A n, m \in held : m \in live[n] => tree[n] = tree[m]
SameDepartures == \A n, m \in Nodes : m \in live[n] => departed[n] = departed[m]

(* "Every peer derives the same membership root", and "both halves converge*)
(* regardless of message order": when nothing is in flight, connected nodes*)
(* that have a tree have the same one, and know of the same departures,    *)
(* however their joins, departures and answers overlapped; as long as no   *)
(* frame was lost with its connection and no node restarted.  It holds of  *)
(* groups whose nodes are together (MembershipProofs), not of all.         *)
Converged == Quiet /\ losses = 0 /\ restarts = 0 => SameTrees /\ SameDepartures

(* "Advertising the new root ... is what actually admits us to their       *)
(* trees" (joinGroup): when nothing is in flight, a member that was        *)
(* connected throughout is in the trees of the other members it is         *)
(* connected to.                                                           *)
JoinersAdmitted ==
  Quiet => \A n, m \in held :
    m \in live[n] /\ n \in tree[n] /\ m \in tree[m] => n \in tree[m]

(* "Otherwise two converged peers would trade lists forever"               *)
(* (handleMemberList): with calls that end, exchanges end.                 *)
ExchangesEnd == <>[]Quiet
=============================================================================
