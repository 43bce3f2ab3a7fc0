-------------------------- MODULE MembershipProofs --------------------------
(***************************************************************************)
(* Proofs about Membership, for any nodes, links, capacity and chunk size: *)
(* types, RemoveWins, and that the trees implement GroupView; and that a   *)
(* group that fits into one frame converges.                               *)
(*                                                                         *)
(* RemoveWins is inductive as it stands.  The refinement needs to know     *)
(* that whatever is under way was honest when it was sent: lists and roots *)
(* name only nodes that have joined, departures only nodes that have left. *)
(* Convergence needs to know, of every two that hold the group, what is    *)
(* still on its way between them (Told).                                   *)
(***************************************************************************)
EXTENDS Membership, FiniteSetTheorems, TLAPS

Honest == {f \in Frame : IF f.type = "departure" THEN f.members \subseteq left
                                                 ELSE f.members \subseteq joined}

HonestState == [pending : Seq(SUBSET joined), responded : BOOLEAN]

Wires(F)   == [Nodes -> [Nodes -> Seq(F)]]
Answers(F) == [Nodes -> [Nodes -> [Tasks -> Seq(F)]]]

Basics ==
  /\ known \subseteq Nodes /\ held \subseteq known
  /\ tree \in [Nodes -> SUBSET Nodes] /\ departed \in [Nodes -> SUBSET Nodes]
  /\ \A n \in Nodes \ held : tree[n] = {}
  /\ joined \subseteq Nodes /\ left \subseteq Nodes /\ Creator \in joined
  /\ live \in [Nodes -> SUBSET Nodes] /\ \A n \in Nodes : n \notin live[n]
  /\ calls \in [Nodes -> Nat] /\ losses \in Nat /\ restarts \in Nat

Genuine ==
  /\ \A n \in Nodes : tree[n] \subseteq joined /\ departed[n] \subseteq left
  /\ state \in [Nodes -> [Nodes -> HonestState]]
  /\ wire \in Wires(Honest)
  /\ answering \in Answers(Honest)

IInv == Basics /\ RemoveWins /\ Genuine
-----------------------------------------------------------------------------
(* Sequences over a set are sequences over a larger one.                   *)
LEMMA SeqMonotone ==
  ASSUME NEW S, NEW T, S \subseteq T PROVE Seq(S) \subseteq Seq(T)
OBVIOUS

(* What chunks list is what any of them lists.                             *)
LEMMA ListedWithin ==
  ASSUME NEW S, NEW chunks \in Seq(SUBSET S) PROVE Listed(chunks) \subseteq S
<1>1. \A i \in DOMAIN chunks : chunks[i] \subseteq S
  OBVIOUS
<1> QED
  BY <1>1 DEF Listed

(* merge adds only what is listed and not departed, and all of it if it    *)
(* fits.                                                                   *)
LEMMA MergeWithin ==
  ASSUME NEW t, NEW chunks, NEW gone
  PROVE  /\ merge(t, chunks, gone) \subseteq t \cup (Listed(chunks) \ gone)
         /\ Cardinality(t \cup (Listed(chunks) \ gone)) <= Capacity
            => merge(t, chunks, gone) = t \cup (Listed(chunks) \ gone)
<1> DEFINE into(u, S) == FoldLeft(insert, u, sorted(S \ gone))
           all == t \cup (Listed(chunks) \ gone)
           survivors == FoldLeft(into, t, chunks)
<1>1. merge(t, chunks, gone) = IF Cardinality(all) <= Capacity THEN all ELSE all \cap survivors
  BY DEF merge
<1> HIDE DEF all, survivors
<1>2. /\ merge(t, chunks, gone) \subseteq all
      /\ Cardinality(all) <= Capacity => merge(t, chunks, gone) = all
  BY <1>1
<1> QED
  BY <1>2 DEF all

(* A joiner's tree holds the creator and itself.                           *)
LEMMA JoinerTree ==
  ASSUME NEW n \in Nodes PROVE insert(bootstrapFromAnchor, n) = {Creator, n}
<1>1. Cardinality({Creator}) = 1
  BY FS_Singleton
<1>2. ~(Cardinality({Creator}) >= Capacity)
  BY <1>1, MembershipAssumption
<1> QED
  BY <1>2 DEF insert, bootstrapFromAnchor

(* The frames of a list of joined nodes are honest.                        *)
LEMMA ChunkHonest ==
  ASSUME Basics, NEW S, S \subseteq joined PROVE chunk(S) \in Seq(Honest)
<1> DEFINE index(c) == Cardinality({d \in S : Rank[d] < Rank[c]})
           count == IF S = {} THEN 1 ELSE (Cardinality(S) + ChunkSize - 1) \div ChunkSize
           part(k) == {c \in S : index(c) \div ChunkSize = k - 1}
           frame(k) == [type |-> "list", final |-> k = count, members |-> part(k)]
<1>1. count \in Nat
  <2>1. IsFiniteSet(S)
    BY FS_Subset, MembershipAssumption DEF Basics
  <2>2. Cardinality(S) \in Nat
    BY <2>1, FS_CardinalityType
  <2>3. Cardinality(S) + ChunkSize - 1 \in Nat
    BY <2>2, MembershipAssumption
  <2>4. (Cardinality(S) + ChunkSize - 1) \div ChunkSize \in Nat
    BY <2>3, MembershipAssumption
  <2> QED
    BY <2>4
<1>2. \A k : part(k) \subseteq joined
  OBVIOUS
<1>3. chunk(S) = [k \in 1 .. count |-> frame(k)]
  BY DEF chunk
<1> HIDE DEF count, part
<1>4. \A k : frame(k) \in Honest
  BY <1>2 DEF Honest, Frame, Basics
<1> HIDE DEF frame
<1> QED
  BY <1>1, <1>3, <1>4

LEMMA WireReplaced ==
  ASSUME NEW F, NEW w \in Wires(F), NEW n \in Nodes, NEW m \in Nodes, NEW s \in Seq(F)
  PROVE  [w EXCEPT ![n][m] = s] \in Wires(F)
BY DEF Wires

LEMMA TasksReplaced ==
  ASSUME NEW F, NEW w \in Answers(F), NEW n \in Nodes, NEW m \in Nodes,
         NEW t \in [Tasks -> Seq(F)]
  PROVE  [w EXCEPT ![n][m] = t] \in Answers(F)
BY DEF Answers

(* Answering keeps the types of what is under way.                         *)
LEMMA AnswerTyped ==
  ASSUME NEW F, NEW n \in Nodes, NEW m \in Nodes, NEW frames \in Seq(F),
         wire \in Wires(F), answering \in Answers(F), wire[m][n] # <<>>,
         Answer(n, m, frames)
  PROVE  wire' \in Wires(F) /\ answering' \in Answers(F)
<1> DEFINE rest == [wire EXCEPT ![m][n] = Tail(@)]
<1>1. rest \in Wires(F)
  <2>1. Tail(wire[m][n]) \in Seq(F)
    BY DEF Wires
  <2> QED
    BY <2>1 DEF Wires
<1>2. CASE frames = <<>>
  BY <1>1, <1>2 DEF Answer
<1>3. CASE frames # <<>>
  <2>1. Head(frames) \in F /\ Tail(frames) \in Seq(F)
    BY <1>3
  <2> DEFINE sent == [rest EXCEPT ![n][m] = Append(@, Head(frames))]
  <2>2. wire' = sent \/ wire' = rest
    BY <1>3 DEF Answer
  <2>3. Append(rest[n][m], Head(frames)) \in Seq(F)
    BY <1>1, <2>1 DEF Wires
  <2> HIDE DEF rest
  <2>4. sent \in Wires(F)
    BY <1>1, <2>3 DEF Wires
  <2>5. \E k \in Tasks : answering' = [answering EXCEPT ![n][m][k] = Tail(frames)]
    BY <1>3 DEF Answer
  <2>6. answering' \in Answers(F)
    BY <2>1, <2>5 DEF Answers
  <2> QED
    BY <1>1, <2>2, <2>4, <2>6
<1> QED
  BY <1>2, <1>3

(* So does a broadcast.                                                    *)
LEMMA BroadcastTyped ==
  ASSUME NEW F, NEW n \in Nodes, NEW frame \in F, wire \in Wires(F), Broadcast(n, frame)
  PROVE  wire' \in Wires(F)
<1>1. \A m \in Nodes : wire[n][m] \in Seq(F) /\ Append(wire[n][m], frame) \in Seq(F)
  BY DEF Wires
<1> QED
  BY <1>1 DEF Broadcast, Wires

(* What was honest stays honest as more nodes join and leave.              *)
LEMMA HonestyGrows ==
  ASSUME joined \subseteq joined', left \subseteq left'
  PROVE  /\ Wires(Honest) \subseteq Wires(Honest')
         /\ Answers(Honest) \subseteq Answers(Honest')
         /\ [Nodes -> [Nodes -> HonestState]] \subseteq [Nodes -> [Nodes -> HonestState']]
<1>1. Honest \subseteq Honest'
  BY DEF Honest
<1>2. Seq(Honest) \subseteq Seq(Honest')
  BY <1>1, SeqMonotone
<1>3. Seq(SUBSET joined) \subseteq Seq(SUBSET joined')
  BY SeqMonotone
<1>4. HonestState \subseteq HonestState'
  BY <1>3 DEF HonestState
<1>5. Wires(Honest) \subseteq Wires(Honest')
  BY <1>2 DEF Wires
<1>6. Answers(Honest) \subseteq Answers(Honest')
  BY <1>2 DEF Answers
<1>7. [Nodes -> [Nodes -> HonestState]] \subseteq [Nodes -> [Nodes -> HonestState']]
  BY <1>4
<1> QED
  BY <1>5, <1>6, <1>7
-----------------------------------------------------------------------------
LEMMA InitIInv == Init => IInv
<1> SUFFICES ASSUME Init PROVE IInv
  OBVIOUS
<1>1. Unheard \in HonestState
  BY DEF Unheard, HonestState
<1>2. Basics
  BY MembershipAssumption DEF Init, Basics, Neighbours, bootstrapFromAnchor
<1>3. RemoveWins
  BY DEF Init, RemoveWins
<1>4. Genuine
  <2>1. \A n \in Nodes : tree[n] \subseteq joined /\ departed[n] \subseteq left
    BY DEF Init, bootstrapFromAnchor
  <2>2. state \in [Nodes -> [Nodes -> HonestState]]
    BY <1>1 DEF Init
  <2>3. wire \in Wires(Honest)
    BY DEF Init, Silence, Wires
  <2>4. answering \in Answers(Honest)
    BY DEF Init, Silence, NoTask, Answers
  <2> QED
    BY <2>1, <2>2, <2>3, <2>4 DEF Genuine
<1> QED
  BY <1>2, <1>3, <1>4 DEF IInv

(* importGroup puts the anchored set in place of the tree.                 *)
LEMMA ImportStep ==
  ASSUME IInv, NEW n \in Nodes, Import(n) PROVE IInv' /\ View!Look(n)
<1> USE DEF Import, Call
<1>1. tree' = [tree EXCEPT ![n] = {Creator}]
  BY DEF bootstrapFromAnchor
<1>2. Basics'
  BY <1>1 DEF IInv, Basics
<1>3. RemoveWins'
  BY <1>1 DEF IInv, Basics, RemoveWins
<1>4. Genuine'
  <2>1. \A i \in Nodes : tree'[i] \subseteq joined' /\ departed'[i] \subseteq left'
    BY <1>1 DEF IInv, Basics, Genuine
  <2>2. Honest' = Honest /\ HonestState' = HonestState
    BY DEF Honest, HonestState
  <2> QED
    BY <2>1, <2>2 DEF IInv, Genuine, Wires, Answers
<1>5. View!Look(n)
  BY <1>1 DEF View!Look
<1> QED
  BY <1>2, <1>3, <1>4, <1>5 DEF IInv

(* joinGroup puts the creator and the joiner in place of the tree.         *)
LEMMA JoinStep ==
  ASSUME IInv, NEW n \in Nodes, Join(n) PROVE IInv' /\ View!Enter(n)
<1> USE DEF Join, Call
<1>1. tree' = [tree EXCEPT ![n] = {Creator, n}]
  BY JoinerTree
<1>2. Basics'
  BY <1>1, MembershipAssumption DEF IInv, Basics
<1>3. RemoveWins'
  BY <1>1 DEF IInv, Basics, RemoveWins
<1>4. Genuine'
  <2>1. \A i \in Nodes : tree'[i] \subseteq joined' /\ departed'[i] \subseteq left'
    BY <1>1 DEF IInv, Basics, Genuine
  <2>2. joined \subseteq joined' /\ left \subseteq left'
    OBVIOUS
  <2> DEFINE root == Root({Creator, n})
  <2>3. root \in Honest'
    BY MembershipAssumption DEF IInv, Basics, Honest, Frame, Root
  <2>4. /\ wire \in Wires(Honest') /\ answering \in Answers(Honest')
        /\ state \in [Nodes -> [Nodes -> HonestState']]
    BY <2>2, HonestyGrows DEF IInv, Genuine
  <2>5. Broadcast(n, root)
    BY JoinerTree
  <2> HIDE DEF root
  <2>6. wire' \in Wires(Honest')
    BY <2>3, <2>4, <2>5, BroadcastTyped
  <2> QED
    BY <2>1, <2>4, <2>6 DEF Genuine, Wires, Answers
<1>5. View!Enter(n)
  BY <1>1 DEF View!Enter
<1> QED
  BY <1>2, <1>3, <1>4, <1>5 DEF IInv

(* leaveGroup drops the tree and announces the departure.                  *)
LEMMA LeaveStep ==
  ASSUME IInv, NEW n \in Nodes, Leave(n) PROVE IInv' /\ View!Quit(n)
<1> USE DEF Leave
<1>2. Basics'
  BY DEF IInv, Basics, budget
<1>3. RemoveWins'
  BY DEF IInv, Basics, RemoveWins
<1>4. Genuine'
  <2>1. \A i \in Nodes : tree'[i] \subseteq joined' /\ departed'[i] \subseteq left'
    BY DEF IInv, Basics, Genuine
  <2>2. joined \subseteq joined' /\ left \subseteq left'
    OBVIOUS
  <2> DEFINE farewell == Departure(n)
  <2>3. farewell \in Honest'
    BY DEF IInv, Basics, Honest, Frame, Departure
  <2>4. /\ wire \in Wires(Honest') /\ answering \in Answers(Honest')
        /\ state \in [Nodes -> [Nodes -> HonestState']]
    BY <2>2, HonestyGrows DEF IInv, Genuine
  <2>5. wire' = wire \/ Broadcast(n, farewell)
    OBVIOUS
  <2> HIDE DEF farewell
  <2>6. wire' \in Wires(Honest')
    <3>1. CASE wire' = wire
      BY <3>1, <2>4 DEF Wires
    <3>2. CASE Broadcast(n, farewell)
      BY <3>2, <2>3, <2>4, BroadcastTyped
    <3> QED
      BY <2>5, <3>1, <3>2
  <2> QED
    BY <2>1, <2>4, <2>6 DEF Genuine, Wires, Answers
<1>5. View!Quit(n)
  BY DEF View!Quit
<1> QED
  BY <1>2, <1>3, <1>4, <1>5 DEF IInv
-----------------------------------------------------------------------------
(* A root changes no tree, and is answered with honest frames.             *)
LEMMA RootStep ==
  ASSUME IInv, NEW n \in Nodes, NEW m \in Nodes, wire[m][n] # <<>>,
         handleMemberRoot(n, m, Head(wire[m][n])),
         UNCHANGED <<known, held, joined, left, live, budget>>
  PROVE  IInv' /\ UNCHANGED View!vars
<1> USE DEF handleMemberRoot, budget
<1>1. UNCHANGED <<tree, departed>>
  OBVIOUS
<1>2. Basics' /\ RemoveWins'
  BY <1>1 DEF IInv, Basics, RemoveWins
<1>3. Honest' = Honest /\ HonestState' = HonestState
  BY DEF Honest, HonestState
<1>4. wire' \in Wires(Honest) /\ answering' \in Answers(Honest)
  <2>1. PICK frames \in {<<>>, chunk(tree[n])} : Answer(n, m, frames)
    OBVIOUS
  <2>2. chunk(tree[n]) \in Seq(Honest)
    BY ChunkHonest DEF IInv, Genuine
  <2>3. frames \in Seq(Honest)
    <3>1. <<>> \in Seq(Honest)
      OBVIOUS
    <3> QED
      BY <2>2, <3>1
  <2>4. wire \in Wires(Honest) /\ answering \in Answers(Honest)
    BY DEF IInv, Genuine
  <2> QED
    BY <2>1, <2>3, <2>4, AnswerTyped
<1>5. state' \in [Nodes -> [Nodes -> HonestState]]
  <2>1. state \in [Nodes -> [Nodes -> HonestState]]
    BY DEF IInv, Genuine
  <2>2. [pending |-> state[n][m].pending, responded |-> FALSE] \in HonestState
    BY <2>1 DEF HonestState
  <2>3. \E h \in HonestState : state' = state \/ state' = [state EXCEPT ![n][m] = h]
    BY <2>1, <2>2
  <2> QED
    BY <2>1, <2>3
<1>6. Genuine'
  BY <1>1, <1>3, <1>4, <1>5 DEF IInv, Genuine, Wires, Answers
<1> QED
  BY <1>1, <1>2, <1>6 DEF IInv, View!vars

(* A list adds to the tree what it lists and has not departed, as          *)
(* GroupView learns it, and is answered with honest frames.                *)
LEMMA ListStep ==
  ASSUME IInv, NEW n \in Nodes, NEW m \in Nodes, wire[m][n] # <<>>,
         handleMemberList(n, m, Head(wire[m][n])),
         UNCHANGED <<known, held, joined, left, live, budget>>
  PROVE  IInv' /\ (UNCHANGED View!vars \/ \E S \in SUBSET Nodes : View!Learn(n, S))
<1> DEFINE frame   == Head(wire[m][n])
           chunks  == Append(state[n][m].pending, frame.members)
           merged  == merge(tree[n], chunks, departed[n])
           missing == merged \ Listed(chunks)
           answer  == Reply(state[n][m].responded, missing)
           news    == Listed(chunks) \ departed[n]
<1>1. frame \in Honest /\ frame.type = "list"
  BY DEF IInv, Genuine, Wires, handleMemberList
<1>2. chunks \in Seq(SUBSET joined)
  <2>1. state[n][m].pending \in Seq(SUBSET joined)
    BY DEF IInv, Genuine, HonestState
  <2>2. frame.members \in SUBSET joined
    BY <1>1 DEF Honest
  <2> QED
    BY <2>1, <2>2
<1> HIDE DEF frame
<1>3. Listed(chunks) \subseteq joined
  BY <1>2, ListedWithin
<1>4. /\ merged \subseteq tree[n] \cup news
      /\ Cardinality(tree[n] \cup news) <= Capacity => merged = tree[n] \cup news
  BY MergeWithin
<1>5. \/ UNCHANGED <<tree, state>> /\ Answer(n, m, <<>>)
      \/ /\ state' = [state EXCEPT ![n][m] = Unheard]
         /\ UNCHANGED tree /\ Answer(n, m, <<>>)
      \/ /\ state' = [state EXCEPT ![n][m] =
              [pending |-> chunks, responded |-> @.responded]]
         /\ UNCHANGED tree /\ Answer(n, m, <<>>)
      \/ /\ n \in held
         /\ tree' = [tree EXCEPT ![n] = merged]
         /\ state' = [state EXCEPT ![n][m] =
              [pending |-> <<>>, responded |-> answer # <<>>]]
         /\ Answer(n, m, answer)
  BY DEF handleMemberList, frame
<1>6. UNCHANGED departed
  BY DEF handleMemberList
<1> HIDE DEF chunks, merged, answer, news
<1>7. tree[n] \subseteq joined /\ joined \subseteq Nodes /\ news \subseteq joined
  BY <1>3 DEF IInv, Genuine, Basics, news
<1>8. merged \subseteq joined
  BY <1>4, <1>7
<1>9. answer \in Seq(Honest)
  <2>1. missing \subseteq joined
    BY <1>8
  <2>2. chunk(missing) \in Seq(Honest)
    BY <2>1, ChunkHonest DEF IInv
  <2> QED
    BY <2>2 DEF answer, Reply
<1> HIDE DEF missing
<1>10. Honest' = Honest /\ HonestState' = HonestState
  BY DEF Honest, HonestState
<1>11. state' \in [Nodes -> [Nodes -> HonestState]]
  <2>1. Unheard \in HonestState
    BY DEF Unheard, HonestState
  <2>2. [pending |-> <<>>, responded |-> answer # <<>>] \in HonestState
    BY DEF HonestState
  <2>3. [pending |-> chunks, responded |-> state[n][m].responded] \in HonestState
    BY <1>2 DEF IInv, Genuine, HonestState
  <2>4. state \in [Nodes -> [Nodes -> HonestState]]
    BY DEF IInv, Genuine
  <2>5. \E h \in HonestState : state' = state \/ state' = [state EXCEPT ![n][m] = h]
    BY <1>5, <2>1, <2>2, <2>3, <2>4
  <2> QED
    BY <2>4, <2>5
<1>12. wire' \in Wires(Honest) /\ answering' \in Answers(Honest)
  <2>1. PICK frames \in {<<>>, answer} : Answer(n, m, frames)
    BY <1>5
  <2>2. frames \in Seq(Honest)
    <3>1. <<>> \in Seq(Honest)
      OBVIOUS
    <3> QED
      BY <1>9, <3>1
  <2>3. wire \in Wires(Honest) /\ answering \in Answers(Honest)
    BY DEF IInv, Genuine
  <2> QED
    BY <2>1, <2>2, <2>3, AnswerTyped
<1>13. tree' = tree \/ (n \in held /\ tree' = [tree EXCEPT ![n] = merged])
  BY <1>5
<1>14. Basics'
  BY <1>6, <1>7, <1>8, <1>13 DEF IInv, Basics, budget
<1>15. RemoveWins'
  <2>1. merged \cap departed[n] \subseteq tree[n] \cap departed[n]
    BY <1>4 DEF news
  <2> QED
    BY <1>6, <1>13, <2>1 DEF IInv, Basics, RemoveWins
<1>16. Genuine'
  <2>1. \A i \in Nodes : tree'[i] \subseteq joined' /\ departed'[i] \subseteq left'
    BY <1>6, <1>8, <1>13 DEF IInv, Basics, Genuine
  <2> QED
    BY <2>1, <1>10, <1>11, <1>12 DEF Genuine, Wires, Answers
<1>17. CASE tree' = tree
  BY <1>14, <1>15, <1>16, <1>17 DEF IInv, View!vars
<1>18. CASE tree' = [tree EXCEPT ![n] = merged]
  <2>1. news \in SUBSET Nodes
    BY <1>7
  <2>2. merged \in SUBSET (tree[n] \cup news)
    BY <1>4
  <2>3. View!Learn(n, news)
    BY <1>4, <1>7, <1>18, <2>2 DEF View!Learn, Fitting
  <2> QED
    BY <1>14, <1>15, <1>16, <2>1, <2>3 DEF IInv
<1> QED
  BY <1>13, <1>17, <1>18

(* A departure takes from the tree only nodes that have left.              *)
LEMMA DepartureStep ==
  ASSUME IInv, NEW n \in Nodes, NEW m \in Nodes, wire[m][n] # <<>>,
         handleDeparture(n, m, Head(wire[m][n])),
         UNCHANGED <<known, held, joined, left, live, budget>>
  PROVE  IInv' /\ \E S \in SUBSET Nodes : View!Forget(n, S)
<1> DEFINE frame == Head(wire[m][n])
           gone  == frame.members \ departed[n]
<1>1. frame \in Honest /\ frame.type = "departure"
  BY DEF IInv, Genuine, Wires, handleDeparture
<1>2. frame.members \subseteq left /\ left \subseteq Nodes
  BY <1>1 DEF Honest, IInv, Basics
<1>3. /\ departed' = [departed EXCEPT ![n] = @ \cup frame.members]
      /\ tree' = [tree EXCEPT ![n] = @ \ gone]
      /\ Answer(n, m, <<>>) /\ UNCHANGED state
  BY DEF handleDeparture
<1> HIDE DEF frame
<1>4. Basics'
  BY <1>2, <1>3 DEF IInv, Basics, budget
<1>5. RemoveWins'
  BY <1>3 DEF IInv, Basics, RemoveWins
<1>6. Genuine'
  <2>1. \A i \in Nodes : tree'[i] \subseteq joined' /\ departed'[i] \subseteq left'
    BY <1>2, <1>3 DEF IInv, Basics, Genuine
  <2>2. Honest' = Honest /\ HonestState' = HonestState
    BY DEF Honest, HonestState
  <2> DEFINE nothing == <<>>
  <2>3. nothing \in Seq(Honest) /\ Answer(n, m, nothing)
    BY <1>3
  <2> HIDE DEF nothing
  <2>4. wire \in Wires(Honest) /\ answering \in Answers(Honest)
    BY DEF IInv, Genuine
  <2>5. wire' \in Wires(Honest) /\ answering' \in Answers(Honest)
    BY <2>3, <2>4, AnswerTyped
  <2> QED
    BY <1>3, <2>1, <2>2, <2>5 DEF IInv, Genuine, Wires, Answers
<1>7. gone \in SUBSET Nodes /\ View!Forget(n, gone)
  BY <1>2, <1>3 DEF View!Forget
<1> QED
  BY <1>4, <1>5, <1>6, <1>7 DEF IInv
-----------------------------------------------------------------------------
(* A node that goes on with an answer, or loses, makes or tears down a     *)
(* connection changes no tree.                                             *)
LEMMA ContinueStep ==
  ASSUME IInv, NEW n \in Nodes, NEW m \in Nodes, NEW k \in Tasks, Continue(n, m, k)
  PROVE  IInv' /\ UNCHANGED View!vars
<1> USE DEF Continue, replica, budget
<1>1. Basics' /\ RemoveWins'
  BY DEF IInv, Basics, RemoveWins
<1>2. Honest' = Honest /\ HonestState' = HonestState
  BY DEF Honest, HonestState
<1>3. wire \in Wires(Honest) /\ answering \in Answers(Honest)
  BY DEF IInv, Genuine
<1>4. answering[n][m][k] \in Seq(Honest)
  BY <1>3 DEF Answers
<1>5. Head(answering[n][m][k]) \in Honest /\ Tail(answering[n][m][k]) \in Seq(Honest)
  BY <1>4
<1>6. Append(wire[n][m], Head(answering[n][m][k])) \in Seq(Honest)
  BY <1>3, <1>5 DEF Wires
<1>7. wire' \in Wires(Honest)
  BY <1>3, <1>6 DEF Wires
<1>8. answering' \in Answers(Honest)
  BY <1>3, <1>5 DEF Answers
<1>9. Genuine'
  BY <1>2, <1>7, <1>8 DEF IInv, Genuine, Wires, Answers
<1> QED
  BY <1>1, <1>9 DEF IInv, View!vars

LEMMA LinkLostStep ==
  ASSUME IInv, NEW n \in Nodes, NEW m \in Nodes, LinkLost(n, m)
  PROVE  IInv' /\ UNCHANGED View!vars
<1> USE DEF LinkLost, replica
<1>1. Basics' /\ RemoveWins'
  BY DEF IInv, Basics, RemoveWins
<1>2. Honest' = Honest /\ HonestState' = HonestState
  BY DEF Honest, HonestState
<1>3. /\ wire \in Wires(Honest) /\ answering \in Answers(Honest)
      /\ n # m
  BY DEF IInv, Genuine, Basics
<1>4. wire' \in Wires(Honest)
  <2>1. PICK sent \in 0 .. Len(wire[n][m]) :
          wire' = [wire EXCEPT ![m][n] = <<>>, ![n][m] = SubSeq(@, 1, sent)]
    OBVIOUS
  <2>2. wire[n][m] \in Seq(Honest)
    BY <1>3 DEF Wires
  <2>3. SubSeq(wire[n][m], 1, sent) \in Seq(Honest)
    BY <2>2
  <2> DEFINE silenced == [wire EXCEPT ![m][n] = <<>>]
  <2>4. silenced \in Wires(Honest) /\ silenced[n][m] = wire[n][m]
    BY <1>3 DEF Wires
  <2>5. wire' = [silenced EXCEPT ![n][m] = SubSeq(wire[n][m], 1, sent)]
    BY <2>1, <2>4
  <2> HIDE DEF silenced
  <2> QED
    BY <2>3, <2>4, <2>5 DEF Wires
<1>5. answering' \in Answers(Honest)
  BY <1>3 DEF Answers, NoTask
<1>6. Genuine'
  BY <1>2, <1>4, <1>5 DEF IInv, Genuine, Wires, Answers
<1> QED
  BY <1>1, <1>6 DEF IInv, View!vars

LEMMA ConnectStep ==
  ASSUME IInv, NEW n \in Nodes, NEW m \in Nodes, Connect(n, m)
  PROVE  IInv' /\ UNCHANGED View!vars
<1> USE DEF Connect, replica, budget
<1>1. n # m
  BY MembershipAssumption
<1>2. Basics' /\ RemoveWins'
  BY <1>1 DEF IInv, Basics, RemoveWins
<1>3. Honest' = Honest /\ HonestState' = HonestState
  BY DEF Honest, HonestState
<1>4. wire \in Wires(Honest) /\ answering \in Answers(Honest)
  BY DEF IInv, Genuine
<1>5. wire' \in Wires(Honest)
  <2> DEFINE half == [wire EXCEPT ![n][m] = <<>>]
  <2>1. half \in Wires(Honest)
    BY <1>4 DEF Wires
  <2> DEFINE nothing == <<>>
  <2>2. wire' = [half EXCEPT ![m][n] = nothing] /\ nothing \in Seq(Honest)
    OBVIOUS
  <2> HIDE DEF half, nothing
  <2>3. [half EXCEPT ![m][n] = nothing] \in Wires(Honest)
    BY <2>1, <2>2, WireReplaced
  <2> QED
    BY <2>2, <2>3
<1>6. answering' \in Answers(Honest)
  <2> DEFINE half == [answering EXCEPT ![n][m] = NoTask]
  <2>1. half \in Answers(Honest)
    BY <1>4 DEF Answers, NoTask
  <2>2. answering' = [half EXCEPT ![m][n] = NoTask]
    OBVIOUS
  <2>3. NoTask \in [Tasks -> Seq(Honest)]
    BY DEF NoTask
  <2> HIDE DEF half
  <2>4. [half EXCEPT ![m][n] = NoTask] \in Answers(Honest)
    BY <2>1, <2>3, TasksReplaced
  <2> QED
    BY <2>2, <2>4
<1>7. Genuine'
  BY <1>3, <1>5, <1>6 DEF IInv, Genuine, Wires, Answers
<1> QED
  BY <1>2, <1>7 DEF IInv, View!vars

(* A restart drops the tree and the departures of one node.                *)
LEMMA RestartStep ==
  ASSUME IInv, NEW n \in Nodes, Restart(n) PROVE IInv' /\ View!Crash(n)
<1> USE DEF Restart
<1>1. Basics' /\ RemoveWins'
  BY DEF IInv, Basics, RemoveWins
<1>2. Honest' = Honest /\ HonestState' = HonestState
  BY DEF Honest, HonestState
<1>3. \A i \in Nodes : tree'[i] \subseteq joined' /\ departed'[i] \subseteq left'
  BY DEF IInv, Basics, Genuine
<1>4. wire \in Wires(Honest) /\ answering \in Answers(Honest)
  BY DEF IInv, Genuine
<1>5. wire' \in Wires(Honest)
  BY <1>4 DEF Wires, Silence
<1>6. answering' \in Answers(Honest)
  BY <1>4 DEF Answers, NoTask
<1>7. state' \in [Nodes -> [Nodes -> HonestState]]
  <2>1. Unheard \in HonestState
    BY DEF Unheard, HonestState
  <2> QED
    BY <2>1 DEF IInv, Genuine
<1>8. Genuine'
  BY <1>2, <1>3, <1>5, <1>6, <1>7 DEF Genuine, Wires, Answers
<1>9. View!Crash(n)
  BY DEF View!Crash
<1> QED
  BY <1>1, <1>8, <1>9 DEF IInv
-----------------------------------------------------------------------------
(* The invariant is inductive, and every step is one of GroupView's or     *)
(* leaves the views alone.                                                 *)
LEMMA StepIInv == IInv /\ [Next]_vars => IInv' /\ [View!Next]_(View!vars)
<1> SUFFICES ASSUME IInv, [Next]_vars PROVE IInv' /\ [View!Next]_(View!vars)
  OBVIOUS
<1>1. ASSUME NEW n \in Nodes, Import(n) PROVE IInv' /\ View!Next
  BY <1>1, ImportStep DEF View!Next
<1>2. ASSUME NEW n \in Nodes, Join(n) PROVE IInv' /\ View!Next
  BY <1>2, JoinStep DEF View!Next
<1>3. ASSUME NEW n \in Nodes, Leave(n) PROVE IInv' /\ View!Next
  BY <1>3, LeaveStep DEF View!Next
<1>4. ASSUME NEW n \in Nodes, Restart(n) PROVE IInv' /\ View!Next
  BY <1>4, RestartStep DEF View!Next
<1>5. ASSUME NEW n \in Nodes, NEW m \in Nodes, Receive(n, m)
      PROVE  IInv' /\ [View!Next]_(View!vars)
  <2> DEFINE frame == Head(wire[m][n])
  <2>1. /\ wire[m][n] # <<>>
        /\ UNCHANGED <<known, held, joined, left, live, budget>>
        /\ \/ handleMemberRoot(n, m, frame)
           \/ handleMemberList(n, m, frame)
           \/ handleDeparture(n, m, frame)
    BY <1>5 DEF Receive
  <2>2. CASE handleMemberRoot(n, m, frame)
    BY <2>1, <2>2, RootStep
  <2>3. CASE handleMemberList(n, m, frame)
    BY <2>1, <2>3, ListStep DEF View!Next
  <2>4. CASE handleDeparture(n, m, frame)
    BY <2>1, <2>4, DepartureStep DEF View!Next
  <2> QED
    BY <2>1, <2>2, <2>3, <2>4
<1>6. ASSUME NEW n \in Nodes, NEW m \in Nodes, NEW k \in Tasks, Continue(n, m, k)
      PROVE  IInv' /\ UNCHANGED View!vars
  BY <1>6, ContinueStep
<1>7. ASSUME NEW n \in Nodes, NEW m \in Nodes, LinkLost(n, m)
      PROVE  IInv' /\ UNCHANGED View!vars
  BY <1>7, LinkLostStep
<1>8. ASSUME NEW n \in Nodes, NEW m \in Nodes, Connect(n, m)
      PROVE  IInv' /\ UNCHANGED View!vars
  BY <1>8, ConnectStep
<1>9. CASE UNCHANGED vars
  <2>1. Basics' /\ RemoveWins'
    BY <1>9 DEF vars, replica, budget, IInv, Basics, RemoveWins
  <2>2. Honest' = Honest /\ HonestState' = HonestState
    BY <1>9 DEF vars, replica, Honest, HonestState
  <2>3. Genuine'
    BY <1>9, <2>2 DEF vars, replica, IInv, Genuine, Wires, Answers
  <2>4. UNCHANGED View!vars
    BY <1>9 DEF vars, replica, View!vars
  <2> QED
    BY <2>1, <2>3, <2>4 DEF IInv
<1> QED
  BY <1>1, <1>2, <1>3, <1>4, <1>5, <1>6, <1>7, <1>8, <1>9 DEF Next

LEMMA IInvTyped == IInv => TypeOK
<1> SUFFICES ASSUME IInv PROVE TypeOK
  OBVIOUS
<1>1. joined \subseteq Nodes /\ Honest \subseteq Frame
  BY DEF IInv, Basics, Honest
<1>2. Seq(SUBSET joined) \subseteq Seq(SUBSET Nodes) /\ Seq(Honest) \subseteq Seq(Frame)
  BY <1>1, SeqMonotone
<1>3. state \in [Nodes -> [Nodes -> PeerState]]
  <2>1. HonestState \subseteq PeerState
    BY <1>2 DEF HonestState, PeerState
  <2> QED
    BY <2>1 DEF IInv, Genuine
<1>4. wire \in [Nodes -> [Nodes -> Seq(Frame)]]
  BY <1>2 DEF IInv, Genuine, Wires
<1>5. answering \in [Nodes -> [Nodes -> [Tasks -> Seq(Frame)]]]
  BY <1>2 DEF IInv, Genuine, Answers
<1> QED
  BY <1>3, <1>4, <1>5 DEF IInv, Basics, TypeOK

LEMMA Invariance == Spec => []IInv
<1>1. IInv /\ [Next]_vars => IInv'
  BY StepIInv
<1> QED
  BY <1>1, InitIInv, PTL DEF Spec

(* Every frame, list and answer is well formed, and a node that does not   *)
(* hold the group has an empty tree, in every group.                       *)
THEOREM TypeCorrect == Spec => []TypeOK
<1> QED
  BY IInvTyped, Invariance, PTL

(* No list, however cut up, delayed or stale, puts back a commitment whose *)
(* departure the node has received: handleMemberList and handleDeparture,  *)
(* for any number of nodes and any loss of connections and processes.      *)
THEOREM RemovalWins == Spec => []RemoveWins
<1>1. IInv => RemoveWins
  BY DEF IInv
<1> QED
  BY <1>1, Invariance, PTL

(* The exchange of roots and lists implements GroupView: a commitment      *)
(* enters a tree only if its owner once joined, and leaves one only by a   *)
(* departure its owner announced, for want of room, or with the tree.      *)
THEOREM ImplementsView == Spec => ViewSpec
<1>1. Init => View!Init
  BY DEF Init, View!Init, bootstrapFromAnchor
<1>2. IInv /\ [Next]_vars => [View!Next]_(View!vars)
  BY StepIInv
<1> QED
  BY <1>1, <1>2, Invariance, PTL DEF Spec, ViewSpec, View!Spec
-----------------------------------------------------------------------------
(* Convergence: who holds the group, and what is on the way between two.   *)

(* The group fits into its trees and into one frame (1,024 commitments),   *)
(* all of its nodes may connect to each other and join it as they import   *)
(* it, and who leaves does not come back.  Converged fails without any one *)
(* of these: pieces of two lists may exceed the limit of a list being      *)
(* received; what is learnt by a merge is not passed on; an observer names *)
(* only the creator and announces nothing; a joiner names the creator, also *)
(* when it has left; who is back is in its own tree only.                  *)
Together ==
  /\ Cardinality(Nodes) <= ChunkSize /\ Cardinality(Nodes) <= Capacity
  /\ \A n, m \in Nodes : n # m => <<n, m>> \in Links
  /\ Observers = {}
  /\ Creator \notin Leavers /\ \A n \in Leavers : Calls[n] <= 1

Carries(s, type) == \E k \in DOMAIN s : s[k].type = type
Offers(s, n)     == \E k \in DOMAIN s : s[k].type = "list" /\ n \in s[k].members

(* What n may send: lists in one piece, its root when it joins, its own    *)
(* departure.                                                              *)
Whole(n, f) ==
  /\ f.type = "root" => f.members = {Creator, n}
  /\ f.type = "list" => f.final
  /\ f.type = "departure" => f.members = {n}

WholeFrames ==
  /\ \A n, m \in Nodes, k \in Tasks : answering[n][m][k] = <<>>
  /\ \A n, m \in Nodes : state[n][m].pending = <<>>
  /\ \A n, m \in Nodes : \A k \in DOMAIN wire[n][m] : Whole(n, wire[n][m][k])

(* Who has joined holds the group until it leaves.                         *)
Joiners ==
  /\ \A n, m \in Nodes : n # m => m \in live[n]
  /\ known = joined /\ joined = held \cup left /\ held \cap left = {}
  /\ left \subseteq Leavers /\ \A n \in joined \ {Creator} : calls[n] >= 1
  /\ \A n \in held : Creator \in tree[n] /\ n \in tree[n]

(* A departure is known to everybody or on the way.                        *)
Departures ==
  \A n \in left, m \in Nodes :
    n \in departed[m] \/ (n # m /\ Carries(wire[n][m], "departure"))

(* m has the commitment of n, or a list with it is on the way, or m has    *)
(* said that it starts over, which n will answer.                          *)
Delivered(n, m) ==
  n \in tree[m] \/ Offers(wire[n][m], n) \/ Carries(wire[m][n], "root")

(* m will have the commitment of n: when it is delivered, or when n's root *)
(* is answered with a list and that list with what it lacks.  The one      *)
(* answer that n may leave out is one that m no longer needs.              *)
Told(n, m) ==
  /\ state[n][m].responded \/ Offers(wire[m][n], n) => Delivered(n, m)
  /\ Delivered(n, m) \/ Carries(wire[n][m], "root") \/ Carries(wire[m][n], "list")

Exchanges ==
  /\ \A n \in Nodes \ joined, m \in Nodes : ~state[n][m].responded
  /\ \A n, m \in held : n # m => Told(n, m)

Calm     == losses = 0 /\ restarts = 0
Gathered == WholeFrames /\ Joiners /\ Departures /\ Exchanges

(* What a sequence of frames carries, it carries with one more in front or *)
(* behind.                                                                 *)
LEMMA Appended ==
  ASSUME NEW S, NEW s \in Seq(S), NEW f \in S, NEW n, NEW t, NEW p
  PROVE  /\ Carries(Append(s, f), t) <=> Carries(s, t) \/ f.type = t
         /\ Offers(Append(s, f), n) <=> Offers(s, n) \/ (f.type = "list" /\ n \in f.members)
         /\ (\A k \in DOMAIN s : Whole(p, s[k])) /\ Whole(p, f)
            => \A k \in DOMAIN Append(s, f) : Whole(p, Append(s, f)[k])
<1> DEFINE u == Append(s, f)
<1>1. /\ Len(s) \in Nat /\ Len(u) = Len(s) + 1 /\ DOMAIN s = 1 .. Len(s)
      /\ DOMAIN u = 1 .. Len(s) + 1
      /\ \A k \in 1 .. Len(s) : u[k] = s[k]
      /\ u[Len(s) + 1] = f
  OBVIOUS
<1>2. \A k \in DOMAIN u : k \in DOMAIN s \/ k = Len(s) + 1
  BY <1>1
<1>3. Len(s) + 1 \in DOMAIN u /\ \A k \in DOMAIN s : k \in DOMAIN u
  BY <1>1
<1> HIDE DEF u
<1>4. Carries(u, t) <=> Carries(s, t) \/ f.type = t
  BY <1>1, <1>2, <1>3 DEF Carries
<1>5. Offers(u, n) <=> Offers(s, n) \/ (f.type = "list" /\ n \in f.members)
  BY <1>1, <1>2, <1>3 DEF Offers
<1>6. (\A k \in DOMAIN s : Whole(p, s[k])) /\ Whole(p, f) => \A k \in DOMAIN u : Whole(p, u[k])
  BY <1>1, <1>2
<1> QED BY <1>4, <1>5, <1>6 DEF u

LEMMA Taken ==
  ASSUME NEW S, NEW s \in Seq(S), s # <<>>, NEW n, NEW t, NEW p
  PROVE  /\ Carries(s, t) <=> Carries(Tail(s), t) \/ Head(s).type = t
         /\ Offers(s, n) <=> Offers(Tail(s), n) \/ (Head(s).type = "list" /\ n \in Head(s).members)
         /\ (\A k \in DOMAIN s : Whole(p, s[k]))
            => Whole(p, Head(s)) /\ \A k \in DOMAIN Tail(s) : Whole(p, Tail(s)[k])
<1> DEFINE u == Tail(s)
<1>1. /\ Len(s) \in Nat /\ Len(u) = Len(s) - 1 /\ DOMAIN s = 1 .. Len(s)
      /\ DOMAIN u = 1 .. Len(s) - 1 /\ Len(s) >= 1
      /\ \A k \in 1 .. Len(s) - 1 : u[k] = s[k + 1]
      /\ s[1] = Head(s)
  OBVIOUS
<1>2. \A k \in DOMAIN s : k = 1 \/ (k - 1 \in DOMAIN u /\ u[k - 1] = s[k])
  BY <1>1
<1>3. 1 \in DOMAIN s /\ \A k \in DOMAIN u : k + 1 \in DOMAIN s /\ u[k] = s[k + 1]
  BY <1>1
<1> HIDE DEF u
<1>4. Carries(s, t) <=> Carries(u, t) \/ Head(s).type = t
  BY <1>1, <1>2, <1>3 DEF Carries
<1>5. Offers(s, n) <=> Offers(u, n) \/ (Head(s).type = "list" /\ n \in Head(s).members)
  BY <1>1, <1>2, <1>3 DEF Offers
<1>6. (\A k \in DOMAIN s : Whole(p, s[k]))
      => Whole(p, Head(s)) /\ \A k \in DOMAIN u : Whole(p, u[k])
  BY <1>1, <1>3
<1> QED BY <1>4, <1>5, <1>6 DEF u

LEMMA NothingCarried == \A t, n : ~Carries(<<>>, t) /\ ~Offers(<<>>, n)
BY DEF Carries, Offers

(* Division where it gives 0 or 1: how many frames a list takes.           *)
LEMMA Quotient ==
  ASSUME NEW a \in Nat, NEW d \in Nat, d > 0
  PROVE  /\ a < d => a \div d = 0
         /\ d <= a /\ a < 2 * d => a \div d = 1
<1>1. a \div d \in Int /\ d * (a \div d) <= a /\ a < d * (a \div d) + d
  OBVIOUS
<1> DEFINE q == a \div d
<1> HIDE DEF q
<1>2. q \in Int /\ d * q <= a /\ a < d * q + d
  BY <1>1 DEF q
<1>3. \A x, y \in Int : x <= y => d * x <= d * y
  OBVIOUS
<1>4. d * 1 = d /\ d * 0 = 0 /\ d * 2 = 2 * d /\ d * (0 - 1) = 0 - d
  OBVIOUS
<1>5. CASE q >= 2
  <2>1. d * 2 <= d * q
    BY <1>2, <1>3, <1>5
  <2> QED BY <1>2, <1>4, <1>5, <2>1 DEF q
<1>6. CASE q = 1
  BY <1>2, <1>4, <1>6 DEF q
<1>7. CASE q = 0
  BY <1>2, <1>4, <1>7 DEF q
<1>8. CASE q < 0
  <2>1. d * q <= d * (0 - 1)
    BY <1>2, <1>3, <1>8
  <2> QED BY <1>2, <1>4, <1>8, <2>1 DEF q
<1>9. q >= 2 \/ q = 1 \/ q = 0 \/ q < 0
  BY <1>2
<1> QED BY <1>5, <1>6, <1>7, <1>8, <1>9

(* What one list alone takes of the buffer.                                *)
LEMMA BufferedOne ==
  ASSUME NEW S, Cardinality(S) \in Nat
  PROVE  Buffered(<<S>>) = Cardinality(S)
<1> DEFINE D == DOMAIN <<S>>
           iter[s \in SUBSET D] == IF s = {} THEN 0
               ELSE iter[s \ {Max(s)}] + Cardinality(<<S>>[Max(s)])
           h == [s \in SUBSET D |-> IF s = {} THEN 0 ELSE Cardinality(S)]
<1>1. Buffered(<<S>>) = iter[D]
  BY DEF Buffered, FoldLeft, MapThenFoldSet
<1>2. D = {1}
  OBVIOUS
<1>3. Max({1}) = 1
  BY DEF Max
<1> HIDE DEF D
<1>4. \A s \in SUBSET D : s = {} \/ s = {1}
  BY <1>2
<1>5. h = [s \in SUBSET D |-> IF s = {} THEN 0
               ELSE h[s \ {Max(s)}] + Cardinality(<<S>>[Max(s)])]
  <2>1. ASSUME NEW s \in SUBSET D
        PROVE  h[s] = IF s = {} THEN 0 ELSE h[s \ {Max(s)}] + Cardinality(<<S>>[Max(s)])
    <3>1. CASE s = {}
      BY <3>1
    <3>2. CASE s = {1}
      <4>1. s \ {Max(s)} = {} /\ {} \in SUBSET D
        BY <3>2, <1>3
      <4>2. h[s \ {Max(s)}] = 0
        BY <4>1
      <4>3. <<S>>[Max(s)] = S /\ h[s] = Cardinality(S)
        BY <3>2, <1>3
      <4> QED BY <3>2, <4>2, <4>3
    <3> QED BY <2>1, <1>4, <3>1, <3>2
  <2> QED BY <2>1
<1>6. iter = [s \in SUBSET D |-> IF s = {} THEN 0
               ELSE iter[s \ {Max(s)}] + Cardinality(<<S>>[Max(s)])]
  <2> HIDE DEF h
  <2> QED BY <1>5
<1> HIDE DEF iter
<1>7. iter[{}] = 0
  BY <1>6
<1>8. iter[{1}] = iter[{}] + Cardinality(S)
  <2>1. {1} \in SUBSET D /\ {1} # {} /\ {1} \ {Max({1})} = {} /\ <<S>>[Max({1})] = S
    BY <1>2, <1>3
  <2> QED BY <1>6, <2>1
<1> QED BY <1>1, <1>2, <1>7, <1>8

(* A list of a group that fits into one frame is one frame.                *)
List(S) == [type |-> "list", final |-> TRUE, members |-> S]

LEMMA OneFrame ==
  ASSUME Together, NEW S \in SUBSET Nodes
  PROVE  chunk(S) = <<List(S)>>
<1> DEFINE before(c) == {d \in S : Rank[d] < Rank[c]}
           index(c)  == Cardinality(before(c))
           count == IF S = {} THEN 1 ELSE (Cardinality(S) + ChunkSize - 1) \div ChunkSize
           part(k) == {c \in S : index(c) \div ChunkSize = k - 1}
           frame(k) == [type |-> "list", final |-> k = count, members |-> part(k)]
<1>1. IsFiniteSet(S) /\ Cardinality(S) \in Nat /\ Cardinality(S) <= Cardinality(Nodes)
      /\ Cardinality(Nodes) \in Nat
  BY MembershipAssumption, FS_Subset, FS_CardinalityType
<1>2. ChunkSize \in Nat /\ ChunkSize > 0 /\ Cardinality(S) <= ChunkSize
  BY <1>1, MembershipAssumption DEF Together
<1>3. count = 1
  <2>1. CASE S = {}
    BY <2>1
  <2>2. CASE S # {}
    <3>1. Cardinality(S) # 0
      BY <1>1, <2>2, FS_EmptySet
    <3>2. ChunkSize <= Cardinality(S) + ChunkSize - 1
          /\ Cardinality(S) + ChunkSize - 1 < 2 * ChunkSize
      BY <1>1, <1>2, <3>1
    <3>3. (Cardinality(S) + ChunkSize - 1) \div ChunkSize = 1
      BY <1>1, <1>2, <3>2, Quotient
    <3> QED BY <2>2, <3>3
  <2> QED BY <2>1, <2>2
<1>4. part(1) = S
  <2>1. ASSUME NEW c \in S PROVE index(c) \div ChunkSize = 0
    <3>1. before(c) \subseteq S /\ c \notin before(c)
      BY MembershipAssumption
    <3>2. before(c) # S
      BY <3>1
    <3> HIDE DEF before
    <3>3. Cardinality(before(c)) \in Nat /\ Cardinality(before(c)) < Cardinality(S)
      BY <1>1, <3>1, <3>2, FS_Subset, FS_CardinalityType
    <3> QED BY <1>1, <1>2, <3>3, Quotient
  <2> QED BY <2>1
<1>5. chunk(S) = [k \in 1 .. count |-> frame(k)]
  BY DEF chunk
<1> HIDE DEF count, part
<1>6. chunk(S) = [k \in 1 .. 1 |-> frame(k)] /\ frame(1) = List(S)
  BY <1>3, <1>4, <1>5 DEF List
<1> QED BY <1>6
-----------------------------------------------------------------------------
(* A frame of m is taken by n, which may answer with a list.               *)
Passed(n, m, sent) ==
  \A p, q \in Nodes :
    wire'[p][q] = IF p = m /\ q = n THEN Tail(wire[m][n])
                  ELSE IF p = n /\ q = m THEN sent ELSE wire[p][q]

AtMostOneList(n, m, sent) ==
  sent = wire[n][m] \/ \E S \in SUBSET joined : sent = Append(wire[n][m], List(S))

(* What is on a wire, and the lists that may follow, are honest frames.    *)
LEMMA WireTyped ==
  ASSUME IInv
  PROVE  /\ wire \in [Nodes -> [Nodes -> Seq(Honest)]]
         /\ \A p, q \in Nodes : wire[p][q] \in Seq(Honest)
         /\ \A S \in SUBSET joined : List(S) \in Honest
         /\ joined \subseteq Nodes
<1>1. wire \in [Nodes -> [Nodes -> Seq(Honest)]] /\ joined \subseteq Nodes
  BY DEF IInv, Genuine, Basics, Wires
<1>2. \A S \in SUBSET joined : List(S) \in Honest
  BY <1>1 DEF List, Honest, Frame
<1> QED BY <1>1, <1>2

(* n takes a frame of m and says nothing.                                  *)
LEMMA NothingAnswered ==
  ASSUME IInv, NEW n \in Nodes, NEW m \in Nodes, n # m, Answer(n, m, <<>>)
  PROVE  Passed(n, m, wire[n][m]) /\ answering' = answering
<1>1. wire' = [wire EXCEPT ![m][n] = Tail(@)] /\ answering' = answering
  BY DEF Answer
<1> QED BY <1>1, WireTyped DEF Passed

(* n takes a frame of m and answers with one frame, behind what it has sent; *)
(* no task is left with more of the answer.                                *)
LEMMA ListAnswered ==
  ASSUME IInv, WholeFrames, Joiners, NEW n \in Nodes, NEW m \in Nodes, n # m,
         NEW f, Answer(n, m, <<f>>)
  PROVE  Passed(n, m, Append(wire[n][m], f)) /\ answering' = answering
<1>1. <<f>> # <<>> /\ Head(<<f>>) = f /\ Tail(<<f>>) = <<>>
  OBVIOUS
<1> DEFINE rest == [wire EXCEPT ![m][n] = Tail(@)]
<1>2. /\ wire' = IF n \in live[m] THEN [rest EXCEPT ![n][m] = Append(@, f)] ELSE rest
      /\ \E k \in Tasks : answering' = [answering EXCEPT ![n][m][k] = <<>>]
  BY <1>1 DEF Answer
<1>3. wire' = [rest EXCEPT ![n][m] = Append(@, f)]
  BY <1>2 DEF Joiners
<1>4. Passed(n, m, Append(wire[n][m], f))
  <2>1. rest \in [Nodes -> [Nodes -> {wire[p][q] : p, q \in Nodes} \cup {Tail(wire[m][n])}]]
    BY WireTyped
  <2>2. \A p, q \in Nodes : rest[p][q] = IF p = m /\ q = n THEN Tail(wire[m][n]) ELSE wire[p][q]
    BY WireTyped
  <2> HIDE DEF rest
  <2> QED BY <1>3, <2>1, <2>2 DEF Passed
<1>5. answering' = answering
  <2>1. PICK k \in Tasks : answering' = [answering EXCEPT ![n][m][k] = <<>>]
    BY <1>2
  <2>2. answering \in [Nodes -> [Nodes -> [Tasks -> Seq(Honest)]]] /\ answering[n][m][k] = <<>>
    BY DEF IInv, Genuine, Answers, WholeFrames
  <2> QED BY <2>1, <2>2
<1> QED BY <1>4, <1>5

(* Taking a frame and answering with a list or nothing leaves only whole   *)
(* frames under way, and every departure known or on its way.              *)
LEMMA FramesPass ==
  ASSUME IInv, WholeFrames, Departures, NEW n \in Nodes, NEW m \in Nodes, n # m,
         wire[m][n] # <<>>, NEW sent, AtMostOneList(n, m, sent), Passed(n, m, sent),
         answering' = answering, \A p, q \in Nodes : state'[p][q].pending = <<>>,
         left' = left, \A p \in Nodes : departed[p] \subseteq departed'[p],
         Head(wire[m][n]).type = "departure" => m \in departed'[n]
  PROVE  WholeFrames' /\ Departures'
<1>1. ASSUME NEW p \in Nodes, NEW q \in Nodes
      PROVE  \A k \in DOMAIN wire'[p][q] : Whole(p, wire'[p][q][k])
  <2>0. \A k \in DOMAIN wire[p][q] : Whole(p, wire[p][q][k])
    BY DEF WholeFrames
  <2>1. CASE p = m /\ q = n
    <3>1. wire'[p][q] = Tail(wire[p][q])
      BY <2>1 DEF Passed
    <3>2. wire[p][q] \in Seq(Honest)
      BY WireTyped
    <3> QED BY <2>0, <2>1, <3>1, <3>2, Taken
  <2>2. CASE p = n /\ q = m
    <3>1. wire'[p][q] = sent
      BY <2>2 DEF Passed
    <3>2. CASE sent = wire[p][q]
      BY <2>0, <3>1, <3>2
    <3>3. ASSUME NEW S \in SUBSET joined, sent = Append(wire[p][q], List(S))
          PROVE  \A k \in DOMAIN sent : Whole(p, sent[k])
      <4>1. Whole(p, List(S))
        BY DEF Whole, List
      <4>2. List(S) \in Honest /\ wire[p][q] \in Seq(Honest)
        BY WireTyped
      <4>3. \A k \in DOMAIN Append(wire[p][q], List(S)) : Whole(p, Append(wire[p][q], List(S))[k])
        BY <2>0, <4>1, <4>2, Appended
      <4> QED BY <3>3, <4>3
    <3> QED BY <2>2, <3>1, <3>2, <3>3 DEF AtMostOneList
  <2>3. CASE ~(p = m /\ q = n) /\ ~(p = n /\ q = m)
    BY <2>0, <2>3 DEF Passed
  <2> QED BY <2>1, <2>2, <2>3
<1>2. ASSUME NEW p \in left, NEW q \in Nodes
      PROVE  p \in departed'[q] \/ (p # q /\ Carries(wire'[p][q], "departure"))
  <2>0. p \in Nodes /\ (p \in departed[q] \/ (p # q /\ Carries(wire[p][q], "departure")))
    BY DEF Departures, IInv, Basics
  <2>1. CASE p = m /\ q = n
    <3>1. wire'[p][q] = Tail(wire[p][q])
      BY <2>1 DEF Passed
    <3>2. wire[p][q] \in Seq(Honest)
      BY <2>0, WireTyped
    <3>3. Carries(wire[p][q], "departure") <=>
            Carries(Tail(wire[p][q]), "departure") \/ Head(wire[p][q]).type = "departure"
      BY <2>1, <3>2, Taken
    <3> QED BY <2>0, <2>1, <3>1, <3>3
  <2>2. CASE p = n /\ q = m
    <3>1. wire'[p][q] = sent
      BY <2>2 DEF Passed
    <3>2. CASE sent = wire[p][q]
      BY <2>0, <3>1, <3>2
    <3>3. ASSUME NEW S \in SUBSET joined, sent = Append(wire[p][q], List(S))
          PROVE  Carries(wire[p][q], "departure") => Carries(sent, "departure")
      <4>1. List(S) \in Honest /\ wire[p][q] \in Seq(Honest)
        BY <2>0, WireTyped
      <4> QED BY <3>3, <4>1, Appended
    <3> QED BY <2>0, <2>2, <3>1, <3>2, <3>3 DEF AtMostOneList
  <2>3. CASE ~(p = m /\ q = n) /\ ~(p = n /\ q = m)
    BY <2>0, <2>3 DEF Passed
  <2> QED BY <2>1, <2>2, <2>3
<1> QED BY <1>1, <1>2 DEF WholeFrames, Departures

(* Between any other two nothing changes.                                  *)
LEMMA OthersTold ==
  ASSUME NEW n \in Nodes, NEW m \in Nodes, NEW sent, Passed(n, m, sent),
         NEW p \in Nodes, NEW q \in Nodes, ~(p = n /\ q = m), ~(p = m /\ q = n),
         state'[p][q] = state[p][q], p \in tree[q] => p \in tree'[q], Told(p, q)
  PROVE  Told(p, q)'
<1>1. wire'[p][q] = wire[p][q] /\ wire'[q][p] = wire[q][p]
  BY DEF Passed
<1> QED BY <1>1 DEF Told, Delivered

(* What is on the two wires between n and m when n has taken a frame.      *)
LEMMA Between ==
  ASSUME IInv, NEW n \in Nodes, NEW m \in Nodes, n # m, wire[m][n] # <<>>,
         NEW sent, AtMostOneList(n, m, sent), Passed(n, m, sent)
  PROVE  /\ wire'[m][n] = Tail(wire[m][n]) /\ wire'[n][m] = sent
         /\ \A t : Carries(wire[m][n], t) <=> Carries(wire'[m][n], t) \/ Head(wire[m][n]).type = t
         /\ \A x : Offers(wire[m][n], x) <=> \/ Offers(wire'[m][n], x)
                                             \/ /\ Head(wire[m][n]).type = "list"
                                                /\ x \in Head(wire[m][n]).members
         /\ \A t : Carries(wire[n][m], t) => Carries(sent, t)
         /\ \A x : Offers(wire[n][m], x) => Offers(sent, x)
         /\ \A t : t # "list" /\ Carries(sent, t) => Carries(wire[n][m], t)
         /\ \A S \in SUBSET joined : sent = Append(wire[n][m], List(S)) =>
              /\ Carries(sent, "list")
              /\ \A x : Offers(sent, x) <=> Offers(wire[n][m], x) \/ x \in S
<1>1. wire'[m][n] = Tail(wire[m][n]) /\ wire'[n][m] = sent
  BY DEF Passed
<1>2. wire[m][n] \in Seq(Honest) /\ wire[n][m] \in Seq(Honest)
  BY WireTyped
<1>3. /\ \A t : Carries(wire[m][n], t) <=> Carries(Tail(wire[m][n]), t) \/ Head(wire[m][n]).type = t
      /\ \A x : Offers(wire[m][n], x) <=> \/ Offers(Tail(wire[m][n]), x)
                                          \/ /\ Head(wire[m][n]).type = "list"
                                             /\ x \in Head(wire[m][n]).members
  BY <1>2, Taken
<1>4. ASSUME NEW S \in SUBSET joined, sent = Append(wire[n][m], List(S))
      PROVE  /\ \A t : Carries(sent, t) <=> Carries(wire[n][m], t) \/ t = "list"
             /\ \A x : Offers(sent, x) <=> Offers(wire[n][m], x) \/ x \in S
  <2>1. List(S) \in Honest /\ List(S).type = "list" /\ List(S).members = S
    BY WireTyped DEF List
  <2>2. /\ \A t : Carries(Append(wire[n][m], List(S)), t) <=> Carries(wire[n][m], t) \/ List(S).type = t
        /\ \A x : Offers(Append(wire[n][m], List(S)), x) <=>
                    Offers(wire[n][m], x) \/ (List(S).type = "list" /\ x \in List(S).members)
    BY <1>2, <2>1, Appended
  <2> QED BY <1>4, <2>1, <2>2
<1>5. /\ \A t : Carries(wire[n][m], t) => Carries(sent, t)
      /\ \A x : Offers(wire[n][m], x) => Offers(sent, x)
      /\ \A t : t # "list" /\ Carries(sent, t) => Carries(wire[n][m], t)
  BY <1>4 DEF AtMostOneList
<1> QED BY <1>1, <1>3, <1>4, <1>5

(* Nobody who holds the group has left, and every tree that is held has    *)
(* the creator.                                                            *)
LEMMA Holders ==
  ASSUME IInv, Joiners, Together
  PROVE  /\ held \subseteq Nodes /\ Creator \in held
         /\ \A p \in held, q \in Nodes : p \notin departed[q]
BY DEF IInv, Basics, Genuine, Joiners, Together

(* What a frame of m changes at n concerns these two only: it is enough to *)
(* look at what they have told each other.                                 *)
LEMMA Kept ==
  ASSUME IInv, Together, Joiners, Exchanges, NEW n \in Nodes, NEW m \in Nodes, n # m,
         NEW sent, Passed(n, m, sent),
         UNCHANGED <<known, held, joined, left, live, calls>>,
         \A p, q \in Nodes : ~(p = n /\ q = m) => state'[p][q] = state[p][q],
         n \notin joined => state'[n][m] = state[n][m],
         \A p \in held, q \in Nodes : p \in tree[q] => p \in tree'[q],
         n \in held /\ m \in held => Told(n, m)' /\ Told(m, n)'
  PROVE  Joiners' /\ Exchanges'
<1>1. Joiners'
  <2>1. \A p \in held : Creator \in tree'[p] /\ p \in tree'[p]
    BY Holders DEF Joiners
  <2> QED BY <2>1 DEF Joiners
<1>2. \A p \in Nodes \ joined, q \in Nodes : ~state'[p][q].responded
  BY DEF Exchanges
<1>3. ASSUME NEW p \in held, NEW q \in held, p # q PROVE Told(p, q)'
  <2>1. p \in Nodes /\ q \in Nodes /\ Told(p, q)
    BY <1>3, Holders DEF Exchanges
  <2>2. CASE (p = n /\ q = m) \/ (p = m /\ q = n)
    BY <2>2
  <2>3. CASE ~(p = n /\ q = m) /\ ~(p = m /\ q = n)
    BY <2>1, <2>3, OthersTold
  <2> QED BY <2>2, <2>3
<1> QED BY <1>1, <1>2, <1>3 DEF Exchanges

(* A node that holds no tree takes roots and lists, and says nothing.      *)
LEMMA SkipGathers ==
  ASSUME IInv, Together, Gathered, NEW n \in Nodes \ held, NEW m \in Nodes, n # m,
         wire[m][n] # <<>>, Answer(n, m, <<>>), Head(wire[m][n]).type # "departure",
         UNCHANGED <<known, held, joined, left, live, calls, tree, departed, state>>
  PROVE  Gathered'
<1>1. Passed(n, m, wire[n][m]) /\ answering' = answering
  BY NothingAnswered
<1>2. WholeFrames' /\ Departures'
  BY <1>1, FramesPass DEF Gathered, WholeFrames, AtMostOneList
<1>3. Joiners' /\ Exchanges'
  BY <1>1, Kept DEF Gathered
<1> QED BY <1>2, <1>3 DEF Gathered

(* A root is answered with a list that has the receiver in it, unless it   *)
(* shows the same tree: then the receiver is the creator, whom it names.   *)
LEMMA RootGathers ==
  ASSUME IInv, Together, Gathered, NEW n \in held, NEW m \in Nodes, n # m,
         wire[m][n] # <<>>, handleMemberRoot(n, m, Head(wire[m][n])),
         UNCHANGED <<known, held, joined, left, live, calls>>
  PROVE  Gathered'
<1> DEFINE f == Head(wire[m][n])
<1>0. n \in Nodes /\ Creator \in held
  BY Holders DEF Gathered
<1>1. f.type = "root" /\ f.members = {Creator, m} /\ UNCHANGED <<tree, departed>>
  <2>1. wire[m][n] \in Seq(Honest) /\ \A k \in DOMAIN wire[m][n] : Whole(m, wire[m][n][k])
    BY <1>0, WireTyped DEF Gathered, WholeFrames
  <2>2. Whole(m, f)
    BY <2>1, Taken
  <2> QED BY <2>2 DEF handleMemberRoot, Whole
<1>2. tree[n] \in SUBSET joined /\ tree[n] \subseteq Nodes
  BY <1>0 DEF IInv, Genuine, Basics
<1>3. \/ /\ f.members = tree[n]
         /\ state' = [state EXCEPT ![n][m] = [pending |-> @.pending, responded |-> FALSE]]
         /\ Answer(n, m, <<>>)
      \/ f.members # tree[n] /\ Answer(n, m, <<List(tree[n])>>) /\ UNCHANGED state
  BY <1>2, OneFrame DEF handleMemberRoot
<1> DEFINE sent == IF f.members = tree[n] THEN wire[n][m] ELSE Append(wire[n][m], List(tree[n]))
<1>4. Passed(n, m, sent) /\ answering' = answering
  BY <1>0, <1>3, NothingAnswered, ListAnswered DEF Gathered
<1>5. AtMostOneList(n, m, sent) /\ (f.members # tree[n] => sent = Append(wire[n][m], List(tree[n])))
  BY <1>2 DEF AtMostOneList
<1> HIDE DEF sent, f
<1>6. /\ \A p, q \in Nodes : ~(p = n /\ q = m) => state'[p][q] = state[p][q]
      /\ \A p, q \in Nodes : state'[p][q].pending = <<>>
  <2>1. /\ state \in [Nodes -> [Nodes -> HonestState]]
        /\ \A p, q \in Nodes : state[p][q].pending = <<>>
    BY DEF Gathered, WholeFrames, IInv, Genuine
  <2>2. \/ state' = [state EXCEPT ![n][m] = [pending |-> state[n][m].pending, responded |-> FALSE]]
        \/ state' = state
    BY <1>3
  <2>3. ASSUME state' = [state EXCEPT ![n][m] = [pending |-> <<>>, responded |-> FALSE]]
        PROVE  /\ \A p, q \in Nodes : ~(p = n /\ q = m) => state'[p][q] = state[p][q]
               /\ \A p, q \in Nodes : state'[p][q].pending = <<>>
    BY <1>0, <2>1, <2>3
  <2>4. state[n][m].pending = <<>>
    BY <1>0, <2>1
  <2> QED BY <2>1, <2>2, <2>3, <2>4
<1>7. WholeFrames' /\ Departures'
  BY <1>0, <1>1, <1>4, <1>5, <1>6, FramesPass DEF Gathered, f
<1>8. /\ wire'[n][m] = sent
      /\ \A t : Carries(wire[m][n], t) <=> Carries(wire'[m][n], t) \/ f.type = t
      /\ \A x : Offers(wire[m][n], x) <=> Offers(wire'[m][n], x) \/ (f.type = "list" /\ x \in f.members)
      /\ \A t : Carries(wire[n][m], t) => Carries(sent, t)
      /\ \A x : Offers(wire[n][m], x) => Offers(sent, x)
      /\ \A S \in SUBSET joined : sent = Append(wire[n][m], List(S)) =>
              /\ Carries(sent, "list")
              /\ \A x : Offers(sent, x) <=> Offers(wire[n][m], x) \/ x \in S
  BY <1>0, <1>4, <1>5, Between DEF f
<1>9. ASSUME m \in held PROVE Told(n, m)' /\ Told(m, n)'
  <2>1. n \in tree[n] /\ Creator \in tree[m] /\ Told(m, n)
    BY <1>0, <1>9 DEF Gathered, Joiners, Exchanges
  <2>2. Delivered(n, m)'
    <3>1. CASE f.members = tree[n]
      <4>1. n = Creator
        BY <1>1, <2>1, <3>1
      <4> QED BY <1>1, <2>1, <4>1 DEF Delivered
    <3>2. CASE f.members # tree[n]
      <4>1. Offers(sent, n)
        BY <1>2, <1>5, <1>8, <2>1, <3>2
      <4> QED BY <1>8, <4>1 DEF Delivered
    <3> QED BY <3>1, <3>2
  <2>3. state'[m][n] = state[m][n] /\ (Delivered(m, n) => Delivered(m, n)')
    BY <1>0, <1>1, <1>6, <1>8 DEF Delivered
  <2>4. CASE f.members = tree[n]
    <3>1. m \in tree[n]
      BY <1>1, <2>4
    <3> QED BY <1>1, <2>2, <3>1 DEF Told, Delivered
  <2>5. CASE f.members # tree[n]
    <3>1. Carries(sent, "list") /\ \A x : Offers(sent, x) <=> Offers(wire[n][m], x) \/ x \in tree[n]
      BY <1>2, <1>5, <1>8, <2>5
    <3> QED BY <1>1, <1>8, <2>1, <2>2, <2>3, <3>1 DEF Told, Delivered
  <2> QED BY <2>4, <2>5
<1>10. Joiners' /\ Exchanges'
  <2>1. n \in joined
    BY DEF Gathered, Joiners
  <2> QED BY <1>0, <1>1, <1>4, <1>6, <1>9, <2>1, Kept DEF Gathered
<1> QED BY <1>7, <1>10 DEF Gathered

(* A list leaves its receiver with what it named, and is answered with what *)
(* it lacked, its receiver included, unless its sender has that already.   *)
LEMMA ListGathers ==
  ASSUME IInv, Together, Gathered, NEW n \in held, NEW m \in Nodes, n # m,
         wire[m][n] # <<>>, handleMemberList(n, m, Head(wire[m][n])),
         UNCHANGED <<known, held, joined, left, live, calls>>
  PROVE  Gathered'
<1> DEFINE f == Head(wire[m][n])
           L == f.members
           merged == tree[n] \cup (L \ departed[n])
           missing == merged \ L
           quiet == state[n][m].responded \/ missing = {}
<1>0. n \in Nodes /\ Creator \in held /\ \A p \in held, q \in Nodes : p \notin departed[q]
  BY Holders DEF Gathered
<1>1. f.type = "list" /\ f.final /\ L \in SUBSET joined /\ UNCHANGED departed
  <2>1. wire[m][n] \in Seq(Honest) /\ \A k \in DOMAIN wire[m][n] : Whole(m, wire[m][n][k])
    BY <1>0, WireTyped DEF Gathered, WholeFrames
  <2>2. Whole(m, f) /\ f \in Honest
    BY <2>1, Taken
  <2> QED BY <2>2 DEF handleMemberList, Whole, Honest
<1>2. tree[n] \in SUBSET joined /\ joined \subseteq Nodes /\ merged \in SUBSET joined
  BY <1>0, <1>1 DEF IInv, Genuine, Basics
<1>3. /\ Append(state[n][m].pending, L) = <<L>> /\ Listed(<<L>>) = L
      /\ Buffered(<<L>>) <= Capacity
      /\ merge(tree[n], <<L>>, departed[n]) = merged
  <2>1. Append(state[n][m].pending, L) = <<L>>
    <3>1. state[n][m].pending = <<>>
      BY <1>0 DEF Gathered, WholeFrames
    <3> QED BY <3>1
  <2>2. Listed(<<L>>) = L
    <3>1. DOMAIN <<L>> = {1} /\ <<L>>[1] = L
      OBVIOUS
    <3> HIDE DEF L
    <3> QED BY <3>1 DEF Listed
  <2>3. /\ L \subseteq Nodes /\ merged \subseteq Nodes /\ IsFiniteSet(Nodes)
        /\ Cardinality(Nodes) <= Capacity /\ Capacity \in Nat
    BY <1>1, <1>2, MembershipAssumption DEF Together
  <2> HIDE DEF L, merged
  <2>4. /\ Cardinality(L) \in Nat /\ Cardinality(L) <= Capacity
        /\ Cardinality(merged) <= Capacity
    BY <2>3, FS_Subset, FS_CardinalityType
  <2>5. Buffered(<<L>>) <= Capacity
    BY <2>4, BufferedOne
  <2>6. merge(tree[n], <<L>>, departed[n]) = merged
    BY <2>2, <2>4, MergeWithin DEF merged
  <2> QED BY <2>1, <2>2, <2>5, <2>6
<1>4. Buffered(<<L>>) \in Nat /\ Capacity \in Nat
  <2>1. IsFiniteSet(L) /\ Cardinality(L) \in Nat
    BY <1>1, <1>2, MembershipAssumption, FS_Subset, FS_CardinalityType
  <2> HIDE DEF L
  <2> QED BY <2>1, BufferedOne, MembershipAssumption
<1>5. /\ tree' = [tree EXCEPT ![n] = merged]
      /\ state' = [state EXCEPT ![n][m] =
           [pending |-> <<>>, responded |-> Reply(state[n][m].responded, missing) # <<>>]]
      /\ Answer(n, m, Reply(state[n][m].responded, missing))
  <2> HIDE DEF L, merged
  <2>1. ~(Buffered(<<L>>) > Capacity)
    BY <1>3, <1>4
  <2> QED BY <1>0, <1>1, <1>3, <2>1 DEF handleMemberList, L
<1>6. Reply(state[n][m].responded, missing) = IF quiet THEN <<>> ELSE <<List(missing)>>
  BY <1>2, OneFrame DEF Reply
<1> HIDE DEF quiet
<1> DEFINE sent == IF quiet THEN wire[n][m] ELSE Append(wire[n][m], List(missing))
<1>7. Passed(n, m, sent) /\ answering' = answering
  BY <1>0, <1>5, <1>6, NothingAnswered, ListAnswered DEF Gathered
<1>8. AtMostOneList(n, m, sent) /\ (~quiet => sent = Append(wire[n][m], List(missing)))
  BY <1>2 DEF AtMostOneList
<1> HIDE DEF sent
<1>9. /\ \A p, q \in Nodes : ~(p = n /\ q = m) => state'[p][q] = state[p][q]
      /\ \A p, q \in Nodes : state'[p][q].pending = <<>>
  <2>1. /\ state \in [Nodes -> [Nodes -> HonestState]]
        /\ \A p, q \in Nodes : state[p][q].pending = <<>>
    BY DEF Gathered, WholeFrames, IInv, Genuine
  <2> QED BY <1>0, <1>5, <2>1
<1>10. /\ tree'[n] = merged /\ \A q \in Nodes \ {n} : tree'[q] = tree[q]
       /\ \A p \in held : p \in L => p \in merged
       /\ \A p \in held, q \in Nodes : p \in tree[q] => p \in tree'[q]
  <2>1. tree \in [Nodes -> SUBSET Nodes]
    BY DEF IInv, Basics
  <2> QED BY <1>0, <1>5, <2>1
<1>11. missing \in SUBSET joined /\ (n \notin L /\ n \in tree[n] => n \in missing)
       /\ missing \subseteq merged
  BY <1>2
<1> HIDE DEF f, L, merged, missing
<1>12. WholeFrames' /\ Departures'
  BY <1>0, <1>1, <1>7, <1>8, <1>9, FramesPass DEF Gathered, f
<1>13. /\ wire'[n][m] = sent
       /\ \A t : Carries(wire[m][n], t) <=> Carries(wire'[m][n], t) \/ f.type = t
       /\ \A x : Offers(wire[m][n], x) <=> Offers(wire'[m][n], x) \/ (f.type = "list" /\ x \in L)
       /\ \A t : Carries(wire[n][m], t) => Carries(sent, t)
       /\ \A x : Offers(wire[n][m], x) => Offers(sent, x)
       /\ ~quiet => /\ Carries(sent, "list")
                    /\ \A x : Offers(sent, x) <=> Offers(wire[n][m], x) \/ x \in missing
  BY <1>0, <1>7, <1>8, <1>11, Between DEF f, L
<1>14. ASSUME m \in held PROVE Told(n, m)' /\ Told(m, n)'
  <2>1. n \in tree[n] /\ Told(m, n) /\ Told(n, m)
    BY <1>0, <1>14 DEF Gathered, Joiners, Exchanges
  <2>2. Delivered(n, m)'
    <3>1. CASE Delivered(n, m)
      BY <1>0, <1>1, <1>10, <1>13, <1>14, <3>1 DEF Delivered
    <3>2. CASE ~Delivered(n, m)
      <4>1. ~state[n][m].responded /\ n \notin L
        BY <1>1, <1>13, <2>1, <3>2 DEF Told
      <4>2. n \in missing /\ ~quiet
        BY <1>11, <2>1, <4>1 DEF quiet
      <4> QED BY <1>13, <4>2 DEF Delivered
    <3> QED BY <3>1, <3>2
  <2>3. state'[m][n] = state[m][n]
    BY <1>0, <1>9
  <2>4. Delivered(m, n) => Delivered(m, n)'
    BY <1>0, <1>1, <1>10, <1>13, <1>14 DEF Delivered
  <2>5. Offers(sent, m) => Offers(wire[n][m], m) \/ m \in merged
    BY <1>8, <1>11, <1>13 DEF AtMostOneList, quiet, sent
  <2>6. Carries(wire[m][n], "root") => Carries(wire'[m][n], "root")
    BY <1>1, <1>13
  <2> QED BY <1>10, <1>13, <2>1, <2>2, <2>3, <2>4, <2>5, <2>6 DEF Told, Delivered
<1>15. Joiners' /\ Exchanges'
  <2>1. n \in joined
    BY DEF Gathered, Joiners
  <2> QED BY <1>0, <1>7, <1>9, <1>10, <1>14, <2>1, Kept DEF Gathered
<1> QED BY <1>12, <1>15 DEF Gathered

(* A departure takes only who has left out of the receiver's tree.         *)
LEMMA DepartureGathers ==
  ASSUME IInv, Together, Gathered, NEW n \in Nodes, NEW m \in Nodes, n # m,
         wire[m][n] # <<>>, handleDeparture(n, m, Head(wire[m][n])),
         UNCHANGED <<known, held, joined, left, live, calls>>
  PROVE  Gathered'
<1> DEFINE f == Head(wire[m][n])
<1>1. f.type = "departure" /\ f.members = {m} /\ m \in left
  <2>1. wire[m][n] \in Seq(Honest) /\ \A k \in DOMAIN wire[m][n] : Whole(m, wire[m][n][k])
    BY WireTyped DEF Gathered, WholeFrames
  <2>2. Whole(m, f) /\ f \in Honest
    BY <2>1, Taken
  <2> QED BY <2>2 DEF handleDeparture, Whole, Honest
<1>2. /\ departed' = [departed EXCEPT ![n] = @ \cup {m}]
      /\ tree' = [tree EXCEPT ![n] = @ \ ({m} \ departed[n])]
      /\ Answer(n, m, <<>>) /\ state' = state
  BY <1>1 DEF handleDeparture
<1>3. m \notin held
  BY <1>1 DEF Gathered, Joiners
<1>4. /\ \A p \in Nodes : departed[p] \subseteq departed'[p]
      /\ m \in departed'[n]
      /\ \A p \in held, q \in Nodes : p \in tree[q] => p \in tree'[q]
  <2>1. departed \in [Nodes -> SUBSET Nodes] /\ tree \in [Nodes -> SUBSET Nodes]
    BY DEF IInv, Basics
  <2> QED BY <1>2, <1>3, <2>1
<1>5. Passed(n, m, wire[n][m]) /\ answering' = answering
  BY <1>2, NothingAnswered
<1>6. WholeFrames' /\ Departures'
  BY <1>2, <1>4, <1>5, FramesPass DEF Gathered, WholeFrames, AtMostOneList
<1>7. Joiners' /\ Exchanges'
  BY <1>2, <1>3, <1>4, <1>5, Kept DEF Gathered
<1> QED BY <1>6, <1>7 DEF Gathered

(* Whatever frame is taken, what two nodes have told each other remains so. *)
LEMMA ReceiveGathers ==
  ASSUME IInv, Together, Gathered, NEW n \in Nodes, NEW m \in Nodes, Receive(n, m)
  PROVE  Gathered'
<1>1. n # m /\ wire[m][n] # <<>> /\ UNCHANGED <<known, held, joined, left, live, calls>>
  BY DEF Receive, IInv, Basics, budget
<1>2. CASE handleMemberRoot(n, m, Head(wire[m][n])) /\ n \in held
  BY <1>1, <1>2, RootGathers
<1>3. CASE handleMemberRoot(n, m, Head(wire[m][n])) /\ n \notin held
  <2>1. Answer(n, m, <<>>) /\ UNCHANGED <<tree, departed, state>>
    BY <1>3 DEF handleMemberRoot
  <2>2. Head(wire[m][n]).type # "departure"
    BY <1>3 DEF handleMemberRoot
  <2> QED BY <1>1, <1>3, <2>1, <2>2, SkipGathers
<1>4. CASE handleMemberList(n, m, Head(wire[m][n])) /\ n \in held
  BY <1>1, <1>4, ListGathers
<1>5. CASE handleMemberList(n, m, Head(wire[m][n])) /\ n \notin held
  <2>1. Answer(n, m, <<>>) /\ UNCHANGED <<tree, departed, state>>
    BY <1>5 DEF handleMemberList
  <2>2. Head(wire[m][n]).type # "departure"
    BY <1>5 DEF handleMemberList
  <2> QED BY <1>1, <1>5, <2>1, <2>2, SkipGathers
<1>6. CASE handleDeparture(n, m, Head(wire[m][n]))
  BY <1>1, <1>6, DepartureGathers
<1> QED BY <1>2, <1>3, <1>4, <1>5, <1>6 DEF Receive

(* What a node announces reaches everybody, behind what it sent before.    *)
LEMMA Announced ==
  ASSUME IInv, Joiners, WholeFrames, NEW n \in Nodes, NEW f \in Frame,
         Broadcast(n, f), Whole(n, f), f.type # "list"
  PROVE  /\ \A p, q \in Nodes : p # n => wire'[p][q] = wire[p][q]
         /\ \A p, q \in Nodes : \A k \in DOMAIN wire'[p][q] : Whole(p, wire'[p][q][k])
         /\ \A p, q \in Nodes : \A t : Carries(wire[p][q], t) => Carries(wire'[p][q], t)
         /\ \A p, q \in Nodes : \A x : Offers(wire'[p][q], x) <=> Offers(wire[p][q], x)
         /\ \A q \in Nodes \ {n} : Carries(wire'[n][q], f.type)
<1>1. \A p, q \in Nodes : wire[p][q] \in Seq(Frame)
  <2>1. Honest \subseteq Frame
    BY DEF Honest
  <2> QED BY <2>1, WireTyped, SeqMonotone
<1>2. ASSUME NEW p \in Nodes, NEW q \in Nodes
      PROVE  wire'[p][q] = IF p = n /\ q # n THEN Append(wire[p][q], f) ELSE wire[p][q]
  <2>1. q \in live[n] /\ n \in live[q] <=> q # n
    BY DEF IInv, Basics, Joiners
  <2>2. wire' = [wire EXCEPT ![n] = [m \in Nodes |->
             IF m \in live[n] /\ n \in live[m] THEN Append(wire[n][m], f) ELSE wire[n][m]]]
    BY DEF Broadcast
  <2>3. wire'[p][q] = IF p = n /\ q \in live[n] /\ n \in live[q] THEN Append(wire[p][q], f)
                                                                 ELSE wire[p][q]
    BY <2>2, WireTyped
  <2> QED BY <2>1, <2>3
<1>3. ASSUME NEW p \in Nodes, NEW q \in Nodes
      PROVE  /\ \A k \in DOMAIN wire'[p][q] : Whole(p, wire'[p][q][k])
             /\ \A t : Carries(wire[p][q], t) => Carries(wire'[p][q], t)
             /\ \A x : Offers(wire'[p][q], x) <=> Offers(wire[p][q], x)
             /\ p = n /\ q # n => Carries(wire'[p][q], f.type)
  <2>1. \A k \in DOMAIN wire[p][q] : Whole(p, wire[p][q][k])
    BY DEF WholeFrames
  <2>2. CASE p = n /\ q # n
    <3>1. wire'[p][q] = Append(wire[p][q], f) /\ wire[p][q] \in Seq(Frame)
      BY <1>1, <1>2, <2>2
    <3>2. /\ \A t : Carries(Append(wire[p][q], f), t) <=> Carries(wire[p][q], t) \/ f.type = t
          /\ \A x : Offers(Append(wire[p][q], f), x) <=>
                      Offers(wire[p][q], x) \/ (f.type = "list" /\ x \in f.members)
          /\ \A k \in DOMAIN Append(wire[p][q], f) : Whole(p, Append(wire[p][q], f)[k])
      BY <2>1, <2>2, <3>1, Appended
    <3> QED BY <3>1, <3>2
  <2>3. CASE ~(p = n /\ q # n)
    <3>1. wire'[p][q] = wire[p][q]
      BY <1>2, <2>3
    <3> QED BY <2>1, <2>3, <3>1
  <2> QED BY <2>2, <2>3
<1> QED BY <1>2, <1>3

(* Who joins tells everybody with its root, and asks everybody for a list; *)
(* who has left does not join.                                             *)
LEMMA JoinGathers ==
  ASSUME IInv, Together, Gathered, NEW n \in Nodes, Join(n)
  PROVE  Gathered'
<1> DEFINE root == Root({Creator, n})
<1>1. /\ calls[n] < Calls[n] /\ calls' = [calls EXCEPT ![n] = @ + 1]
      /\ known' = known \cup {n} /\ held' = held \cup {n} /\ joined' = joined \cup {n}
      /\ tree' = [tree EXCEPT ![n] = {Creator, n}]
      /\ Broadcast(n, root)
      /\ UNCHANGED <<departed, left, state, live, answering>>
  BY JoinerTree DEF Join, Call
<1>2. n \notin left
  <2>1. ASSUME n \in left PROVE FALSE
    <3>1. n \in Leavers /\ n \in joined \ {Creator}
      BY <2>1 DEF Gathered, Joiners, Together
    <3>2. calls[n] >= 1 /\ Calls[n] <= 1
      BY <3>1 DEF Gathered, Joiners, Together
    <3>3. calls[n] \in Nat /\ Calls[n] \in Nat
      BY MembershipAssumption DEF IInv, Basics
    <3> QED BY <1>1, <3>2, <3>3
  <2> QED BY <2>1
<1>3. /\ root \in Frame /\ root.type = "root" /\ Whole(n, root)
  BY MembershipAssumption DEF Root, Frame, Whole
<1> HIDE DEF root
<1>4. /\ \A p, q \in Nodes : p # n => wire'[p][q] = wire[p][q]
      /\ \A p, q \in Nodes : \A k \in DOMAIN wire'[p][q] : Whole(p, wire'[p][q][k])
      /\ \A p, q \in Nodes : \A t : Carries(wire[p][q], t) => Carries(wire'[p][q], t)
      /\ \A p, q \in Nodes : \A x : Offers(wire'[p][q], x) <=> Offers(wire[p][q], x)
      /\ \A q \in Nodes \ {n} : Carries(wire'[n][q], "root")
  BY <1>1, <1>3, Announced DEF Gathered
<1>5. WholeFrames'
  BY <1>1, <1>4 DEF WholeFrames, Gathered
<1>6. Departures'
  BY <1>1, <1>4 DEF Departures, Gathered, IInv, Basics
<1>7. /\ tree'[n] = {Creator, n} /\ \A q \in Nodes \ {n} : tree'[q] = tree[q]
      /\ calls'[n] >= 1 /\ \A q \in Nodes \ {n} : calls'[q] = calls[q]
  <2>1. tree \in [Nodes -> SUBSET Nodes] /\ calls \in [Nodes -> Nat]
    BY DEF IInv, Basics
  <2> QED BY <1>1, <2>1
<1>8. Joiners'
  <2>1. /\ joined \subseteq Nodes /\ held \subseteq Nodes
        /\ known = joined /\ joined = held \cup left /\ held \cap left = {} /\ left \subseteq Leavers
    BY DEF IInv, Basics, Gathered, Joiners
  <2>2. known' = joined' /\ joined' = held' \cup left' /\ held' \cap left' = {} /\ left' \subseteq Leavers
    BY <1>1, <1>2, <2>1
  <2>3. \A p \in joined' \ {Creator} : calls'[p] >= 1
    BY <1>1, <1>7, <2>1 DEF Gathered, Joiners
  <2>4. \A p \in held' : Creator \in tree'[p] /\ p \in tree'[p]
    BY <1>1, <1>7, <2>1 DEF Gathered, Joiners
  <2>5. \A p, q \in Nodes : p # q => q \in live'[p]
    BY <1>1 DEF Gathered, Joiners
  <2> QED BY <2>2, <2>3, <2>4, <2>5 DEF Joiners
<1>9. ASSUME NEW p \in held', NEW q \in held', p # q PROVE Told(p, q)'
  <2>0. p \in Nodes /\ q \in Nodes /\ state' = state
    BY <1>1 DEF IInv, Basics
  <2>1. CASE p # n /\ q # n
    <3>1. Told(p, q) /\ wire'[p][q] = wire[p][q] /\ wire'[q][p] = wire[q][p] /\ tree'[q] = tree[q]
      BY <1>1, <1>4, <1>7, <1>9, <2>0, <2>1 DEF Gathered, Exchanges
    <3> QED BY <2>0, <3>1 DEF Told, Delivered
  <2>2. CASE p = n
    <3>1. q \in held /\ Carries(wire'[n][q], "root") /\ tree'[q] = tree[q]
          /\ wire'[q][n] = wire[q][n]
      BY <1>1, <1>4, <1>7, <1>9, <2>0, <2>2
    <3>2. CASE n \in held
      <4>1. Told(n, q)
        BY <1>9, <2>2, <3>1, <3>2 DEF Gathered, Exchanges
      <4>2. Delivered(n, q) => Delivered(n, q)'
        BY <1>4, <2>0, <3>1 DEF Delivered
      <4> QED BY <2>0, <2>2, <3>1, <4>1, <4>2 DEF Told
    <3>3. CASE n \notin held
      <4>1. n \notin joined
        BY <1>2, <3>3 DEF Gathered, Joiners
      <4>2. ~state[n][q].responded
        BY <2>0, <4>1 DEF Gathered, Exchanges
      <4>3. ~Offers(wire[q][n], n)
        <5>1. wire[q][n] \in Seq(Honest)
          BY <2>0, WireTyped
        <5>2. \A k \in DOMAIN wire[q][n] : wire[q][n][k] \in Honest
          BY <5>1
        <5> QED BY <4>1, <5>2 DEF Offers, Honest
      <4> QED BY <2>0, <2>2, <3>1, <4>2, <4>3 DEF Told
    <3> QED BY <3>2, <3>3
  <2>3. CASE q = n
    <3>1. Carries(wire'[n][p], "root")
      BY <1>4, <1>9, <2>0, <2>3
    <3> QED BY <2>3, <3>1 DEF Told, Delivered
  <2> QED BY <2>1, <2>2, <2>3
<1>10. Exchanges'
  <2>1. \A p \in Nodes \ joined', q \in Nodes : ~state'[p][q].responded
    BY <1>1 DEF Gathered, Exchanges
  <2> QED BY <1>9, <2>1 DEF Exchanges
<1> QED BY <1>5, <1>6, <1>8, <1>10 DEF Gathered

(* Who leaves announces it to everybody, behind all it has sent.           *)
LEMMA LeaveGathers ==
  ASSUME IInv, Together, Gathered, NEW n \in Nodes, Leave(n)
  PROVE  Gathered'
<1>1. /\ n \in Leavers /\ n \in known
      /\ departed' = [departed EXCEPT ![n] = @ \cup {n}]
      /\ IF n \in departed[n] THEN wire' = wire ELSE Broadcast(n, Departure(n))
      /\ held' = held \ {n} /\ tree' = [tree EXCEPT ![n] = {}] /\ left' = left \cup {n}
      /\ UNCHANGED <<known, joined, state, live, answering, calls>>
  BY DEF Leave, budget
<1>2. /\ Departure(n) \in Frame /\ Departure(n).type = "departure" /\ Whole(n, Departure(n))
  BY DEF Departure, Frame, Whole
<1>3. /\ \A p, q \in Nodes : p # n => wire'[p][q] = wire[p][q]
      /\ \A p, q \in Nodes : \A k \in DOMAIN wire'[p][q] : Whole(p, wire'[p][q][k])
      /\ \A p, q \in Nodes : \A t : Carries(wire[p][q], t) => Carries(wire'[p][q], t)
      /\ n \notin departed[n] => \A q \in Nodes \ {n} : Carries(wire'[n][q], "departure")
  <2>1. CASE n \in departed[n]
    BY <1>1, <2>1 DEF Gathered, WholeFrames
  <2>2. CASE n \notin departed[n]
    BY <1>1, <1>2, <2>2, Announced DEF Gathered
  <2> QED BY <2>1, <2>2
<1>4. WholeFrames'
  BY <1>1, <1>3 DEF WholeFrames, Gathered
<1>5. /\ \A p \in Nodes : departed[p] \subseteq departed'[p]
      /\ n \in departed'[n]
      /\ \A q \in Nodes \ {n} : tree'[q] = tree[q]
  <2>1. departed \in [Nodes -> SUBSET Nodes] /\ tree \in [Nodes -> SUBSET Nodes]
    BY DEF IInv, Basics
  <2> QED BY <1>1, <2>1
<1>6. Departures'
  <2>1. ASSUME NEW p \in left', NEW q \in Nodes
        PROVE  p \in departed'[q] \/ (p # q /\ Carries(wire'[p][q], "departure"))
    <3>1. CASE p \in left
      <4>1. p \in Nodes /\ (p \in departed[q] \/ (p # q /\ Carries(wire[p][q], "departure")))
        BY <3>1 DEF IInv, Basics, Gathered, Departures
      <4> QED BY <1>3, <1>5, <4>1
    <3>2. CASE p = n /\ p \notin left
      <4>1. n \notin departed[n]
        BY <3>2 DEF IInv, Genuine
      <4> QED BY <1>3, <1>5, <3>2, <4>1
    <3> QED BY <1>1, <3>1, <3>2
  <2> QED BY <2>1 DEF Departures
<1>7. Joiners'
  <2>1. \A p \in held' : Creator \in tree'[p] /\ p \in tree'[p]
    BY <1>1, <1>5, Holders DEF Gathered, Joiners
  <2> QED BY <1>1, <2>1 DEF Gathered, Joiners
<1>8. Exchanges'
  <2>1. ASSUME NEW p \in held', NEW q \in held', p # q PROVE Told(p, q)'
    <3>1. p \in Nodes \ {n} /\ q \in Nodes \ {n} /\ Told(p, q)
      BY <1>1, <2>1, Holders DEF Gathered, Exchanges
    <3>2. wire'[p][q] = wire[p][q] /\ wire'[q][p] = wire[q][p] /\ tree'[q] = tree[q]
          /\ state' = state
      BY <1>1, <1>3, <1>5, <3>1
    <3> QED BY <3>1, <3>2 DEF Told, Delivered
  <2> QED BY <1>1, <2>1 DEF Gathered, Exchanges
<1> QED BY <1>4, <1>6, <1>7, <1>8 DEF Gathered

(* The creator is alone in the group, and nothing is on the way.           *)
LEMMA InitGathers == Together /\ Init => Gathered
<1> SUFFICES ASSUME Together, Init PROVE Gathered
  OBVIOUS
<1>1. WholeFrames
  BY NothingCarried DEF Init, WholeFrames, Silence, NoTask, Unheard
<1>2. Joiners
  BY MembershipAssumption DEF Init, Joiners, Together, Neighbours, bootstrapFromAnchor
<1>3. Departures
  BY DEF Init, Departures
<1>4. Exchanges
  BY DEF Init, Exchanges, Unheard
<1> QED BY <1>1, <1>2, <1>3, <1>4 DEF Gathered

(* As long as no connection is lost and nobody restarts, what is under way *)
(* makes the trees and the departures of those who hold the group equal.   *)
LEMMA GatheredStep ==
  ASSUME Together PROVE IInv /\ (Calm => Gathered) /\ [Next]_vars => (Calm => Gathered)'
<1> SUFFICES ASSUME IInv, Calm => Gathered, [Next]_vars, Calm' PROVE Gathered'
  OBVIOUS
<1>0. losses \in Nat /\ restarts \in Nat
  BY DEF IInv, Basics
<1>1. CASE UNCHANGED vars
  <2>1. Calm /\ Gathered
    BY <1>1 DEF Calm, vars, budget
  <2> QED BY <1>1, <2>1 DEF Gathered, WholeFrames, Joiners, Departures, Exchanges, Told,
                            Delivered, vars, replica, budget
<1>2. ASSUME NEW n \in Nodes, Import(n) PROVE FALSE
  BY <1>2 DEF Import, Together
<1>3. ASSUME NEW n \in Nodes, Join(n) PROVE Gathered'
  <2>1. Calm
    BY <1>3 DEF Join, Call, Calm
  <2> QED BY <1>3, <2>1, JoinGathers
<1>4. ASSUME NEW n \in Nodes, Leave(n) PROVE Gathered'
  <2>1. Calm
    BY <1>4 DEF Leave, budget, Calm
  <2> QED BY <1>4, <2>1, LeaveGathers
<1>5. ASSUME NEW n \in Nodes, Restart(n) PROVE FALSE
  BY <1>0, <1>5 DEF Restart, Calm
<1>6. ASSUME NEW n \in Nodes, NEW m \in Nodes, Receive(n, m) PROVE Gathered'
  <2>1. Calm
    BY <1>6 DEF Receive, budget, Calm
  <2> QED BY <1>6, <2>1, ReceiveGathers
<1>7. ASSUME NEW n \in Nodes, NEW m \in Nodes, LinkLost(n, m) PROVE FALSE
  BY <1>0, <1>7 DEF LinkLost, Calm
<1>8. ASSUME NEW n \in Nodes, NEW m \in Nodes, Connect(n, m) PROVE FALSE
  <2>1. Calm
    BY <1>8 DEF Connect, budget, Calm
  <2>2. n # m
    BY <1>8, MembershipAssumption DEF Connect
  <2> QED BY <1>8, <2>1, <2>2 DEF Connect, Gathered, Joiners
<1>9. ASSUME NEW n \in Nodes, NEW m \in Nodes, NEW k \in Tasks, Continue(n, m, k) PROVE FALSE
  <2>1. Calm
    BY <1>9 DEF Continue, budget, Calm
  <2> QED BY <1>9, <2>1 DEF Continue, Gathered, WholeFrames
<1> QED BY <1>1, <1>2, <1>3, <1>4, <1>5, <1>6, <1>7, <1>8, <1>9 DEF Next

(* When nothing is on the way, the tree of whoever holds the group is who  *)
(* holds it, and whoever has left is known to everybody to have.           *)
LEMMA GatheredConverges ==
  ASSUME Together, IInv, Calm => Gathered PROVE Converged
<1> SUFFICES ASSUME Quiet, Calm PROVE SameTrees /\ SameDepartures
  BY DEF Converged, Calm
<1>1. /\ \A p, q \in Nodes : wire[p][q] = <<>>
      /\ held \subseteq Nodes /\ left \subseteq Nodes /\ Creator \in held
      /\ held \cap left = {} /\ joined = held \cup left
  BY Holders DEF Quiet, Gathered, Joiners, IInv, Basics
<1>2. \A p, q \in Nodes : \A t : ~Carries(wire[p][q], t) /\ ~Offers(wire[p][q], t)
  BY <1>1, NothingCarried
<1>3. ASSUME NEW q \in Nodes PROVE departed[q] = left
  <2>1. departed[q] \subseteq left
    BY DEF IInv, Genuine
  <2>2. \A p \in left : p \in departed[q]
    <3>1. \A p \in left : p \in departed[q] \/ Carries(wire[p][q], "departure")
      BY DEF Gathered, Departures
    <3> QED BY <1>1, <1>2, <3>1
  <2> QED BY <2>1, <2>2
<1>4. ASSUME NEW q \in held PROVE tree[q] = held
  <2>1. tree[q] \subseteq held
    <3>1. tree[q] \subseteq held \cup left /\ tree[q] \cap left \subseteq {q, Creator}
      BY <1>1, <1>3 DEF IInv, Genuine, RemoveWins
    <3> QED BY <1>1, <3>1
  <2>2. ASSUME NEW p \in held PROVE p \in tree[q]
    <3>1. CASE p = q
      BY <3>1 DEF Gathered, Joiners
    <3>2. CASE p # q
      <4>1. Told(p, q)
        BY <3>2 DEF Gathered, Exchanges
      <4> QED BY <1>1, <1>2, <4>1 DEF Told, Delivered
    <3> QED BY <3>1, <3>2
  <2> QED BY <2>1, <2>2
<1> QED BY <1>1, <1>3, <1>4 DEF SameTrees, SameDepartures

(* "Every peer derives the same membership root" (membership-sync.ts): in  *)
(* a group that fits into one frame, whose nodes are all connected to each *)
(* other and do not come back when they have left, all trees and all       *)
(* departures are equal whenever nothing is in flight, however the calls   *)
(* and the frames of any number of nodes overlapped.                       *)
THEOREM ConvergedTogether == ASSUME Together PROVE Spec => []Converged
<1>1. Init => (Calm => Gathered)
  BY InitGathers
<1>2. IInv /\ (Calm => Gathered) /\ [Next]_vars => (Calm => Gathered)'
  BY GatheredStep
<1>3. IInv /\ (Calm => Gathered) => Converged
  BY GatheredConverges
<1>4. Spec => []IInv
  BY Invariance
<1> QED BY <1>1, <1>2, <1>3, <1>4, PTL DEF Spec
=============================================================================
