------------------------- MODULE NodeServicesProofs -------------------------
(***************************************************************************)
(* Proofs about the services of NodeServices, for any nodes, jobs, phrases *)
(* and bounds: vouchers are signed and credited once, no proof job is      *)
(* lost, and what a process kept the next one finds.  Each service is      *)
(* proved on its own; the last section puts the three together.            *)
(***************************************************************************)
EXTENDS NodeServices, FiniteSetTheorems, WellFoundedInduction, TLAPS

-----------------------------------------------------------------------------
(* Vouchers *)

(* The values the variables of Endorsements have.                          *)
Counters == [redeemed : Nat, issued : Nat, blacklisted : BOOLEAN]
Asking ==
  [at : {"unused", "waiting", "token", "redeemed", "failed"}, ask : Asks \cup {None},
   key : Nat, why : {"none", "send", "timeout", "answer", "other", "crash"}]
Task ==
  [at : {"idle", "generate", "persist", "ready", "debit", "answer", "done"},
   node : Nodes \cup {None}, epoch : Epochs, key : Nat]
Change ==
  [at : {"idle", "read", "write"}, node : Nodes \cup {None}, did : Nodes \cup {None},
   seen : Counters]
Frames == [type : {"request", "response", "reject"}, id : Requests, key : Nat]
Signature == [by : Nodes, id : Requests, key : Nat]

VouchersTypeOK ==
  /\ epoch \in Epochs /\ moves \in Nat
  /\ identity \in [Nodes -> [kept : Nat, served : Nat, stored : Nat]]
  /\ handed \in [Nodes -> SUBSET Nat]
  /\ request \in [Requests -> Asking] /\ inFlight \in [Nodes -> [Nodes -> Requests \cup {None}]]
  /\ wire \in [Nodes -> [Nodes -> Seq(Frames)]]
  /\ task \in [Tasks -> Task]
  /\ issued \in [Nodes -> [Epochs -> Nat]] /\ signed \subseteq Signature
  /\ change \in [Changes -> Change] /\ row \in [Nodes -> [Nodes -> Counters]]
  /\ spent \in [Nodes -> SUBSET Requests] /\ writes \in [Nodes -> Seq(Requests)]
  /\ saved \in [Nodes -> SUBSET Requests]
  /\ credited \in [Requests -> Nat] /\ lost \subseteq Requests

(* What is begun says who does it, and for whom.                           *)
Begun ==
  /\ \A r \in Requests : request[r].at # "unused" => request[r].ask \in Asks
  /\ \A t \in Tasks : task[t].at # "idle" => task[t].node \in Nodes
  /\ \A c \in Changes : change[c].at # "idle" => change[c].node \in Nodes /\ change[c].did \in Nodes

Listed(s) == {s[i] : i \in DOMAIN s}

(* A handler at work, or a counter it changes, belongs to a request made.  *)
Caused == \A r \in Requests : request[r].at = "unused" =>
  /\ task[r].at \in {"idle", "done"} /\ credited[r] = 0
  /\ change[<<"redeem", r>>].at = "idle"
  /\ \A n \in Nodes : r \notin spent[n] /\ r \notin saved[n] /\ r \notin Listed(writes[n])

(* Whoever holds the place of a peer has asked that peer.                  *)
Places == \A n, m \in Nodes : inFlight[n][m] # None =>
  request[inFlight[n][m]].at # "unused" /\ request[inFlight[n][m]].ask = <<n, m>>

(* A request is on its way once, and is not being handled then.            *)
Fresh == \A n, m \in Nodes : \A i \in DOMAIN wire[n][m] :
  wire[n][m][i].type = "request" =>
    /\ request[wire[n][m][i].id].at # "unused"
    /\ request[wire[n][m][i].id].ask = <<n, m>>
    /\ task[wire[n][m][i].id].at \in {"idle", "done"}
    /\ \A j \in DOMAIN wire[n][m] :
         wire[n][m][j].type = "request" /\ wire[n][m][j].id = wire[n][m][i].id => j = i

Signs(n, r, k) == [by |-> n, id |-> r, key |-> k] \in signed

(* An answer, under way or in preparation, is one its sender signed.       *)
SignedFrames == \A n, m \in Nodes : \A i \in DOMAIN wire[n][m] :
  wire[n][m][i].type = "response" => Signs(n, wire[n][m][i].id, wire[n][m][i].key)
SignedTasks == \A r \in Requests : task[r].at \in {"debit", "answer"} =>
  request[r].at # "unused" /\ Signs(task[r].node, r, task[r].key)

(* A debit under way is that of a handler that waits for it.               *)
Debiting == \A r \in Requests : change[<<"debit", r>>].at # "idle" =>
  task[r].at = "debit" /\ change[<<"debit", r>>].node = task[r].node

(* A voucher is credited at most once while its nullifier is not lost: who *)
(* credits it has spent it, and what is spent is stored or on its way.     *)
Counted == \A r \in Requests : r \notin lost =>
  /\ credited[r] \in {0, 1} /\ (change[<<"redeem", r>>].at # "idle" => credited[r] = 0)
  /\ credited[r] = 1 \/ change[<<"redeem", r>>].at # "idle" => r \in spent[request[r].ask[1]]
  /\ \A n \in Nodes : r \in spent[n] =>
       r \in saved[n] \/ \E i \in DOMAIN writes[n] : writes[n][i] = r

VouchersIInv ==
  /\ VouchersTypeOK /\ Begun /\ Caused /\ Places /\ Fresh
  /\ SignedFrames /\ SignedTasks /\ Debiting /\ Counted /\ VouchersAreSigned

LEMMA VoucherConstants ==
  /\ Asks \subseteq Nodes \X Nodes /\ \A ask \in Asks : ask[1] # ask[2]
  /\ MaxRequests \in Nat /\ MaxKeyCalls \in Nat /\ MaxEpoch \in Nat /\ Quota \in Nat
  /\ MaxMoves \in Nat /\ Requests \subseteq Tasks /\ Requests \subseteq Nat \ {None}
  /\ Calls \subseteq Tasks /\ Tasks \subseteq Nat \ {None} /\ Requests \cap Calls = {}
  /\ \A r \in Requests : <<"debit", r>> \in Changes /\ <<"redeem", r>> \in Changes
  /\ \A n \in Nodes : <<"blacklist", n>> \in Changes
BY EndorsementsAssumption
   DEF Requests, Calls, Tasks, None, Changes, Debits, Redemptions, Verdicts

LEMMA RequestsAreTasks == Requests \subseteq Tasks /\ Calls \subseteq Tasks
BY DEF Tasks

(* What is under way on a link is a frame.                                 *)
LEMMA FrameOnLink ==
  ASSUME VouchersTypeOK, NEW n \in Nodes, NEW m \in Nodes, NEW i \in DOMAIN wire[n][m]
  PROVE  wire[n][m][i] \in Frames /\ wire[n][m][i].id \in Requests
<1>1. wire[n][m] \in Seq(Frames)
  BY DEF VouchersTypeOK
<1>2. wire[n][m][i] \in Frames
  BY <1>1
<1> QED BY <1>2 DEF Frames

LEMMA VouchersInit == Init => VouchersIInv
<1> SUFFICES ASSUME Init PROVE VouchersIInv
  OBVIOUS
<1> USE DEF None, NoTask, NoChange, ZeroCounters
<1>1. VouchersTypeOK
  <2>1. epoch \in Epochs /\ moves \in Nat
    BY VoucherConstants DEF Init, Epochs
  <2>2. /\ identity \in [Nodes -> [kept : Nat, served : Nat, stored : Nat]]
        /\ handed \in [Nodes -> SUBSET Nat]
    BY DEF Init
  <2>3. /\ request \in [Requests -> Asking]
        /\ inFlight \in [Nodes -> [Nodes -> Requests \cup {None}]]
        /\ wire \in [Nodes -> [Nodes -> Seq(Frames)]]
    BY DEF Init, Asking
  <2>4. task \in [Tasks -> Task]
    BY VoucherConstants DEF Init, Task, Epochs
  <2>5. issued \in [Nodes -> [Epochs -> Nat]] /\ signed \subseteq Signature
    BY DEF Init
  <2>6. change \in [Changes -> Change]
    BY DEF Init, Change, Counters
  <2>7. row \in [Nodes -> [Nodes -> Counters]]
    BY DEF Init, Counters
  <2>8. /\ spent \in [Nodes -> SUBSET Requests] /\ writes \in [Nodes -> Seq(Requests)]
        /\ saved \in [Nodes -> SUBSET Requests]
        /\ credited \in [Requests -> Nat] /\ lost \subseteq Requests
    BY DEF Init
  <2> QED BY <2>1, <2>2, <2>3, <2>4, <2>5, <2>6, <2>7, <2>8 DEF VouchersTypeOK
<1>b. Begun
  BY VoucherConstants DEF Init, Begun
<1>2. Caused
  <2>1. /\ \A r \in Requests : task[r].at = "idle" /\ credited[r] = 0
        /\ \A r \in Requests : change[<<"redeem", r>>].at = "idle"
        /\ \A n \in Nodes : spent[n] = {} /\ saved[n] = {} /\ writes[n] = <<>>
    BY VoucherConstants DEF Init
  <2>2. Listed(<<>>) = {}
    BY DEF Listed
  <2> QED BY <2>1, <2>2 DEF Caused
<1>c. \A r \in Requests :
        change[<<"debit", r>>].at = "idle" /\ change[<<"redeem", r>>].at = "idle"
  BY VoucherConstants DEF Init
<1>t. \A t \in Tasks : task[t].at = "idle"
  BY DEF Init
<1>3. Places
  BY DEF Init, Places
<1>w. /\ \A n, m \in Nodes : DOMAIN wire[n][m] = {}
      /\ \A n \in Nodes : spent[n] = {}
      /\ \A r \in Requests : credited[r] = 0
  BY DEF Init
<1>4. SignedFrames /\ SignedTasks /\ Debiting
  BY RequestsAreTasks, <1>c, <1>t, <1>w DEF SignedFrames, SignedTasks, Debiting
<1>5. Fresh
  BY DEF Init, Fresh
<1>6. VouchersAreSigned
  BY DEF Init, VouchersAreSigned
<1>7. ASSUME NEW r \in Requests
      PROVE  credited[r] = 0 /\ change[<<"redeem", r>>].at = "idle"
  BY <1>c, <1>w
<1>8. Counted
  BY <1>7, <1>w DEF Counted
<1> QED BY <1>1, <1>b, <1>2, <1>3, <1>4, <1>5, <1>6, <1>8 DEF VouchersIInv

(* A frame appended to a link, if any is.                                  *)
Appended(n, m, f) == \A p, q \in Nodes : \A i \in DOMAIN wire'[p][q] :
  \/ i \in DOMAIN wire[p][q] /\ wire'[p][q][i] = wire[p][q][i]
  \/ p = n /\ q = m /\ i = Len(wire[n][m]) + 1 /\ wire'[p][q][i] = f

LEMMA SentFrame ==
  ASSUME VouchersTypeOK, NEW n \in Nodes, NEW m \in Nodes, NEW f \in Frames,
         wire' = sent(n, m, f) \/ wire' = wire
  PROVE  wire' \in [Nodes -> [Nodes -> Seq(Frames)]] /\ Appended(n, m, f)
<1>1. wire \in [Nodes -> [Nodes -> Seq(Frames)]] /\ wire[n][m] \in Seq(Frames)
  BY DEF VouchersTypeOK
<1>2. CASE wire' = wire
  BY <1>1, <1>2 DEF Appended
<1>3. CASE wire' = sent(n, m, f)
  <2>1. wire'[n][m] = Append(wire[n][m], f)
    BY <1>1, <1>3 DEF sent
  <2>2. \A p, q \in Nodes : <<p, q>> # <<n, m>> => wire'[p][q] = wire[p][q]
    BY <1>1, <1>3 DEF sent
  <2>3. wire'[n][m] \in Seq(Frames)
    BY <1>1, <2>1
  <2>4. wire' \in [Nodes -> [Nodes -> Seq(Frames)]]
    BY <1>1, <1>3, <2>3 DEF sent
  <2>5. ASSUME NEW i \in DOMAIN wire'[n][m]
        PROVE  \/ i \in DOMAIN wire[n][m] /\ wire'[n][m][i] = wire[n][m][i]
               \/ i = Len(wire[n][m]) + 1 /\ wire'[n][m][i] = f
    BY <1>1, <2>1, <2>5
  <2> QED BY <2>2, <2>4, <2>5 DEF Appended
<1> QED BY <1>2, <1>3

(* The first frame of a link taken from it.                                *)
(* A link without its first frame.                                         *)
Took(n, m) == [wire EXCEPT ![n][m] = Tail(@)]

LEMMA TakenFrame ==
  ASSUME VouchersTypeOK, NEW n \in Nodes, NEW m \in Nodes, wire[n][m] # <<>>,
         wire' = Took(n, m)
  PROVE  /\ wire' \in [Nodes -> [Nodes -> Seq(Frames)]]
         /\ \A p, q \in Nodes : <<p, q>> # <<n, m>> => wire'[p][q] = wire[p][q]
         /\ 1 \in DOMAIN wire[n][m] /\ Head(wire[n][m]) = wire[n][m][1]
         /\ Head(wire[n][m]) \in Frames
         /\ \A i \in DOMAIN wire'[n][m] :
              i + 1 \in DOMAIN wire[n][m] /\ i \in Nat \ {0} /\ wire'[n][m][i] = wire[n][m][i + 1]
<1>1. wire \in [Nodes -> [Nodes -> Seq(Frames)]] /\ wire[n][m] \in Seq(Frames)
  BY DEF VouchersTypeOK
<1>2. wire'[n][m] = Tail(wire[n][m])
  BY <1>1 DEF Took
<1>3. \A p, q \in Nodes : <<p, q>> # <<n, m>> => wire'[p][q] = wire[p][q]
  BY <1>1 DEF Took
<1>4. wire'[n][m] \in Seq(Frames)
  BY <1>1, <1>2
<1>5. wire' \in [Nodes -> [Nodes -> Seq(Frames)]]
  BY <1>1, <1>4 DEF Took
<1>6. 1 \in DOMAIN wire[n][m] /\ Head(wire[n][m]) = wire[n][m][1] /\ Head(wire[n][m]) \in Frames
  BY <1>1
<1>7. ASSUME NEW i \in DOMAIN wire'[n][m]
      PROVE i + 1 \in DOMAIN wire[n][m] /\ i \in Nat \ {0} /\ wire'[n][m][i] = wire[n][m][i + 1]
  BY <1>1, <1>2, <1>7
<1> QED BY <1>3, <1>5, <1>6, <1>7

(* A step that moves a handler between its first states only: nothing is   *)
(* signed yet, and no counter is touched.                                  *)
LEMMA HandlerStep ==
  ASSUME VouchersIInv, NEW t \in Tasks, NEW v \in Task,
         task' = [task EXCEPT ![t] = v],
         v.at \in {"generate", "persist", "ready", "done"}, v.node \in Nodes,
         task[t].at \in {"idle", "generate", "persist", "ready"},
         t \in Requests => request[t].at # "unused",
         t \in Requests /\ v.at # "done" => \A n, m \in Nodes : \A i \in DOMAIN wire[n][m] :
            wire[n][m][i].type = "request" => wire[n][m][i].id # t,
         UNCHANGED <<asking, issuing, counters, redeeming>>
  PROVE  /\ Begun' /\ Caused' /\ Places' /\ Fresh'
         /\ SignedFrames' /\ SignedTasks' /\ Debiting' /\ Counted' /\ VouchersAreSigned'
<1> USE RequestsAreTasks DEF VouchersIInv
<1>0. task \in [Tasks -> Task] /\ UNCHANGED <<request, inFlight, wire, signed, change, row>>
      /\ UNCHANGED <<spent, writes, saved, credited, lost>>
  BY DEF VouchersTypeOK, asking, issuing, counters, redeeming
<1>1. \A u \in Tasks : task'[u] = IF u = t THEN v ELSE task[u]
  BY <1>0
<1>2. Begun'
  BY <1>0, <1>1 DEF Begun
<1>3. Caused'
  BY <1>0, <1>1 DEF Caused
<1>4. Places'
  BY <1>0 DEF Places
<1>9. Counted'
  BY <1>0 DEF Counted
<1>10. VouchersAreSigned'
  BY <1>0 DEF VouchersAreSigned
<1>5. Fresh'
  <2>1. ASSUME NEW n \in Nodes, NEW m \in Nodes, NEW i \in DOMAIN wire[n][m],
               wire[n][m][i].type = "request"
        PROVE  task'[wire[n][m][i].id].at \in {"idle", "done"}
    <3>1. wire[n][m][i].id \in Requests /\ wire[n][m][i].id \in Tasks
      BY FrameOnLink
    <3>2. task[wire[n][m][i].id].at \in {"idle", "done"}
      BY <2>1 DEF Fresh
    <3> QED BY <2>1, <3>1, <3>2, <1>1
  <2> QED BY <1>0, <2>1 DEF Fresh
<1>6. SignedFrames'
  BY <1>0 DEF SignedFrames, Signs
<1>7. SignedTasks'
  BY <1>0, <1>1 DEF SignedTasks, Signs
<1>8. Debiting'
  BY <1>0, <1>1 DEF Debiting
<1> QED BY <1>2, <1>3, <1>4, <1>5, <1>6, <1>7, <1>8, <1>9, <1>10

LEMMA KeySteps ==
  ASSUME VouchersIInv, NEW t \in Tasks,
         \/ Generated(t) \/ Persisted(t) \/ GotEndorsementKey(t)
         \/ \E n \in Nodes : GetEndorsementKey(t, n)
  PROVE  VouchersIInv'
<1> USE DEF VouchersIInv
<1>0. /\ task[t] \in Task /\ task \in [Tasks -> Task]
      /\ identity \in [Nodes -> [kept : Nat, served : Nat, stored : Nat]]
      /\ handed \in [Nodes -> SUBSET Nat] /\ epoch \in Epochs /\ t \in Nat
      /\ None \in Nat
  BY VoucherConstants DEF VouchersTypeOK, None
<1>f. \A n, m \in Nodes : \A i \in DOMAIN wire[n][m] :
        wire[n][m][i].type = "request" => task[wire[n][m][i].id].at \in {"idle", "done"}
  BY DEF Fresh
<1>c. t \in Requests => (task[t].at \notin {"idle", "done"} => request[t].at # "unused")
  BY DEF Caused
<1>1. CASE Generated(t)
  <2> DEFINE v == [task[t] EXCEPT !.at = "persist", !.key = t]
  <2>1. v \in Task /\ v.at = "persist" /\ task' = [task EXCEPT ![t] = v] /\ v.node = task[t].node
    BY <1>0, <1>1 DEF Generated, Task
  <2>2. task[t].at = "generate" /\ task[t].node \in Nodes
    BY <1>1 DEF Generated, Begun
  <2>3. identity' \in [Nodes -> [kept : Nat, served : Nat, stored : Nat]]
    BY <1>0, <1>1, <2>2 DEF Generated
  <2>4. UNCHANGED <<epoch, handed, asking, issuing, counters, redeeming, moves>>
    BY <1>1 DEF Generated
  <2>5. VouchersTypeOK'
    BY <1>0, <2>1, <2>3, <2>4 DEF VouchersTypeOK, asking, issuing, counters, redeeming
  <2> HIDE DEF v
  <2> QED BY <1>c, <1>f, <2>1, <2>2, <2>4, <2>5, HandlerStep
<1>2. CASE Persisted(t)
  <2> DEFINE v == [task[t] EXCEPT !.at = "ready"]
  <2>1. v \in Task /\ v.at = "ready" /\ task' = [task EXCEPT ![t] = v] /\ v.node = task[t].node
    BY <1>0, <1>2 DEF Persisted, Task
  <2>2. task[t].at = "persist" /\ task[t].node \in Nodes
    BY <1>2 DEF Persisted, Begun
  <2>3. identity' \in [Nodes -> [kept : Nat, served : Nat, stored : Nat]]
    BY <1>0, <1>2, <2>2 DEF Persisted
  <2>4. UNCHANGED <<epoch, handed, asking, issuing, counters, redeeming, moves>>
    BY <1>2 DEF Persisted
  <2>5. VouchersTypeOK'
    BY <1>0, <2>1, <2>3, <2>4 DEF VouchersTypeOK, asking, issuing, counters, redeeming
  <2> HIDE DEF v
  <2> QED BY <1>c, <1>f, <2>1, <2>2, <2>4, <2>5, HandlerStep
<1>3. CASE GotEndorsementKey(t)
  <2> DEFINE v == [task[t] EXCEPT !.at = "done"]
  <2>1. v \in Task /\ v.at = "done" /\ task' = [task EXCEPT ![t] = v] /\ v.node = task[t].node
    BY <1>0, <1>3 DEF GotEndorsementKey, Task
  <2>2. t \in Calls /\ task[t].at = "ready" /\ task[t].node \in Nodes /\ task[t].key \in Nat
    BY <1>0, <1>3 DEF GotEndorsementKey, Begun, Task
  <2>3. /\ identity' \in [Nodes -> [kept : Nat, served : Nat, stored : Nat]]
        /\ handed' \in [Nodes -> SUBSET Nat]
    BY <1>0, <1>3, <2>2 DEF GotEndorsementKey
  <2>4. UNCHANGED <<epoch, asking, issuing, counters, redeeming, moves>>
    BY <1>3 DEF GotEndorsementKey
  <2>5. VouchersTypeOK'
    BY <1>0, <2>1, <2>3, <2>4 DEF VouchersTypeOK, asking, issuing, counters, redeeming
  <2> HIDE DEF v
  <2> QED BY <1>c, <2>1, <2>2, <2>4, <2>5, HandlerStep
<1>4. ASSUME NEW n \in Nodes, GetEndorsementKey(t, n) PROVE VouchersIInv'
  <2> DEFINE v == ensureBlindKeypair(t, n)
  <2>1. identity[n].kept \in Nat
    BY <1>0
  <2>2. v \in Task /\ v.at \in {"ready", "generate"} /\ v.node = n
    BY <1>0, <2>1 DEF ensureBlindKeypair, NoTask, Task
  <2>3. t \in Calls /\ t \notin Requests /\ task[t].at = "idle" /\ task' = [task EXCEPT ![t] = v]
    BY <1>4, VoucherConstants DEF GetEndorsementKey, NoTask
  <2>4. UNCHANGED <<epoch, identity, handed, asking, issuing, counters, redeeming, moves>>
    BY <1>4 DEF GetEndorsementKey
  <2>5. VouchersTypeOK'
    BY <1>0, <2>2, <2>3, <2>4 DEF VouchersTypeOK, asking, issuing, counters, redeeming
  <2> HIDE DEF v
  <2> QED BY <2>2, <2>3, <2>4, <2>5, HandlerStep
<1> QED BY <1>1, <1>2, <1>3, <1>4

(* Requests keep whom they ask and with which key.                         *)
SameAsks == \A q \in Requests :
  IF request[q].at = "unused" THEN request'[q] = request[q]
  ELSE /\ request'[q].at # "unused"
       /\ request'[q].ask = request[q].ask /\ request'[q].key = request[q].key

(* Links lose nothing, their first frame, or all.                          *)
Shorter == \A n, m \in Nodes : \E d \in {0, 1} : \A i \in DOMAIN wire'[n][m] :
  i \in Nat /\ i + d \in DOMAIN wire[n][m] /\ wire'[n][m][i] = wire[n][m][i + d]

(* What is still on a link was there before, and is there once.            *)
LEMMA ShorterFrames ==
  ASSUME VouchersIInv, SameAsks, Shorter, signed' = signed,
         NEW n \in Nodes, NEW m \in Nodes, NEW i \in DOMAIN wire'[n][m]
  PROVE  /\ wire'[n][m][i].id \in Requests
         /\ wire'[n][m][i].type = "response" =>
              Signs(n, wire'[n][m][i].id, wire'[n][m][i].key)
         /\ wire'[n][m][i].type = "request" =>
              /\ request'[wire'[n][m][i].id].at # "unused"
              /\ request'[wire'[n][m][i].id].ask = <<n, m>>
              /\ task[wire'[n][m][i].id].at \in {"idle", "done"}
              /\ \A j \in DOMAIN wire'[n][m] :
                   wire'[n][m][j].type = "request"
                     /\ wire'[n][m][j].id = wire'[n][m][i].id => j = i
<1> USE DEF VouchersIInv
<1>1. PICK d \in {0, 1} : \A k \in DOMAIN wire'[n][m] :
        k \in Nat /\ k + d \in DOMAIN wire[n][m] /\ wire'[n][m][k] = wire[n][m][k + d]
  BY DEF Shorter
<1> DEFINE k == i + d
<1>2. k \in DOMAIN wire[n][m] /\ wire'[n][m][i] = wire[n][m][k]
  BY <1>1
<1> HIDE DEF k
<1>3. wire[n][m][k].id \in Requests
  BY <1>2, FrameOnLink
<1>4. wire[n][m][k].type = "response" => Signs(n, wire[n][m][k].id, wire[n][m][k].key)
  BY <1>2 DEF SignedFrames
<1>5. ASSUME wire[n][m][k].type = "request"
      PROVE  /\ request'[wire'[n][m][i].id].at # "unused"
             /\ request'[wire'[n][m][i].id].ask = <<n, m>>
             /\ task[wire'[n][m][i].id].at \in {"idle", "done"}
             /\ \A j \in DOMAIN wire'[n][m] :
                  wire'[n][m][j].type = "request"
                    /\ wire'[n][m][j].id = wire'[n][m][i].id => j = i
  <2>1. /\ request[wire[n][m][k].id].at # "unused" /\ request[wire[n][m][k].id].ask = <<n, m>>
        /\ task[wire[n][m][k].id].at \in {"idle", "done"}
        /\ \A j \in DOMAIN wire[n][m] :
             wire[n][m][j].type = "request" /\ wire[n][m][j].id = wire[n][m][k].id => j = k
    BY <1>2, <1>5 DEF Fresh
  <2>2. ASSUME NEW j \in DOMAIN wire'[n][m], wire'[n][m][j].type = "request",
               wire'[n][m][j].id = wire'[n][m][i].id
        PROVE  j = i
    <3>1. j \in Nat /\ i \in Nat /\ d \in Nat /\ j + d = k
      BY <1>1, <1>2, <2>1, <2>2
    <3> QED BY <3>1 DEF k
  <2> QED BY <1>2, <1>3, <2>1, <2>2 DEF SameAsks
<1> QED BY <1>2, <1>3, <1>4, <1>5 DEF Signs

LEMMA ShorterLinks ==
  ASSUME VouchersIInv, SameAsks, Shorter, signed' = signed, task' = task
  PROVE  Fresh' /\ SignedFrames'
<1>1. Fresh'
  BY ShorterFrames DEF Fresh
<1>2. SignedFrames'
  BY ShorterFrames DEF SignedFrames, Signs
<1> QED BY <1>1, <1>2

(* A step that only settles requests, frees places and takes frames.       *)
LEMMA SettlingStep ==
  ASSUME VouchersIInv, SameAsks, Shorter,
         \A n, m \in Nodes : inFlight'[n][m] \in {None, inFlight[n][m]},
         UNCHANGED <<keys, issuing, counters, redeeming>>
  PROVE  /\ Begun' /\ Caused' /\ Places' /\ Fresh'
         /\ SignedFrames' /\ SignedTasks' /\ Debiting' /\ Counted'
<1> USE DEF VouchersIInv
<1>0. UNCHANGED <<task, signed, change, row, spent, writes, saved, credited, lost>>
  BY DEF keys, issuing, counters, redeeming
<1>1. Begun'
  BY <1>0 DEF Begun, SameAsks
<1>2. Caused'
  BY <1>0 DEF Caused, SameAsks
<1>3. Places'
  <2> SUFFICES ASSUME NEW n \in Nodes, NEW m \in Nodes, inFlight'[n][m] # None
               PROVE  /\ request'[inFlight'[n][m]].at # "unused"
                      /\ request'[inFlight'[n][m]].ask = <<n, m>>
    BY DEF Places
  <2>1. inFlight'[n][m] = inFlight[n][m]
    OBVIOUS
  <2>2. inFlight[n][m] \in Requests
    BY <2>1 DEF VouchersTypeOK
  <2>3. request[inFlight[n][m]].at # "unused" /\ request[inFlight[n][m]].ask = <<n, m>>
    BY <2>1 DEF Places
  <2> QED BY <2>1, <2>2, <2>3 DEF SameAsks
<1>4. Fresh' /\ SignedFrames'
  BY <1>0, ShorterLinks
<1>5. SignedTasks'
  BY <1>0 DEF SignedTasks, SameAsks, Signs
<1>6. Debiting'
  BY <1>0 DEF Debiting
<1>7. Counted'
  <2> SUFFICES ASSUME NEW r \in Requests, r \notin lost,
                      credited[r] = 1 \/ change[<<"redeem", r>>].at # "idle"
               PROVE  request'[r].ask = request[r].ask
    BY <1>0 DEF Counted
  <2>1. request[r].at # "unused"
    BY DEF Caused
  <2> QED BY <2>1 DEF SameAsks
<1> QED BY <1>1, <1>2, <1>3, <1>4, <1>5, <1>6, <1>7

LEMMA SameLinks == ASSUME VouchersTypeOK, wire' = wire PROVE Shorter
<1> SUFFICES ASSUME NEW n \in Nodes, NEW m \in Nodes, NEW i \in DOMAIN wire[n][m]
             PROVE  i \in Nat /\ i + 0 \in DOMAIN wire[n][m] /\ wire[n][m][i] = wire[n][m][i + 0]
  BY DEF Shorter
<1>1. wire[n][m] \in Seq(Frames)
  BY DEF VouchersTypeOK
<1> QED BY <1>1

LEMMA TakenLinks ==
  ASSUME VouchersTypeOK, NEW n \in Nodes, NEW m \in Nodes, wire[n][m] # <<>>,
         wire' = Took(n, m)
  PROVE  Shorter
<1>1. /\ \A p, q \in Nodes : <<p, q>> # <<n, m>> => wire'[p][q] = wire[p][q]
      /\ \A i \in DOMAIN wire'[n][m] :
           i + 1 \in DOMAIN wire[n][m] /\ i \in Nat \ {0} /\ wire'[n][m][i] = wire[n][m][i + 1]
  BY TakenFrame
<1>2. ASSUME NEW p \in Nodes, NEW q \in Nodes
      PROVE  \E d \in {0, 1} : \A i \in DOMAIN wire'[p][q] :
               i \in Nat /\ i + d \in DOMAIN wire[p][q] /\ wire'[p][q][i] = wire[p][q][i + d]
  <2>1. CASE <<p, q>> = <<n, m>>
    BY <1>1, <2>1
  <2>2. CASE <<p, q>> # <<n, m>>
    <3>1. wire[p][q] \in Seq(Frames) /\ wire'[p][q] = wire[p][q]
      BY <1>1, <2>2 DEF VouchersTypeOK
    <3>2. \A i \in DOMAIN wire[p][q] : i \in Nat /\ i + 0 = i
      BY <3>1
    <3> QED BY <3>1, <3>2
  <2> QED BY <2>1, <2>2
<1> QED BY <1>2 DEF Shorter

LEMMA TimesOutStep ==
  ASSUME VouchersIInv, NEW r \in Requests, TimesOut(r)
  PROVE  VouchersIInv'
<1> USE DEF VouchersIInv
<1> DEFINE v == [request[r] EXCEPT !.at = "failed",
                                   !.why = IF request[r].why = "send" THEN "send" ELSE "timeout"]
<1>1. request \in [Requests -> Asking] /\ request[r].at = "waiting"
  BY DEF TimesOut, VouchersTypeOK
<1>2. request' = [request EXCEPT ![r] = v]
  BY <1>1 DEF TimesOut, ended, Asking
<1>3. v \in Asking /\ v.at = "failed" /\ v.ask = request[r].ask /\ v.key = request[r].key
  BY <1>1 DEF Asking
<1>4. request[r].ask[1] \in Nodes /\ request[r].ask[2] \in Nodes
  BY <1>1, VoucherConstants DEF Begun
<1>5. /\ inFlight' \in [Nodes -> [Nodes -> Requests \cup {None}]]
      /\ \A n, m \in Nodes : inFlight'[n][m] \in {None, inFlight[n][m]}
  BY <1>4 DEF TimesOut, freed, VouchersTypeOK
<1>6. UNCHANGED <<epoch, keys, wire, issuing, counters, redeeming, moves>>
  BY DEF TimesOut
<1> HIDE DEF v
<1>7. VouchersTypeOK'
  BY <1>1, <1>2, <1>3, <1>5, <1>6 DEF VouchersTypeOK, keys, issuing, counters, redeeming
<1>8. SameAsks
  BY <1>1, <1>2, <1>3 DEF SameAsks
<1>9. Shorter
  BY <1>6, SameLinks
<1>10. VouchersAreSigned'
  BY <1>1, <1>2, <1>3, <1>6 DEF VouchersAreSigned, issuing
<1> QED BY <1>5, <1>6, <1>7, <1>8, <1>9, <1>10, SettlingStep

LEMMA HearAnswerStep ==
  ASSUME VouchersIInv, NEW n \in Nodes, NEW m \in Nodes, HearAnswer(n, m)
  PROVE  VouchersIInv'
<1> USE DEF VouchersIInv
<1> DEFINE frame == Head(wire[m][n])
           r == inFlight[n][m]
<1>1. /\ request \in [Requests -> Asking]
      /\ inFlight \in [Nodes -> [Nodes -> Requests \cup {None}]]
  BY DEF VouchersTypeOK
<1>2. wire[m][n] # <<>> /\ wire' = Took(m, n)
  BY DEF HearAnswer, Took
<1>3. /\ wire' \in [Nodes -> [Nodes -> Seq(Frames)]] /\ frame \in Frames
      /\ 1 \in DOMAIN wire[m][n] /\ frame = wire[m][n][1]
  BY <1>2, TakenFrame
<1>4. Shorter
  BY <1>2, TakenLinks
<1>5. UNCHANGED <<epoch, keys, issuing, counters, redeeming, moves>>
  BY DEF HearAnswer
<1>6. CASE r = None
  <2>1. UNCHANGED <<request, inFlight>>
    BY <1>6 DEF HearAnswer
  <2>2. VouchersTypeOK'
    BY <1>3, <1>5, <2>1 DEF VouchersTypeOK, keys, issuing, counters, redeeming
  <2>3. SameAsks /\ VouchersAreSigned'
    BY <1>5, <2>1 DEF SameAsks, VouchersAreSigned, issuing
  <2> QED BY <1>4, <1>5, <2>1, <2>2, <2>3, SettlingStep
<1>7. CASE r # None
  <2>1. r \in Requests /\ request[r].at # "unused" /\ request[r].ask = <<n, m>>
    BY <1>1, <1>7 DEF Places
  <2>2. request' = settled(r, frame) /\ inFlight' = [inFlight EXCEPT ![n][m] = None]
    BY <1>7 DEF HearAnswer
  <2>3. PICK v \in Asking : /\ request' = [request EXCEPT ![r] = v] /\ v.at \in {"token", "failed"}
                            /\ v.ask = request[r].ask /\ v.key = request[r].key
                            /\ v.at = "token" =>
                                 frame.type = "response" /\ completeVoucher(r, frame)
    <3>1. CASE frame.type = "response" /\ completeVoucher(r, frame)
      <4> DEFINE u == [request[r] EXCEPT !.at = "token"]
      <4>1. u \in Asking /\ u.at = "token" /\ u.ask = request[r].ask /\ u.key = request[r].key
        BY <1>1, <2>1 DEF Asking
      <4>2. request' = [request EXCEPT ![r] = u]
        BY <2>2, <3>1 DEF settled
      <4> QED BY <3>1, <4>1, <4>2
    <3>2. CASE ~(frame.type = "response" /\ completeVoucher(r, frame))
      <4> DEFINE u == [request[r] EXCEPT !.at = "failed",
                                         !.why = IF frame.id = r THEN "answer" ELSE "other"]
      <4>1. u \in Asking /\ u.at = "failed" /\ u.ask = request[r].ask /\ u.key = request[r].key
        BY <1>1, <2>1 DEF Asking
      <4>2. request' = [request EXCEPT ![r] = u]
        BY <1>1, <2>1, <2>2, <3>2 DEF settled, ended, Asking
      <4> QED BY <4>1, <4>2
    <3> QED BY <3>1, <3>2
  <2>4. /\ inFlight' \in [Nodes -> [Nodes -> Requests \cup {None}]]
        /\ \A p, q \in Nodes : inFlight'[p][q] \in {None, inFlight[p][q]}
    BY <1>1, <2>2
  <2>5. VouchersTypeOK'
    BY <1>1, <1>3, <1>5, <2>1, <2>3, <2>4 DEF VouchersTypeOK, keys, issuing, counters, redeeming
  <2>6. SameAsks
    BY <1>1, <2>1, <2>3 DEF SameAsks
  <2>7. VouchersAreSigned'
    <3>1. v.at = "token" => Signs(m, r, request[r].key)
      BY <1>3, <2>3 DEF completeVoucher, SignedFrames
    <3>2. v.at = "token" => [by |-> v.ask[2], id |-> r, key |-> v.key] \in signed
      BY <2>1, <2>3, <3>1 DEF Signs
    <3> QED BY <1>1, <1>5, <2>1, <2>3, <3>2 DEF VouchersAreSigned, issuing
  <2> QED BY <1>4, <1>5, <2>4, <2>5, <2>6, <2>7, SettlingStep
<1> QED BY <1>6, <1>7

LEMMA RequestStep ==
  ASSUME VouchersIInv, NEW r \in Requests, NEW ask \in Asks, NEW sends \in BOOLEAN,
         Request(r, ask, sends)
  PROVE  VouchersIInv'
<1> USE RequestsAreTasks DEF VouchersIInv
<1> DEFINE n == ask[1]
           m == ask[2]
           f == Frame("request", r, None)
<1>1. /\ request \in [Requests -> Asking] /\ handed \in [Nodes -> SUBSET Nat]
      /\ inFlight \in [Nodes -> [Nodes -> Requests \cup {None}]]
  BY DEF VouchersTypeOK
<1>2. n \in Nodes /\ m \in Nodes /\ ask = <<n, m>> /\ r # None
  BY VoucherConstants
<1>3. PICK k \in handed[m] :
        request' = [request EXCEPT ![r] =
          [at |-> "waiting", ask |-> ask, key |-> k, why |-> IF sends THEN "none" ELSE "send"]]
  BY DEF Request
<1> DEFINE v == [at |-> "waiting", ask |-> ask, key |-> k, why |-> IF sends THEN "none" ELSE "send"]
<1>4. v \in Asking /\ v.at = "waiting" /\ v.ask = ask /\ request' = [request EXCEPT ![r] = v]
  BY <1>1, <1>2, <1>3 DEF Asking
<1>5. request[r].at = "unused" /\ inFlight' = [inFlight EXCEPT ![n][m] = r]
  BY DEF Request
<1>6. UNCHANGED <<epoch, keys, issuing, counters, redeeming, moves>>
  BY DEF Request
<1>7. f \in Frames /\ f.type = "request" /\ f.id = r
  BY DEF Frame, Frames, None
<1> HIDE DEF v, f
<1>8. \A q \in Requests : request'[q] = IF q = r THEN v ELSE request[q]
  BY <1>1, <1>4
<1>u. UNCHANGED <<task, signed, change, row, spent, writes, saved, credited, lost>>
  BY <1>6 DEF keys, issuing, counters, redeeming
<1>9. /\ wire' \in [Nodes -> [Nodes -> Seq(Frames)]]
      /\ Appended(n, m, f)
  <2>1. wire' = sent(n, m, f) \/ wire' = wire
    BY DEF Request, f
  <2> QED BY <1>2, <1>7, <2>1, SentFrame
<1>10. VouchersTypeOK'
  BY <1>1, <1>2, <1>4, <1>5, <1>6, <1>9 DEF VouchersTypeOK, keys, issuing, counters, redeeming
<1>11. Begun'
  BY <1>4, <1>8, <1>u DEF Begun
<1>12. Caused'
  BY <1>8, <1>4, <1>u DEF Caused
<1>13. Places'
  BY <1>1, <1>2, <1>4, <1>5, <1>8 DEF Places
<1>14. Fresh'
  <2>1. ASSUME NEW p \in Nodes, NEW q \in Nodes, NEW i \in DOMAIN wire[p][q],
               wire[p][q][i].type = "request"
        PROVE  /\ wire[p][q][i].id # r /\ request'[wire[p][q][i].id] = request[wire[p][q][i].id]
    <3>1. wire[p][q][i].id \in Requests /\ wire[p][q][i].id # r
      BY <1>5, <2>1, FrameOnLink DEF Fresh
    <3> QED BY <3>1, <1>8
  <2>2. ASSUME NEW p \in Nodes, NEW q \in Nodes, NEW i \in DOMAIN wire'[p][q],
               wire'[p][q][i].type = "request"
        PROVE  /\ request'[wire'[p][q][i].id].at # "unused"
               /\ request'[wire'[p][q][i].id].ask = <<p, q>>
               /\ task[wire'[p][q][i].id].at \in {"idle", "done"}
               /\ \A j \in DOMAIN wire'[p][q] :
                    wire'[p][q][j].type = "request"
                      /\ wire'[p][q][j].id = wire'[p][q][i].id => j = i
    <3>1. CASE i \in DOMAIN wire[p][q] /\ wire'[p][q][i] = wire[p][q][i]
      <4>1. /\ request'[wire'[p][q][i].id].at # "unused"
            /\ request'[wire'[p][q][i].id].ask = <<p, q>>
            /\ task[wire'[p][q][i].id].at \in {"idle", "done"}
            /\ wire'[p][q][i].id # r
        <5>1. /\ wire[p][q][i].id # r
              /\ request'[wire[p][q][i].id] = request[wire[p][q][i].id]
          BY <2>1, <2>2, <3>1
        <5>2. /\ request[wire[p][q][i].id].at # "unused"
              /\ request[wire[p][q][i].id].ask = <<p, q>>
              /\ task[wire[p][q][i].id].at \in {"idle", "done"}
          BY <2>2, <3>1 DEF Fresh
        <5> QED BY <3>1, <5>1, <5>2
      <4>2. ASSUME NEW j \in DOMAIN wire'[p][q], wire'[p][q][j].type = "request",
                   wire'[p][q][j].id = wire'[p][q][i].id
            PROVE  j = i
        <5>1. j \in DOMAIN wire[p][q] /\ wire'[p][q][j] = wire[p][q][j]
          BY <1>7, <1>9, <4>1, <4>2 DEF Appended
        <5> QED BY <2>2, <3>1, <4>2, <5>1 DEF Fresh
      <4> QED BY <4>1, <4>2
    <3>2. CASE p = n /\ q = m /\ i = Len(wire[n][m]) + 1 /\ wire'[p][q][i] = f
      <4>1. /\ request'[r].at # "unused" /\ request'[r].ask = <<p, q>>
            /\ task[r].at \in {"idle", "done"}
        BY <1>2, <1>4, <1>5, <1>8, <3>2 DEF Caused
      <4>2. ASSUME NEW j \in DOMAIN wire'[p][q], wire'[p][q][j].type = "request",
                   wire'[p][q][j].id = r
            PROVE  j = i
        BY <1>9, <2>1, <3>2, <4>2 DEF Appended
      <4> QED BY <1>7, <3>2, <4>1, <4>2
    <3> QED BY <1>9, <3>1, <3>2 DEF Appended
  <2> QED BY <1>u, <2>2 DEF Fresh
<1>15. SignedFrames'
  BY <1>u, <1>7, <1>9 DEF SignedFrames, Signs, Appended
<1>16. SignedTasks' /\ Debiting'
  BY <1>8, <1>4, <1>u DEF SignedTasks, Debiting, Signs
<1>17. Counted'
  <2> SUFFICES ASSUME NEW q \in Requests,
                      credited[q] = 1 \/ change[<<"redeem", q>>].at # "idle"
               PROVE  request'[q] = request[q]
    BY <1>u DEF Counted
  <2>1. request[q].at # "unused"
    BY DEF Caused
  <2> QED BY <1>5, <1>8, <2>1
<1>18. VouchersAreSigned'
  BY <1>8, <1>4, <1>u DEF VouchersAreSigned
<1> QED BY <1>10, <1>11, <1>12, <1>13, <1>14, <1>15, <1>16, <1>17, <1>18

(* A step that leaves requests, links and handlers alone.                  *)
LEMMA CountingStep ==
  ASSUME VouchersIInv, UNCHANGED <<request, inFlight, wire, task, signed>>
  PROVE  Places' /\ Fresh' /\ SignedFrames' /\ SignedTasks' /\ VouchersAreSigned'
<1> USE DEF VouchersIInv
<1>1. Places'
  BY DEF Places
<1>2. Fresh'
  BY DEF Fresh
<1>3. SignedFrames' /\ SignedTasks' /\ VouchersAreSigned'
  BY DEF SignedFrames, SignedTasks, VouchersAreSigned, Signs
<1> QED BY <1>1, <1>2, <1>3

(* redeemVoucher() credits a voucher that was not spent.                   *)
LEMMA RedeemsOnce ==
  ASSUME VouchersIInv, NEW r \in Requests, request[r].at # "unused",
         redeemVoucher(r, request[r].ask[1], request[r].ask[2]), SameAsks,
         UNCHANGED <<task, signed>>
  PROVE  /\ change' \in [Changes -> Change] /\ row' = row
         /\ spent' \in [Nodes -> SUBSET Requests] /\ writes' \in [Nodes -> Seq(Requests)]
         /\ UNCHANGED <<saved, credited, lost>>
         /\ Begun' /\ Caused' /\ SignedTasks' /\ Debiting' /\ Counted'
<1> USE RequestsAreTasks DEF VouchersIInv
<1> DEFINE n == request[r].ask[1]
           m == request[r].ask[2]
           v == [at |-> "read", node |-> n, did |-> m, seen |-> ZeroCounters]
           c == <<"redeem", r>>
<1>1. n \in Nodes /\ m \in Nodes
  BY VoucherConstants DEF Begun
<1>2. /\ change \in [Changes -> Change] /\ spent \in [Nodes -> SUBSET Requests]
      /\ writes \in [Nodes -> Seq(Requests)]
  BY DEF VouchersTypeOK
<1>3. SignedTasks'
  BY DEF SignedTasks, SameAsks, Signs
<1>4. CASE r \in spent[n]
  <2>1. UNCHANGED <<change, row, spent, writes, saved, credited, lost>>
    BY <1>4 DEF redeemVoucher, counters, redeeming
  <2>2. Begun'
    BY <2>1 DEF Begun, SameAsks
  <2>3. Caused' /\ Debiting'
    BY <2>1 DEF Caused, Debiting, SameAsks
  <2>4. Counted'
    <3> SUFFICES ASSUME NEW q \in Requests,
                        credited[q] = 1 \/ change[<<"redeem", q>>].at # "idle"
                 PROVE  request'[q].ask = request[q].ask
      BY <2>1 DEF Counted
    <3>1. request[q].at # "unused"
      BY DEF Caused
    <3> QED BY <3>1 DEF SameAsks
  <2> QED BY <1>2, <1>3, <2>1, <2>2, <2>3, <2>4
<1>5. CASE r \notin spent[n]
  <2>1. /\ spent' = [spent EXCEPT ![n] = @ \cup {r}]
        /\ writes' = [writes EXCEPT ![n] = Append(@, r)]
        /\ change' = [change EXCEPT ![c] = v]
        /\ UNCHANGED <<row, saved, credited, lost>>
    BY <1>5 DEF redeemVoucher
  <2>2. v \in Change /\ v.at = "read" /\ v.node = n /\ v.did = m
    BY <1>1 DEF Change, ZeroCounters, Counters
  <2>3. /\ c \in Changes /\ \A q \in Requests : <<"debit", q>> # c
        /\ \A q \in Requests : <<"redeem", q>> = c => q = r
    BY VoucherConstants
  <2> HIDE DEF v, c
  <2>4. /\ \A x \in Changes : change'[x] = IF x = c THEN v ELSE change[x]
        /\ change' \in [Changes -> Change]
    BY <1>2, <2>1, <2>2, <2>3
  <2>5. /\ writes'[n] = Append(writes[n], r) /\ writes' \in [Nodes -> Seq(Requests)]
        /\ \A p \in Nodes : p # n => writes'[p] = writes[p]
    BY <1>1, <1>2, <2>1
  <2>6. /\ spent' \in [Nodes -> SUBSET Requests]
        /\ \A p \in Nodes : spent'[p] = IF p = n THEN spent[n] \cup {r} ELSE spent[p]
    BY <1>1, <1>2, <2>1
  <2>7. Begun'
    BY <1>1, <2>2, <2>4 DEF Begun, SameAsks
  <2>8. ASSUME NEW q \in Requests
        PROVE  /\ change'[<<"debit", q>>] = change[<<"debit", q>>]
               /\ q # r => change'[<<"redeem", q>>] = change[<<"redeem", q>>]
    BY <2>3, <2>4, VoucherConstants
  <2>9. Debiting'
    BY <2>8 DEF Debiting
  <2>10. Caused'
    <3>1. Listed(writes'[n]) \subseteq Listed(writes[n]) \cup {r}
      <4>1. writes[n] \in Seq(Requests) /\ writes'[n] = Append(writes[n], r)
        BY <1>1, <1>2, <2>5
      <4>2. \A i \in DOMAIN writes'[n] :
              (i \in DOMAIN writes[n] /\ writes'[n][i] = writes[n][i]) \/ writes'[n][i] = r
        BY <4>1
      <4> QED BY <4>2 DEF Listed
    <3>2. ASSUME NEW q \in Requests, request'[q].at = "unused"
          PROVE  q # r /\ request[q].at = "unused" /\ request'[q] = request[q]
      BY <3>2 DEF SameAsks
    <3> SUFFICES ASSUME NEW q \in Requests, request'[q].at = "unused"
                 PROVE  /\ task'[q].at \in {"idle", "done"} /\ credited'[q] = 0
                        /\ change'[<<"redeem", q>>].at = "idle"
                        /\ \A p \in Nodes :
                             q \notin spent'[p] /\ q \notin saved'[p] /\ q \notin Listed(writes'[p])
      BY DEF Caused
    <3>3. /\ q # r /\ task[q].at \in {"idle", "done"} /\ credited[q] = 0
          /\ change[<<"redeem", q>>].at = "idle"
          /\ \A p \in Nodes : q \notin spent[p] /\ q \notin saved[p] /\ q \notin Listed(writes[p])
      BY <3>2 DEF Caused
    <3> QED BY <2>1, <2>5, <2>6, <2>8, <3>1, <3>3
  <2>11. Counted'
    <3> SUFFICES ASSUME NEW q \in Requests, q \notin lost
                 PROVE  /\ credited[q] \in {0, 1}
                        /\ (change'[<<"redeem", q>>].at # "idle" => credited[q] = 0)
                        /\ credited[q] = 1 \/ change'[<<"redeem", q>>].at # "idle" =>
                             q \in spent'[request'[q].ask[1]]
                        /\ \A p \in Nodes : q \in spent'[p] =>
                             q \in saved[p] \/ \E i \in DOMAIN writes'[p] : writes'[p][i] = q
      BY <2>1 DEF Counted
    <3>1. ASSUME NEW p \in Nodes, q \in spent'[p]
          PROVE  q \in saved[p] \/ \E i \in DOMAIN writes'[p] : writes'[p][i] = q
      <4>1. CASE q \in spent[p]
        <5>1. q \in saved[p] \/ \E i \in DOMAIN writes[p] : writes[p][i] = q
          BY <4>1 DEF Counted
        <5>2. \A i \in DOMAIN writes[p] : i \in DOMAIN writes'[p] /\ writes'[p][i] = writes[p][i]
          <6>1. writes[p] \in Seq(Requests) /\ r \in Requests
            BY <1>2
          <6>2. writes'[p] = writes[p] \/ writes'[p] = Append(writes[p], r)
            BY <2>5
          <6> QED BY <6>1, <6>2
        <5> QED BY <5>1, <5>2
      <4>2. CASE q \notin spent[p]
        <5>1. p = n /\ q = r
          BY <2>6, <3>1, <4>2
        <5>2. Len(writes[n]) + 1 \in DOMAIN writes'[n] /\ writes'[n][Len(writes[n]) + 1] = r
          BY <1>1, <1>2, <2>5
        <5> QED BY <5>1, <5>2
      <4> QED BY <4>1, <4>2
    <3>2. CASE q = r
      <4>1. request'[r].ask = request[r].ask
        BY DEF SameAsks
      <4>2. credited[r] = 0
        BY <1>5, <3>2 DEF Counted
      <4> QED BY <1>1, <2>6, <3>1, <3>2, <4>1, <4>2
    <3>3. CASE q # r
      <4>1. /\ credited[q] \in {0, 1} /\ (change[<<"redeem", q>>].at # "idle" => credited[q] = 0)
            /\ credited[q] = 1 \/ change[<<"redeem", q>>].at # "idle" =>
                 q \in spent[request[q].ask[1]] /\ request[q].at # "unused"
        BY DEF Counted, Caused
      <4>2. request[q].at # "unused" => request'[q].ask = request[q].ask /\ request[q].ask[1] \in Nodes
        BY VoucherConstants DEF SameAsks, Begun
      <4> QED BY <2>6, <2>8, <3>1, <3>3, <4>1, <4>2
    <3> QED BY <3>2, <3>3
  <2> QED BY <1>3, <2>1, <2>4, <2>5, <2>6, <2>7, <2>9, <2>10, <2>11
<1> QED BY <1>4, <1>5

LEMMA RedeemSteps ==
  ASSUME VouchersIInv, NEW r \in Requests, Redeem(r) \/ RedeemAgain(r)
  PROVE  VouchersIInv'
<1> USE DEF VouchersIInv
<1>0. request \in [Requests -> Asking]
  BY DEF VouchersTypeOK
<1>1. CASE Redeem(r)
  <2> DEFINE v == [request[r] EXCEPT !.at = "redeemed"]
  <2>1. /\ request[r].at = "token" /\ request' = [request EXCEPT ![r] = v]
        /\ redeemVoucher(r, request[r].ask[1], request[r].ask[2])
        /\ UNCHANGED <<epoch, keys, inFlight, wire, issuing, moves>>
    BY <1>1 DEF Redeem
  <2>2. /\ v \in Asking /\ v.at = "redeemed" /\ v.ask = request[r].ask /\ v.key = request[r].key
    BY <1>0 DEF Asking
  <2> HIDE DEF v
  <2>3. SameAsks
    BY <1>0, <2>1, <2>2 DEF SameAsks
  <2>4. UNCHANGED <<task, signed>>
    BY <2>1 DEF keys, issuing
  <2>5. /\ change' \in [Changes -> Change] /\ row' = row
        /\ spent' \in [Nodes -> SUBSET Requests] /\ writes' \in [Nodes -> Seq(Requests)]
        /\ UNCHANGED <<saved, credited, lost>>
        /\ Begun' /\ Caused' /\ SignedTasks' /\ Debiting' /\ Counted'
    BY <2>1, <2>3, <2>4, RedeemsOnce
  <2>6. Shorter
    BY <2>1, SameLinks
  <2>7. Fresh' /\ SignedFrames'
    BY <2>3, <2>4, <2>6, ShorterLinks
  <2>8. VouchersTypeOK'
    BY <1>0, <2>1, <2>2, <2>5 DEF VouchersTypeOK, keys, issuing
  <2>9. Places'
    <3>1. \A n, m \in Nodes : inFlight[n][m] \in Requests \cup {None}
      BY DEF VouchersTypeOK
    <3> QED BY <2>1, <2>3, <3>1 DEF Places, SameAsks
  <2>10. VouchersAreSigned'
    BY <1>0, <2>1, <2>2, <2>4 DEF VouchersAreSigned
  <2> QED BY <2>5, <2>7, <2>8, <2>9, <2>10
<1>2. CASE RedeemAgain(r)
  <2>1. /\ request[r].at = "redeemed" /\ moves' = moves + 1
        /\ redeemVoucher(r, request[r].ask[1], request[r].ask[2])
        /\ UNCHANGED <<epoch, keys, asking, issuing>>
    BY <1>2 DEF RedeemAgain, Move
  <2>2. UNCHANGED <<request, inFlight, wire, task, signed>>
    BY <2>1 DEF keys, asking, issuing
  <2>3. SameAsks
    BY <2>2 DEF SameAsks
  <2>4. /\ change' \in [Changes -> Change] /\ row' = row
        /\ spent' \in [Nodes -> SUBSET Requests] /\ writes' \in [Nodes -> Seq(Requests)]
        /\ UNCHANGED <<saved, credited, lost>>
        /\ Begun' /\ Caused' /\ SignedTasks' /\ Debiting' /\ Counted'
    BY <2>1, <2>2, <2>3, RedeemsOnce
  <2>5. VouchersTypeOK'
    BY <2>1, <2>2, <2>4 DEF VouchersTypeOK, keys, issuing
  <2> QED BY <2>2, <2>4, <2>5, CountingStep
<1> QED BY <1>1, <1>2

LEMMA HearRequestStep ==
  ASSUME VouchersIInv, NEW n \in Nodes, NEW m \in Nodes, HearRequest(n, m)
  PROVE  VouchersIInv'
<1> USE RequestsAreTasks DEF VouchersIInv
<1> DEFINE r == Head(wire[n][m]).id
           v == IF identity[m].served # None
                THEN [at |-> "ready", node |-> m, epoch |-> epoch, key |-> identity[m].served]
                ELSE ensureBlindKeypair(r, m)
<1>1. /\ wire[n][m] # <<>> /\ Head(wire[n][m]).type = "request"
      /\ wire' = Took(n, m) /\ task' = [task EXCEPT ![r] = v]
      /\ UNCHANGED <<epoch, identity, handed, request, inFlight, issuing, counters, redeeming, moves>>
  BY DEF HearRequest, Took
<1>2. /\ wire' \in [Nodes -> [Nodes -> Seq(Frames)]] /\ Head(wire[n][m]) \in Frames
      /\ 1 \in DOMAIN wire[n][m] /\ Head(wire[n][m]) = wire[n][m][1]
      /\ \A p, q \in Nodes : <<p, q>> # <<n, m>> => wire'[p][q] = wire[p][q]
      /\ \A i \in DOMAIN wire'[n][m] :
           i + 1 \in DOMAIN wire[n][m] /\ i \in Nat \ {0} /\ wire'[n][m][i] = wire[n][m][i + 1]
  BY <1>1, TakenFrame
<1>3. r \in Requests /\ r \in Tasks
  BY <1>2 DEF Frames
<1>4. v \in Task /\ v.at \in {"ready", "generate"} /\ v.node = m
  <2>1. epoch \in Epochs /\ identity[m] \in [kept : Nat, served : Nat, stored : Nat]
    BY DEF VouchersTypeOK
  <2> QED BY <2>1 DEF Task, ensureBlindKeypair, NoTask
<1>5. /\ request[r].at # "unused" /\ request[r].ask = <<n, m>> /\ task[r].at \in {"idle", "done"}
      /\ \A j \in DOMAIN wire[n][m] : wire[n][m][j].type = "request" /\ wire[n][m][j].id = r => j = 1
  <2>1. 1 \in DOMAIN wire[n][m] /\ wire[n][m][1].type = "request" /\ wire[n][m][1].id = r
    BY <1>1, <1>2
  <2> HIDE DEF r
  <2>2. VouchersTypeOK /\ Fresh
    OBVIOUS
  <2> QED BY ONLY <2>1, <2>2, n \in Nodes, m \in Nodes DEF Fresh
<1>6. VouchersTypeOK'
  BY <1>1, <1>2, <1>3, <1>4 DEF VouchersTypeOK, issuing, counters, redeeming
<1> HIDE DEF v, r
<1>7. /\ task \in [Tasks -> Task]
      /\ \A u \in Tasks : task'[u] = IF u = r THEN v ELSE task[u]
  BY <1>1, <1>3 DEF VouchersTypeOK
<1>u. UNCHANGED <<request, inFlight, signed, change, row, spent, writes, saved, credited, lost>>
  BY <1>1 DEF issuing, counters, redeeming
<1>8. Begun'
  BY <1>4, <1>7, <1>u DEF Begun
<1>9. Caused'
  BY <1>5, <1>7, <1>u DEF Caused
<1>10. Places'
  BY <1>u DEF Places
<1>s. SameAsks /\ Shorter
  BY <1>1, <1>u, TakenLinks DEF SameAsks
<1>11. Fresh'
  <2>1. ASSUME NEW p \in Nodes, NEW q \in Nodes, NEW i \in DOMAIN wire'[p][q],
               wire'[p][q][i].type = "request"
        PROVE  /\ wire'[p][q][i].id # r /\ wire'[p][q][i].id \in Requests
               /\ task[wire'[p][q][i].id].at \in {"idle", "done"}
    <3>1. CASE <<p, q>> = <<n, m>>
      <4>1. /\ i + 1 \in DOMAIN wire[n][m] /\ i + 1 # 1 /\ wire'[p][q][i] = wire[n][m][i + 1]
        BY <1>2, <3>1
      <4>2. /\ wire[n][m][i + 1].id \in Requests /\ wire[n][m][i + 1].id # r
            /\ task[wire[n][m][i + 1].id].at \in {"idle", "done"}
        BY <1>5, <2>1, <4>1, FrameOnLink DEF Fresh
      <4> QED BY <4>1, <4>2
    <3>2. CASE <<p, q>> # <<n, m>>
      <4>1. i \in DOMAIN wire[p][q] /\ wire'[p][q][i] = wire[p][q][i]
        BY <1>2, <3>2
      <4>2. /\ wire[p][q][i].id \in Requests /\ request[wire[p][q][i].id].ask = <<p, q>>
            /\ task[wire[p][q][i].id].at \in {"idle", "done"}
        BY <2>1, <4>1, FrameOnLink DEF Fresh
      <4> QED BY <1>5, <3>2, <4>1, <4>2
    <3> QED BY <3>1, <3>2
  <2>2. ASSUME NEW p \in Nodes, NEW q \in Nodes, NEW i \in DOMAIN wire'[p][q],
               wire'[p][q][i].type = "request"
        PROVE  task'[wire'[p][q][i].id].at \in {"idle", "done"}
    BY <1>7, <2>1, <2>2
  <2> QED BY <1>s, <1>u, <2>2, ShorterFrames DEF Fresh
<1>12. SignedFrames'
  BY <1>s, <1>u, ShorterFrames DEF SignedFrames, Signs
<1>13. SignedTasks'
  BY <1>4, <1>7, <1>u DEF SignedTasks, Signs
<1>14. Debiting'
  BY <1>5, <1>7, <1>u DEF Debiting
<1>15. Counted'
  BY <1>u DEF Counted
<1>16. VouchersAreSigned'
  BY <1>u DEF VouchersAreSigned
<1> QED BY <1>6, <1>8, <1>9, <1>10, <1>11, <1>12, <1>13, <1>14, <1>15, <1>16

(* A handler at work sends an answer, if anything.                         *)
LEMMA SendingStep ==
  ASSUME VouchersIInv, NEW r \in Requests, task[r].at \notin {"idle", "done"},
         \A u \in Requests : u # r => task'[u] = task[u],
         NEW n \in Nodes, NEW m \in Nodes, NEW f \in Frames, f.type # "request",
         f.type = "response" => Signs(n, f.id, f.key),
         wire' = sent(n, m, f) \/ wire' = wire,
         request' = request, signed \subseteq signed'
  PROVE  wire' \in [Nodes -> [Nodes -> Seq(Frames)]] /\ Fresh' /\ SignedFrames'
<1> USE DEF VouchersIInv
<1>1. wire' \in [Nodes -> [Nodes -> Seq(Frames)]] /\ Appended(n, m, f)
  BY SentFrame
<1>2. Fresh'
  <2>1. ASSUME NEW p \in Nodes, NEW q \in Nodes, NEW i \in DOMAIN wire'[p][q],
               wire'[p][q][i].type = "request"
        PROVE  i \in DOMAIN wire[p][q] /\ wire'[p][q][i] = wire[p][q][i]
    BY <1>1, <2>1 DEF Appended
  <2>2. ASSUME NEW p \in Nodes, NEW q \in Nodes, NEW i \in DOMAIN wire[p][q],
               wire[p][q][i].type = "request"
        PROVE  task'[wire[p][q][i].id].at \in {"idle", "done"}
    <3>1. /\ wire[p][q][i].id \in Requests
          /\ task[wire[p][q][i].id].at \in {"idle", "done"}
      BY <2>2, FrameOnLink DEF Fresh
    <3> QED BY <3>1
  <2>3. ASSUME NEW p \in Nodes, NEW q \in Nodes, NEW i \in DOMAIN wire'[p][q],
               wire'[p][q][i].type = "request"
        PROVE  /\ request[wire'[p][q][i].id].at # "unused"
               /\ request[wire'[p][q][i].id].ask = <<p, q>>
               /\ task'[wire'[p][q][i].id].at \in {"idle", "done"}
               /\ \A j \in DOMAIN wire'[p][q] :
                    wire'[p][q][j].type = "request"
                      /\ wire'[p][q][j].id = wire'[p][q][i].id => j = i
    <3>1. i \in DOMAIN wire[p][q] /\ wire'[p][q][i] = wire[p][q][i]
      BY <2>1, <2>3
    <3>2. /\ request[wire[p][q][i].id].at # "unused"
          /\ request[wire[p][q][i].id].ask = <<p, q>>
          /\ \A j \in DOMAIN wire[p][q] :
               wire[p][q][j].type = "request" /\ wire[p][q][j].id = wire[p][q][i].id => j = i
      <4>1. i \in DOMAIN wire[p][q] /\ wire[p][q][i].type = "request" /\ Fresh
        BY <2>3, <3>1
      <4> QED BY ONLY <4>1, p \in Nodes, q \in Nodes DEF Fresh
    <3>3. ASSUME NEW j \in DOMAIN wire'[p][q], wire'[p][q][j].type = "request",
                 wire'[p][q][j].id = wire'[p][q][i].id
          PROVE  j = i
      BY <2>1, <3>1, <3>2, <3>3
    <3> QED BY <2>2, <2>3, <3>1, <3>2, <3>3
  <2> QED BY <2>3 DEF Fresh
<1>3. SignedFrames'
  BY <1>1 DEF SignedFrames, Signs, Appended
<1> QED BY <1>1, <1>2, <1>3

LEMMA AnswerStep ==
  ASSUME VouchersIInv, NEW r \in Requests, Answer(r)
  PROVE  VouchersIInv'
<1> USE RequestsAreTasks DEF VouchersIInv
<1> DEFINE n == task[r].node
           m == request[r].ask[1]
           f == Frame("response", r, task[r].key)
           v == [task[r] EXCEPT !.at = "done"]
<1>1. /\ task[r].at = "answer" /\ wire' = sent(n, m, f) /\ task' = [task EXCEPT ![r] = v]
      /\ UNCHANGED <<epoch, identity, handed, request, inFlight, issuing, counters, redeeming, moves>>
  <2>1. task[r].at = "answer" /\ wire' = sent(n, m, f)
        /\ UNCHANGED <<epoch, identity, handed, request, inFlight, issuing, counters, redeeming, moves>>
    BY DEF Answer
  <2>2. task' = [task EXCEPT ![r] = v]
    BY DEF Answer
  <2> QED BY <2>1, <2>2
<1>2. /\ task \in [Tasks -> Task] /\ v \in Task /\ v.at = "done" /\ v.node = n
      /\ task[r].key \in Nat
  BY DEF VouchersTypeOK, Task
<1>3. n \in Nodes /\ m \in Nodes /\ Signs(n, r, task[r].key) /\ request[r].at # "unused"
  <2>1. request[r].at # "unused" /\ Signs(n, r, task[r].key)
    BY <1>1 DEF SignedTasks
  <2>2. n \in Nodes
    BY <1>1 DEF Begun
  <2>3. request[r].ask \in Asks
    BY <2>1 DEF Begun
  <2> QED BY <2>1, <2>2, <2>3, VoucherConstants
<1>4. /\ f \in Frames /\ f.type # "request" /\ f.id = r /\ f.key = task[r].key
  BY <1>2 DEF Frame, Frames
<1> HIDE DEF v, f, n, m
<1>5. \A u \in Tasks : task'[u] = IF u = r THEN v ELSE task[u]
  BY <1>1, <1>2
<1>u. UNCHANGED <<request, inFlight, signed, change, row, spent, writes, saved, credited, lost>>
  BY <1>1 DEF issuing, counters, redeeming
<1>6. wire' \in [Nodes -> [Nodes -> Seq(Frames)]] /\ Fresh' /\ SignedFrames'
  BY <1>1, <1>3, <1>4, <1>5, <1>u, SendingStep
<1>7. VouchersTypeOK'
  BY <1>1, <1>2, <1>6 DEF VouchersTypeOK, issuing, counters, redeeming
<1>8. Begun'
  BY <1>2, <1>3, <1>5, <1>u DEF Begun
<1>9. Caused'
  BY <1>2, <1>3, <1>5, <1>u DEF Caused
<1>10. Places'
  BY <1>u DEF Places
<1>11. SignedTasks'
  BY <1>2, <1>5, <1>u DEF SignedTasks, Signs
<1>12. Debiting'
  BY <1>1, <1>5, <1>u DEF Debiting
<1>13. Counted' /\ VouchersAreSigned'
  BY <1>u DEF Counted, VouchersAreSigned
<1> QED BY <1>6, <1>7, <1>8, <1>9, <1>10, <1>11, <1>12, <1>13

LEMMA IssueStep ==
  ASSUME VouchersIInv, NEW r \in Requests, Issue(r)
  PROVE  VouchersIInv'
<1> USE RequestsAreTasks DEF VouchersIInv
<1> DEFINE n == task[r].node
           e == task[r].epoch
           m == request[r].ask[1]
           k == task[r].key
<1>1. /\ task[r].at = "ready" /\ identity' = [identity EXCEPT ![n].served = k]
      /\ UNCHANGED <<epoch, handed, request, inFlight, row, redeeming, moves>>
  BY DEF Issue
<1>2. task \in [Tasks -> Task] /\ k \in Nat /\ e \in Epochs
  BY DEF VouchersTypeOK, Task
<1>3. n \in Nodes /\ m \in Nodes /\ request[r].at # "unused"
  <2>1. request[r].at # "unused"
    BY <1>1 DEF Caused
  <2>2. n \in Nodes
    BY <1>1 DEF Begun
  <2>3. request[r].ask \in Asks
    BY <2>1 DEF Begun
  <2> QED BY <2>1, <2>2, <2>3, VoucherConstants
<1>4. identity' \in [Nodes -> [kept : Nat, served : Nat, stored : Nat]]
  BY <1>1, <1>2, <1>3 DEF VouchersTypeOK
<1>5. CASE hasIssuanceQuota(n, e)
  <2> DEFINE s == [by |-> n, id |-> r, key |-> k]
             c == <<"debit", r>>
             w == [at |-> "read", node |-> n, did |-> n, seen |-> ZeroCounters]
             v == [task[r] EXCEPT !.at = "debit"]
  <2>1. /\ issued' = [issued EXCEPT ![n][e] = @ + 1] /\ signed' = signed \cup {s}
        /\ change' = [change EXCEPT ![c] = w] /\ wire' = wire
    BY <1>5 DEF Issue
  <2>2. task' = [task EXCEPT ![r] = v]
    BY <1>5 DEF Issue
  <2>3. v \in Task /\ v.at = "debit" /\ v.node = n /\ v.key = k
    BY <1>2 DEF Task
  <2>4. w \in Change /\ w.at = "read" /\ w.node = n /\ w.did = n
    BY <1>3 DEF Change, ZeroCounters, Counters
  <2>5. /\ c \in Changes /\ \A q \in Requests : <<"redeem", q>> # c
        /\ \A q \in Requests : <<"debit", q>> = c => q = r
    BY VoucherConstants
  <2>6. s \in Signature
    BY <1>2, <1>3 DEF Signature
  <2>7. [by |-> n, id |-> r, key |-> k] \in signed' /\ signed \subseteq signed'
    BY <2>1
  <2> HIDE DEF v, w, c, s
  <2>8. /\ change' \in [Changes -> Change]
        /\ \A x \in Changes : change'[x] = IF x = c THEN w ELSE change[x]
    BY <2>1, <2>4, <2>5 DEF VouchersTypeOK
  <2>9. \A u \in Tasks : task'[u] = IF u = r THEN v ELSE task[u]
    BY <1>2, <2>2
  <2>10. issued' \in [Nodes -> [Epochs -> Nat]]
    <3>1. issued \in [Nodes -> [Epochs -> Nat]] /\ issued[n][e] \in Nat
      BY <1>2, <1>3 DEF VouchersTypeOK
    <3> HIDE DEF n, e
    <3> QED BY <1>2, <1>3, <2>1, <3>1
  <2>11. VouchersTypeOK'
    BY <1>1, <1>2, <1>4, <2>1, <2>2, <2>3, <2>6, <2>8, <2>10 DEF VouchersTypeOK, redeeming
  <2>u. UNCHANGED <<request, inFlight, wire, row, spent, writes, saved, credited, lost>>
    BY <1>1, <2>1 DEF redeeming
  <2>12. ASSUME NEW q \in Requests
         PROVE  /\ change'[<<"redeem", q>>] = change[<<"redeem", q>>]
                /\ change'[<<"debit", q>>] = IF q = r THEN w ELSE change[<<"debit", q>>]
    BY <2>5, <2>8, VoucherConstants DEF c
  <2>13. Begun'
    BY <1>3, <2>3, <2>4, <2>8, <2>9, <2>u DEF Begun
  <2>14. Caused'
    BY <1>3, <2>9, <2>12, <2>u DEF Caused
  <2>15. Places'
    BY <2>u DEF Places
  <2>16. Fresh' /\ SignedFrames'
    <3> DEFINE f == Frame("reject", r, None)
    <3>1. f \in Frames /\ f.type = "reject"
      BY DEF Frame, Frames, None
    <3> HIDE DEF f
    <3> QED BY <1>1, <1>3, <2>7, <2>9, <2>u, <3>1, SendingStep
  <2>17. SignedTasks'
    BY <1>3, <2>3, <2>7, <2>9, <2>u DEF SignedTasks, Signs
  <2>18. Debiting'
    BY <2>3, <2>4, <2>9, <2>12 DEF Debiting
  <2>19. Counted'
    BY <2>12, <2>u DEF Counted
  <2>20. VouchersAreSigned'
    BY <2>7, <2>u DEF VouchersAreSigned
  <2> QED BY <2>11, <2>13, <2>14, <2>15, <2>16, <2>17, <2>18, <2>19, <2>20
<1>6. CASE ~hasIssuanceQuota(n, e)
  <2> DEFINE f == Frame("reject", r, None)
             v == [task[r] EXCEPT !.at = "done"]
  <2>1. wire' = sent(n, m, f) /\ UNCHANGED <<issuing, change>>
    BY <1>6 DEF Issue
  <2>2. task' = [task EXCEPT ![r] = v]
    BY <1>6 DEF Issue
  <2>3. v \in Task /\ v.at = "done" /\ v.node = n
    BY <1>2 DEF Task
  <2>4. f \in Frames /\ f.type = "reject"
    BY DEF Frame, Frames, None
  <2> HIDE DEF f, v
  <2>5. \A u \in Tasks : task'[u] = IF u = r THEN v ELSE task[u]
    BY <1>2, <2>2
  <2>u. UNCHANGED <<request, inFlight, signed, change, row, spent, writes, saved, credited, lost>>
    BY <1>1, <2>1 DEF redeeming, issuing
  <2>6. wire' \in [Nodes -> [Nodes -> Seq(Frames)]] /\ Fresh' /\ SignedFrames'
    BY <1>1, <1>3, <2>1, <2>4, <2>5, <2>u, SendingStep
  <2>7. VouchersTypeOK'
    BY <1>1, <1>2, <1>4, <2>1, <2>2, <2>3, <2>6 DEF VouchersTypeOK, redeeming, issuing
  <2>8. Begun'
    BY <1>3, <2>3, <2>5, <2>u DEF Begun
  <2>9. Caused'
    BY <1>3, <2>5, <2>u DEF Caused
  <2>10. Places'
    BY <2>u DEF Places
  <2>11. SignedTasks'
    BY <2>3, <2>5, <2>u DEF SignedTasks, Signs
  <2>12. Debiting'
    BY <1>1, <2>5, <2>u DEF Debiting
  <2>13. Counted' /\ VouchersAreSigned'
    BY <2>u DEF Counted, VouchersAreSigned
  <2> QED BY <2>6, <2>7, <2>8, <2>9, <2>10, <2>11, <2>12, <2>13
<1> QED BY <1>5, <1>6

(* A step that changes counters on their way, not whose they are, and      *)
(* begins a verdict at most.                                               *)
LEMMA SameChanges ==
  ASSUME VouchersIInv, UNCHANGED <<request, inFlight, wire, task, signed>>,
         UNCHANGED <<spent, writes, saved, credited, lost>>,
         Begun',
         \A r \in Requests :
           /\ change'[<<"redeem", r>>].at # "idle" => change[<<"redeem", r>>].at # "idle"
           /\ change'[<<"debit", r>>].at # "idle" =>
                /\ change[<<"debit", r>>].at # "idle"
                /\ change'[<<"debit", r>>].node = change[<<"debit", r>>].node
  PROVE  /\ Caused' /\ Places' /\ Fresh' /\ SignedFrames' /\ SignedTasks' /\ Debiting'
         /\ Counted' /\ VouchersAreSigned'
<1> USE DEF VouchersIInv
<1>1. Places' /\ Fresh' /\ SignedFrames' /\ SignedTasks' /\ VouchersAreSigned'
  BY CountingStep
<1>2. Caused'
  BY DEF Caused
<1>3. Debiting'
  BY DEF Debiting
<1>4. Counted'
  BY DEF Counted
<1> QED BY <1>1, <1>2, <1>3, <1>4

LEMMA ReadStep ==
  ASSUME VouchersIInv, NEW c \in Changes, Read(c)
  PROVE  VouchersIInv'
<1> USE DEF VouchersIInv
<1> DEFINE v == [change[c] EXCEPT !.at = "write", !.seen = row[change[c].node][change[c].did]]
<1>1. /\ change[c].at = "read"
      /\ UNCHANGED <<epoch, keys, asking, issuing, row, redeeming, moves>>
  BY DEF Read
<1>2. change \in [Changes -> Change] /\ row \in [Nodes -> [Nodes -> Counters]]
  BY DEF VouchersTypeOK
<1>3. change[c].node \in Nodes /\ change[c].did \in Nodes
  BY <1>1 DEF Begun
<1>4. /\ change' = [change EXCEPT ![c] = v] /\ v \in Change
      /\ v.at = "write" /\ v.node = change[c].node /\ v.did = change[c].did
  <2>1. change' = [change EXCEPT ![c] = v]
    BY <1>2 DEF Read, Change
  <2> QED BY <1>2, <1>3, <2>1 DEF Change
<1> HIDE DEF v
<1>5. \A x \in Changes : change'[x] = IF x = c THEN v ELSE change[x]
  BY <1>2, <1>4
<1>u. /\ UNCHANGED <<request, inFlight, wire, task, signed>>
      /\ UNCHANGED <<spent, writes, saved, credited, lost>>
  BY <1>1 DEF keys, asking, issuing, redeeming
<1>6. VouchersTypeOK'
  BY <1>1, <1>2, <1>4 DEF VouchersTypeOK, keys, asking, issuing, redeeming
<1>7. Begun'
  BY <1>3, <1>4, <1>5, <1>u DEF Begun
<1>8. ASSUME NEW r \in Requests
      PROVE  /\ change'[<<"redeem", r>>].at # "idle" => change[<<"redeem", r>>].at # "idle"
             /\ change'[<<"debit", r>>].at # "idle" =>
                  /\ change[<<"debit", r>>].at # "idle"
                  /\ change'[<<"debit", r>>].node = change[<<"debit", r>>].node
  <2>1. <<"debit", r>> \in Changes /\ <<"redeem", r>> \in Changes
    BY VoucherConstants
  <2>2. /\ change'[<<"redeem", r>>] = IF <<"redeem", r>> = c THEN v ELSE change[<<"redeem", r>>]
        /\ change'[<<"debit", r>>] = IF <<"debit", r>> = c THEN v ELSE change[<<"debit", r>>]
    BY <1>5, <2>1
  <2> QED BY <1>1, <1>4, <2>2
<1> QED BY <1>6, <1>7, <1>8, <1>u, SameChanges

LEMMA BlacklistStep ==
  ASSUME VouchersIInv, NEW n \in Nodes, NEW m \in Nodes, Blacklist(n, m)
  PROVE  VouchersIInv'
<1> USE DEF VouchersIInv
<1> DEFINE v == [at |-> "read", node |-> n, did |-> m, seen |-> ZeroCounters]
           c == <<"blacklist", n>>
<1>1. /\ change' = [change EXCEPT ![c] = v] /\ moves' = moves + 1
      /\ UNCHANGED <<epoch, keys, asking, issuing, row, redeeming>>
  BY DEF Blacklist, Move
<1>2. /\ v \in Change /\ v.node = n /\ v.did = m
  BY DEF Change, ZeroCounters, Counters
<1>3. /\ c \in Changes /\ \A r \in Requests : <<"debit", r>> # c /\ <<"redeem", r>> # c
      /\ \A r \in Requests : <<"debit", r>> \in Changes /\ <<"redeem", r>> \in Changes
  BY VoucherConstants
<1> HIDE DEF v, c
<1>4. /\ change' \in [Changes -> Change]
      /\ \A x \in Changes : change'[x] = IF x = c THEN v ELSE change[x]
  BY <1>1, <1>2, <1>3 DEF VouchersTypeOK
<1>u. /\ UNCHANGED <<request, inFlight, wire, task, signed>>
      /\ UNCHANGED <<spent, writes, saved, credited, lost>>
  BY <1>1 DEF keys, asking, issuing, redeeming
<1>5. VouchersTypeOK'
  <2>1. moves' \in Nat /\ epoch' = epoch
    BY <1>1 DEF VouchersTypeOK
  <2>2. UNCHANGED <<identity, handed, issued, row>>
    BY <1>1 DEF keys, issuing
  <2> QED BY <1>4, <1>u, <2>1, <2>2 DEF VouchersTypeOK
<1>6. Begun'
  BY <1>2, <1>4, <1>u DEF Begun
<1>7. ASSUME NEW r \in Requests
      PROVE  change'[<<"redeem", r>>] = change[<<"redeem", r>>]
             /\ change'[<<"debit", r>>] = change[<<"debit", r>>]
  BY <1>3, <1>4
<1> QED BY <1>5, <1>6, <1>7, <1>u, SameChanges

LEMMA WriteStep ==
  ASSUME VouchersIInv, NEW c \in Changes, Write(c)
  PROVE  VouchersIInv'
<1> USE RequestsAreTasks DEF VouchersIInv
<1>1. /\ change[c].at = "write" /\ change' = [change EXCEPT ![c] = NoChange]
      /\ row' = [row EXCEPT ![change[c].node][change[c].did] = updated(c, change[c].seen)]
      /\ UNCHANGED <<epoch, identity, handed, asking, issuing, spent, writes, saved, lost, moves>>
  BY DEF Write
<1>u. UNCHANGED <<request, inFlight, wire, signed, spent, writes, saved, lost>>
  BY <1>1 DEF asking, issuing
<1>2. /\ change \in [Changes -> Change] /\ task \in [Tasks -> Task]
      /\ credited \in [Requests -> Nat] /\ row \in [Nodes -> [Nodes -> Counters]]
  BY DEF VouchersTypeOK
<1>3. change[c].node \in Nodes /\ change[c].did \in Nodes
  BY <1>1 DEF Begun
<1>4. row' \in [Nodes -> [Nodes -> Counters]]
  <2>1. change[c].seen \in Counters
    BY <1>2 DEF Change
  <2>2. ASSUME NEW s \in Counters PROVE updated(c, s) \in Counters
    <3>1. [s EXCEPT !.issued = @ + 1] \in Counters
      BY DEF Counters
    <3>2. [s EXCEPT !.redeemed = @ + 1] \in Counters
      BY DEF Counters
    <3>3. [s EXCEPT !.blacklisted = TRUE] \in Counters
      BY DEF Counters
    <3> QED BY <3>1, <3>2, <3>3 DEF updated
  <2> HIDE DEF updated
  <2> QED BY <1>1, <1>2, <1>3, <2>1, <2>2
<1>5. NoChange \in Change /\ NoChange.at = "idle"
  BY DEF NoChange, Change, ZeroCounters, Counters
<1>6. /\ \A x \in Changes : change'[x] = IF x = c THEN NoChange ELSE change[x]
      /\ change' \in [Changes -> Change]
  BY <1>1, <1>2, <1>5
<1>7. ASSUME NEW r \in Requests
      PROVE  /\ <<"debit", r>> \in Changes /\ <<"redeem", r>> \in Changes
             /\ change'[<<"debit", r>>] =
                  IF <<"debit", r>> = c THEN NoChange ELSE change[<<"debit", r>>]
             /\ change'[<<"redeem", r>>] =
                  IF <<"redeem", r>> = c THEN NoChange ELSE change[<<"redeem", r>>]
  BY <1>6, VoucherConstants
<1>8. CASE c[1] = "redeem"
  <2>1. PICK r \in Requests : c = <<"redeem", r>>
    BY <1>8 DEF Changes, Debits, Redemptions, Verdicts
  <2>2. credited' = [credited EXCEPT ![r] = @ + 1] /\ task' = task
    BY <1>8, <2>1 DEF Write
  <2>3. request[r].at # "unused"
    BY <1>1, <2>1 DEF Caused
  <2>4. /\ \A q \in Requests : credited'[q] = IF q = r THEN credited[r] + 1 ELSE credited[q]
        /\ credited' \in [Requests -> Nat]
    BY <1>2, <2>2
  <2>5. VouchersTypeOK'
    BY <1>1, <1>4, <1>6, <2>2, <2>4 DEF VouchersTypeOK, asking, issuing
  <2>6. Begun'
    BY <1>3, <1>5, <1>6, <1>u, <2>2 DEF Begun
  <2>7. Caused'
    BY <1>5, <1>7, <1>u, <2>2, <2>3, <2>4 DEF Caused
  <2>8. \A q \in Requests : <<"debit", q>> # c /\ (<<"redeem", q>> = c => q = r)
    BY <2>1
  <2>9. Debiting'
    BY <1>7, <2>2, <2>8 DEF Debiting
  <2>10. Places' /\ Fresh' /\ SignedFrames' /\ SignedTasks' /\ VouchersAreSigned'
    BY <1>u, <2>2, CountingStep
  <2>11. Counted'
    <3> SUFFICES ASSUME NEW q \in Requests, q \notin lost
                 PROVE  /\ credited'[q] \in {0, 1}
                        /\ (change'[<<"redeem", q>>].at # "idle" => credited'[q] = 0)
                        /\ credited'[q] = 1 \/ change'[<<"redeem", q>>].at # "idle" =>
                             q \in spent[request[q].ask[1]]
      BY <1>u DEF Counted
    <3>1. CASE q = r
      <4>1. credited[r] = 0 /\ r \in spent[request[r].ask[1]]
        BY <1>1, <2>1, <3>1 DEF Counted
      <4>2. credited'[r] = 1 /\ change'[<<"redeem", r>>].at = "idle"
        <5>1. credited'[r] = 1
          BY <2>4, <4>1
        <5>2. change'[<<"redeem", r>>] = NoChange
          BY <1>7, <2>1
        <5> QED BY <1>5, <5>1, <5>2
      <4> QED BY <3>1, <4>1, <4>2
    <3>2. CASE q # r
      <4>1. credited'[q] = credited[q] /\ change'[<<"redeem", q>>] = change[<<"redeem", q>>]
        BY <1>7, <2>4, <2>8, <3>2
      <4> QED BY <4>1 DEF Counted
    <3> QED BY <3>1, <3>2
  <2> QED BY <2>5, <2>6, <2>7, <2>9, <2>10, <2>11
<1>9. CASE c[1] = "debit"
  <2>1. PICK r \in Requests : c = <<"debit", r>>
    BY <1>9 DEF Changes, Debits, Redemptions, Verdicts
  <2> DEFINE v == [task[r] EXCEPT !.at = "answer"]
  <2>2. credited' = credited /\ task' = [task EXCEPT ![r] = v]
    BY <1>9, <2>1 DEF Write
  <2>3. task[r].at = "debit" /\ v \in Task /\ v.at = "answer" /\ v.node = task[r].node /\ v.key = task[r].key
    BY <1>1, <1>2, <2>1 DEF Debiting, Task
  <2>4. request[r].at # "unused" /\ task[r].node \in Nodes
    BY <2>3 DEF SignedTasks, Begun
  <2> HIDE DEF v
  <2>5. \A u \in Tasks : task'[u] = IF u = r THEN v ELSE task[u]
    BY <1>2, <2>2
  <2>6. VouchersTypeOK'
    BY <1>1, <1>2, <1>4, <1>6, <2>2, <2>3 DEF VouchersTypeOK, asking, issuing
  <2>7. Begun'
    BY <1>3, <1>5, <1>6, <1>u, <2>3, <2>4, <2>5 DEF Begun
  <2>8. \A q \in Requests : <<"redeem", q>> # c /\ (<<"debit", q>> = c => q = r)
    BY <2>1
  <2>9. Caused'
    BY <1>7, <1>u, <2>2, <2>4, <2>5, <2>8 DEF Caused
  <2>10. Places'
    BY <1>u DEF Places
  <2>11. Fresh' /\ SignedFrames'
    <3> DEFINE f == Frame("reject", r, None)
    <3>1. f \in Frames /\ f.type = "reject"
      BY DEF Frame, Frames, None
    <3> HIDE DEF f
    <3> QED BY <1>u, <2>3, <2>4, <2>5, <3>1, SendingStep
  <2>12. SignedTasks'
    BY <1>u, <2>3, <2>4, <2>5 DEF SignedTasks, Signs
  <2>13. Debiting'
    <3>1. \A q \in Requests : <<"debit", q>> # c => q # r
      BY <2>1
    <3> QED BY <1>5, <1>7, <2>1, <2>5, <3>1 DEF Debiting
  <2>14. Counted'
    BY <1>7, <1>u, <2>2, <2>8 DEF Counted
  <2>15. VouchersAreSigned'
    BY <1>u DEF VouchersAreSigned
  <2> QED BY <2>6, <2>7, <2>9, <2>10, <2>11, <2>12, <2>13, <2>14, <2>15
<1>10. CASE c[1] \notin {"redeem", "debit"}
  <2>1. credited' = credited /\ task' = task
    BY <1>10 DEF Write
  <2>2. VouchersTypeOK'
    BY <1>1, <1>4, <1>6, <2>1 DEF VouchersTypeOK, asking, issuing
  <2>3. Begun'
    BY <1>3, <1>5, <1>6, <1>u, <2>1 DEF Begun
  <2>4. \A q \in Requests : <<"debit", q>> # c /\ <<"redeem", q>> # c
    BY <1>10
  <2> QED BY <1>7, <1>u, <2>1, <2>2, <2>3, <2>4, SameChanges
<1> QED BY <1>8, <1>9, <1>10

LEMMA StoreStep ==
  ASSUME VouchersIInv, NEW n \in Nodes, Store(n)
  PROVE  VouchersIInv'
<1> USE DEF VouchersIInv
<1>1. /\ writes[n] # <<>> /\ saved' = [saved EXCEPT ![n] = @ \cup {Head(writes[n])}]
      /\ writes' = [writes EXCEPT ![n] = Tail(@)]
      /\ UNCHANGED <<epoch, keys, asking, issuing, counters, spent, credited, lost, moves>>
  BY DEF Store
<1>2. /\ writes \in [Nodes -> Seq(Requests)] /\ saved \in [Nodes -> SUBSET Requests]
      /\ writes[n] \in Seq(Requests)
  BY DEF VouchersTypeOK
<1>3. /\ Head(writes[n]) = writes[n][1] /\ 1 \in DOMAIN writes[n] /\ writes[n][1] \in Requests
      /\ Tail(writes[n]) \in Seq(Requests)
  BY <1>1, <1>2
<1>4. /\ \A p \in Nodes : saved'[p] = IF p = n THEN saved[n] \cup {writes[n][1]} ELSE saved[p]
      /\ \A p \in Nodes : writes'[p] = IF p = n THEN Tail(writes[n]) ELSE writes[p]
      /\ saved' \in [Nodes -> SUBSET Requests] /\ writes' \in [Nodes -> Seq(Requests)]
  BY <1>1, <1>2, <1>3
<1>u. UNCHANGED <<request, inFlight, wire, task, signed, change, spent, credited, lost>>
  BY <1>1 DEF keys, asking, issuing, counters
<1>5. /\ \A i \in DOMAIN Tail(writes[n]) :
           i + 1 \in DOMAIN writes[n] /\ Tail(writes[n])[i] = writes[n][i + 1]
      /\ \A i \in DOMAIN writes[n] : i = 1 \/ (i - 1 \in DOMAIN Tail(writes[n])
                                               /\ Tail(writes[n])[i - 1] = writes[n][i])
  BY <1>1, <1>2
<1>6. VouchersTypeOK'
  BY <1>1, <1>4 DEF VouchersTypeOK, keys, asking, issuing, counters
<1>7. Begun' /\ Debiting'
  BY <1>u DEF Begun, Debiting
<1>8. Places' /\ Fresh' /\ SignedFrames' /\ SignedTasks' /\ VouchersAreSigned'
  BY <1>u, CountingStep
<1>9. Caused'
  <2>1. Listed(Tail(writes[n])) \subseteq Listed(writes[n]) /\ writes[n][1] \in Listed(writes[n])
    BY <1>3, <1>5 DEF Listed
  <2> SUFFICES ASSUME NEW r \in Requests, request[r].at = "unused"
               PROVE  \A p \in Nodes : r \notin saved'[p] /\ r \notin Listed(writes'[p])
    BY <1>u DEF Caused
  <2>2. \A p \in Nodes : r \notin saved[p] /\ r \notin Listed(writes[p])
    BY DEF Caused
  <2>3. r # writes[n][1] /\ r \notin Listed(Tail(writes[n]))
    BY <2>1, <2>2
  <2> QED BY <1>4, <2>2, <2>3
<1>10. Counted'
  <2>1. ASSUME NEW r \in Requests, NEW p \in Nodes,
               r \in saved[p] \/ \E i \in DOMAIN writes[p] : writes[p][i] = r
        PROVE  r \in saved'[p] \/ \E i \in DOMAIN writes'[p] : writes'[p][i] = r
    BY <1>4, <1>5, <2>1
  <2> QED BY <1>u, <2>1 DEF Counted
<1> QED BY <1>6, <1>7, <1>8, <1>9, <1>10

LEMMA LoseLinkStep ==
  ASSUME VouchersIInv, NEW n \in Nodes, NEW m \in Nodes, LoseLink(n, m)
  PROVE  VouchersIInv'
<1> USE DEF VouchersIInv
<1>1. /\ wire' = [wire EXCEPT ![n][m] = <<>>, ![m][n] = <<>>] /\ moves' = moves + 1
      /\ UNCHANGED <<epoch, keys, request, inFlight, issuing, counters, redeeming>>
  BY DEF LoseLink, Move
<1>2. wire \in [Nodes -> [Nodes -> Seq(Frames)]]
  BY DEF VouchersTypeOK
<1>3. /\ wire' \in [Nodes -> [Nodes -> Seq(Frames)]]
      /\ \A p, q \in Nodes : wire'[p][q] \in {<<>>, wire[p][q]}
  <2> DEFINE w == [wire EXCEPT ![n][m] = <<>>]
  <2>1. /\ w \in [Nodes -> [Nodes -> Seq(Frames)]]
        /\ \A p, q \in Nodes : w[p][q] \in {<<>>, wire[p][q]}
    BY <1>2
  <2>2. wire' = [w EXCEPT ![m][n] = <<>>]
    BY <1>1
  <2> HIDE DEF w
  <2>3. wire' \in [Nodes -> [Nodes -> Seq(Frames)]]
    BY <2>1, <2>2
  <2>4. \A p, q \in Nodes : wire'[p][q] \in {<<>>, w[p][q]}
    BY <2>1, <2>2
  <2> QED BY <2>1, <2>3, <2>4
<1>4. Shorter
  <2>1. ASSUME NEW p \in Nodes, NEW q \in Nodes, NEW i \in DOMAIN wire'[p][q]
        PROVE  i \in Nat /\ i + 0 \in DOMAIN wire[p][q] /\ wire'[p][q][i] = wire[p][q][i + 0]
    <3>1. wire'[p][q] = wire[p][q] /\ wire[p][q] \in Seq(Frames)
      <4>1. DOMAIN <<>> = {}
        OBVIOUS
      <4>2. wire'[p][q] # <<>>
        BY <2>1, <4>1
      <4> QED BY <1>2, <1>3, <4>2
    <3> QED BY <3>1
  <2> QED BY <2>1 DEF Shorter
<1>u. /\ UNCHANGED <<epoch, identity, handed, request, inFlight, task, issued, signed>>
      /\ UNCHANGED <<change, row, spent, writes, saved, credited, lost>>
  BY <1>1 DEF keys, issuing, counters, redeeming
<1>m. moves' \in Nat
  BY <1>1 DEF VouchersTypeOK
<1>5. VouchersTypeOK'
  BY <1>3, <1>u, <1>m DEF VouchersTypeOK
<1>6. SameAsks /\ \A p, q \in Nodes : inFlight'[p][q] \in {None, inFlight[p][q]}
  BY <1>1 DEF SameAsks
<1>7. VouchersAreSigned'
  BY <1>1 DEF VouchersAreSigned, issuing
<1> QED BY <1>1, <1>4, <1>5, <1>6, <1>7, SettlingStep

LEMMA CrashStep ==
  ASSUME VouchersIInv, NEW n \in Nodes, Crash(n)
  PROVE  VouchersIInv'
<1> USE RequestsAreTasks DEF VouchersIInv
<1>1. /\ task' = [t \in Tasks |-> IF task[t].node = n THEN [task[t] EXCEPT !.at = "done"] ELSE task[t]]
      /\ request' = [r \in Requests |->
           IF request[r].at \in {"waiting", "token"} /\ request[r].ask[1] = n
           THEN [request[r] EXCEPT !.at = "failed", !.why = "crash"] ELSE request[r]]
      /\ inFlight' = [inFlight EXCEPT ![n] = [m \in Nodes |-> None]]
      /\ wire' = [p \in Nodes |-> [q \in Nodes |-> IF n \in {p, q} THEN <<>> ELSE wire[p][q]]]
      /\ change' = [c \in Changes |-> IF change[c].node = n THEN NoChange ELSE change[c]]
      /\ spent' = [spent EXCEPT ![n] = saved[n]]
      /\ lost' = lost \cup {r \in Requests : \E i \in DOMAIN writes[n] : writes[n][i] = r}
      /\ writes' = [writes EXCEPT ![n] = <<>>]
      /\ UNCHANGED <<epoch, handed, signed, row, saved, credited>>
  BY DEF Crash, hydrate
<1>u. UNCHANGED <<signed, saved, credited>>
  BY <1>1
<1>2. /\ identity' \in [Nodes -> [kept : Nat, served : Nat, stored : Nat]]
      /\ issued' \in [Nodes -> [Epochs -> Nat]] /\ moves' \in Nat
  <2>1. /\ identity \in [Nodes -> [kept : Nat, served : Nat, stored : Nat]]
        /\ issued \in [Nodes -> [Epochs -> Nat]] /\ moves \in Nat
    BY DEF VouchersTypeOK
  <2>2. identity[n].stored \in Nat
    BY <2>1
  <2> DEFINE back == [kept |-> identity[n].stored, served |-> identity[n].stored,
                      stored |-> identity[n].stored]
  <2>3. back \in [kept : Nat, served : Nat, stored : Nat] /\ identity' = [identity EXCEPT ![n] = back]
    BY <2>2 DEF Crash
  <2> HIDE DEF back
  <2>4. identity' \in [Nodes -> [kept : Nat, served : Nat, stored : Nat]]
    BY <2>1, <2>3
  <2>5. issued' \in [Nodes -> [Epochs -> Nat]]
    BY <2>1 DEF Crash
  <2>6. Move
    BY DEF Crash
  <2>7. moves' \in Nat
    BY <2>1, <2>6 DEF Move
  <2> QED BY <2>4, <2>5, <2>7
<1>3. /\ request \in [Requests -> Asking] /\ task \in [Tasks -> Task]
      /\ wire \in [Nodes -> [Nodes -> Seq(Frames)]] /\ change \in [Changes -> Change]
      /\ inFlight \in [Nodes -> [Nodes -> Requests \cup {None}]]
      /\ spent \in [Nodes -> SUBSET Requests] /\ saved \in [Nodes -> SUBSET Requests]
      /\ writes \in [Nodes -> Seq(Requests)] /\ lost \subseteq Requests
  BY DEF VouchersTypeOK
<1>4. ASSUME NEW r \in Requests
      PROVE  /\ request'[r] \in Asking
             /\ request'[r].at = request[r].at => request'[r] = request[r]
             /\ request'[r].at # request[r].at =>
                  request[r].at # "unused" /\ request'[r].at = "failed"
             /\ request'[r].ask = request[r].ask /\ request'[r].key = request[r].key
  <2>1. request[r] \in Asking
    BY <1>3
  <2>2. CASE request[r].at \in {"waiting", "token"} /\ request[r].ask[1] = n
    <3>1. request'[r] = [request[r] EXCEPT !.at = "failed", !.why = "crash"]
      BY <1>1, <2>2
    <3> QED BY <2>1, <2>2, <3>1 DEF Asking
  <2>3. CASE ~(request[r].at \in {"waiting", "token"} /\ request[r].ask[1] = n)
    <3>1. request'[r] = request[r]
      BY <1>1, <2>3
    <3> QED BY <2>1, <3>1
  <2> QED BY <2>2, <2>3
<1>5. ASSUME NEW t \in Tasks
      PROVE  /\ task'[t] \in Task /\ task'[t].node = task[t].node
             /\ task[t].node # n => task'[t] = task[t]
             /\ task[t].node = n => task'[t].at = "done"
  <2>1. task[t] \in Task
    BY <1>3
  <2>2. task'[t] = IF task[t].node = n THEN [task[t] EXCEPT !.at = "done"] ELSE task[t]
    BY <1>1
  <2> QED BY <2>1, <2>2 DEF Task
<1>6. NoChange \in Change /\ NoChange.at = "idle"
  BY DEF NoChange, Change, ZeroCounters, Counters
<1>7. /\ change' \in [Changes -> Change]
      /\ \A c \in Changes : change'[c].at # "idle" => change'[c] = change[c] /\ change[c].node # n
  BY <1>1, <1>3, <1>6
<1>8. /\ inFlight' \in [Nodes -> [Nodes -> Requests \cup {None}]]
      /\ \A p, q \in Nodes : inFlight'[p][q] # None => inFlight'[p][q] = inFlight[p][q]
  BY <1>1, <1>3
<1>9. /\ wire' \in [Nodes -> [Nodes -> Seq(Frames)]]
      /\ \A p, q \in Nodes : wire'[p][q] \in {<<>>, wire[p][q]}
  <2>1. \A p, q \in Nodes : wire'[p][q] = IF n \in {p, q} THEN <<>> ELSE wire[p][q]
    BY <1>1
  <2>2. <<>> \in Seq(Frames)
    OBVIOUS
  <2>3. wire' \in [Nodes -> [Nodes -> Seq(Frames)]]
    BY <1>1, <1>3, <2>2
  <2> QED BY <2>1, <2>3
<1>10. /\ spent' \in [Nodes -> SUBSET Requests] /\ writes' \in [Nodes -> Seq(Requests)]
       /\ lost' \subseteq Requests
       /\ \A p \in Nodes : spent'[p] = IF p = n THEN saved[n] ELSE spent[p]
       /\ \A p \in Nodes : writes'[p] = IF p = n THEN <<>> ELSE writes[p]
  <2>1. /\ spent' \in [Nodes -> SUBSET Requests]
        /\ \A p \in Nodes : spent'[p] = IF p = n THEN saved[n] ELSE spent[p]
    BY <1>1, <1>3
  <2>2. writes' \in [Nodes -> Seq(Requests)]
    <3>1. <<>> \in Seq(Requests)
      OBVIOUS
    <3>2. writes' = [writes EXCEPT ![n] = <<>>]
      BY <1>1
    <3> QED BY <1>3, <3>1, <3>2
  <2>3. \A p \in Nodes : writes'[p] = IF p = n THEN <<>> ELSE writes[p]
    BY <1>1, <1>3
  <2>4. lost' \subseteq Requests
    BY <1>1, <1>3
  <2> QED BY <2>1, <2>2, <2>3, <2>4
<1>11. VouchersTypeOK'
  <2>1. request' \in [Requests -> Asking] /\ task' \in [Tasks -> Task]
    BY <1>1, <1>4, <1>5
  <2> QED BY <1>1, <1>2, <1>7, <1>8, <1>9, <1>10, <2>1 DEF VouchersTypeOK
<1>12. SameAsks
  BY <1>4 DEF SameAsks
<1>13. Shorter
  <2>1. ASSUME NEW p \in Nodes, NEW q \in Nodes, NEW i \in DOMAIN wire'[p][q]
        PROVE  i \in Nat /\ i + 0 \in DOMAIN wire[p][q] /\ wire'[p][q][i] = wire[p][q][i + 0]
    <3>1. wire'[p][q] = wire[p][q] /\ wire[p][q] \in Seq(Frames)
      <4>1. DOMAIN <<>> = {}
        OBVIOUS
      <4>2. wire'[p][q] # <<>>
        BY <2>1, <4>1
      <4> QED BY <1>3, <1>9, <4>2
    <3> QED BY <3>1
  <2> QED BY <2>1 DEF Shorter
<1>14. Begun'
  <2>1. \A r \in Requests : request'[r].at # "unused" => request'[r].ask \in Asks
    BY <1>4 DEF Begun
  <2>2. \A t \in Tasks : task'[t].at # "idle" => task'[t].node \in Nodes
    BY <1>5 DEF Begun
  <2>3. \A c \in Changes : change'[c].at # "idle" => change'[c].node \in Nodes /\ change'[c].did \in Nodes
    BY <1>7 DEF Begun
  <2> QED BY <2>1, <2>2, <2>3 DEF Begun
<1>c. \A r \in Requests : <<"debit", r>> \in Changes /\ <<"redeem", r>> \in Changes
  BY VoucherConstants
<1>15. Caused'
  <2> SUFFICES ASSUME NEW r \in Requests, request'[r].at = "unused"
               PROVE  /\ task'[r].at \in {"idle", "done"} /\ credited'[r] = 0
                      /\ change'[<<"redeem", r>>].at = "idle"
                      /\ \A p \in Nodes : /\ r \notin spent'[p] /\ r \notin saved'[p]
                                          /\ r \notin Listed(writes'[p])
    BY DEF Caused
  <2>1. request[r].at = "unused"
    BY <1>4
  <2>2. /\ task[r].at \in {"idle", "done"} /\ credited[r] = 0
        /\ change[<<"redeem", r>>].at = "idle"
        /\ \A p \in Nodes : r \notin spent[p] /\ r \notin saved[p] /\ r \notin Listed(writes[p])
    BY <2>1 DEF Caused
  <2>3. Listed(<<>>) = {}
    BY DEF Listed
  <2> QED BY <1>1, <1>5, <1>7, <1>10, <1>c, <2>2, <2>3
<1>16. Places'
  <2> SUFFICES ASSUME NEW p \in Nodes, NEW q \in Nodes, inFlight'[p][q] # None
               PROVE  /\ request'[inFlight'[p][q]].at # "unused"
                      /\ request'[inFlight'[p][q]].ask = <<p, q>>
    BY DEF Places
  <2>1. inFlight'[p][q] = inFlight[p][q] /\ inFlight[p][q] \in Requests
    BY <1>3, <1>8
  <2>2. request[inFlight[p][q]].at # "unused" /\ request[inFlight[p][q]].ask = <<p, q>>
    BY <2>1 DEF Places
  <2> QED BY <1>12, <2>1, <2>2 DEF SameAsks
<1>17. Fresh'
  <2>1. ASSUME NEW p \in Nodes, NEW q \in Nodes, NEW i \in DOMAIN wire'[p][q],
               wire'[p][q][i].type = "request"
        PROVE  task'[wire'[p][q][i].id].at \in {"idle", "done"}
    <3>1. /\ wire'[p][q][i].id \in Requests
          /\ task[wire'[p][q][i].id].at \in {"idle", "done"}
      BY <1>u, <1>12, <1>13, <2>1, ShorterFrames
    <3> QED BY <1>5, <3>1
  <2> QED BY <1>u, <1>12, <1>13, <2>1, ShorterFrames DEF Fresh
<1>18. SignedFrames'
  BY <1>u, <1>12, <1>13, ShorterFrames DEF SignedFrames, Signs
<1>19. SignedTasks'
  <2> SUFFICES ASSUME NEW r \in Requests, task'[r].at \in {"debit", "answer"}
               PROVE  /\ request'[r].at # "unused"
                      /\ [by |-> task'[r].node, id |-> r, key |-> task'[r].key] \in signed'
    BY DEF SignedTasks, Signs
  <2>1. task'[r] = task[r]
    BY <1>5
  <2>2. request[r].at # "unused" /\ Signs(task[r].node, r, task[r].key)
    BY <2>1 DEF SignedTasks
  <2> QED BY <1>u, <1>12, <2>1, <2>2 DEF SameAsks, Signs
<1>20. Debiting'
  <2> SUFFICES ASSUME NEW r \in Requests, change'[<<"debit", r>>].at # "idle"
               PROVE  task'[r].at = "debit" /\ change'[<<"debit", r>>].node = task'[r].node
    BY DEF Debiting
  <2>1. change'[<<"debit", r>>] = change[<<"debit", r>>] /\ change[<<"debit", r>>].node # n
    BY <1>7, <1>c
  <2>2. task[r].at = "debit" /\ change[<<"debit", r>>].node = task[r].node
    BY <2>1 DEF Debiting
  <2> QED BY <1>5, <2>1, <2>2
<1>21. Counted'
  <2> SUFFICES ASSUME NEW r \in Requests, r \notin lost'
               PROVE  /\ credited'[r] \in {0, 1} /\ (change'[<<"redeem", r>>].at # "idle" => credited'[r] = 0)
                      /\ credited'[r] = 1 \/ change'[<<"redeem", r>>].at # "idle" =>
                           r \in spent'[request'[r].ask[1]]
                      /\ \A p \in Nodes : r \in spent'[p] =>
                           r \in saved'[p] \/ \E i \in DOMAIN writes'[p] : writes'[p][i] = r
    BY DEF Counted
  <2>1. r \notin lost /\ \A i \in DOMAIN writes[n] : writes[n][i] # r
    BY <1>1
  <2>2. /\ credited[r] \in {0, 1} /\ (change[<<"redeem", r>>].at # "idle" => credited[r] = 0)
        /\ credited[r] = 1 \/ change[<<"redeem", r>>].at # "idle" => r \in spent[request[r].ask[1]]
        /\ \A p \in Nodes : r \in spent[p] =>
             r \in saved[p] \/ \E i \in DOMAIN writes[p] : writes[p][i] = r
    BY <2>1 DEF Counted
  <2>3. change'[<<"redeem", r>>].at # "idle" => change'[<<"redeem", r>>] = change[<<"redeem", r>>]
    BY <1>7, <1>c
  <2>4. credited'[r] = credited[r] /\ request'[r].ask = request[r].ask
    BY <1>1, <1>4
  <2>5. ASSUME credited[r] = 1 \/ change[<<"redeem", r>>].at # "idle"
        PROVE  r \in spent'[request[r].ask[1]]
    <3>1. request[r].at # "unused"
      BY <2>5 DEF Caused
    <3>2. request[r].ask[1] \in Nodes
      BY <3>1, VoucherConstants DEF Begun
    <3> QED BY <1>10, <2>1, <2>2, <2>5, <3>2
  <2>6. \A p \in Nodes : r \in spent'[p] =>
          r \in saved'[p] \/ \E i \in DOMAIN writes'[p] : writes'[p][i] = r
    BY <1>1, <1>10, <2>2
  <2> QED BY <2>2, <2>3, <2>4, <2>5, <2>6
<1>22. VouchersAreSigned'
  <2> SUFFICES ASSUME NEW r \in Requests, request'[r].at \in {"token", "redeemed"}
               PROVE  [by |-> request'[r].ask[2], id |-> r, key |-> request'[r].key] \in signed'
    BY DEF VouchersAreSigned
  <2>1. request'[r] = request[r]
    BY <1>4
  <2> QED BY <1>u, <2>1 DEF VouchersAreSigned
<1> QED BY <1>11, <1>14, <1>15, <1>16, <1>17, <1>18, <1>19, <1>20, <1>21, <1>22

LEMMA VouchersStutter == VouchersIInv /\ UNCHANGED vars => VouchersIInv'
<1> SUFFICES ASSUME VouchersIInv, UNCHANGED vars PROVE VouchersIInv'
  OBVIOUS
<1> USE DEF VouchersIInv
<1>1. /\ UNCHANGED <<epoch, identity, handed, request, inFlight, wire, task, issued, signed>>
      /\ UNCHANGED <<change, row, spent, writes, saved, credited, lost, moves>>
  BY DEF vars, keys, asking, issuing, counters, redeeming
<1>2. VouchersTypeOK'
  BY <1>1 DEF VouchersTypeOK
<1>3. Begun' /\ Caused' /\ Debiting' /\ Counted'
  BY <1>1 DEF Begun, Caused, Debiting, Counted
<1>4. Places' /\ Fresh' /\ SignedFrames' /\ SignedTasks' /\ VouchersAreSigned'
  BY <1>1, CountingStep
<1> QED BY <1>2, <1>3, <1>4

LEMMA TickStep == VouchersIInv /\ Tick => VouchersIInv'
<1> SUFFICES ASSUME VouchersIInv, Tick PROVE VouchersIInv'
  OBVIOUS
<1> USE DEF VouchersIInv
<1>1. /\ UNCHANGED <<identity, handed, request, inFlight, wire, task, issued, signed>>
      /\ UNCHANGED <<change, row, spent, writes, saved, credited, lost, moves>>
      /\ epoch' \in Epochs
  BY VoucherConstants DEF Tick, keys, asking, issuing, counters, redeeming, VouchersTypeOK, Epochs
<1>2. VouchersTypeOK'
  BY <1>1 DEF VouchersTypeOK
<1>3. Begun' /\ Caused' /\ Debiting' /\ Counted'
  BY <1>1 DEF Begun, Caused, Debiting, Counted
<1>4. Places' /\ Fresh' /\ SignedFrames' /\ SignedTasks' /\ VouchersAreSigned'
  BY <1>1, CountingStep
<1> QED BY <1>2, <1>3, <1>4

LEMMA VouchersStep == VouchersIInv /\ [Next]_vars => VouchersIInv'
<1> SUFFICES ASSUME VouchersIInv, [Next]_vars PROVE VouchersIInv'
  OBVIOUS
<1>1. ASSUME NEW t \in Tasks, Generated(t) \/ Persisted(t) \/ GotEndorsementKey(t)
      PROVE  VouchersIInv'
  BY <1>1, KeySteps
<1>2. ASSUME NEW r \in Requests,
             TimesOut(r) \/ Issue(r) \/ Answer(r) \/ Redeem(r) \/ RedeemAgain(r)
      PROVE  VouchersIInv'
  BY <1>2, TimesOutStep, IssueStep, AnswerStep, RedeemSteps
<1>3. ASSUME NEW n \in Nodes, NEW m \in Nodes,
             HearAnswer(n, m) \/ HearRequest(n, m) \/ Blacklist(n, m) \/ LoseLink(n, m)
      PROVE  VouchersIInv'
  BY <1>3, HearAnswerStep, HearRequestStep, BlacklistStep, LoseLinkStep
<1>4. ASSUME NEW c \in Changes, Read(c) \/ Write(c) PROVE VouchersIInv'
  BY <1>4, ReadStep, WriteStep
<1>5. ASSUME NEW n \in Nodes, Store(n) \/ Crash(n) PROVE VouchersIInv'
  BY <1>5, StoreStep, CrashStep
<1>6. ASSUME NEW t \in Calls, NEW n \in {ask[2] : ask \in Asks}, GetEndorsementKey(t, n)
      PROVE  VouchersIInv'
  <2>1. t \in Tasks /\ n \in Nodes
    BY VoucherConstants
  <2> QED BY <1>6, <2>1, KeySteps
<1>7. ASSUME NEW r \in Requests, NEW ask \in Asks, NEW sends \in BOOLEAN, Request(r, ask, sends)
      PROVE  VouchersIInv'
  BY <1>7, RequestStep
<1>8. CASE Tick
  BY <1>8, TickStep
<1>9. CASE UNCHANGED vars
  BY <1>9, VouchersStutter
<1>10. CASE Progress
  BY <1>1, <1>2, <1>3, <1>4, <1>5, <1>10 DEF Progress
<1> QED BY <1>2, <1>3, <1>5, <1>6, <1>7, <1>8, <1>9, <1>10 DEF Next

-----------------------------------------------------------------------------
(* The pool of workers *)

(* The cardinality that WorkerPool uses is that of FiniteSets.             *)
LEMMA PoolCardinality == \A T : Pool!Cardinality(T) = Cardinality(T)
BY DEF Pool!Cardinality, Cardinality

(* A set of natural numbers has a least element.                           *)
LEMMA Least ==
  ASSUME NEW T \in SUBSET Nat, T # {}
  PROVE  \E x \in T : \A y \in T : x <= y
<1> DEFINE Below == {0 .. x : x \in T}
<1>1. Below \subseteq FiniteSubsetsOf(Nat) /\ Below # {}
  <2>1. ASSUME NEW x \in T PROVE (0 .. x) \in FiniteSubsetsOf(Nat)
    BY FS_Interval DEF FiniteSubsetsOf
  <2> QED BY <2>1
<1>2. PICK B \in Below : \A C \in Below : <<C, B>> \notin StrictSubsetOrdering(Nat)
  <2> HIDE DEF Below
  <2> QED BY <1>1, FS_StrictSubsetOrderingWellFounded, WFMin
<1>3. PICK x \in T : B = 0 .. x
  OBVIOUS
<1>4. ASSUME NEW y \in T PROVE x <= y
  <2>1. (0 .. y) \in Below
    OBVIOUS
  <2>2. <<0 .. y, 0 .. x>> \notin StrictSubsetOrdering(Nat)
    BY <1>2, <1>3, <2>1
  <2>3. CASE y < x
    <3>1. (0 .. y) \subseteq 0 .. x /\ x \in 0 .. x /\ x \notin 0 .. y
      BY <2>3
    <3>2. (0 .. y) \in SUBSET Nat /\ (0 .. x) \in SUBSET Nat
      OBVIOUS
    <3> QED BY <2>2, <3>1, <3>2 DEF StrictSubsetOrdering
  <2> QED BY <2>3
<1> QED BY <1>4

States == {"none", "pending", "resolved", "rejected"}

(* Queue, places, promises and timers that account for every pending job:  *)
(* it is queued without a timer or has one worker and a timer, once.       *)
Placed(q, ws, state, armed) ==
  /\ q \in Seq(Jobs) /\ ws \in Seq(Jobs \cup {"idle"}) /\ state \in [Jobs -> States]
  /\ \A k, l \in DOMAIN q : q[k] = q[l] => k = l
  /\ \A i, h \in DOMAIN ws : ws[i] = ws[h] /\ ws[i] # "idle" => i = h
  /\ \A k \in DOMAIN q : state[q[k]] = "pending" /\ q[k] \notin armed
  /\ \A i \in DOMAIN ws : ws[i] # "idle" => state[ws[i]] = "pending" /\ ws[i] \in armed
  /\ \A j \in Jobs : state[j] = "pending" =>
       (\E k \in DOMAIN q : q[k] = j) \/ (\E i \in DOMAIN ws : ws[i] = j)

(* Nothing waits while a worker is idle.                                   *)
Served(q, ws) == q # <<>> => \A i \in DOMAIN ws : ws[i] # "idle"

PoolIInv ==
  /\ Placed(jobs, workers, promise, timers) /\ Served(jobs, workers)
  /\ timers \subseteq Jobs /\ \A j \in timers : promise[j] # "none"

(* What pump() can give at once: the queue is empty, no worker is idle,    *)
(* one is, or one job waits.                                               *)
AtMostOne(q, ws) ==
  \/ q = <<>> \/ Len(q) = 1
  \/ \A i, h \in DOMAIN ws : ws[i] = "idle" /\ ws[h] = "idle" => i = h

LEMMA IdleBefore ==
  ASSUME NEW ws \in Seq(Jobs \cup {"idle"}), NEW i \in DOMAIN ws, ws[i] = "idle"
  PROVE  LET earlier == Cardinality({k \in 1 .. i : ws[k] = "idle"}) IN
         /\ earlier \in Nat /\ earlier >= 1
         /\ (\E h \in DOMAIN ws : h < i /\ ws[h] = "idle") => earlier >= 2
         /\ (\A h \in DOMAIN ws : h < i => ws[h] # "idle") => earlier = 1
<1> DEFINE idle == {k \in 1 .. i : ws[k] = "idle"}
<1>1. i \in Nat /\ i >= 1 /\ i \in idle /\ idle \in SUBSET (1 .. i) /\ DOMAIN ws = 1 .. Len(ws)
  OBVIOUS
<1>2. IsFiniteSet(idle) /\ Cardinality(idle) \in Nat
  <2>1. IsFiniteSet(1 .. i)
    BY <1>1, FS_Interval
  <2> HIDE DEF idle
  <2>2. IsFiniteSet(idle)
    BY <1>1, <2>1, FS_Subset
  <2> QED BY <2>2, FS_CardinalityType
<1>3. Cardinality({i}) = 1 /\ {i} \in SUBSET idle /\ IsFiniteSet({i})
  BY <1>1, FS_Singleton
<1> HIDE DEF idle
<1>4. Cardinality(idle) >= 1
  BY <1>2, <1>3, FS_Subset
<1>5. ASSUME NEW h \in DOMAIN ws, h < i, ws[h] = "idle" PROVE Cardinality(idle) >= 2
  <2>1. h \in idle /\ h # i
    BY <1>1, <1>5 DEF idle
  <2> DEFINE one == {i}
  <2>2. IsFiniteSet(one) /\ Cardinality(one) = 1 /\ h \notin one
    BY <1>3, <2>1
  <2>3. (one \cup {h}) \in SUBSET idle
    BY <1>1, <2>1
  <2> HIDE DEF one
  <2>4. Cardinality(one \cup {h}) = 1 + 1
    BY <2>2, FS_AddElement
  <2>5. Cardinality(one \cup {h}) <= Cardinality(idle)
    BY <1>2, <2>3, FS_Subset
  <2> QED BY <1>2, <2>4, <2>5
<1>6. ASSUME \A h \in DOMAIN ws : h < i => ws[h] # "idle" PROVE Cardinality(idle) = 1
  <2>1. idle = {i}
    BY <1>1, <1>6 DEF idle
  <2> QED BY <1>3, <2>1
<1> QED BY <1>2, <1>4, <1>5, <1>6 DEF idle

(* pump() when it can give at most one job: it gives it to an idle worker, *)
(* if there is one.                                                        *)
LEMMA PumpGives ==
  ASSUME NEW q \in Seq(Jobs), NEW ws \in Seq(Jobs \cup {"idle"}), NEW left, NEW armed,
         AtMostOne(q, ws), Pool!pump(q, ws, left, armed)
  PROVE  \/ /\ Served(q, ws)
            /\ workers' = ws /\ jobs' = q /\ timers' = armed
         \/ \E p \in DOMAIN ws :
              /\ q # <<>> /\ ws[p] = "idle" /\ workers' = [ws EXCEPT ![p] = q[1]]
              /\ jobs' = Tail(q) /\ timers' = armed \cup {q[1]}
              /\ Len(q) = 1 \/ \A i \in DOMAIN ws : ws[i] = "idle" => i = p
<1> DEFINE earlier(i) == Cardinality({k \in 1 .. i : ws[k] = "idle"})
           takes(i) == ws[i] = "idle" /\ earlier(i) <= Len(q)
           taken == {q[earlier(i)] : i \in {k \in DOMAIN ws : takes(k)}}
<1>1. /\ workers' = [i \in DOMAIN ws |-> IF takes(i) THEN q[earlier(i)] ELSE ws[i]]
      /\ jobs' = SubSeq(q, Cardinality(taken) + 1, Len(q)) /\ timers' = armed \cup taken
  BY PoolCardinality DEF Pool!pump
<1>2. Len(q) \in Nat /\ (q = <<>> <=> Len(q) = 0) /\ DOMAIN ws = 1 .. Len(ws) /\ Len(ws) \in Nat
  OBVIOUS
<1>3. ASSUME NEW i \in DOMAIN ws, ws[i] = "idle"
      PROVE  /\ earlier(i) \in Nat /\ earlier(i) >= 1
             /\ (\E h \in DOMAIN ws : h < i /\ ws[h] = "idle") => earlier(i) >= 2
             /\ (\A h \in DOMAIN ws : h < i => ws[h] # "idle") => earlier(i) = 1
  BY <1>3, IdleBefore
<1> HIDE DEF earlier
<1>4. CASE q = <<>> \/ \A i \in DOMAIN ws : ws[i] # "idle"
  <2>1. \A i \in DOMAIN ws : ~takes(i)
    BY <1>2, <1>3, <1>4
  <2>2. taken = {}
    BY <2>1
  <2>3. workers' = ws
    <3>1. workers' = [i \in DOMAIN ws |-> ws[i]]
      BY <1>1, <2>1
    <3> QED BY <3>1
  <2> HIDE DEF taken
  <2>4. jobs' = SubSeq(q, 1, Len(q))
    BY <1>1, <2>2, FS_EmptySet
  <2>5. jobs' = q
    BY <2>4
  <2> QED BY <1>1, <1>4, <2>2, <2>3, <2>5 DEF Served
<1>5. CASE q # <<>> /\ \E i \in DOMAIN ws : ws[i] = "idle"
  <2>1. PICK p \in DOMAIN ws : ws[p] = "idle" /\ \A h \in DOMAIN ws : ws[h] = "idle" => p <= h
    <3> DEFINE T == {i \in DOMAIN ws : ws[i] = "idle"}
    <3>1. T \in SUBSET Nat /\ T # {}
      BY <1>2, <1>5
    <3> HIDE DEF T
    <3>2. \E x \in T : \A y \in T : x <= y
      BY <3>1, Least
    <3> QED BY <3>2 DEF T
  <2>2. earlier(p) = 1
    <3>1. \A h \in DOMAIN ws : h < p => ws[h] # "idle"
      BY <1>2, <2>1
    <3> QED BY <1>3, <2>1, <3>1
  <2>3. takes(p)
    BY <1>2, <1>5, <2>1, <2>2
  <2>4. Len(q) = 1 \/ \A i \in DOMAIN ws : ws[i] = "idle" => i = p
    BY <1>5, <2>1 DEF AtMostOne
  <2>5. ASSUME NEW i \in DOMAIN ws, i # p PROVE ~takes(i)
    <3>1. CASE ws[i] = "idle"
      <4>1. p < i /\ Len(q) = 1
        BY <1>2, <2>1, <2>4, <2>5, <3>1
      <4>2. earlier(i) \in Nat /\ earlier(i) >= 2
        BY <1>3, <2>1, <3>1, <4>1
      <4> QED BY <4>1, <4>2
    <3> QED BY <3>1
  <2>6. taken = {q[1]}
    BY <2>2, <2>3, <2>5
  <2>7. workers' = [ws EXCEPT ![p] = q[1]]
    <3>1. \A i \in DOMAIN ws : (IF takes(i) THEN q[earlier(i)] ELSE ws[i]) = IF i = p THEN q[1] ELSE ws[i]
      BY <2>2, <2>3, <2>5
    <3> HIDE DEF takes
    <3>2. workers' = [i \in DOMAIN ws |-> IF i = p THEN q[1] ELSE ws[i]]
      BY <1>1, <3>1
    <3> QED BY <3>2
  <2> HIDE DEF taken
  <2>8. jobs' = SubSeq(q, 2, Len(q))
    <3>1. Cardinality(taken) = 1
      BY <2>6, FS_Singleton
    <3>2. Cardinality(taken) + 1 = 2
      BY <3>1
    <3> QED BY <1>1, <3>2
  <2>9. jobs' = Tail(q)
    BY <2>8, <1>5
  <2> QED BY <1>1, <1>5, <2>1, <2>4, <2>6, <2>7, <2>9
<1> QED BY <1>4, <1>5

LEMMA PumpPlaces ==
  ASSUME NEW q, NEW ws, NEW state, NEW left, NEW armed,
         Placed(q, ws, state, armed), AtMostOne(q, ws), Pool!pump(q, ws, left, armed)
  PROVE  /\ Placed(jobs', workers', state, timers') /\ Served(jobs', workers')
         /\ timers' \subseteq armed \cup {q[k] : k \in DOMAIN q}
<1>1. q \in Seq(Jobs) /\ ws \in Seq(Jobs \cup {"idle"}) /\ state \in [Jobs -> States]
  BY DEF Placed
<1>2. "idle" \notin Jobs
  BY PoolAssumption DEF Pool!WorkerPoolAssumption
<1>3. CASE Served(q, ws) /\ workers' = ws /\ jobs' = q /\ timers' = armed
  BY <1>3
<1>4. CASE \E p \in DOMAIN ws :
              /\ q # <<>> /\ ws[p] = "idle" /\ workers' = [ws EXCEPT ![p] = q[1]]
              /\ jobs' = Tail(q) /\ timers' = armed \cup {q[1]}
              /\ Len(q) = 1 \/ \A i \in DOMAIN ws : ws[i] = "idle" => i = p
  <2>1. PICK p \in DOMAIN ws :
              /\ q # <<>> /\ ws[p] = "idle" /\ workers' = [ws EXCEPT ![p] = q[1]]
              /\ jobs' = Tail(q) /\ timers' = armed \cup {q[1]}
              /\ Len(q) = 1 \/ \A i \in DOMAIN ws : ws[i] = "idle" => i = p
    BY <1>4
  <2>2. 1 \in DOMAIN q /\ q[1] \in Jobs /\ q[1] # "idle" /\ jobs' \in Seq(Jobs)
    BY <1>1, <1>2, <2>1
  <2>3. /\ \A k \in DOMAIN jobs' : k + 1 \in DOMAIN q /\ k + 1 # 1 /\ jobs'[k] = q[k + 1] /\ k \in Nat
        /\ \A k \in DOMAIN q : k # 1 => k - 1 \in DOMAIN jobs' /\ jobs'[k - 1] = q[k]
    BY <1>1, <2>1
  <2>4. /\ DOMAIN workers' = DOMAIN ws
        /\ \A i \in DOMAIN ws : workers'[i] = IF i = p THEN q[1] ELSE ws[i]
    BY <2>1
  <2>5. workers' \in Seq(Jobs \cup {"idle"})
    BY <1>1, <2>1, <2>2
  <2>6. /\ \A k, l \in DOMAIN q : q[k] = q[l] => k = l
        /\ \A i, h \in DOMAIN ws : ws[i] = ws[h] /\ ws[i] # "idle" => i = h
        /\ \A k \in DOMAIN q : state[q[k]] = "pending" /\ q[k] \notin armed
        /\ \A i \in DOMAIN ws : ws[i] # "idle" => state[ws[i]] = "pending" /\ ws[i] \in armed
        /\ \A j \in Jobs : state[j] = "pending" =>
             (\E k \in DOMAIN q : q[k] = j) \/ (\E i \in DOMAIN ws : ws[i] = j)
    BY DEF Placed
  <2>7. \A i \in DOMAIN ws : ws[i] # q[1]
    BY <2>2, <2>6
  <2>8. \A k, l \in DOMAIN jobs' : jobs'[k] = jobs'[l] => k = l
    BY <2>3, <2>6
  <2>9. \A i, h \in DOMAIN workers' : workers'[i] = workers'[h] /\ workers'[i] # "idle" => i = h
    BY <2>4, <2>6, <2>7
  <2>10. ASSUME NEW k \in DOMAIN jobs'
         PROVE  state[jobs'[k]] = "pending" /\ jobs'[k] \notin timers'
    <3>1. k + 1 \in DOMAIN q /\ k + 1 # 1 /\ jobs'[k] = q[k + 1]
      BY <2>3
    <3>2. q[k + 1] # q[1]
      BY <2>2, <2>6, <3>1
    <3> QED BY <2>1, <2>6, <3>1, <3>2
  <2>11. \A i \in DOMAIN workers' :
           workers'[i] # "idle" => state[workers'[i]] = "pending" /\ workers'[i] \in timers'
    BY <2>1, <2>2, <2>4, <2>6
  <2>12. ASSUME NEW j \in Jobs, state[j] = "pending"
         PROVE  (\E k \in DOMAIN jobs' : jobs'[k] = j) \/ (\E i \in DOMAIN workers' : workers'[i] = j)
    <3>1. CASE \E k \in DOMAIN q : q[k] = j
      BY <2>3, <2>4, <3>1
    <3>2. CASE \E i \in DOMAIN ws : ws[i] = j
      BY <1>2, <2>1, <2>4, <3>2
    <3> QED BY <2>6, <2>12, <3>1, <3>2
  <2>13. Placed(jobs', workers', state, timers')
    BY <1>1, <2>2, <2>5, <2>8, <2>9, <2>10, <2>11, <2>12 DEF Placed
  <2>14. Served(jobs', workers')
    <3>1. CASE Len(q) = 1
      <4>1. jobs' = <<>>
        BY <1>1, <2>1, <3>1
      <4> QED BY <4>1 DEF Served
    <3>2. CASE \A i \in DOMAIN ws : ws[i] = "idle" => i = p
      BY <2>2, <2>4, <3>2 DEF Served
    <3> QED BY <2>1, <3>1, <3>2
  <2> QED BY <2>1, <2>2, <2>13, <2>14
<1> QED BY <1>1, <1>3, <1>4, PumpGives

LEMMA PoolInit == Pool!Init => PoolIInv
<1> SUFFICES ASSUME Pool!Init PROVE PoolIInv
  OBVIOUS
<1>1. /\ jobs = <<>> /\ workers = [i \in 1 .. Size |-> "idle"] /\ timers = {}
      /\ promise = [j \in Jobs |-> "none"] /\ Size \in Nat
  BY PoolAssumption DEF Pool!Init, Pool!WorkerPoolAssumption
<1>2. workers \in Seq(Jobs \cup {"idle"}) /\ \A i \in DOMAIN workers : workers[i] = "idle"
  BY <1>1
<1>3. jobs \in Seq(Jobs) /\ DOMAIN jobs = {}
  BY <1>1
<1>4. promise \in [Jobs -> States] /\ \A j \in Jobs : promise[j] = "none"
  BY <1>1 DEF States
<1>5. Placed(jobs, workers, promise, timers) /\ Served(jobs, workers)
  BY <1>1, <1>2, <1>3, <1>4 DEF Placed, Served
<1> QED BY <1>1, <1>5 DEF PoolIInv

(* A busy worker is given up, or done, and its promise settled.            *)
LEMMA FreesPlace ==
  ASSUME PoolIInv, NEW j \in Jobs, j \in Pool!Busy(workers),
         NEW how \in {"resolved", "rejected"}, Pool!settle({j}, how)
  PROVE  /\ Placed(jobs, Pool!without(j), promise', timers \ {j})
         /\ AtMostOne(jobs, Pool!without(j))
         /\ \A k \in Jobs : promise[k] # "none" => promise'[k] # "none"
<1> DEFINE ws == Pool!without(j)
           armed == timers \ {j}
<1>1. /\ jobs \in Seq(Jobs) /\ workers \in Seq(Jobs \cup {"idle"}) /\ promise \in [Jobs -> States]
      /\ \A k, l \in DOMAIN jobs : jobs[k] = jobs[l] => k = l
      /\ \A i, h \in DOMAIN workers : workers[i] = workers[h] /\ workers[i] # "idle" => i = h
      /\ \A k \in DOMAIN jobs : promise[jobs[k]] = "pending" /\ jobs[k] \notin timers
      /\ \A i \in DOMAIN workers : workers[i] # "idle" =>
           promise[workers[i]] = "pending" /\ workers[i] \in timers
      /\ \A x \in Jobs : promise[x] = "pending" =>
           (\E k \in DOMAIN jobs : jobs[k] = x) \/ (\E i \in DOMAIN workers : workers[i] = x)
      /\ jobs # <<>> => \A i \in DOMAIN workers : workers[i] # "idle"
  BY DEF PoolIInv, Placed, Served
<1>2. "idle" \notin Jobs /\ j # "idle"
  BY PoolAssumption DEF Pool!WorkerPoolAssumption
<1>3. PICK p \in DOMAIN workers : workers[p] = j
  BY DEF Pool!Busy
<1>4. /\ DOMAIN ws = DOMAIN workers
      /\ \A i \in DOMAIN workers : ws[i] = IF i = p THEN "idle" ELSE workers[i]
  BY <1>1, <1>2, <1>3 DEF Pool!without
<1>5. ws \in Seq(Jobs \cup {"idle"})
  <2>1. ws = [i \in 1 .. Len(workers) |-> IF workers[i] = j THEN "idle" ELSE workers[i]]
    BY <1>1 DEF Pool!without
  <2> QED BY <1>1, <2>1
<1>6. /\ promise' \in [Jobs -> States] /\ promise'[j] = how
      /\ \A x \in Jobs : x # j => promise'[x] = promise[x]
  BY <1>1, <1>2, <1>3 DEF Pool!settle, States
<1> HIDE DEF ws
<1>7. \A k \in DOMAIN jobs : jobs[k] # j
  BY <1>1, <1>2, <1>3
<1>8. \A k \in DOMAIN jobs : promise'[jobs[k]] = "pending" /\ jobs[k] \notin armed
  BY <1>1, <1>6, <1>7
<1>9. \A i \in DOMAIN ws : ws[i] # "idle" => promise'[ws[i]] = "pending" /\ ws[i] \in armed
  <2> SUFFICES ASSUME NEW i \in DOMAIN workers, i # p, workers[i] # "idle"
               PROVE  promise'[workers[i]] = "pending" /\ workers[i] \in armed
    BY <1>4
  <2>1. workers[i] # j /\ workers[i] \in Jobs
    BY <1>1, <1>3
  <2> QED BY <1>1, <1>6, <2>1
<1>10. ASSUME NEW x \in Jobs, promise'[x] = "pending"
       PROVE  (\E k \in DOMAIN jobs : jobs[k] = x) \/ (\E i \in DOMAIN ws : ws[i] = x)
  <2>1. x # j /\ promise[x] = "pending"
    BY <1>6, <1>10
  <2> QED BY <1>1, <1>3, <1>4, <2>1
<1>11. \A i, h \in DOMAIN ws : ws[i] = ws[h] /\ ws[i] # "idle" => i = h
  BY <1>1, <1>4
<1>12. Placed(jobs, ws, promise', armed)
  BY <1>1, <1>5, <1>6, <1>8, <1>9, <1>10, <1>11 DEF Placed
<1>13. AtMostOne(jobs, ws)
  BY <1>1, <1>4 DEF AtMostOne
<1>14. \A k \in Jobs : promise[k] # "none" => promise'[k] # "none"
  BY <1>6
<1> QED BY <1>12, <1>13, <1>14 DEF ws

(* ... and what waits goes to the worker that is idle now.                 *)
LEMMA PlaceGoesOn ==
  ASSUME PoolIInv, NEW j \in Jobs, j \in Pool!Busy(workers), NEW left,
         NEW how \in {"resolved", "rejected"}, Pool!settle({j}, how),
         Pool!pump(jobs, Pool!without(j), left, timers \ {j})
  PROVE  PoolIInv'
<1>1. /\ Placed(jobs, Pool!without(j), promise', timers \ {j})
      /\ AtMostOne(jobs, Pool!without(j))
      /\ \A k \in Jobs : promise[k] # "none" => promise'[k] # "none"
  BY FreesPlace
<1>2. /\ Placed(jobs', workers', promise', timers') /\ Served(jobs', workers')
      /\ timers' \subseteq (timers \ {j}) \cup {jobs[k] : k \in DOMAIN jobs}
  BY <1>1, PumpPlaces
<1>3. \A k \in DOMAIN jobs : jobs[k] \in Jobs /\ promise'[jobs[k]] = "pending"
  BY <1>1 DEF Placed
<1> QED BY <1>1, <1>2, <1>3 DEF PoolIInv

LEMMA SubmitStep ==
  ASSUME PoolIInv, NEW j \in Jobs, Pool!Submit(j)
  PROVE  PoolIInv'
<1>1. /\ jobs \in Seq(Jobs) /\ workers \in Seq(Jobs \cup {"idle"}) /\ promise \in [Jobs -> States]
      /\ \A k, l \in DOMAIN jobs : jobs[k] = jobs[l] => k = l
      /\ \A i, h \in DOMAIN workers : workers[i] = workers[h] /\ workers[i] # "idle" => i = h
      /\ \A k \in DOMAIN jobs : promise[jobs[k]] = "pending" /\ jobs[k] \notin timers
      /\ \A i \in DOMAIN workers : workers[i] # "idle" =>
           promise[workers[i]] = "pending" /\ workers[i] \in timers
      /\ \A x \in Jobs : promise[x] = "pending" =>
           (\E k \in DOMAIN jobs : jobs[k] = x) \/ (\E i \in DOMAIN workers : workers[i] = x)
      /\ jobs # <<>> => \A i \in DOMAIN workers : workers[i] # "idle"
      /\ timers \subseteq Jobs /\ \A x \in timers : promise[x] # "none"
  BY DEF PoolIInv, Placed, Served
<1>2. "idle" \notin Jobs
  BY PoolAssumption DEF Pool!WorkerPoolAssumption
<1>3. promise[j] = "none" /\ j \notin timers
  BY <1>1 DEF Pool!Submit
<1>4. /\ \A k \in DOMAIN jobs : jobs[k] # j
      /\ \A i \in DOMAIN workers : workers[i] # j
  BY <1>1, <1>2, <1>3
<1>5. CASE disposed \/ Len(jobs) >= Depth
  <2>1. promise' = [promise EXCEPT ![j] = "rejected"] /\ UNCHANGED <<jobs, workers, timers>>
    BY <1>5 DEF Pool!Submit
  <2>2. promise' \in [Jobs -> States] /\ promise'[j] = "rejected"
    BY <1>1, <2>1 DEF States
  <2>3. \A x \in Jobs : x # j => promise'[x] = promise[x]
    BY <1>1, <2>1
  <2>4. Placed(jobs, workers, promise', timers)
    <3>1. \A k \in DOMAIN jobs : promise'[jobs[k]] = "pending" /\ jobs[k] \notin timers
      BY <1>1, <1>4, <2>3
    <3>2. \A i \in DOMAIN workers : workers[i] # "idle" =>
            promise'[workers[i]] = "pending" /\ workers[i] \in timers
      BY <1>1, <1>4, <2>3
    <3>3. \A x \in Jobs : promise'[x] = "pending" =>
            (\E k \in DOMAIN jobs : jobs[k] = x) \/ (\E i \in DOMAIN workers : workers[i] = x)
      BY <1>1, <2>2, <2>3
    <3> QED BY <1>1, <2>2, <3>1, <3>2, <3>3 DEF Placed
  <2>5. \A x \in timers : promise'[x] # "none"
    BY <1>1, <2>2, <2>3
  <2> QED BY <1>1, <2>1, <2>4, <2>5 DEF PoolIInv, Served
<1>6. CASE ~(disposed \/ Len(jobs) >= Depth)
  <2> DEFINE q == Append(jobs, j)
             state == [promise EXCEPT ![j] = "pending"]
  <2>1. promise' = state /\ Pool!pump(q, workers, running, timers)
    BY <1>6 DEF Pool!Submit
  <2>2. /\ state \in [Jobs -> States] /\ state[j] = "pending"
        /\ \A x \in Jobs : x # j => state[x] = promise[x]
    BY <1>1 DEF States
  <2>3. q \in Seq(Jobs) /\ \A k \in DOMAIN q : (k \in DOMAIN jobs /\ q[k] = jobs[k]) \/ q[k] = j
    BY <1>1
  <2>4. \A k, l \in DOMAIN q : q[k] = q[l] => k = l
    <3>1. /\ \A k \in DOMAIN q : k # Len(jobs) + 1 => k \in DOMAIN jobs /\ q[k] = jobs[k]
          /\ q[Len(jobs) + 1] = j /\ Len(jobs) \in Nat
      BY <1>1
    <3> HIDE DEF q
    <3> QED BY <1>1, <1>4, <3>1
  <2>5. /\ \A k \in DOMAIN jobs : k \in DOMAIN q /\ q[k] = jobs[k]
        /\ \E k \in DOMAIN q : q[k] = j
    <3>1. Len(jobs) + 1 \in DOMAIN q /\ q[Len(jobs) + 1] = j
      BY <1>1
    <3>2. \A k \in DOMAIN jobs : k \in DOMAIN q /\ q[k] = jobs[k]
      BY <1>1
    <3> QED BY <3>1, <3>2
  <2>6. AtMostOne(q, workers)
    <3>1. CASE jobs = <<>>
      <4>1. Len(q) = 1
        BY <3>1
      <4> QED BY <4>1 DEF AtMostOne
    <3>2. CASE jobs # <<>>
      BY <1>1, <3>2 DEF AtMostOne
    <3> QED BY <3>1, <3>2
  <2> HIDE DEF q, state
  <2>7. \A k \in DOMAIN q : state[q[k]] = "pending" /\ q[k] \notin timers
    BY <1>1, <1>3, <1>4, <2>2, <2>3
  <2>8. \A i \in DOMAIN workers : workers[i] # "idle" =>
          state[workers[i]] = "pending" /\ workers[i] \in timers
    BY <1>1, <1>4, <2>2
  <2>9. ASSUME NEW x \in Jobs, state[x] = "pending"
        PROVE  (\E k \in DOMAIN q : q[k] = x) \/ (\E i \in DOMAIN workers : workers[i] = x)
    BY <1>1, <2>2, <2>5, <2>9
  <2>10. Placed(q, workers, state, timers)
    BY <1>1, <2>2, <2>3, <2>4, <2>7, <2>8, <2>9 DEF Placed
  <2>11. /\ Placed(jobs', workers', state, timers') /\ Served(jobs', workers')
         /\ timers' \subseteq timers \cup {q[k] : k \in DOMAIN q}
    BY <2>1, <2>6, <2>10, PumpPlaces
  <2>12. \A x \in timers' : x \in Jobs /\ promise'[x] # "none"
    <3>1. \A x \in timers : x \in Jobs /\ state[x] # "none"
      BY <1>1, <2>2
    <3>2. \A k \in DOMAIN q : q[k] \in Jobs /\ state[q[k]] # "none"
      BY <2>3, <2>7
    <3> QED BY <2>1, <2>11, <3>1, <3>2
  <2> QED BY <2>1, <2>11, <2>12 DEF PoolIInv
<1> QED BY <1>5, <1>6

LEMMA TimerStep ==
  ASSUME PoolIInv, NEW j \in Jobs, Pool!TimesOut(j)
  PROVE  PoolIInv'
<1>1. /\ j \in timers /\ Pool!settle({j}, "rejected")
      /\ Pool!replace("timedOut", j, running, timers \ {j})
  BY DEF Pool!TimesOut
<1>2. CASE j \in Pool!Busy(workers)
  <2>1. Pool!pump(jobs, Pool!without(j), running, timers \ {j})
    BY <1>1, <1>2 DEF Pool!replace
  <2> QED BY <1>1, <1>2, <2>1, PlaceGoesOn
<1>3. CASE j \notin Pool!Busy(workers)
  <2>1. UNCHANGED <<workers, jobs>> /\ timers' = timers \ {j}
    BY <1>1, <1>3 DEF Pool!replace
  <2>2. "idle" \notin Jobs
    BY PoolAssumption DEF Pool!WorkerPoolAssumption
  <2>3. promise[j] # "pending"
    <3>1. \A i \in DOMAIN workers : workers[i] # j
      BY <1>3, <2>2 DEF Pool!Busy
    <3>2. \A k \in DOMAIN jobs : jobs[k] # j
      BY <1>1 DEF PoolIInv, Placed
    <3> QED BY <3>1, <3>2 DEF PoolIInv, Placed
  <2>4. promise' = promise
    <3>1. promise \in [Jobs -> States]
      BY DEF PoolIInv, Placed
    <3>2. promise' = [x \in Jobs |-> promise[x]]
      BY <1>1, <2>3 DEF Pool!settle
    <3> QED BY <3>1, <3>2
  <2>5. Placed(jobs, workers, promise, timers \ {j})
    <3>1. \A i \in DOMAIN workers : workers[i] # "idle" => workers[i] # j
      BY <1>3 DEF Pool!Busy
    <3> QED BY <3>1 DEF PoolIInv, Placed
  <2> QED BY <2>1, <2>4, <2>5 DEF PoolIInv, Served
<1> QED BY <1>2, <1>3

(* reset() and dispose(): whoever waited is told, and nobody is at work.   *)
LEMMA AbandonStep ==
  ASSUME PoolIInv, Pool!Reset \/ Pool!Dispose
  PROVE  PoolIInv'
<1>1. /\ Pool!settle(Pool!abandoned, "rejected") /\ jobs' = <<>> /\ timers' = timers
  BY DEF Pool!Reset, Pool!Dispose, Pool!abandon
<1>2. /\ workers \in Seq(Jobs \cup {"idle"}) /\ promise \in [Jobs -> States]
      /\ \A x \in Jobs : promise[x] = "pending" =>
           (\E k \in DOMAIN jobs : jobs[k] = x) \/ (\E i \in DOMAIN workers : workers[i] = x)
      /\ timers \subseteq Jobs /\ \A x \in timers : promise[x] # "none"
  BY DEF PoolIInv, Placed
<1>3. "idle" \notin Jobs
  BY PoolAssumption DEF Pool!WorkerPoolAssumption
<1>4. \A x \in Jobs : promise[x] = "pending" => x \in Pool!abandoned
  BY <1>2, <1>3 DEF Pool!abandoned, Pool!Busy
<1>5. /\ promise' \in [Jobs -> States] /\ \A x \in Jobs : promise'[x] # "pending"
      /\ \A x \in Jobs : promise[x] # "none" => promise'[x] # "none"
  BY <1>1, <1>2, <1>4 DEF Pool!settle, States
<1>6. workers' \in Seq(Jobs \cup {"idle"}) /\ \A i \in DOMAIN workers' : workers'[i] = "idle"
  <2>1. CASE Pool!Reset
    <3> DEFINE n == IF workers = <<>> THEN 2 ELSE Cardinality(DOMAIN workers)
    <3>1. workers' = [i \in 1 .. n |-> "idle"]
      BY <2>1, PoolCardinality DEF Pool!Reset
    <3>2. Cardinality(DOMAIN workers) \in Nat
      <4>1. DOMAIN workers = 1 .. Len(workers) /\ Len(workers) \in Int
        BY <1>2
      <4> QED BY <4>1, FS_Interval, FS_CardinalityType
    <3>3. n \in Nat
      BY <3>2
    <3> HIDE DEF n
    <3> QED BY <3>1, <3>3
  <2>2. CASE Pool!Dispose
    BY <2>2 DEF Pool!Dispose
  <2> QED BY <2>1, <2>2
<1>7. jobs' \in Seq(Jobs) /\ DOMAIN jobs' = {}
  BY <1>1
<1>8. Placed(jobs', workers', promise', timers')
  BY <1>5, <1>6, <1>7 DEF Placed
<1> QED BY <1>1, <1>2, <1>5, <1>8 DEF PoolIInv, Served

LEMMA PoolStep == PoolIInv /\ [Pool!Next]_pool => PoolIInv'
<1> SUFFICES ASSUME PoolIInv, [Pool!Next]_pool PROVE PoolIInv'
  OBVIOUS
<1>1. ASSUME NEW j \in Jobs, Pool!Submit(j) PROVE PoolIInv'
  BY <1>1, SubmitStep
<1>2. ASSUME NEW j \in Jobs, Pool!Completes(j) PROVE PoolIInv'
  <2>1. /\ j \in Pool!Busy(workers) /\ Pool!settle({j}, "resolved")
        /\ Pool!pump(jobs, Pool!without(j), running \ {j}, timers \ {j})
    BY <1>2 DEF Pool!Completes
  <2> QED BY <2>1, PlaceGoesOn
<1>3. ASSUME NEW j \in Jobs, Pool!Fails(j) PROVE PoolIInv'
  <2>1. /\ j \in Pool!Busy(workers) /\ Pool!settle({j}, "rejected")
        /\ Pool!pump(jobs, Pool!without(j), running \ {j}, timers \ {j})
    BY <1>3 DEF Pool!Fails, Pool!replace
  <2> QED BY <2>1, PlaceGoesOn
<1>4. ASSUME NEW j \in Jobs, Pool!ReturnsLate(j) PROVE PoolIInv'
  BY <1>4 DEF Pool!ReturnsLate, PoolIInv
<1>5. ASSUME NEW j \in Jobs, Pool!TimesOut(j) PROVE PoolIInv'
  BY <1>5, TimerStep
<1>6. CASE Pool!Reset \/ Pool!Dispose
  BY <1>6, AbandonStep
<1>7. CASE UNCHANGED pool
  BY <1>7 DEF pool, PoolIInv
<1> QED BY <1>1, <1>2, <1>3, <1>4, <1>5, <1>6, <1>7 DEF Pool!Next

(* Once among queue and workers is a count of one.                         *)
LEMMA PoolCounts == PoolIInv => NoJobLost
<1> SUFFICES ASSUME PoolIInv PROVE Pool!NoJobLost
  BY DEF NoJobLost
<1>1. /\ jobs \in Seq(Jobs) /\ workers \in Seq(Jobs \cup {"idle"})
      /\ \A k, l \in DOMAIN jobs : jobs[k] = jobs[l] => k = l
      /\ \A i, h \in DOMAIN workers : workers[i] = workers[h] /\ workers[i] # "idle" => i = h
      /\ \A k \in DOMAIN jobs : promise[jobs[k]] = "pending" /\ jobs[k] \notin timers
      /\ \A i \in DOMAIN workers : workers[i] # "idle" =>
           promise[workers[i]] = "pending" /\ workers[i] \in timers
      /\ \A x \in Jobs : promise[x] = "pending" =>
           (\E k \in DOMAIN jobs : jobs[k] = x) \/ (\E i \in DOMAIN workers : workers[i] = x)
      /\ jobs # <<>> => \A i \in DOMAIN workers : workers[i] # "idle"
  BY DEF PoolIInv, Placed, Served
<1>2. "idle" \notin Jobs
  BY PoolAssumption DEF Pool!WorkerPoolAssumption
<1>3. ASSUME NEW j \in Jobs, promise[j] = "pending"
      PROVE  Cardinality({k \in DOMAIN jobs : jobs[k] = j})
               + Cardinality({i \in DOMAIN workers : workers[i] = j}) = 1
  <2> DEFINE K == {k \in DOMAIN jobs : jobs[k] = j}
             I == {i \in DOMAIN workers : workers[i] = j}
  <2>1. CASE \E k \in DOMAIN jobs : jobs[k] = j
    <3>1. PICK k \in DOMAIN jobs : jobs[k] = j
      BY <2>1
    <3>2. K = {k}
      BY <1>1, <3>1
    <3>3. I = {}
      BY <1>1, <1>2, <3>1
    <3> HIDE DEF K, I
    <3>4. Cardinality(K) = 1 /\ Cardinality(I) = 0
      BY <3>2, <3>3, FS_Singleton, FS_EmptySet
    <3> QED BY <3>4 DEF K, I
  <2>2. CASE ~ \E k \in DOMAIN jobs : jobs[k] = j
    <3>1. PICK i \in DOMAIN workers : workers[i] = j
      BY <1>1, <1>3, <2>2
    <3>2. I = {i}
      BY <1>1, <1>2, <3>1
    <3>3. K = {}
      BY <2>2
    <3> HIDE DEF K, I
    <3>4. Cardinality(I) = 1 /\ Cardinality(K) = 0
      BY <3>2, <3>3, FS_Singleton, FS_EmptySet
    <3> QED BY <3>4 DEF K, I
  <2> QED BY <2>1, <2>2
<1>4. \A j \in Pool!Busy(workers) : promise[j] = "pending" /\ j \in timers
  BY <1>1 DEF Pool!Busy
<1> QED BY <1>1, <1>3, <1>4, PoolCardinality DEF Pool!NoJobLost

-----------------------------------------------------------------------------
(* What the processes keep *)

Seals == [by : V!Keys, salt : Nat]
SealedRows == [seed : Seeds, blind : Nat, seal : Seals]
SealedSnapshots == [edits : Nat, seal : Seals]
Identities == [seed : Seeds \cup {V!NoSeed}, blind : Nat]

VaultTypeOK ==
  /\ rows \in Seq(SealedRows) /\ snapshot \in Seq(SealedSnapshots)
  /\ phase \in V!Starting \cup {"down", "running", "closing"}
  /\ box \in [key : V!Keys, salt : Nat]
  /\ identityNow \in Identities /\ edits \in Nat /\ puts \in Seq(SealedRows)
  /\ writeQueue \in Seq(SealedSnapshots) /\ failure \in BOOLEAN /\ generating \in Identities
  /\ used \in [starts : Nat, edits : Nat, calls : Nat, rejects : Nat]
  /\ keysUsed \subseteq V!Keys /\ IsFiniteSet(keysUsed) /\ before \in Seq(SealedRows)
  /\ failed \in BOOLEAN /\ ran \subseteq Seeds /\ entered \in Seeds \cup {V!NoSeed}
  /\ toKeep \in Nat /\ kept \in Nat

(* Whatever is sealed was sealed with a key some process was started with. *)
SealedByUsed ==
  /\ phase # "down" \/ failed => box.key \in keysUsed
  /\ \A i \in DOMAIN rows : rows[i].seal.by \in keysUsed
  /\ \A i \in DOMAIN puts : puts[i].seal.by \in keysUsed
  /\ \A i \in DOMAIN snapshot : snapshot[i].seal.by \in keysUsed
  /\ \A i \in DOMAIN writeQueue : writeQueue[i].seal.by \in keysUsed

(* What a process has done when it is in a phase, and what was there when  *)
(* it started.                                                             *)
Phased ==
  /\ failed => phase = "down" /\ rows = before
  /\ phase \in {"down", "reading", "loading"} => puts = <<>>
  /\ phase \notin {"running", "closing"} => writeQueue = <<>> /\ generating = V!Nobody
  /\ phase \in {"loading", "running", "closing"} => rows # <<>>
  /\ phase \notin {"down", "reading"} => identityNow.seed \in Seeds
  /\ generating # V!Nobody => generating.seed \in Seeds
  /\ phase = "reading" => rows = before
  /\ phase = "creating" =>
       /\ before = <<>>
       /\ \/ rows = <<>> /\ Len(puts) = 1 /\ puts[1].seed = identityNow.seed
          \/ rows # <<>> /\ puts = <<>>
  /\ phase = "loading" => before \in {rows, <<>>}
  /\ snapshot # <<>> => rows # <<>>
  /\ phase \in V!Starting /\ before = <<>> => snapshot = <<>>

(* Until a recovery phrase is entered the table has one row, the identity  *)
(* every process has run under, in use and in every write.                 *)
OneRow == entered = V!NoSeed =>
  /\ Len(rows) \in {0, 1} /\ \A s \in ran : rows # <<>> /\ rows[1].seed = s
  /\ phase \in {"creating", "loading", "running", "closing"} /\ rows # <<>> =>
       identityNow.seed = rows[1].seed
  /\ phase \in {"running", "closing"} =>
       /\ \A i \in DOMAIN puts : puts[i].seed = rows[1].seed
       /\ generating # V!Nobody => generating.seed = rows[1].seed

Stored == IF snapshot = <<>> THEN 0 ELSE snapshot[1].edits

(* What was kept is stored, and every write that is queued has more.       *)
Growing ==
  /\ kept <= Stored
  /\ phase \in {"running", "closing"} =>
       /\ Stored <= edits
       /\ \A i \in DOMAIN writeQueue : Stored <= writeQueue[i].edits /\ writeQueue[i].edits <= edits
       /\ \A i, k \in DOMAIN writeQueue : i <= k => writeQueue[i].edits <= writeQueue[k].edits
  /\ phase = "closing" /\ ~failure =>
       \/ toKeep <= Stored
       \/ writeQueue # <<>> /\ toKeep <= writeQueue[Len(writeQueue)].edits

VaultIInv ==
  /\ VaultTypeOK /\ SealedByUsed /\ Phased /\ OneRow /\ Growing /\ V!SameKeyOpens

LEMMA VaultConstants ==
  /\ V!NoKey = "none" /\ V!NoSeed = "none" /\ "none" \notin Seeds
  /\ V!NoKey \in V!Keys /\ V!Nobody \in Identities /\ V!Nobody.seed = V!NoSeed
  /\ V!Starting = {"reading", "creating", "loading"}
  /\ \A T : V!Cardinality(T) = Cardinality(T)
<1>1. \A T : V!Cardinality(T) = Cardinality(T)
  BY DEF V!Cardinality, Cardinality
<1> QED
  BY <1>1, VaultAssumption
     DEF V!VaultAssumption, V!NoKey, V!NoSeed, V!Keys, V!Nobody, V!Starting, Identities

LEMMA EmptySequence == DOMAIN <<>> = {} /\ \A S : <<>> \in Seq(S)
OBVIOUS

LEMMA VaultInit == V!Init => VaultIInv
<1> SUFFICES ASSUME V!Init PROVE VaultIInv
  OBVIOUS
<1>1. VaultTypeOK
  <2>1. IsFiniteSet({})
    BY FS_EmptySet
  <2> QED BY <2>1, VaultConstants, EmptySequence DEF V!Init, VaultTypeOK
<1>2. SealedByUsed
  BY EmptySequence DEF V!Init, SealedByUsed
<1>3. Phased
  BY VaultConstants DEF V!Init, Phased
<1>4. OneRow
  BY DEF V!Init, OneRow
<1>5. Growing
  BY DEF V!Init, Growing, Stored
<1>6. V!SameKeyOpens
  BY DEF V!Init, V!SameKeyOpens
<1> QED BY <1>1, <1>2, <1>3, <1>4, <1>5, <1>6 DEF VaultIInv

(* A value that does not open was sealed with another key.                 *)
LEMMA Unopened ==
  ASSUME NEW b \in [key : V!Keys, salt : Nat], NEW seal \in Seals, ~V!open(b, seal)
  PROVE  seal.by # V!NoKey /\ (b.key = V!NoKey \/ b.key # seal.by)
BY DEF V!open, V!passphraseKey

(* ... so two keys were used, or none is used now.                         *)
LEMMA TwoKeys ==
  ASSUME VaultIInv, NEW seal \in Seals, seal.by \in keysUsed, box.key \in keysUsed,
         ~V!open(box, seal)
  PROVE  Cardinality(keysUsed \ {V!NoKey}) > 1 \/ (box.key = V!NoKey /\ keysUsed # {V!NoKey})
<1> DEFINE given == keysUsed \ {V!NoKey}
           two == {seal.by} \cup {box.key}
<1>1. seal.by # V!NoKey /\ (box.key = V!NoKey \/ box.key # seal.by)
  BY Unopened DEF VaultIInv, VaultTypeOK
<1>2. IsFiniteSet(given)
  BY FS_RemoveElement DEF VaultIInv, VaultTypeOK
<1>3. CASE box.key # V!NoKey
  <2>1. two \in SUBSET given
    BY <1>1, <1>3
  <2>2. Cardinality(two) = 2
    <3> DEFINE one == {seal.by}
    <3>1. IsFiniteSet(one) /\ Cardinality(one) = 1 /\ box.key \notin one
      BY <1>1, <1>3, FS_Singleton
    <3> HIDE DEF one
    <3>2. Cardinality(one \cup {box.key}) = 1 + 1
      BY <3>1, FS_AddElement
    <3>3. Cardinality(two) = 1 + 1
      BY <3>2 DEF one
    <3> QED BY <3>3
  <2> HIDE DEF given, two
  <2>3. Cardinality(two) <= Cardinality(given) /\ Cardinality(given) \in Nat
    BY <1>2, <2>1, FS_Subset, FS_CardinalityType
  <2> QED BY <2>2, <2>3 DEF given
<1>4. CASE box.key = V!NoKey
  BY <1>1, <1>4
<1> QED BY <1>3, <1>4

(* A process ends.                                                         *)
LEMMA StopStep ==
  ASSUME VaultIInv, V!Forgotten, phase' = "down",
         UNCHANGED <<rows, snapshot, box, keysUsed, before, ran, entered, toKeep>>,
         used' \in [starts : Nat, edits : Nat, calls : Nat, rejects : Nat],
         kept' \in Nat, kept' <= Stored, failed' \in BOOLEAN,
         failed' => box.key \in keysUsed /\ rows = before, V!SameKeyOpens'
  PROVE  VaultIInv'
<1> USE DEF VaultIInv
<1>1. /\ identityNow' = V!Nobody /\ edits' = 0 /\ puts' = <<>> /\ writeQueue' = <<>>
      /\ failure' = FALSE /\ generating' = V!Nobody
  BY DEF V!Forgotten
<1>2. VaultTypeOK'
  BY <1>1, VaultConstants, EmptySequence DEF VaultTypeOK
<1>3. SealedByUsed'
  BY <1>1, EmptySequence DEF SealedByUsed
<1>4. Phased'
  BY <1>1, VaultConstants DEF Phased
<1>5. OneRow'
  BY DEF OneRow
<1>6. Growing'
  BY DEF Growing, Stored
<1> QED BY <1>2, <1>3, <1>4, <1>5, <1>6

LEMMA Stops ==
  ASSUME VaultIInv,
         V!RestoreThrows \/ V!RestoreAllThrows \/ V!CloseStorage \/ V!Crash
  PROVE  VaultIInv'
<1>1. CASE V!RestoreThrows
  <2>1. /\ phase = "reading" /\ V!Forgotten /\ phase' = "down" /\ failed' = TRUE
        /\ UNCHANGED <<rows, snapshot, box, keysUsed, before, ran, entered, toKeep, kept, used>>
    BY <1>1 DEF V!RestoreThrows, V!Refused, V!disk
  <2>2. PICK r \in V!First : ~V!open(box, r.seal)
    BY <1>1 DEF V!RestoreThrows
  <2>3. r.seal \in Seals /\ r.seal.by \in keysUsed
    <3>1. PICK i \in DOMAIN rows : r = rows[i]
      BY DEF V!First, V!Range
    <3>2. rows[i] \in SealedRows
      BY DEF VaultIInv, VaultTypeOK
    <3> QED BY <3>1, <3>2 DEF VaultIInv, SealedByUsed, SealedRows
  <2>4. box.key \in keysUsed /\ rows = before
    BY <2>1 DEF VaultIInv, SealedByUsed, Phased
  <2>5. V!SameKeyOpens'
    BY <2>1, <2>2, <2>3, <2>4, TwoKeys, VaultConstants DEF V!SameKeyOpens
  <2> QED BY <2>1, <2>4, <2>5, StopStep DEF VaultIInv, VaultTypeOK, Growing
<1>2. CASE V!RestoreAllThrows
  <2>1. /\ phase = "loading" /\ V!Forgotten /\ phase' = "down" /\ failed' = TRUE
        /\ UNCHANGED <<rows, snapshot, box, keysUsed, before, ran, entered, toKeep, kept, used>>
    BY <1>2 DEF V!RestoreAllThrows, V!Refused, V!disk
  <2>2. PICK i \in DOMAIN snapshot : ~V!open(box, snapshot[i].seal)
    BY <1>2 DEF V!RestoreAllThrows
  <2>3. snapshot[i].seal \in Seals /\ snapshot[i].seal.by \in keysUsed
    <3>1. snapshot[i] \in SealedSnapshots
      BY DEF VaultIInv, VaultTypeOK
    <3> QED BY <3>1 DEF VaultIInv, SealedByUsed, SealedSnapshots
  <2>4. box.key \in keysUsed /\ rows = before
    <3>1. snapshot # <<>>
      BY <2>2, EmptySequence
    <3> QED BY <2>1, <3>1, VaultConstants DEF VaultIInv, SealedByUsed, Phased
  <2>5. V!SameKeyOpens'
    BY <2>1, <2>2, <2>3, <2>4, TwoKeys, VaultConstants DEF V!SameKeyOpens
  <2> QED BY <2>1, <2>4, <2>5, StopStep DEF VaultIInv, VaultTypeOK, Growing
<1>3. CASE V!CloseStorage
  <2>1. /\ phase = "closing" /\ writeQueue = <<>> /\ V!Forgotten /\ phase' = "down"
        /\ kept' = IF failure THEN kept ELSE toKeep
        /\ UNCHANGED <<rows, snapshot, box, keysUsed, before, ran, entered, toKeep, used, failed>>
    BY <1>3 DEF V!CloseStorage, V!flushed, V!disk
  <2>2. failed' = FALSE /\ failed' \in BOOLEAN
    BY <2>1 DEF VaultIInv, VaultTypeOK, Phased
  <2>3. kept' \in Nat /\ kept' <= Stored
    BY <2>1 DEF VaultIInv, VaultTypeOK, Growing
  <2>4. V!SameKeyOpens'
    BY <2>2 DEF V!SameKeyOpens
  <2>5. used' \in [starts : Nat, edits : Nat, calls : Nat, rejects : Nat]
    BY <2>1 DEF VaultIInv, VaultTypeOK
  <2> QED BY <2>1, <2>2, <2>3, <2>4, <2>5, StopStep
<1>4. CASE V!Crash
  <2>1. /\ phase # "down" /\ V!Forgotten /\ phase' = "down"
        /\ UNCHANGED <<rows, snapshot, box, keysUsed, before, ran, entered, toKeep, kept, used, failed>>
    BY <1>4 DEF V!Crash, V!disk, V!history
  <2>2. failed' = FALSE /\ failed' \in BOOLEAN
    BY <2>1 DEF VaultIInv, VaultTypeOK, Phased
  <2>3. V!SameKeyOpens'
    BY <2>2 DEF V!SameKeyOpens
  <2> QED BY <2>1, <2>2, <2>3, StopStep DEF VaultIInv, VaultTypeOK, Growing
<1> QED BY <1>1, <1>2, <1>3, <1>4

LEMMA StartStep ==
  ASSUME VaultIInv, NEW k \in V!Keys, V!Start(k)
  PROVE  VaultIInv'
<1> USE DEF VaultIInv
<1>1. /\ phase = "down" /\ phase' = "reading" /\ failed' = FALSE /\ before' = rows
      /\ box' = [key |-> k, salt |-> used.starts + 1] /\ keysUsed' = keysUsed \cup {k}
      /\ used' = [used EXCEPT !.starts = @ + 1]
      /\ UNCHANGED <<rows, snapshot, identityNow, edits, puts, writeQueue, failure, generating>>
      /\ UNCHANGED <<ran, entered, toKeep, kept>>
  BY DEF V!Start, V!disk, V!memory
<1>2. VaultTypeOK'
  <2>1. IsFiniteSet(keysUsed')
    BY <1>1, FS_AddElement DEF VaultTypeOK
  <2>2. phase' \in V!Starting \cup {"down", "running", "closing"}
    BY <1>1, VaultConstants
  <2>3. /\ used' \in [starts : Nat, edits : Nat, calls : Nat, rejects : Nat]
        /\ box' \in [key : V!Keys, salt : Nat]
    <3>1. used \in [starts : Nat, edits : Nat, calls : Nat, rejects : Nat] /\ used.starts + 1 \in Nat
      BY DEF VaultTypeOK
    <3>2. box' \in [key : V!Keys, salt : Nat]
      BY <1>1, <3>1
    <3> QED BY <1>1, <3>1, <3>2
  <2> QED BY <1>1, <2>1, <2>2, <2>3 DEF VaultTypeOK
<1>3. SealedByUsed'
  BY <1>1 DEF SealedByUsed
<1>4. Phased'
  BY <1>1, VaultConstants DEF Phased
<1>5. OneRow'
  BY <1>1 DEF OneRow
<1>6. Growing'
  BY <1>1 DEF Growing, Stored
<1>7. V!SameKeyOpens'
  BY <1>1 DEF V!SameKeyOpens
<1> QED BY <1>2, <1>3, <1>4, <1>5, <1>6, <1>7

(* A step of a process that is up, which refuses nothing.                  *)
LEMMA StaysUp ==
  ASSUME VaultIInv, phase # "down", phase' # "down", failed' = failed
  PROVE  failed = FALSE /\ failed' = FALSE /\ V!SameKeyOpens'
<1>1. failed = FALSE
  BY DEF VaultIInv, VaultTypeOK, Phased
<1> QED BY <1>1 DEF V!SameKeyOpens

LEMMA CreateStep ==
  ASSUME VaultIInv, NEW s \in Seeds, V!CreateIdentity(s)
  PROVE  VaultIInv'
<1> USE DEF VaultIInv
<1> DEFINE id == [seed |-> s, blind |-> 0]
           r == V!Row(box, id)
<1>1. /\ phase = "reading" /\ rows = <<>> /\ phase' = "creating"
      /\ identityNow' = id /\ puts' = Append(puts, r)
      /\ UNCHANGED <<rows, snapshot, box, edits, writeQueue, failure, generating, used>>
      /\ UNCHANGED <<keysUsed, before, failed, ran, entered, toKeep, kept>>
  BY DEF V!CreateIdentity, V!mayCreate, V!materialise, V!afterCreate, V!disk, V!history
<1>2. puts = <<>> /\ before = <<>> /\ box.key \in keysUsed
  BY <1>1 DEF Phased, SealedByUsed
<1>3. r \in SealedRows /\ r.seed = s /\ r.seal.by = box.key
  BY DEF V!Row, V!Sealed, SealedRows, Seals, VaultTypeOK
<1> HIDE DEF r
<1>4. /\ puts' \in Seq(SealedRows) /\ Len(puts') = 1 /\ puts'[1] = r
      /\ \A i \in DOMAIN puts' : puts'[i] = r
  BY <1>1, <1>2, <1>3
<1>5. VaultTypeOK'
  BY <1>1, <1>4, VaultConstants DEF VaultTypeOK, Identities
<1>6. SealedByUsed'
  BY <1>1, <1>2, <1>3, <1>4 DEF SealedByUsed
<1>7. Phased'
  BY <1>1, <1>2, <1>3, <1>4, VaultConstants DEF Phased
<1>8. OneRow'
  BY <1>1 DEF OneRow
<1>9. Growing'
  BY <1>1 DEF Growing, Stored
<1>10. V!SameKeyOpens'
  BY <1>1, StaysUp
<1> QED BY <1>5, <1>6, <1>7, <1>8, <1>9, <1>10

LEMMA RestoreStep ==
  ASSUME VaultIInv, V!Restore \/ V!Created
  PROVE  VaultIInv'
<1> USE DEF VaultIInv
<1>1. /\ phase \in {"reading", "creating"} /\ phase' = "loading"
      /\ UNCHANGED <<rows, snapshot, box, edits, puts, writeQueue, failure, generating, used>>
      /\ UNCHANGED <<keysUsed, before, failed, ran, entered, toKeep, kept>>
  BY DEF V!Restore, V!Created, V!disk, V!memory, V!history
<1>2. puts = <<>> /\ rows # <<>>
  <2>1. CASE V!Restore
    <3>1. \E r : r \in V!First
      BY <2>1 DEF V!Restore
    <3>2. rows # <<>>
      BY <3>1, EmptySequence DEF V!First, V!Range
    <3> QED BY <2>1, <3>2 DEF V!Restore, Phased
  <2>2. CASE V!Created
    <3>1. phase = "creating" /\ puts = <<>> /\ Len(puts) = 0
      BY <2>2 DEF V!Created
    <3> QED BY <3>1 DEF Phased
  <2> QED BY <2>1, <2>2
<1>3. /\ identityNow' \in Identities /\ identityNow'.seed \in Seeds
      /\ entered = V!NoSeed => identityNow'.seed = rows[1].seed
  <2>1. CASE V!Restore
    <3>1. PICK r \in V!First : identityNow' = [seed |-> r.seed, blind |-> r.blind]
      BY <2>1 DEF V!Restore
    <3>2. PICK i \in DOMAIN rows : r = rows[i]
      BY DEF V!First, V!Range
    <3>3. r \in SealedRows /\ rows \in Seq(SealedRows)
      BY <3>2 DEF VaultTypeOK
    <3>4. entered = V!NoSeed => i = 1
      BY <3>2, <3>3 DEF OneRow
    <3> QED BY <3>1, <3>2, <3>3, <3>4 DEF Identities, SealedRows
  <2>2. CASE V!Created
    <3>1. identityNow' = identityNow /\ phase = "creating"
      BY <2>2 DEF V!Created, V!memory
    <3> QED BY <1>2, <3>1 DEF VaultTypeOK, OneRow, Phased
  <2> QED BY <2>1, <2>2
<1>4. VaultTypeOK'
  BY <1>1, <1>3, VaultConstants DEF VaultTypeOK
<1>5. SealedByUsed'
  BY <1>1 DEF SealedByUsed
<1>6. Phased'
  BY <1>1, <1>2, <1>3, VaultConstants DEF Phased
<1>7. OneRow'
  BY <1>1, <1>3 DEF OneRow
<1>8. Growing'
  BY <1>1 DEF Growing, Stored
<1>9. V!SameKeyOpens'
  BY <1>1, StaysUp
<1> QED BY <1>4, <1>5, <1>6, <1>7, <1>8, <1>9

LEMMA RestoreAllStep ==
  ASSUME VaultIInv, V!RestoreAll
  PROVE  VaultIInv'
<1> USE DEF VaultIInv
<1>1. /\ phase = "loading" /\ phase' = "running" /\ ran' = ran \cup {identityNow.seed}
      /\ edits' = Stored
      /\ UNCHANGED <<rows, snapshot, box, identityNow, puts, writeQueue, failure, generating, used>>
      /\ UNCHANGED <<keysUsed, before, failed, entered, toKeep, kept>>
  BY DEF V!RestoreAll, V!disk, Stored
<1>2. rows # <<>> /\ puts = <<>> /\ writeQueue = <<>> /\ generating = V!Nobody
  BY <1>1 DEF Phased
<1>3. Stored \in Nat
  <2>1. snapshot # <<>> => snapshot[1] \in SealedSnapshots
    BY DEF VaultTypeOK
  <2> QED BY <2>1 DEF Stored, SealedSnapshots
<1>4. rows[1] \in SealedRows
  BY <1>2 DEF VaultTypeOK
<1>5. identityNow.seed \in Seeds
  BY <1>1 DEF Phased
<1>6. VaultTypeOK'
  BY <1>1, <1>3, <1>5, VaultConstants DEF VaultTypeOK
<1>7. SealedByUsed'
  BY <1>1 DEF SealedByUsed
<1>8. Phased'
  BY <1>1, <1>2, VaultConstants DEF Phased
<1>9. OneRow'
  BY <1>1, <1>2, EmptySequence DEF OneRow
<1>10. Growing'
  <2>1. Stored' = Stored
    BY <1>1 DEF Stored
  <2> QED BY <1>1, <1>2, <1>3, <2>1, EmptySequence DEF Growing
<1>11. V!SameKeyOpens'
  BY <1>1, StaysUp
<1> QED BY <1>6, <1>7, <1>8, <1>9, <1>10, <1>11

(* What a running process hands to storage is sealed with its own key.     *)
LEMMA PutsStep ==
  ASSUME VaultIInv, phase = "running", NEW id \in Identities, id.seed \in Seeds,
         identityNow' = id, puts' = Append(puts, V!Row(box, id)),
         generating' \in {V!Nobody, generating},
         UNCHANGED <<rows, snapshot, phase, box, edits, writeQueue, failure>>,
         UNCHANGED <<keysUsed, before, failed, ran, toKeep, kept>>,
         used' \in [starts : Nat, edits : Nat, calls : Nat, rejects : Nat],
         entered' \in Seeds \cup {V!NoSeed},
         entered' = V!NoSeed => entered = V!NoSeed /\ id.seed = rows[1].seed
  PROVE  VaultIInv'
<1> USE DEF VaultIInv
<1> DEFINE r == V!Row(box, id)
<1>1. r \in SealedRows /\ r.seed = id.seed /\ r.seal.by = box.key
  BY DEF V!Row, V!Sealed, SealedRows, Seals, VaultTypeOK, Identities
<1>2. puts' = Append(puts, r) /\ puts \in Seq(SealedRows)
  BY DEF VaultTypeOK
<1> HIDE DEF r
<1>3. /\ puts' \in Seq(SealedRows)
      /\ \A i \in DOMAIN puts' : (i \in DOMAIN puts /\ puts'[i] = puts[i]) \/ puts'[i] = r
  BY <1>1, <1>2
<1>4. VaultTypeOK'
  BY <1>3, VaultConstants DEF VaultTypeOK
<1>5. SealedByUsed'
  BY <1>1, <1>3 DEF SealedByUsed
<1>6. Phased'
  BY <1>3, VaultConstants DEF Phased
<1>7. OneRow'
  BY <1>1, <1>3 DEF OneRow
<1>8. Growing'
  BY DEF Growing, Stored
<1>9. V!SameKeyOpens'
  BY StaysUp
<1> QED BY <1>4, <1>5, <1>6, <1>7, <1>8, <1>9

LEMMA IdentitySteps ==
  ASSUME VaultIInv,
         (\E s \in Seeds : V!RecoverFromMnemonic(s)) \/ V!Generated \/ V!EnsureBlindKeypair
  PROVE  VaultIInv'
<1>u. used \in [starts : Nat, edits : Nat, calls : Nat, rejects : Nat]
  BY DEF VaultIInv, VaultTypeOK
<1>1. ASSUME NEW s \in Seeds, V!RecoverFromMnemonic(s) PROVE VaultIInv'
  <2> DEFINE id == [seed |-> s, blind |-> 0]
  <2>1. /\ phase = "running" /\ identityNow' = id /\ puts' = Append(puts, V!Row(box, id))
        /\ used' = [used EXCEPT !.calls = @ + 1] /\ entered' = s
        /\ UNCHANGED <<rows, snapshot, phase, box, edits, writeQueue, failure, generating>>
        /\ UNCHANGED <<keysUsed, before, failed, ran, toKeep, kept>>
    BY <1>1 DEF V!RecoverFromMnemonic, V!materialise, V!disk
  <2>2. id \in Identities /\ id.seed \in Seeds
    BY DEF Identities
  <2>3. used' \in [starts : Nat, edits : Nat, calls : Nat, rejects : Nat]
    BY <1>u, <2>1
  <2>4. entered' # V!NoSeed
    BY <2>1, VaultConstants
  <2> HIDE DEF id
  <2> QED BY <2>1, <2>2, <2>3, <2>4, PutsStep
<1>2. CASE V!Generated
  <2> DEFINE id == [generating EXCEPT !.blind = used.calls]
  <2>1. /\ phase = "running" /\ generating # V!Nobody /\ identityNow' = id
        /\ puts' = Append(puts, V!Row(box, id)) /\ generating' = V!Nobody
        /\ UNCHANGED <<rows, snapshot, phase, box, edits, writeQueue, failure, used>>
        /\ UNCHANGED <<keysUsed, before, failed, ran, entered, toKeep, kept>>
    BY <1>2 DEF V!Generated, V!disk, V!history
  <2>2. id \in Identities /\ id.seed = generating.seed
    BY <1>u DEF VaultIInv, VaultTypeOK, Identities
  <2>3. id.seed \in Seeds /\ (entered = V!NoSeed => id.seed = rows[1].seed)
    BY <2>1, <2>2 DEF VaultIInv, Phased, OneRow
  <2>4. entered \in Seeds \cup {V!NoSeed}
    BY DEF VaultIInv, VaultTypeOK
  <2> HIDE DEF id
  <2> QED BY <1>u, <2>1, <2>2, <2>3, <2>4, PutsStep
<1>3. CASE V!EnsureBlindKeypair
  <2> USE DEF VaultIInv
  <2>1. /\ phase = "running" /\ generating' = identityNow
        /\ used' = [used EXCEPT !.calls = @ + 1]
        /\ UNCHANGED <<rows, snapshot, phase, box, identityNow, edits, puts, writeQueue, failure>>
        /\ UNCHANGED <<keysUsed, before, failed, ran, entered, toKeep, kept>>
    BY <1>3 DEF V!EnsureBlindKeypair, V!disk, V!history
  <2>2. used' \in [starts : Nat, edits : Nat, calls : Nat, rejects : Nat]
    BY <1>u, <2>1
  <2>3. VaultTypeOK'
    BY <2>1, <2>2 DEF VaultTypeOK
  <2>4. SealedByUsed'
    BY <2>1 DEF SealedByUsed
  <2>5. Phased'
    BY <2>1, VaultConstants DEF Phased
  <2>6. OneRow'
    BY <2>1 DEF OneRow, Phased
  <2>7. Growing'
    BY <2>1 DEF Growing, Stored
  <2>8. V!SameKeyOpens'
    BY <2>1, StaysUp
  <2> QED BY <2>3, <2>4, <2>5, <2>6, <2>7, <2>8
<1> QED BY <1>1, <1>2, <1>3

LEMMA EditStep ==
  ASSUME VaultIInv, V!Edit
  PROVE  VaultIInv'
<1> USE DEF VaultIInv
<1>1. /\ phase \in {"running", "closing"} /\ edits' = edits + 1
      /\ used' = [used EXCEPT !.edits = @ + 1]
      /\ UNCHANGED <<rows, snapshot, phase, box, identityNow, puts, writeQueue, failure, generating>>
      /\ UNCHANGED <<keysUsed, before, failed, ran, entered, toKeep, kept>>
  BY DEF V!Edit, V!disk, V!history
<1>2. VaultTypeOK'
  <2>1. used \in [starts : Nat, edits : Nat, calls : Nat, rejects : Nat] /\ edits \in Nat
    BY DEF VaultTypeOK
  <2>2. used' \in [starts : Nat, edits : Nat, calls : Nat, rejects : Nat] /\ edits' \in Nat
    BY <1>1, <2>1
  <2> QED BY <1>1, <2>2 DEF VaultTypeOK
<1>3. SealedByUsed' /\ Phased' /\ OneRow'
  <2>1. SealedByUsed'
    BY <1>1 DEF SealedByUsed
  <2>2. Phased'
    BY <1>1 DEF Phased
  <2>3. OneRow'
    BY <1>1 DEF OneRow
  <2> QED BY <2>1, <2>2, <2>3
<1>4. Growing'
  <2>1. edits \in Nat /\ Stored \in Nat /\ Stored' = Stored
    <3>1. snapshot # <<>> => snapshot[1] \in SealedSnapshots
      BY DEF VaultTypeOK
    <3> QED BY <1>1, <3>1 DEF Stored, SealedSnapshots, VaultTypeOK
  <2>2. \A i \in DOMAIN writeQueue : writeQueue[i].edits \in Nat
    <3>1. \A i \in DOMAIN writeQueue : writeQueue[i] \in SealedSnapshots
      BY DEF VaultTypeOK
    <3> QED BY <3>1 DEF SealedSnapshots
  <2> QED BY <1>1, <2>1, <2>2 DEF Growing
<1>5. V!SameKeyOpens'
  BY <1>1, StaysUp
<1> QED BY <1>2, <1>3, <1>4, <1>5

(* The queue of writes takes a snapshot of the document as it is.          *)
LEMMA Enqueues ==
  ASSUME VaultTypeOK, SealedByUsed, Growing, phase = "running", box.key \in keysUsed
  PROVE  /\ V!checkpointed \in Seq(SealedSnapshots)
         /\ \A i \in DOMAIN V!checkpointed : /\ V!checkpointed[i].seal.by \in keysUsed
                                             /\ Stored <= V!checkpointed[i].edits
                                             /\ V!checkpointed[i].edits <= edits
         /\ \A i, k \in DOMAIN V!checkpointed :
              i <= k => V!checkpointed[i].edits <= V!checkpointed[k].edits
         /\ \/ edits <= Stored
            \/ V!checkpointed # <<>> /\ edits <= V!checkpointed[Len(V!checkpointed)].edits
<1> DEFINE q == writeQueue
           s == V!Snapshot(box, edits)
<1>t. edits \in Nat /\ writeQueue \in Seq(SealedSnapshots)
  BY DEF VaultTypeOK
<1>s. Stored \in Nat /\ Stored <= edits
  <2>1. snapshot # <<>> => snapshot[1] \in SealedSnapshots
    BY DEF VaultTypeOK
  <2> QED BY <2>1 DEF Stored, SealedSnapshots, Growing
<1>q. \A i \in DOMAIN q : /\ q[i].seal.by \in keysUsed /\ q[i].edits \in Nat
                          /\ Stored <= q[i].edits /\ q[i].edits <= edits
  <2>1. \A i \in DOMAIN q : q[i] \in SealedSnapshots
    BY <1>t
  <2> QED BY <2>1 DEF SealedByUsed, Growing, SealedSnapshots
<1>k. \A i, k \in DOMAIN q : i <= k => q[i].edits <= q[k].edits
  BY DEF Growing
<1>1. CASE edits = 0
  <2>1. V!checkpointed = q
    BY <1>1 DEF V!checkpointed
  <2>2. edits <= Stored
    BY <1>1, <1>s
  <2> HIDE DEF q
  <2> QED BY <1>t, <1>q, <1>k, <2>1, <2>2 DEF q
<1>2. CASE edits # 0
  <2>1. V!checkpointed = Append(q, s)
    BY <1>2 DEF V!checkpointed
  <2>2. s \in SealedSnapshots /\ s.seal.by \in keysUsed /\ s.edits = edits
    BY <1>t DEF V!Snapshot, V!Sealed, SealedSnapshots, Seals, VaultTypeOK
  <2>3. q \in Seq(SealedSnapshots)
    BY <1>t
  <2> DEFINE c == Append(q, s)
  <2> HIDE DEF s, q
  <2>4. /\ c \in Seq(SealedSnapshots) /\ c # <<>> /\ c[Len(c)] = s /\ Len(c) = Len(q) + 1
        /\ DOMAIN c = 1..Len(c) /\ DOMAIN q = 1..Len(q) /\ Len(q) \in Nat
        /\ \A i \in DOMAIN c : (i \in DOMAIN q /\ c[i] = q[i]) \/ (i = Len(c) /\ c[i] = s)
    BY <2>2, <2>3
  <2> HIDE DEF c
  <2>5. \A i \in DOMAIN c : /\ c[i].seal.by \in keysUsed /\ Stored <= c[i].edits /\ c[i].edits <= edits
    BY <1>t, <1>s, <1>q, <2>2, <2>4
  <2>6. ASSUME NEW i \in DOMAIN c, NEW k \in DOMAIN c, i <= k PROVE c[i].edits <= c[k].edits
    <3>1. CASE k = Len(c) /\ c[k] = s
      BY <2>2, <2>5, <3>1
    <3>2. CASE k \in DOMAIN q /\ c[k] = q[k]
      <4>1. i \in DOMAIN q /\ c[i] = q[i]
        BY <2>4, <2>6, <3>2
      <4> QED BY <1>k, <2>6, <3>2, <4>1
    <3> QED BY <2>4, <3>1, <3>2
  <2>7. edits <= c[Len(c)].edits
    BY <1>t, <2>2, <2>4
  <2>8. V!checkpointed = c
    BY <2>1 DEF c
  <2> QED BY <2>4, <2>5, <2>6, <2>7, <2>8
<1> QED BY <1>1, <1>2

LEMMA EnqueueStep ==
  ASSUME VaultIInv, V!Checkpoint \/ V!Disconnect
  PROVE  VaultIInv'
<1> USE DEF VaultIInv
<1>1. /\ phase = "running" /\ phase' \in {"running", "closing"} /\ writeQueue' = V!checkpointed
      /\ phase' = "closing" => toKeep' = edits
      /\ toKeep' \in {toKeep, edits}
      /\ UNCHANGED <<rows, snapshot, box, identityNow, edits, puts, failure, generating, used>>
      /\ UNCHANGED <<keysUsed, before, failed, ran, entered, kept>>
  BY DEF V!Checkpoint, V!Disconnect, V!disk, V!history
<1>2. /\ V!checkpointed \in Seq(SealedSnapshots)
      /\ \A i \in DOMAIN V!checkpointed : /\ V!checkpointed[i].seal.by \in keysUsed
                                          /\ Stored <= V!checkpointed[i].edits
                                          /\ V!checkpointed[i].edits <= edits
      /\ \A i, k \in DOMAIN V!checkpointed :
           i <= k => V!checkpointed[i].edits <= V!checkpointed[k].edits
      /\ \/ edits <= Stored
         \/ V!checkpointed # <<>> /\ edits <= V!checkpointed[Len(V!checkpointed)].edits
  <2>1. box.key \in keysUsed
    BY <1>1 DEF SealedByUsed
  <2> QED BY <1>1, <2>1, Enqueues
<1> DEFINE c == V!checkpointed
<1> HIDE DEF c
<1>c. /\ writeQueue' = c /\ c \in Seq(SealedSnapshots)
      /\ \A i \in DOMAIN c : c[i].seal.by \in keysUsed /\ Stored <= c[i].edits /\ c[i].edits <= edits
      /\ \A i, k \in DOMAIN c : i <= k => c[i].edits <= c[k].edits
      /\ edits <= Stored \/ (c # <<>> /\ edits <= c[Len(c)].edits)
  BY <1>1, <1>2 DEF c
<1>3. VaultTypeOK'
  <2>1. phase' \in V!Starting \cup {"down", "running", "closing"}
    BY <1>1
  <2>2. toKeep' \in Nat
    BY <1>1 DEF VaultTypeOK
  <2> QED BY <1>1, <1>c, <2>1, <2>2 DEF VaultTypeOK
<1>4. SealedByUsed'
  BY <1>1, <1>c DEF SealedByUsed
<1>5. Phased'
  BY <1>1, VaultConstants DEF Phased
<1>6. OneRow'
  BY <1>1 DEF OneRow
<1>7. Growing'
  <2>1. Stored' = Stored
    BY <1>1 DEF Stored
  <2>2. /\ kept' <= Stored' /\ Stored <= edits
    BY <1>1, <2>1 DEF Growing
  <2> QED BY <1>1, <1>c, <2>1, <2>2 DEF Growing
<1>8. V!SameKeyOpens'
  BY <1>1, StaysUp
<1> QED BY <1>3, <1>4, <1>5, <1>6, <1>7, <1>8

(* A write leaves the queue at its head.                                   *)
LEMMA Dequeues ==
  ASSUME NEW S, writeQueue \in Seq(S), writeQueue # <<>>
  PROVE  /\ V!remaining \in Seq(S) /\ Len(V!remaining) = Len(writeQueue) - 1
         /\ \A i \in DOMAIN V!remaining :
              i + 1 \in DOMAIN writeQueue /\ V!remaining[i] = writeQueue[i + 1]
         /\ 1 \in DOMAIN writeQueue /\ Len(writeQueue) \in DOMAIN writeQueue
<1> DEFINE n == Len(writeQueue) - 1
           r == V!remaining
<1>1. n \in Nat /\ 1 \in DOMAIN writeQueue /\ Len(writeQueue) \in DOMAIN writeQueue
  OBVIOUS
<1>2. r = [i \in 1..n |-> writeQueue[IF i < 1 THEN i ELSE i + 1]]
  BY DEF V!remaining, V!turn
<1>3. \A i \in 1..n : i + 1 \in DOMAIN writeQueue /\ r[i] = writeQueue[i + 1] /\ r[i] \in S
  BY <1>1, <1>2
<1> HIDE DEF r
<1>4. r \in Seq(S) /\ Len(r) = n /\ DOMAIN r = 1..n
  BY <1>1, <1>2, <1>3
<1> QED BY <1>1, <1>3, <1>4 DEF r

LEMMA QueueStep ==
  ASSUME VaultIInv, V!QueueApplies \/ V!QueueRejects
  PROVE  VaultIInv'
<1> USE DEF VaultIInv
<1> DEFINE r == V!remaining
           q == writeQueue
<1>1. /\ writeQueue # <<>> /\ writeQueue' = r
      /\ \/ snapshot' = <<q[1]>> /\ failure' = failure /\ used' = used
         \/ snapshot' = snapshot /\ failure' = TRUE /\ used' = [used EXCEPT !.rejects = @ + 1]
      /\ UNCHANGED <<rows, phase, box, identityNow, edits, puts, generating>>
      /\ UNCHANGED <<keysUsed, before, failed, ran, entered, toKeep, kept>>
  BY DEF V!QueueApplies, V!QueueRejects, V!turn, V!disk, V!history
<1>2. writeQueue \in Seq(SealedSnapshots)
  BY DEF VaultTypeOK
<1>3. /\ r \in Seq(SealedSnapshots) /\ Len(r) = Len(q) - 1
      /\ \A i \in DOMAIN r : i + 1 \in DOMAIN q /\ r[i] = q[i + 1]
      /\ 1 \in DOMAIN q /\ Len(q) \in DOMAIN q /\ q \in Seq(SealedSnapshots)
  BY <1>1, <1>2, Dequeues
<1>4. phase \in {"running", "closing"} /\ rows # <<>>
  <2>1. phase \in {"running", "closing"}
    BY <1>1 DEF Phased
  <2> QED BY <2>1 DEF Phased
<1>5. \A i \in DOMAIN q : q[i] \in SealedSnapshots /\ q[i].edits \in Nat /\ q[i].seal.by \in keysUsed
  <2>1. \A i \in DOMAIN q : q[i] \in SealedSnapshots
    BY <1>2
  <2> QED BY <2>1 DEF SealedSnapshots, SealedByUsed
<1>6. /\ \A i \in DOMAIN q : Stored <= q[i].edits /\ q[i].edits <= edits
      /\ \A i, k \in DOMAIN q : i <= k => q[i].edits <= q[k].edits
      /\ kept <= Stored /\ Stored <= edits
      /\ phase = "closing" /\ ~failure => toKeep <= Stored \/ toKeep <= q[Len(q)].edits
  BY <1>4 DEF Growing
<1>s. Stored \in Nat /\ edits \in Nat /\ kept \in Nat /\ toKeep \in Nat
  <2>1. snapshot # <<>> => snapshot[1] \in SealedSnapshots
    BY DEF VaultTypeOK
  <2> QED BY <2>1 DEF Stored, SealedSnapshots, VaultTypeOK
<1> HIDE DEF r, q
<1>7. snapshot' \in Seq(SealedSnapshots) /\ (\A i \in DOMAIN snapshot' : snapshot'[i].seal.by \in keysUsed)
  <2>1. CASE snapshot' = snapshot
    BY <2>1 DEF VaultTypeOK, SealedByUsed
  <2>2. CASE snapshot' = <<q[1]>>
    BY <1>3, <1>5, <2>2
  <2> QED BY <1>1, <2>1, <2>2
<1>8. VaultTypeOK'
  <2>1. used' \in [starts : Nat, edits : Nat, calls : Nat, rejects : Nat]
    <3>1. used \in [starts : Nat, edits : Nat, calls : Nat, rejects : Nat]
      BY DEF VaultTypeOK
    <3> QED BY <1>1, <3>1
  <2>2. failure' \in BOOLEAN
    BY <1>1 DEF VaultTypeOK
  <2> QED BY <1>1, <1>3, <1>7, <2>1, <2>2 DEF VaultTypeOK
<1>9. SealedByUsed'
  <2>1. \A i \in DOMAIN r : r[i].seal.by \in keysUsed
    BY <1>3, <1>5
  <2> QED BY <1>1, <1>7, <2>1 DEF SealedByUsed
<1>10. Phased'
  BY <1>1, <1>4, VaultConstants DEF Phased
<1>11. OneRow'
  BY <1>1 DEF OneRow
<1>12. Growing'
  <2>1. Stored' \in {Stored, q[1].edits} /\ (failure' = FALSE => Stored' = q[1].edits /\ failure = FALSE)
    <3>1. CASE snapshot' = snapshot /\ failure' = TRUE
      BY <3>1 DEF Stored
    <3>2. CASE snapshot' = <<q[1]>> /\ failure' = failure
      BY <3>2 DEF Stored
    <3> QED BY <1>1, <3>1, <3>2
  <2>2. /\ Stored <= q[1].edits /\ q[1].edits <= edits /\ q[1].edits \in Nat
        /\ \A i \in DOMAIN r : q[1].edits <= r[i].edits /\ r[i].edits <= edits /\ r[i].edits \in Nat
    <3>1. DOMAIN q = 1..Len(q) /\ DOMAIN r = 1..Len(r)
      BY <1>3
    <3>2. \A i \in DOMAIN q : 1 <= i
      BY <3>1
    <3> QED BY <1>3, <1>5, <1>6, <3>2
  <2>3. ASSUME NEW i \in DOMAIN r, NEW k \in DOMAIN r, i <= k PROVE r[i].edits <= r[k].edits
    <3>1. i \in Nat /\ k \in Nat /\ i + 1 <= k + 1
      BY <1>3, <2>3
    <3> QED BY <1>3, <1>6, <3>1
  <2>4. kept <= Stored' /\ Stored' <= edits
    BY <1>s, <1>6, <2>1, <2>2
  <2>5. \A i \in DOMAIN r : Stored' <= r[i].edits /\ r[i].edits <= edits
    <3>1. CASE Stored' = q[1].edits
      BY <2>2, <3>1
    <3>2. CASE Stored' = Stored
      BY <1>s, <2>2, <3>2
    <3> QED BY <2>1, <3>1, <3>2
  <2>6. ASSUME phase = "closing", failure' = FALSE
        PROVE  toKeep <= Stored' \/ (r # <<>> /\ toKeep <= r[Len(r)].edits)
    <3>1. Stored' = q[1].edits /\ failure = FALSE
      BY <2>1, <2>6
    <3>2. toKeep <= Stored \/ toKeep <= q[Len(q)].edits
      BY <1>6, <2>6, <3>1
    <3>3. CASE toKeep <= Stored
      BY <1>s, <2>2, <3>1, <3>3
    <3>4. CASE toKeep <= q[Len(q)].edits /\ Len(q) = 1
      BY <3>1, <3>4
    <3>5. CASE toKeep <= q[Len(q)].edits /\ Len(q) # 1
      <4>1. Len(r) \in DOMAIN r /\ Len(r) + 1 = Len(q) /\ r # <<>>
        BY <1>3, <3>5
      <4>2. r[Len(r)] = q[Len(q)]
        BY <1>3, <4>1
      <4> QED BY <3>5, <4>1, <4>2
    <3> QED BY <3>2, <3>3, <3>4, <3>5
  <2>7. failure' \in BOOLEAN
    BY <1>1 DEF VaultTypeOK
  <2> QED BY <1>1, <1>4, <2>3, <2>4, <2>5, <2>6, <2>7 DEF Growing
<1>13. V!SameKeyOpens'
  BY <1>1, <1>4, StaysUp
<1> QED BY <1>8, <1>9, <1>10, <1>11, <1>12, <1>13

(* An upsert leaves no row but the old ones and the one put, and adds none *)
(* for a phrase that has one.                                              *)
LEMMA Upserts ==
  ASSUME rows \in Seq(SealedRows), NEW r \in SealedRows
  PROVE  /\ V!put(r) \in Seq(SealedRows) /\ V!put(r) # <<>>
         /\ \A i \in DOMAIN V!put(r) : V!put(r)[i] = r \/ (i \in DOMAIN rows /\ V!put(r)[i] = rows[i])
         /\ \A i \in DOMAIN rows : i \in DOMAIN V!put(r) /\ V!put(r)[i].seed = rows[i].seed
         /\ (\E i \in DOMAIN rows : rows[i].seed = r.seed) => Len(V!put(r)) = Len(rows)
         /\ rows = <<>> => Len(V!put(r)) = 1 /\ V!put(r)[1] = r
<1> DEFINE p == V!put(r)
<1>1. CASE \E i \in DOMAIN rows : rows[i].seed = r.seed
  <2>1. p = [i \in DOMAIN rows |-> IF rows[i].seed = r.seed THEN r ELSE rows[i]]
    BY <1>1 DEF V!put
  <2>2. DOMAIN rows = 1..Len(rows) /\ Len(rows) \in Nat /\ rows # <<>>
    BY <1>1, EmptySequence
  <2>3. \A i \in 1..Len(rows) : p[i] \in SealedRows /\ (p[i] = r \/ p[i] = rows[i]) /\ p[i].seed = rows[i].seed
    BY <2>1, <2>2
  <2> HIDE DEF p
  <2>4. p \in Seq(SealedRows) /\ Len(p) = Len(rows) /\ DOMAIN p = 1..Len(rows)
    BY <2>1, <2>2, <2>3
  <2>5. p # <<>>
    BY <2>2, <2>4, EmptySequence
  <2> QED BY <2>2, <2>3, <2>4, <2>5 DEF p
<1>2. CASE ~\E i \in DOMAIN rows : rows[i].seed = r.seed
  <2>1. p = Append(rows, r)
    BY <1>2 DEF V!put
  <2> HIDE DEF p
  <2>2. /\ p \in Seq(SealedRows) /\ p # <<>>
        /\ \A i \in DOMAIN p : p[i] = r \/ (i \in DOMAIN rows /\ p[i] = rows[i])
        /\ \A i \in DOMAIN rows : i \in DOMAIN p /\ p[i] = rows[i]
        /\ rows = <<>> => Len(p) = 1 /\ p[1] = r
    BY <2>1
  <2> QED BY <1>2, <2>2 DEF p
<1> QED BY <1>1, <1>2

(* What is left of the identity rows to write.                             *)
LEMMA Drops ==
  ASSUME puts \in Seq(SealedRows), puts # <<>>
  PROVE  /\ Head(puts) \in SealedRows /\ 1 \in DOMAIN puts /\ Head(puts) = puts[1]
         /\ Tail(puts) \in Seq(SealedRows) /\ Len(Tail(puts)) = Len(puts) - 1
         /\ \A i \in DOMAIN Tail(puts) : i + 1 \in DOMAIN puts /\ Tail(puts)[i] = puts[i + 1]
         /\ Len(puts) = 1 => Tail(puts) = <<>>
<1>1. /\ Head(puts) \in SealedRows /\ 1 \in DOMAIN puts /\ Head(puts) = puts[1]
      /\ Tail(puts) \in Seq(SealedRows) /\ Len(Tail(puts)) = Len(puts) - 1
      /\ \A i \in DOMAIN Tail(puts) : i + 1 \in DOMAIN puts /\ Tail(puts)[i] = puts[i + 1]
  OBVIOUS
<1>2. \A s \in Seq(SealedRows) : Len(s) = 0 => s = <<>>
  OBVIOUS
<1> QED BY <1>1, <1>2

LEMMA PutAppliesStep ==
  ASSUME VaultIInv, V!PutApplies
  PROVE  VaultIInv'
<1> USE DEF VaultIInv
<1> DEFINE r == Head(puts)
           p == V!put(r)
           rest == Tail(puts)
<1>1. /\ puts # <<>> /\ rows' = p /\ puts' = rest
      /\ UNCHANGED <<snapshot, phase, box, identityNow, edits, writeQueue, failure, generating, used>>
      /\ UNCHANGED <<keysUsed, before, failed, ran, entered, toKeep, kept>>
  BY DEF V!PutApplies, V!history
<1>2. rows \in Seq(SealedRows) /\ puts \in Seq(SealedRows)
  BY DEF VaultTypeOK
<1>3. /\ r \in SealedRows /\ 1 \in DOMAIN puts /\ r = puts[1] /\ r.seal.by \in keysUsed
      /\ rest \in Seq(SealedRows)
      /\ \A i \in DOMAIN rest : i + 1 \in DOMAIN puts /\ rest[i] = puts[i + 1]
      /\ Len(puts) = 1 => rest = <<>>
  BY <1>1, <1>2, Drops DEF SealedByUsed
<1>4. /\ p \in Seq(SealedRows) /\ p # <<>>
      /\ \A i \in DOMAIN p : p[i] = r \/ (i \in DOMAIN rows /\ p[i] = rows[i])
      /\ \A i \in DOMAIN rows : i \in DOMAIN p /\ p[i].seed = rows[i].seed
      /\ (\E i \in DOMAIN rows : rows[i].seed = r.seed) => Len(p) = Len(rows)
      /\ rows = <<>> => Len(p) = 1 /\ p[1] = r
  BY <1>2, <1>3, Upserts
<1> HIDE DEF r, p, rest
<1>5. phase \in {"creating", "running", "closing"}
  BY <1>1, VaultConstants DEF VaultTypeOK, Phased
<1>6. phase = "creating" => rows = <<>> /\ rest = <<>> /\ r.seed = identityNow.seed /\ before = <<>>
  BY <1>1, <1>3 DEF Phased
<1>7. VaultTypeOK'
  BY <1>1, <1>3, <1>4 DEF VaultTypeOK
<1>8. SealedByUsed'
  <2>1. \A i \in DOMAIN p : p[i].seal.by \in keysUsed
    BY <1>3, <1>4 DEF SealedByUsed
  <2>2. \A i \in DOMAIN rest : rest[i].seal.by \in keysUsed
    BY <1>3 DEF SealedByUsed
  <2> QED BY <1>1, <2>1, <2>2 DEF SealedByUsed
<1>9. Phased'
  BY <1>1, <1>4, <1>5, <1>6, VaultConstants DEF Phased
<1>10. OneRow'
  <2> SUFFICES ASSUME entered = V!NoSeed PROVE OneRow'
    BY <1>1 DEF OneRow
  <2>1. Len(p) = 1
    <3>1. CASE rows = <<>>
      BY <1>4, <3>1
    <3>2. CASE rows # <<>>
      <4>1. phase \in {"running", "closing"} /\ 1 \in DOMAIN rows /\ Len(rows) = 1
        BY <1>2, <1>5, <1>6, <3>2 DEF OneRow
      <4>2. rows[1].seed = r.seed
        BY <1>3, <4>1 DEF OneRow
      <4> QED BY <1>4, <4>1, <4>2
    <3> QED BY <3>1, <3>2
  <2>2. phase \in {"running", "closing"} => p[1].seed = rows[1].seed
    BY <1>2, <1>4 DEF OneRow, Phased
  <2>3. phase = "creating" => p[1].seed = identityNow.seed
    BY <1>4, <1>6
  <2>4. \A s \in ran : p[1].seed = s
    BY <1>2, <1>4 DEF OneRow
  <2>5. phase \in {"running", "closing"} => \A i \in DOMAIN rest : rest[i].seed = rows[1].seed
    BY <1>3 DEF OneRow
  <2>6. phase \in {"running", "closing"} => identityNow.seed = rows[1].seed
    BY DEF OneRow, Phased
  <2>7. \/ phase = "creating"
        \/ phase \in {"running", "closing"} /\ (generating # V!Nobody => generating.seed = rows[1].seed)
    BY <1>5 DEF OneRow
  <2> QED BY <1>1, <1>4, <2>1, <2>2, <2>3, <2>4, <2>5, <2>6, <2>7 DEF OneRow
<1>11. Growing'
  BY <1>1 DEF Growing, Stored
<1>12. V!SameKeyOpens'
  BY <1>1, <1>5, StaysUp
<1> QED BY <1>7, <1>8, <1>9, <1>10, <1>11, <1>12

LEMMA PutRejectsStep ==
  ASSUME VaultIInv, V!PutRejects
  PROVE  VaultIInv'
<1> USE DEF VaultIInv
<1>1. puts # <<>> /\ used' = [used EXCEPT !.rejects = @ + 1]
  BY DEF V!PutRejects
<1>2. used' \in [starts : Nat, edits : Nat, calls : Nat, rejects : Nat] /\ used'.rejects > 0
  <2>1. used \in [starts : Nat, edits : Nat, calls : Nat, rejects : Nat]
    BY DEF VaultTypeOK
  <2> QED BY <1>1, <2>1
<1>3. CASE phase = "creating"
  <2>1. /\ V!Forgotten /\ phase' = "down" /\ failed' = TRUE
        /\ UNCHANGED <<rows, snapshot, box, keysUsed, before, ran, entered, toKeep, kept>>
    BY <1>3 DEF V!PutRejects, V!Refused, V!disk
  <2>2. box.key \in keysUsed
    BY <1>3 DEF SealedByUsed
  <2>3. rows = before
    BY <1>1, <1>3 DEF Phased
  <2>4. V!SameKeyOpens'
    BY <1>2 DEF V!SameKeyOpens
  <2>5. kept' \in Nat /\ kept' <= Stored
    BY <2>1 DEF VaultTypeOK, Growing
  <2> QED BY <1>2, <2>1, <2>2, <2>3, <2>4, <2>5, StopStep
<1>4. CASE phase # "creating"
  <2> DEFINE rest == Tail(puts)
  <2>1. /\ puts' = rest
        /\ UNCHANGED <<rows, snapshot, phase, box, identityNow, edits, writeQueue, failure, generating>>
        /\ UNCHANGED <<keysUsed, before, failed, ran, entered, toKeep, kept>>
    BY <1>4 DEF V!PutRejects, V!disk, V!history
  <2>2. /\ rest \in Seq(SealedRows)
        /\ \A i \in DOMAIN rest : i + 1 \in DOMAIN puts /\ rest[i] = puts[i + 1]
    BY <1>1, Drops DEF VaultTypeOK
  <2> HIDE DEF rest
  <2>3. phase \in {"running", "closing"}
    BY <1>1, <1>4, VaultConstants DEF VaultTypeOK, Phased
  <2>4. VaultTypeOK'
    BY <1>2, <2>1, <2>2 DEF VaultTypeOK
  <2>5. SealedByUsed'
    BY <2>1, <2>2 DEF SealedByUsed
  <2>6. Phased'
    BY <2>1, <2>3, VaultConstants DEF Phased
  <2>7. OneRow'
    BY <2>1, <2>2 DEF OneRow
  <2>8. Growing'
    BY <2>1 DEF Growing, Stored
  <2>9. V!SameKeyOpens'
    BY <2>1, <2>3, StaysUp
  <2> QED BY <2>4, <2>5, <2>6, <2>7, <2>8, <2>9
<1> QED BY <1>3, <1>4

LEMMA VaultStep == VaultIInv /\ [V!Next]_vault => VaultIInv'
<1> SUFFICES ASSUME VaultIInv, [V!Next]_vault PROVE VaultIInv'
  OBVIOUS
<1>1. ASSUME NEW k \in V!Keys, V!Start(k) PROVE VaultIInv'
  BY <1>1, StartStep
<1>2. CASE V!Boot
  <2>1. ASSUME NEW s \in Seeds, V!CreateIdentity(s) PROVE VaultIInv'
    BY <2>1, CreateStep
  <2>2. CASE V!Restore \/ V!Created
    BY <2>2, RestoreStep
  <2>3. CASE V!RestoreAll
    BY <2>3, RestoreAllStep
  <2>4. CASE V!RestoreThrows \/ V!RestoreAllThrows
    BY <2>4, Stops
  <2> QED BY <1>2, <2>1, <2>2, <2>3, <2>4 DEF V!Boot
<1>3. CASE (\E s \in Seeds : V!RecoverFromMnemonic(s)) \/ V!Generated \/ V!EnsureBlindKeypair
  BY <1>3, IdentitySteps
<1>4. CASE V!Edit
  BY <1>4, EditStep
<1>5. CASE V!Checkpoint \/ V!Disconnect
  BY <1>5, EnqueueStep
<1>6. CASE V!Storage
  BY <1>6, QueueStep, PutAppliesStep, PutRejectsStep DEF V!Storage
<1>7. CASE V!CloseStorage \/ V!Crash
  BY <1>7, Stops
<1>8. CASE UNCHANGED vault
  <2>1. /\ UNCHANGED <<rows, snapshot, phase, box, identityNow, edits, puts, writeQueue, failure>>
        /\ UNCHANGED <<generating, used, keysUsed, before, failed, ran, entered, toKeep, kept>>
    BY <1>8 DEF vault
  <2> USE DEF VaultIInv
  <2>2. VaultTypeOK'
    BY <2>1 DEF VaultTypeOK
  <2>3. SealedByUsed'
    BY <2>1 DEF SealedByUsed
  <2>4. Phased'
    BY <2>1 DEF Phased
  <2>5. OneRow'
    BY <2>1 DEF OneRow
  <2>6. Growing'
    BY <2>1 DEF Growing, Stored
  <2>7. V!SameKeyOpens'
    BY <2>1 DEF V!SameKeyOpens
  <2> QED BY <2>2, <2>3, <2>4, <2>5, <2>6, <2>7
<1> QED BY <1>1, <1>2, <1>3, <1>4, <1>5, <1>6, <1>7, <1>8 DEF V!Next

(* What the properties say follows.                                        *)
LEMMA VaultKeeps == VaultIInv => SameKeyOpens /\ OneIdentity /\ DisconnectKeeps
<1> SUFFICES ASSUME VaultIInv PROVE SameKeyOpens /\ OneIdentity /\ DisconnectKeeps
  OBVIOUS
<1>1. SameKeyOpens
  BY DEF VaultIInv, SameKeyOpens
<1>2. OneIdentity
  <2>1. failed => rows = before
    BY DEF VaultIInv, Phased
  <2>2. ASSUME entered = V!NoSeed PROVE Cardinality(ran) \in {0, 1}
    <3>1. CASE ran = {}
      BY <3>1, FS_EmptySet
    <3>2. CASE ran # {}
      <4>1. PICK s : s \in ran
        BY <3>2
      <4>2. ran = {rows[1].seed}
        BY <2>2, <4>1 DEF VaultIInv, OneRow
      <4> DEFINE one == rows[1].seed
      <4>3. ran = {one}
        BY <4>2
      <4> HIDE DEF one
      <4> QED BY <4>3, FS_Singleton
    <3> QED BY <3>1, <3>2
  <2>3. entered = V!NoSeed => Cardinality(ran) <= 1
    BY <2>2
  <2> QED BY <2>1, <2>3, VaultConstants DEF OneIdentity, V!OneIdentity
<1>3. DisconnectKeeps
  <2>1. Stored \in Nat /\ kept \in Nat /\ edits \in Nat
    <3>1. snapshot # <<>> => snapshot[1] \in SealedSnapshots
      BY DEF VaultIInv, VaultTypeOK
    <3> QED BY <3>1 DEF VaultIInv, VaultTypeOK, Stored, SealedSnapshots
  <2> QED BY <2>1 DEF VaultIInv, Growing, DisconnectKeeps, V!DisconnectKeeps
<1> QED BY <1>1, <1>2, <1>3

-----------------------------------------------------------------------------
(* The three side by side                                                  *)

(* A step of the composition is a step of one service, and a stutter of    *)
(* the other two.                                                          *)
LEMMA StepOfOne ==
  [ServicesNext]_all => [Next]_vars /\ [Pool!Next]_pool /\ [V!Next]_vault
<1> SUFFICES ASSUME [ServicesNext]_all
             PROVE  [Next]_vars /\ [Pool!Next]_pool /\ [V!Next]_vault
  OBVIOUS
<1>1. CASE OnVouchers(Next)
  BY <1>1 DEF OnVouchers
<1>2. CASE OnPool(Pool!Next)
  BY <1>2 DEF OnPool
<1>3. CASE OnVault(V!Next)
  BY <1>3 DEF OnVault
<1>4. CASE UNCHANGED all
  BY <1>4 DEF all
<1> QED BY <1>1, <1>2, <1>3, <1>4 DEF ServicesNext

LEMMA ServicesInvariant == ServicesSpec => [](VouchersIInv /\ PoolIInv /\ VaultIInv)
<1>1. ServicesInit => VouchersIInv /\ PoolIInv /\ VaultIInv
  BY VouchersInit, PoolInit, VaultInit DEF ServicesInit
<1>2. VouchersIInv /\ PoolIInv /\ VaultIInv /\ [ServicesNext]_all
        => (VouchersIInv /\ PoolIInv /\ VaultIInv)'
  BY StepOfOne, VouchersStep, PoolStep, VaultStep
<1> QED BY <1>1, <1>2, PTL DEF ServicesSpec

(* A voucher a requester holds was signed by the issuer it asked, for that *)
(* very request and with the key the requester was given: answers that are *)
(* late, lost or of an earlier request never pass for it (Endorsements:    *)
(* voucher-handshake.ts onResponse, client.ts handleVoucherRequest).       *)
THEOREM VouchersAreSignedAlways == ServicesSpec => []VouchersAreSigned
<1>1. VouchersIInv => VouchersAreSigned
  BY DEF VouchersIInv
<1> QED BY <1>1, ServicesInvariant, PTL

(* A voucher raises a score once, over any number of redemptions and       *)
(* restarts, unless a crash took its nullifier before it was written       *)
(* (Endorsements: voucher-service.ts redeemVoucher and its queued writes). *)
THEOREM CreditedOnceAlways == ServicesSpec => []CreditedOnce
<1>1. ASSUME VouchersIInv, NEW r \in Requests, r \notin lost PROVE ~(credited[r] > 1)
  <2>1. credited[r] = 0 \/ credited[r] = 1
    BY <1>1 DEF VouchersIInv, Counted
  <2> QED BY <2>1
<1>2. VouchersIInv => CreditedOnce
  BY <1>1 DEF CreditedOnce
<1> QED BY <1>2, ServicesInvariant, PTL

(* A proof job that is pending is queued, or has one worker and a timer,   *)
(* whatever times out, hangs or is reset in between (WorkerPool:           *)
(* worker-pool.ts pump, run, replace, reset).                              *)
THEOREM NoJobLostAlways == ServicesSpec => []NoJobLost
<1>1. PoolIInv => NoJobLost
  BY PoolCounts
<1> QED BY <1>1, ServicesInvariant, PTL

(* A start is refused only if two keys were used, the key was left out, or *)
(* storage rejected a write (Vault: secret-box.ts passphraseKey, open).    *)
THEOREM SameKeyOpensAlways == ServicesSpec => []SameKeyOpens
BY VaultKeeps, ServicesInvariant, PTL

(* Without a recovery phrase all processes run under one identity, and a   *)
(* refused start leaves the identity table as it found it (Vault:          *)
(* identity-service.ts loadOrCreate, materialise, restore).                *)
THEOREM OneIdentityAlways == ServicesSpec => []OneIdentity
BY VaultKeeps, ServicesInvariant, PTL

(* A document is never behind what a disconnect without error kept, in no  *)
(* later process (Vault: client.ts disconnect, write-queue.ts flush).      *)
THEOREM DisconnectKeepsAlways == ServicesSpec => []DisconnectKeeps
BY VaultKeeps, ServicesInvariant, PTL
=============================================================================
