---------------------------- MODULE OutboxProofs ----------------------------
(***************************************************************************)
(* Proofs about Outbox for any set of ids, any number of concurrent flush  *)
(* passes and any bounds.                                                  *)
(***************************************************************************)
EXTENDS Outbox, SequenceTheorems, TLAPS

(* What the queue operators do to the domain, and that they keep the type. *)
LEMMA SetStatusQueue ==
  ASSUME NEW q, QueueType(q), NEW id \in Ids, NEW s \in Status
  PROVE  /\ QueueType(SetStatus(q, id, s))
         /\ DOMAIN SetStatus(q, id, s) = DOMAIN q \cup {id}
BY DEF QueueType, SetStatus

(* Marking an entry sent removes that entry and no other.                  *)
LEMMA MarkSentQueue ==
  ASSUME NEW q, QueueType(q), NEW id \in Ids
  PROVE  /\ QueueType(MarkSent(q, id))
         /\ DOMAIN MarkSent(q, id) = DOMAIN q \ {id}
BY DEF QueueType, MarkSent

(* Marking an entry failed removes none.                                   *)
LEMMA MarkFailedQueue ==
  ASSUME NEW q, QueueType(q), NEW id \in Ids
  PROVE  /\ QueueType(MarkFailed(q, id))
         /\ DOMAIN MarkFailed(q, id) = DOMAIN q
<1>1. "failed" \in Status
  BY DEF Status
<1>2. CASE id \in DOMAIN q
  BY <1>1, <1>2, SetStatusQueue DEF MarkFailed
<1>3. CASE id \notin DOMAIN q
  BY <1>3 DEF MarkFailed
<1> QED
  BY <1>2, <1>3

(* Moving on to the next entry keeps every entry of the queue it is given. *)
LEMMA NextEntryQueue ==
  ASSUME NEW p \in Passes, NEW q, QueueType(q), NEW todo \in SUBSET Ids,
         passes \in [Passes -> PassType], NextEntry(p, q, todo)
  PROVE  /\ QueueType(queue')
         /\ DOMAIN q \subseteq DOMAIN queue'
         /\ passes' \in [Passes -> PassType]
<1>1. CASE todo = {} /\ queue' = q
             /\ passes' = [passes EXCEPT ![p] = Idle]
  BY <1>1 DEF Idle, PassType
<1>2. ASSUME NEW id \in Oldest(todo, createdAt),
             queue' = SetStatus(q, id, "sending"),
             passes' = [passes EXCEPT ![p] = [todo |-> todo \ {id}, cur |-> id]]
      PROVE  /\ QueueType(queue')
             /\ DOMAIN q \subseteq DOMAIN queue'
             /\ passes' \in [Passes -> PassType]
  <2>1. id \in Ids /\ "sending" \in Status
    BY DEF Oldest, Status
  <2>2. QueueType(queue') /\ DOMAIN queue' = DOMAIN q \cup {id}
    BY <1>2, <2>1, SetStatusQueue
  <2> QED
    BY <1>2, <2>1, <2>2 DEF PassType
<1> QED
  BY <1>1, <1>2 DEF NextEntry

(* Only what was sent has a delete on its way to storage.                  *)
DeletesOnlySent ==
  \A i \in 1 .. Len(writes) : writes[i].op = "delete" => writes[i].id \in delivered

(* The inductive invariant.                                                *)
IInv == TypeOK /\ NothingForgotten /\ DurableUntilSent /\ DeletesOnlySent
-----------------------------------------------------------------------------
LEMMA InitIInv == Init => IInv
<1> SUFFICES ASSUME Init PROVE IInv
  OBVIOUS
<1>1. TypeOK
  BY DEF Init, TypeOK, QueueType, EmptyQueue, PassType, Idle, Status
<1>2. NothingForgotten /\ DurableUntilSent /\ DeletesOnlySent
  BY DEF Init, NothingForgotten, DurableUntilSent, DeletesOnlySent
<1> QED
  BY <1>1, <1>2 DEF IInv

(* A write in flight is one issued before or the one issued now.           *)
LEMMA AppendWrites ==
  ASSUME TypeOK, DeletesOnlySent, NEW w \in Write,
         writes' = Append(writes, w), delivered \subseteq delivered',
         w.op = "delete" => w.id \in delivered'
  PROVE  writes' \in Seq(Write) /\ DeletesOnlySent'
<1>1. writes \in Seq(Write)
  BY DEF TypeOK
<1>2. writes' \in Seq(Write) /\ Len(writes') = Len(writes) + 1
  BY <1>1
<1>3. \A i \in 1 .. Len(writes) : writes'[i] = writes[i]
  BY <1>1
<1>4. writes'[Len(writes) + 1] = w
  BY <1>1
<1> QED
  BY <1>1, <1>2, <1>3, <1>4 DEF DeletesOnlySent

(* Entries neither dropped nor rewritten keep what is already established. *)
LEMMA EnqueueStep == ASSUME IInv, NEW id \in Ids, Enqueue(id) PROVE IInv'
<1> USE DEF IInv
<1>1. "pending" \in Status
  BY DEF Status
<1>2. QueueType(queue') /\ DOMAIN queue' = DOMAIN queue \cup {id}
  BY <1>1, SetStatusQueue DEF Enqueue, TypeOK
<1>3. writes' \in Seq(Write) /\ DeletesOnlySent'
  <2>1. Put(id, "pending") \in Write /\ Put(id, "pending").op = "put"
    BY <1>1 DEF Put, Write
  <2> QED
    BY <2>1, AppendWrites DEF Enqueue
<1>4. createdAt' \in [Ids -> Nat] /\ clock' \in Nat
  BY DEF Enqueue, TypeOK
<1>5. TypeOK'
  BY <1>2, <1>3, <1>4 DEF Enqueue, TypeOK, budget
<1>6. NothingForgotten' /\ DurableUntilSent'
  BY <1>2 DEF Enqueue, NothingForgotten, DurableUntilSent
<1> QED
  BY <1>3, <1>5, <1>6

LEMMA StartFlushStep == ASSUME IInv, NEW p \in Passes, StartFlush(p) PROVE IInv'
<1> USE DEF IInv
<1>1. GetPending(queue) \in SUBSET Ids
  BY DEF GetPending, TypeOK, QueueType
<1>2. /\ QueueType(queue') /\ DOMAIN queue \subseteq DOMAIN queue'
      /\ passes' \in [Passes -> PassType]
  BY <1>1, NextEntryQueue DEF StartFlush, TypeOK
<1>3. TypeOK'
  BY <1>2 DEF StartFlush, TypeOK, history, budget
<1> QED
  BY <1>2, <1>3 DEF StartFlush, NothingForgotten, DurableUntilSent,
                    DeletesOnlySent, history

LEMMA SenderResolvesStep ==
  ASSUME IInv, NEW p \in Passes, NEW id \in Ids, SenderResolves(p, id)
  PROVE  IInv'
<1> USE DEF IInv
<1> DEFINE q == MarkSent(queue, id)
<1>1. QueueType(q) /\ DOMAIN q = DOMAIN queue \ {id}
  BY MarkSentQueue DEF TypeOK
<1>2. passes[p].todo \in SUBSET Ids
  BY DEF TypeOK, PassType
<1>3. NextEntry(p, q, passes[p].todo)
  BY DEF SenderResolves
<1>4. /\ QueueType(queue') /\ DOMAIN q \subseteq DOMAIN queue'
      /\ passes' \in [Passes -> PassType]
  <2> HIDE DEF q
  <2> QED
    BY <1>1, <1>2, <1>3, NextEntryQueue DEF TypeOK
<1>5. writes' \in Seq(Write) /\ DeletesOnlySent'
  <2>1. Delete(id) \in Write /\ Delete(id).id = id
    BY DEF Delete, Write, Status
  <2>2. writes' = Append(writes, Delete(id)) /\ delivered' = delivered \cup {id}
    BY DEF SenderResolves
  <2> QED
    BY <2>1, <2>2, AppendWrites
<1>6. TypeOK'
  BY <1>4, <1>5 DEF SenderResolves, TypeOK, budget
<1>7. NothingForgotten' /\ DurableUntilSent'
  BY <1>1, <1>4 DEF SenderResolves, NothingForgotten, DurableUntilSent
<1> QED
  BY <1>5, <1>6, <1>7

LEMMA SenderRejectsStep ==
  ASSUME IInv, NEW p \in Passes, NEW id \in Ids, SenderRejects(p, id)
  PROVE  IInv'
<1> USE DEF IInv
<1> DEFINE q == MarkFailed(queue, id)
<1>1. QueueType(q) /\ DOMAIN q = DOMAIN queue
  BY MarkFailedQueue DEF TypeOK
<1>2. passes[p].todo \in SUBSET Ids
  BY DEF TypeOK, PassType
<1>3. NextEntry(p, q, passes[p].todo)
  BY DEF SenderRejects
<1>4. /\ QueueType(queue') /\ DOMAIN q \subseteq DOMAIN queue'
      /\ passes' \in [Passes -> PassType]
  <2> HIDE DEF q
  <2> QED
    BY <1>1, <1>2, <1>3, NextEntryQueue DEF TypeOK
<1>5. writes' \in Seq(Write) /\ DeletesOnlySent'
  <2>1. CASE id \in DOMAIN queue
    <3>1. Put(id, "failed") \in Write /\ Put(id, "failed").op = "put"
      BY DEF Put, Write, Status
    <3> QED
      BY <2>1, <3>1, AppendWrites DEF SenderRejects, history
  <2>2. CASE id \notin DOMAIN queue
    BY <2>2 DEF SenderRejects, TypeOK, DeletesOnlySent, history
  <2> QED
    BY <2>1, <2>2
<1>6. TypeOK'
  BY <1>4, <1>5 DEF SenderRejects, TypeOK, history, budget
<1>7. NothingForgotten' /\ DurableUntilSent'
  BY <1>1, <1>4 DEF SenderRejects, NothingForgotten, DurableUntilSent, history
<1> QED
  BY <1>5, <1>6, <1>7

(* A delete reaches the disk only after its entry was sent.                *)
LEMMA StorageAppliesStep == ASSUME IInv, StorageApplies PROVE IInv'
<1> USE DEF IInv
<1> DEFINE w == Head(writes)
<1>1. /\ w \in Write /\ w = writes[1] /\ 1 \in 1 .. Len(writes)
      /\ writes' \in Seq(Write) /\ Len(writes') = Len(writes) - 1
      /\ \A i \in 1 .. Len(writes') : writes'[i] = writes[i + 1]
  BY DEF StorageApplies, TypeOK
<1>2. w.id \in Ids /\ w.status \in Status /\ w.op \in {"put", "delete"}
  BY <1>1 DEF Write
<1>3. DeletesOnlySent'
  <2>1. delivered' = delivered /\ Len(writes) \in Nat
    BY <1>1 DEF StorageApplies, TypeOK
  <2> QED
    BY <1>1, <2>1 DEF DeletesOnlySent
<1>4. CASE w.op = "put"
  <2>1. /\ disk' = SetStatus(disk, w.id, w.status)
        /\ landed' = landed \cup {w.id}
    BY <1>4 DEF StorageApplies
  <2>2. QueueType(disk') /\ DOMAIN disk' = DOMAIN disk \cup {w.id}
    BY <1>2, <2>1, SetStatusQueue DEF TypeOK
  <2>3. TypeOK'
    BY <1>1, <1>2, <2>1, <2>2 DEF StorageApplies, TypeOK, budget
  <2> QED
    BY <1>3, <2>1, <2>2, <2>3
       DEF StorageApplies, NothingForgotten, DurableUntilSent
<1>5. CASE w.op = "delete"
  <2>1. disk' = MarkSent(disk, w.id) /\ landed' = landed
    BY <1>5 DEF StorageApplies
  <2>2. QueueType(disk') /\ DOMAIN disk' = DOMAIN disk \ {w.id}
    BY <1>2, <2>1, MarkSentQueue DEF TypeOK
  <2>3. w.id \in delivered
    BY <1>1, <1>5 DEF DeletesOnlySent
  <2>4. TypeOK'
    BY <1>1, <2>1, <2>2 DEF StorageApplies, TypeOK, budget
  <2> QED
    BY <1>3, <2>1, <2>2, <2>3, <2>4
       DEF StorageApplies, NothingForgotten, DurableUntilSent
<1> QED
  BY <1>2, <1>4, <1>5

LEMMA StorageRejectsStep == ASSUME IInv, StorageRejects PROVE IInv'
<1> USE DEF IInv
<1>1. /\ writes' \in Seq(Write) /\ Len(writes') = Len(writes) - 1
      /\ \A i \in 1 .. Len(writes') : writes'[i] = writes[i + 1]
      /\ Len(writes) \in Nat
  BY DEF StorageRejects, TypeOK
<1>2. TypeOK'
  BY <1>1 DEF StorageRejects, TypeOK, history
<1>3. NothingForgotten' /\ DurableUntilSent' /\ DeletesOnlySent'
  BY <1>1 DEF StorageRejects, NothingForgotten, DurableUntilSent,
              DeletesOnlySent, history
<1> QED
  BY <1>2, <1>3

LEMMA ClearStep == ASSUME IInv, Clear PROVE IInv'
<1> USE DEF IInv
<1>1. QueueType(queue') /\ DOMAIN queue' = {}
  BY DEF Clear, QueueType, EmptyQueue
<1>2. TypeOK'
  BY <1>1 DEF Clear, TypeOK, QueueType
<1>3. NothingForgotten' /\ DurableUntilSent' /\ DeletesOnlySent'
  BY <1>1 DEF Clear, NothingForgotten, DurableUntilSent, DeletesOnlySent
<1> QED
  BY <1>2, <1>3

LEMMA RestartStep == ASSUME IInv, Restart PROVE IInv'
<1> USE DEF IInv
<1>1. PICK S \in Hydrated(disk) :
        /\ queue' = [id \in S |-> disk[id]]
        /\ lost' = lost \cup (DOMAIN queue \ S)
  BY DEF Restart
<1>2. S \subseteq DOMAIN disk
  BY DEF Hydrated
<1>3. QueueType(queue') /\ DOMAIN queue' = S
  BY <1>1, <1>2 DEF QueueType, TypeOK
<1>4. passes' \in [Passes -> PassType]
  BY DEF Restart, PassType, Idle
<1>5. TypeOK'
  BY <1>1, <1>3, <1>4 DEF Restart, TypeOK, QueueType
<1>6. NothingForgotten' /\ DurableUntilSent'
  BY <1>1, <1>3 DEF Restart, NothingForgotten, DurableUntilSent
<1>7. DeletesOnlySent'
  BY DEF Restart, DeletesOnlySent
<1> QED
  BY <1>5, <1>6, <1>7

LEMMA NextIInv == IInv /\ [Next]_vars => IInv'
<1> SUFFICES ASSUME IInv, [Next]_vars PROVE IInv'
  OBVIOUS
<1>1. ASSUME NEW id \in Ids, Enqueue(id) PROVE IInv'
  BY <1>1, EnqueueStep
<1>2. ASSUME NEW p \in Passes, StartFlush(p) PROVE IInv'
  BY <1>2, StartFlushStep
<1>3. ASSUME NEW p \in Passes, NEW id \in Ids,
             SenderResolves(p, id) \/ SenderRejects(p, id)
      PROVE  IInv'
  BY <1>3, SenderResolvesStep, SenderRejectsStep
<1>4. CASE Clear
  BY <1>4, ClearStep
<1>5. CASE StorageApplies
  BY <1>5, StorageAppliesStep
<1>6. CASE StorageRejects
  BY <1>6, StorageRejectsStep
<1>7. CASE Restart
  BY <1>7, RestartStep
<1>8. CASE UNCHANGED vars
  BY <1>8 DEF vars, history, budget, IInv, TypeOK, QueueType, NothingForgotten,
              DurableUntilSent, DeletesOnlySent
<1> QED
  BY <1>1, <1>2, <1>3, <1>4, <1>5, <1>6, <1>7, <1>8 DEF Next

LEMMA Invariance == Spec => []IInv
BY InitIInv, NextIInv, PTL DEF Spec

(* The type invariant holds for every instance of the outbox.              *)
THEOREM TypeCorrect == Spec => []TypeOK
<1>1. IInv => TypeOK
  BY DEF IInv
<1> QED
  BY <1>1, Invariance, PTL

(* However many flush passes run at once, no accepted message leaves the   *)
(* queue unsent (outbox.ts, flush and markSent).                           *)
THEOREM NeverForgotten == Spec => []NothingForgotten
<1>1. IInv => NothingForgotten
  BY DEF IInv
<1> QED
  BY <1>1, Invariance, PTL

(* A row that reached storage stays there until its message was sent, with *)
(* any number of restarts, clears and rejected writes (outbox.ts, persist  *)
(* and markSent).                                                          *)
THEOREM AlwaysDurable == Spec => []DurableUntilSent
<1>1. IInv => DurableUntilSent
  BY DEF IInv
<1> QED
  BY <1>1, Invariance, PTL
=============================================================================
