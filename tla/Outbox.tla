------------------------------- MODULE Outbox -------------------------------
(***************************************************************************)
(* One OutboxManager (HLessEnd/src/outbox.ts), the storage that mirrors it *)
(* and the flush passes that drain it.                                     *)
(*                                                                         *)
(* client.ts starts a pass on every connection made, every connection      *)
(* accepted and every goOnline(), and nothing serialises them: a pass      *)
(* awaits its sender entry by entry, and other passes, enqueues and clears *)
(* run between two of its entries.  Writes to storage are fire-and-forget; *)
(* they reach the disk in the order they were issued (an IndexedDB         *)
(* transaction each; SQLite applies them at once), may be rejected, and    *)
(* are gone if the process stops first.                                    *)
(***************************************************************************)
EXTENDS OutboxOps, Sequences, FiniteSets

CONSTANTS
  Ids,            \* message ids
  Passes,         \* flush() calls that may be running at one time
  NoId,           \* not an id
  MaxSize,        \* maxOutboxSize
  MaxRestarts,    \* bound on process restarts
  MaxClears,      \* bound on clear() calls
  MaxWriteErrors, \* bound on rejected storage writes
  MaxWrites       \* bound on storage writes in flight

ASSUME OutboxAssumption ==
  /\ NoId \notin Ids
  /\ IsFiniteSet(Ids)
  /\ {MaxSize, MaxRestarts, MaxClears, MaxWriteErrors, MaxWrites} \subseteq Nat

VARIABLES
  queue,      \* `entries`: id -> status
  createdAt,  \* id -> the clock when it was enqueued
  clock,      \* Date.now()
  passes,     \* pass -> what it has left to do
  writes,     \* storage writes issued and not yet applied, oldest first
  disk,       \* rows of the OUTBOX collection: id -> status
  accepted, delivered, landed, cleared, lost,  \* histories, see below
  restarts, clears, writeErrors                \* how much of each bound is used

(***************************************************************************)
(* Histories: ids ever enqueued; ids whose sender resolved; ids a put of   *)
(* which was applied; ids dropped by clear(); ids memory no longer held    *)
(* after a restart.                                                        *)
(***************************************************************************)
history == <<accepted, delivered, landed, cleared, lost>>
budget  == <<restarts, clears, writeErrors>>
vars == <<queue, createdAt, clock, passes, writes, disk, history, budget>>

(* What one flush pass still has to do: `todo` is the rest of its snapshot *)
(* of getPending(), `cur` the entry its sender is awaited for.             *)
Idle == [todo |-> {}, cur |-> NoId]

(* Faulty variant: persist() drops the row of an entry that failed.        *)
PutUnlessFailed(id, status) ==
  [op |-> IF status = "failed" THEN "delete" ELSE "put", id |-> id, status |-> status]

Put(id, status) == [op |-> "put", id |-> id, status |-> status]
Delete(id)      == [op |-> "delete", id |-> id, status |-> "sending"]
Write == [op : {"put", "delete"}, id : Ids, status : Status]

MayWrite == Len(writes) < MaxWrites

Full(q) == Cardinality(DOMAIN q) >= MaxSize

Init ==
  /\ queue = EmptyQueue /\ disk = EmptyQueue /\ writes = <<>>
  /\ createdAt = [id \in Ids |-> 0] /\ clock = 0
  /\ passes = [p \in Passes |-> Idle]
  /\ accepted = {} /\ delivered = {} /\ landed = {} /\ cleared = {} /\ lost = {}
  /\ restarts = 0 /\ clears = 0 /\ writeErrors = 0

(* enqueue(): throws when full, which changes nothing.  Two entries may    *)
(* share a millisecond.                                                    *)
Enqueue(id) ==
  /\ id \notin accepted
  /\ ~Full(queue) /\ MayWrite
  /\ queue' = SetStatus(queue, id, "pending")
  /\ writes' = Append(writes, Put(id, "pending"))
  /\ \E now \in {clock, clock + 1} :
       clock' = now /\ createdAt' = [createdAt EXCEPT ![id] = now]
  /\ accepted' = accepted \cup {id}
  /\ UNCHANGED <<passes, disk, delivered, landed, cleared, lost, budget>>

(* The loop of flush() up to its next await, over `todo` with the queue q: *)
(* the next entry goes (back) into the map as 'sending' and its sender is  *)
(* called.  That status is not persisted.                                  *)
NextEntry(p, q, todo) ==
  \/ /\ todo = {}
     /\ queue' = q
     /\ passes' = [passes EXCEPT ![p] = Idle]
  \/ \E id \in Oldest(todo, createdAt) :
       /\ queue' = SetStatus(q, id, "sending")
       /\ passes' = [passes EXCEPT ![p] = [todo |-> todo \ {id}, cur |-> id]]

(* flush() of a non-empty snapshot.                                        *)
StartFlush(p) ==
  /\ passes[p].cur = NoId
  /\ GetPending(queue) # {}
  /\ NextEntry(p, queue, GetPending(queue))
  /\ UNCHANGED <<createdAt, clock, writes, disk, history, budget>>

(* `await sender(refreshed)` resolved: markSent, then the next entry.      *)
SenderResolves(p, id) ==
  /\ passes[p].cur = id /\ MayWrite
  /\ NextEntry(p, MarkSent(queue, id), passes[p].todo)
  /\ writes' = Append(writes, Delete(id))
  /\ delivered' = delivered \cup {id}
  /\ UNCHANGED <<createdAt, clock, disk, accepted, landed, cleared, lost, budget>>

(* It rejected: markFailed, which persists only an entry still held.       *)
SenderRejects(p, id) ==
  /\ passes[p].cur = id /\ MayWrite
  /\ NextEntry(p, MarkFailed(queue, id), passes[p].todo)
  /\ writes' = IF id \in DOMAIN queue THEN Append(writes, Put(id, "failed"))
                                      ELSE writes
  /\ UNCHANGED <<createdAt, clock, disk, history, budget>>

(* clear(): the map only.  Running passes and the stored rows stay.        *)
Clear ==
  /\ clears < MaxClears
  /\ DOMAIN queue # {}
  /\ queue' = EmptyQueue
  /\ cleared' = cleared \cup DOMAIN queue
  /\ clears' = clears + 1
  /\ UNCHANGED <<createdAt, clock, passes, writes, disk,
                 accepted, delivered, landed, lost, restarts, writeErrors>>

(* The storage driver applies the oldest write.                            *)
StorageApplies ==
  /\ writes # <<>>
  /\ LET w == Head(writes) IN
       /\ disk' = IF w.op = "put" THEN SetStatus(disk, w.id, w.status)
                                  ELSE MarkSent(disk, w.id)
       /\ landed' = IF w.op = "put" THEN landed \cup {w.id} ELSE landed
  /\ writes' = Tail(writes)
  /\ UNCHANGED <<queue, createdAt, clock, passes,
                 accepted, delivered, cleared, lost, budget>>

(* The storage driver rejects it; persist() and markSent() swallow that.   *)
StorageRejects ==
  /\ writes # <<>>
  /\ writeErrors < MaxWriteErrors
  /\ writes' = Tail(writes)
  /\ writeErrors' = writeErrors + 1
  /\ UNCHANGED <<queue, createdAt, clock, passes, disk, history, restarts, clears>>

(* What hydrate() may bring back: all rows, or as many as fit (rows come   *)
(* in no particular order).                                                *)
Hydrated(rows) ==
  {S \in SUBSET DOMAIN rows :
     \/ S = DOMAIN rows /\ Cardinality(S) <= MaxSize
     \/ Cardinality(S) = MaxSize}

(* The process stops, and the next one hydrates from what reached storage. *)
Restart ==
  /\ restarts < MaxRestarts
  /\ \E S \in Hydrated(disk) :
       /\ queue' = [id \in S |-> disk[id]]
       /\ lost' = lost \cup (DOMAIN queue \ S)
  /\ passes' = [p \in Passes |-> Idle]
  /\ writes' = <<>>
  /\ restarts' = restarts + 1
  /\ UNCHANGED <<createdAt, clock, disk, accepted, delivered, landed, cleared,
                 clears, writeErrors>>

Next ==
  \/ \E id \in Ids : Enqueue(id)
  \/ \E p \in Passes :
       \/ StartFlush(p)
       \/ \E id \in Ids : SenderResolves(p, id) \/ SenderRejects(p, id)
  \/ Clear
  \/ StorageApplies \/ StorageRejects
  \/ Restart

Spec == Init /\ [][Next]_vars

(***************************************************************************)
(* A connection is made again and again, so a flush is started while       *)
(* something is pending; every send settles; and a message sent again and  *)
(* again gets through once.                                                *)
(***************************************************************************)
Fairness ==
  /\ \A p \in Passes : WF_vars(StartFlush(p))
  /\ \A p \in Passes, id \in Ids :
       /\ WF_vars(SenderResolves(p, id) \/ SenderRejects(p, id))
       /\ SF_vars(SenderResolves(p, id))
  /\ WF_vars(StorageApplies)

FairSpec == Spec /\ Fairness
-----------------------------------------------------------------------------
PassType == [todo : SUBSET Ids, cur : Ids \cup {NoId}]

QueueType(q) == DOMAIN q \subseteq Ids /\ \A id \in DOMAIN q : q[id] \in Status

(* Types of the queue, the passes, the storage and the histories.          *)
TypeOK ==
  /\ QueueType(queue) /\ QueueType(disk)
  /\ createdAt \in [Ids -> Nat] /\ clock \in Nat
  /\ passes \in [Passes -> PassType]
  /\ writes \in Seq(Write)
  /\ accepted \subseteq Ids /\ delivered \subseteq Ids /\ landed \subseteq Ids
  /\ cleared \subseteq Ids /\ lost \subseteq Ids
  /\ restarts \in Nat /\ clears \in Nat /\ writeErrors \in Nat

(* However passes, clears and restarts interleave, an id enqueue() took is *)
(* still queued unless its sender resolved, clear() dropped it or a        *)
(* restart did: no pass drops an entry that was not sent, not even one     *)
(* working from a snapshot another pass has since overtaken.               *)
NothingForgotten ==
  accepted \subseteq DOMAIN queue \cup delivered \cup cleared \cup lost

(* An entry whose row was written once stays on disk until its sender has  *)
(* resolved, through failed retries, clear() and restarts: fire-and-forget *)
(* deletes never overtake or outnumber what was sent.                      *)
DurableUntilSent == landed \ delivered \subseteq DOMAIN disk

(* "Maximum outbox queue size" (types.ts): the queue holds at most maxSize *)
(* entries, through flushes and restarts as well as through enqueue().     *)
SizeBounded == Cardinality(DOMAIN queue) <= MaxSize

(* Every accepted entry is eventually sent, unless cleared or lost with    *)
(* the process: no interleaving of passes leaves an entry 'sending' that   *)
(* no pass is working on, where getPending() would never find it again.    *)
EventuallySent ==
  \A id \in Ids : id \in accepted ~> id \in delivered \cup cleared \cup lost
=============================================================================
