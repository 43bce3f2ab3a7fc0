----------------------------- MODULE OutboxOps -----------------------------
(***************************************************************************)
(* The in-memory queue of HLessEnd/src/outbox.ts as a value: a function    *)
(* from the ids it holds to their status.  createdAt never changes once an *)
(* entry exists, so it is a separate function `createdAt`; content,        *)
(* proofEpoch and retryCount decide nothing and are left out.              *)
(***************************************************************************)
EXTENDS Naturals

Status == {"pending", "sending", "failed"}

EmptyQueue == [id \in {} |-> "pending"]

SetStatus(q, id, status) ==
  [i \in DOMAIN q \cup {id} |-> IF i = id THEN status ELSE q[i]]

GetPending(q) == {id \in DOMAIN q : q[id] \in {"pending", "failed"}}

MarkSent(q, id) == [i \in DOMAIN q \ {id} |-> q[i]]

(* Faulty variants: a failed entry is dropped; it stays 'sending'.         *)
MarkFailedDrops(q, id) == MarkSent(q, id)
MarkFailedStuck(q, id) == q

MarkFailed(q, id) == IF id \in DOMAIN q THEN SetStatus(q, id, "failed") ELSE q

(* The entries `flush` may take next.  It works through a list sorted by   *)
(* createdAt; entries created in the same millisecond come in map order,   *)
(* which is not modelled: any of them may be first.                        *)
Oldest(ids, createdAt) ==
  {id \in ids : \A other \in ids : createdAt[id] <= createdAt[other]}

=============================================================================
