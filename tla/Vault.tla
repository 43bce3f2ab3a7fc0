------------------------------- MODULE Vault -------------------------------
(***************************************************************************)
(* What one node keeps between two of its processes, and under which key:  *)
(* the rows of the identity table (identity-service.ts), the snapshots of  *)
(* its documents (document-store.ts over write-queue.ts), the box that     *)
(* seals both (secret-box.ts), and the life of a process, from the start   *)
(* with or without a storage key to a disconnect, a failed start or a      *)
(* crash (client.ts, engine-bootstrap.ts).                                 *)
(*                                                                         *)
(* A recovery phrase is a member of Seeds; all the keys derived from it    *)
(* are that seed.  One document stands for all of them, and its content    *)
(* for the number of changes made to it.  A ciphertext is the key, and for *)
(* a passphrase the salt, that opens it: AES-GCM refuses every other.      *)
(* Storage applies the writes issued to it in order, each at some later    *)
(* moment, as IndexedDB does; with SQLite the moment is the call itself.   *)
(***************************************************************************)
EXTENDS Integers, Sequences, FiniteSets, Functions

CONSTANTS
  Seeds,        \* recovery phrases
  RawKeys,      \* storage keys given as bytes
  Passphrases,  \* storage keys given as a string
  MaxStarts,    \* processes of the node
  MaxEdits,     \* changes of the document
  MaxCalls,     \* calls of recoverFromMnemonic and of ensureBlindKeypair
  MaxRejects    \* writes that storage rejects

VaultAssumption ==
  /\ IsFiniteSet(Seeds) /\ RawKeys \cap Passphrases = {}
  /\ "none" \notin Seeds \cup RawKeys \cup Passphrases
  /\ {MaxStarts, MaxEdits, MaxCalls, MaxRejects} \subseteq Nat

NoKey == "none"
NoSeed == "none"
Keys == RawKeys \cup Passphrases \cup {NoKey}

VARIABLES
  rows,        \* the identity table, in the order of first insertion
  snapshot,    \* the document's row: the empty sequence, or one sealed snapshot
  phase,       \* how far the process is
  box,         \* its SecretBox
  identity,    \* IdentityService.identity
  doc,         \* the document in memory
  puts,        \* identity rows being written
  queue,       \* WriteQueue of the document store
  failure,     \* WriteQueue.failure
  generating,  \* the identity ensureBlindKeypair() took before its await
  used,        \* bounds: starts, edits, calls, rejects
  keys,        \* history: the storage keys processes were started with
  before,      \* history: the identity table when this process started
  failed,      \* history: the last start was refused
  ran,         \* history: the seeds under which init() has returned
  entered,     \* history: the phrase recoverFromMnemonic() was last called with
  due,         \* history: the changes this process' disconnect was to keep
  saved        \* history: the changes some disconnect without error has kept

disk == <<rows, snapshot>>
memory == <<identity, doc, puts, queue, failure, generating>>
history == <<keys, before, failed, ran, entered, due, saved>>
vars == <<disk, phase, box, memory, used, history>>

Nobody == [seed |-> NoSeed, blind |-> 0]
Starting == {"reading", "creating", "loading"}

-----------------------------------------------------------------------------
(* The box *)

\* Only a passphrase is stretched with a salt, drawn once for each box.
Sealed(b) ==
  [by |-> b.key, salt |-> IF b.key \in Passphrases THEN b.salt ELSE 0]

\* The key a value of that salt is opened with.
passphraseKeyOwnSalt(b, salt) == <<b.key, Sealed(b).salt>>
passphraseKey(b, salt) == <<b.key, salt>>

\* A value that bears no prefix was written without a key and is returned
\* as it is; any other needs the key it was sealed with.
open(b, sealed) ==
  \/ sealed.by = NoKey
  \/ b.key # NoKey /\ passphraseKey(b, sealed.salt) = <<sealed.by, sealed.salt>>

Row(b, id) == [seed |-> id.seed, blind |-> id.blind, seal |-> Sealed(b)]
Snapshot(b, n) == [edits |-> n, seal |-> Sealed(b)]

\* INSERT ... ON CONFLICT DO UPDATE: a row that exists keeps its place.
put(row) ==
  IF \E i \in DOMAIN rows : rows[i].seed = row.seed
  THEN [i \in DOMAIN rows |-> IF rows[i].seed = row.seed THEN row ELSE rows[i]]
  ELSE Append(rows, row)

-----------------------------------------------------------------------------
(* The start of a process *)

Init ==
  /\ rows = <<>> /\ snapshot = <<>>
  /\ phase = "down" /\ box = [key |-> NoKey, salt |-> 0]
  /\ identity = Nobody /\ doc = 0 /\ puts = <<>> /\ queue = <<>> /\ failure = FALSE
  /\ generating = Nobody
  /\ used = [starts |-> 0, edits |-> 0, calls |-> 0, rejects |-> 0]
  /\ keys = {} /\ before = <<>> /\ failed = FALSE
  /\ ran = {} /\ entered = NoSeed /\ due = 0 /\ saved = 0

Forgotten ==
  /\ identity' = Nobody /\ doc' = 0 /\ puts' = <<>> /\ queue' = <<>> /\ failure' = FALSE
  /\ generating' = Nobody

\* init(): the driver is open, the boxes have their key, and restore() has
\* asked for one row of the table.  No key means allowUnencryptedStorage.
Start(k) ==
  /\ phase = "down" /\ used.starts < MaxStarts
  /\ phase' = "reading"
  /\ box' = [key |-> k, salt |-> used.starts + 1]
  /\ used' = [used EXCEPT !.starts = @ + 1]
  /\ keys' = keys \cup {k} /\ before' = rows /\ failed' = FALSE
  /\ UNCHANGED <<disk, memory, ran, entered, due, saved>>

\* init() rejects.
Refused ==
  /\ phase' = "down" /\ failed' = TRUE /\ Forgotten
  /\ UNCHANGED <<disk, box, keys, before, ran, entered, due, saved>>

\* materialise(): the identity is in use before its row is written.
materialise(s) ==
  LET id == [seed |-> s, blind |-> 0]
  IN  identity' = id /\ puts' = Append(puts, Row(box, id))

\* The rows restore() may be given: the query has a limit and no order, so
\* SQLite answers with the oldest and IndexedDB with the lowest did:key.
First == Range(rows)

Unused == Seeds \ ({rows[i].seed : i \in DOMAIN rows} \cup ran)

mayCreate == rows = <<>>

afterCreateAtOnce == "loading"
afterCreate == "creating"

CreateIdentity(s) ==
  /\ phase = "reading" /\ mayCreate /\ s \in Unused
  /\ materialise(s)
  /\ phase' = afterCreate
  /\ UNCHANGED <<disk, box, doc, queue, failure, generating, used, history>>

Restore ==
  /\ phase = "reading"
  /\ \E row \in First :
       /\ open(box, row.seal)
       /\ identity' = [seed |-> row.seed, blind |-> row.blind]
  /\ phase' = "loading"
  /\ UNCHANGED <<disk, box, doc, puts, queue, failure, generating, used, history>>

RestoreThrows ==
  /\ phase = "reading" /\ ~mayCreate
  /\ \E row \in First : ~open(box, row.seal)
  /\ Refused
  /\ UNCHANGED used

Created ==
  /\ phase = "creating" /\ puts = <<>>
  /\ phase' = "loading"
  /\ UNCHANGED <<disk, box, memory, used, history>>

\* DocumentStore.restoreAll(), after which init() returns.
RestoreAll ==
  /\ phase = "loading" /\ \A i \in DOMAIN snapshot : open(box, snapshot[i].seal)
  /\ doc' = IF snapshot = <<>> THEN 0 ELSE snapshot[1].edits
  /\ phase' = "running"
  /\ ran' = ran \cup {identity.seed}
  /\ UNCHANGED <<disk, box, identity, puts, queue, failure, generating, used,
                 keys, before, failed, entered, due, saved>>

RestoreAllThrows ==
  /\ phase = "loading" /\ \E i \in DOMAIN snapshot : ~open(box, snapshot[i].seal)
  /\ Refused
  /\ UNCHANGED used

-----------------------------------------------------------------------------
(* The running process *)

RecoverFromMnemonic(s) ==
  /\ phase = "running" /\ used.calls < MaxCalls
  /\ materialise(s)
  /\ used' = [used EXCEPT !.calls = @ + 1]
  /\ entered' = s
  /\ UNCHANGED <<disk, phase, box, doc, queue, failure, generating, keys, before,
                 failed, ran, due, saved>>

\* The call generates a pair if the identity it finds has none.
EnsureBlindKeypair ==
  /\ phase = "running" /\ used.calls < MaxCalls
  /\ identity.blind = 0 /\ generating = Nobody
  /\ generating' = identity
  /\ used' = [used EXCEPT !.calls = @ + 1]
  /\ UNCHANGED <<disk, phase, box, identity, doc, puts, queue, failure, history>>

\* The pair is there: it is added to the identity the call had found.
Generated ==
  /\ phase = "running" /\ generating # Nobody
  /\ identity' = [generating EXCEPT !.blind = used.calls]
  /\ puts' = Append(puts, Row(box, identity'))
  /\ generating' = Nobody
  /\ UNCHANGED <<disk, phase, box, doc, queue, failure, used, history>>

\* A message sent or received.  The transport stays open until the
\* documents have been flushed.
Edit ==
  /\ phase \in {"running", "closing"} /\ used.edits < MaxEdits
  /\ doc' = doc + 1
  /\ used' = [used EXCEPT !.edits = @ + 1]
  /\ UNCHANGED <<disk, phase, box, identity, puts, queue, failure, generating, history>>

\* checkpointAll() enqueues a snapshot of every document there is.
checkpointed == IF doc = 0 THEN queue ELSE Append(queue, Snapshot(box, doc))

Checkpoint ==
  /\ phase = "running" /\ Len(queue) < 2
  /\ queue' = checkpointed
  /\ UNCHANGED <<disk, phase, box, identity, doc, puts, failure, generating, used, history>>

\* disconnect(), up to the flush it awaits.
Disconnect ==
  /\ phase = "running"
  /\ queue' = checkpointed /\ due' = doc
  /\ phase' = "closing"
  /\ UNCHANGED <<disk, box, identity, doc, puts, failure, generating, used, keys,
                 before, failed, ran, entered, saved>>

-----------------------------------------------------------------------------
(* Storage *)

\* The write the queue runs next; the others wait for it.
turn == 1

\* What remains once that write has landed or failed.
remaining == [i \in 1..(Len(queue) - 1) |-> queue[IF i < turn THEN i ELSE i + 1]]

QueueApplies ==
  /\ queue # <<>>
  /\ snapshot' = <<queue[turn]>>
  /\ queue' = remaining
  /\ UNCHANGED <<rows, phase, box, identity, doc, puts, failure, generating, used, history>>

QueueRejects ==
  /\ queue # <<>> /\ used.rejects < MaxRejects
  /\ queue' = remaining /\ failure' = TRUE
  /\ used' = [used EXCEPT !.rejects = @ + 1]
  /\ UNCHANGED <<disk, phase, box, identity, doc, puts, generating, history>>

PutApplies ==
  /\ puts # <<>>
  /\ rows' = put(Head(puts)) /\ puts' = Tail(puts)
  /\ UNCHANGED <<snapshot, phase, box, identity, doc, queue, failure, generating, used, history>>

\* A call that awaited the write rejects; init() with it.
PutRejects ==
  /\ puts # <<>> /\ used.rejects < MaxRejects
  /\ used' = [used EXCEPT !.rejects = @ + 1]
  /\ IF phase = "creating"
     THEN Refused
     ELSE /\ puts' = Tail(puts)
          /\ UNCHANGED <<disk, phase, box, identity, doc, queue, failure, generating, history>>

-----------------------------------------------------------------------------
(* The end of a process *)

\* Faulty variants: disconnect() awaits no flush; a flush that fails never
\* returns.
flushedNot == TRUE
flushedWell == queue = <<>> /\ ~failure
flushed == queue = <<>>

\* The flush has returned, or thrown; storage closes when what was issued
\* to it is done.  The snapshot that was asked for is then on disk, unless
\* a write was rejected.
CloseStorage ==
  /\ phase = "closing" /\ flushed /\ puts = <<>>
  /\ phase' = "down" /\ Forgotten
  /\ saved' = IF failure THEN saved ELSE due
  /\ UNCHANGED <<disk, box, used, keys, before, failed, ran, entered, due>>

Crash ==
  /\ phase # "down"
  /\ phase' = "down" /\ Forgotten
  /\ UNCHANGED <<disk, box, used, history>>

Storage == QueueApplies \/ QueueRejects \/ PutApplies \/ PutRejects
Boot ==
  \/ \E s \in Seeds : CreateIdentity(s)
  \/ Restore \/ RestoreThrows \/ Created \/ RestoreAll \/ RestoreAllThrows

Next ==
  \/ \E k \in Keys : Start(k)
  \/ Boot
  \/ \E s \in Seeds : RecoverFromMnemonic(s)
  \/ EnsureBlindKeypair \/ Generated
  \/ Edit \/ Checkpoint \/ Disconnect
  \/ Storage
  \/ CloseStorage \/ Crash

Spec == Init /\ [][Next]_vars

Progress == Boot \/ Storage \/ CloseStorage

\* init() is awaited to its end, storage settles what is issued to it, and
\* disconnect() goes on when it has.
FairSpec == Spec /\ WF_vars(Progress)
-----------------------------------------------------------------------------
(* Properties *)

\* A database that was opened with one storage key throughout, or with none
\* at first and that key since, always opens: whatever was sealed by an
\* earlier process, under a salt of its own, is readable (secret-box.ts,
\* open, passphraseKey).
SameKeyOpens ==
  failed => \/ Cardinality(keys \ {NoKey}) > 1
            \/ box.key = NoKey /\ keys # {NoKey}
            \/ used.rejects > 0

\* Until a recovery phrase is entered, every process of the node that gets
\* as far as the application runs under one identity, crashes included, and
\* a start that is refused, at whichever of its steps it failed, has created
\* no identity and replaced none (identity-service.ts, loadOrCreate,
\* materialise, restore).
OneIdentity ==
  /\ entered = NoSeed => Cardinality(ran) <= 1
  /\ failed => rows = before

\* What the application held when it asked to disconnect is there again in
\* every later process, unless storage rejected a write (client.ts,
\* disconnect; write-queue.ts).
DisconnectKeeps == phase = "running" => doc >= saved

\* Starting and disconnecting come to an end, also when storage rejects
\* writes (client.ts, bootstrapInternalEngine, disconnect).
Settles == phase \in Starting \cup {"closing"} ~> phase \in {"running", "down"}

\* Entering a recovery phrase restores the identity for good.  It does not:
\* the other row stays, and a restart may load it.
RecoveryLasts ==
  [][phase = "loading" /\ phase' = "running" /\ (\E i \in DOMAIN rows : rows[i].seed = entered)
       => identity.seed = entered]_vars

\* Only a recovery phrase replaces the identity in use.  A pair of keys that
\* was being generated when the phrase was entered puts the old one back.
OnlyRecoveryReplaces ==
  [][phase = "running" /\ phase' = "running" /\ identity'.seed # identity.seed
       => used'.calls > used.calls]_vars
=============================================================================
