# TLA+ models of the Discussion Protocol

Specifications, model-checked instances and machine-checked proofs about the
TypeScript implementation in `packages/core` (cryptography, CRDTs, transports,
zero-knowledge proofs) and `packages/HLessEnd` (the headless backend: chat,
groups, trust, storage).  Paths below are relative to the repository; `core/`
and `HLessEnd/` abbreviate `packages/core/src/` and `packages/HLessEnd/src/`.

## 1. The system

A node is one JavaScript process holding one identity (a `did:key`).  Nodes
connect directly or through a relay, authenticate each other, and exchange
frames on numbered streams.  A conversation is an Automerge document that every
participant replicates, plus encrypted message frames that carry its messages
at once.  Everything runs on one thread per process, so code interleaves only
at an `await`, a callback or a message; nearly all of the difficulty is there.

### Components

**Client facade** (`HLessEnd/client.ts`).  State: the services, the transport,
`online`, `offeredProfileTo`.  Wires every callback; starts an outbox drain on
each dial, each accepted connection and each `goOnline`.  Hard: drains overlap;
inbound connections are accepted before the stored state is restored; a
connection replaced by a newer one still reports its close.  Correct when: what
is drained is what was sent, and a drained entry has reached somebody.

**Outbox** (`HLessEnd/outbox.ts`).  State: `entries` (id → status), mirrored
row by row in storage.  Operations: `enqueue`, `flush`, `markSent`,
`markFailed`, `clear`, `hydrate`.  Called by the chat service and the client.
Hard: `flush` awaits its sender between entries of a snapshot, nothing
serialises flushes, storage writes are not awaited, a crash may come anywhere.
Correct when: no accepted entry is forgotten, an unsent entry stays on disk,
the limit holds, older goes before younger, everything is sent in the end.

**Chat service** (`HLessEnd/chat-service.ts`, `message-codec.ts`).  State: what
has been announced (`emitted`), what was there before (`baseline`), reactions,
receipts.  Operations: `createChannel`, `addParticipant`, `removeParticipant`,
`sendMessage`, `ingestRemote`, `emitSynced`, history.  Uses the document
manager, the session manager (publish) and the outbox.  Hard: one message
arrives by several routes; `ingestRemote` awaits a proof check between the
gate and the record; the baseline is taken from a document that has already
been merged.  Correct when: a message is announced exactly once, recorded
before it leaves, and only participants get it.

**Session manager and peer registry** (`HLessEnd/session-manager.ts`,
`peer-registry.ts`).  State: peers known, paired, connected; who has made a
pairing request.  Operations: `registerConnection`, `publish`, the routing of
every inbound stream.  Hard: pairing is one-sided until both have done it;
being paired is not being entitled.  Correct when: nothing reaches or is taken
from a peer that is not entitled.

**Documents and their synchronisation** (`core/crdt/document-manager.ts`,
`sync-engine.ts`, `sync-protocol.ts`, `state-root.ts`, `schema-lens.ts`).
State: one Automerge document per channel; per peer, Automerge's sync state.
Operations: the edits of a document, `beginSync`, `handleMessage`.  Hard:
concurrent edits of the participant list; sync state that outlives its
connection.  Correct when: replicas that exchange converge, and only to those
entitled.

**Membership** (`core/crdt/membership-sync.ts`, `membership-tree.ts`,
`membership-departure.ts`, `sparse-merkle-tree.ts`, `HLessEnd/group-service.ts`).
State: a bounded tree of identity commitments, departure tombstones, and per
peer a partly received list and whether it was answered.  Operations: create,
import, join, leave, and the handlers of roots, lists and departures.  Hard:
nothing is retried; answers are interleaved with other answers; eviction.
Correct when: the trees of all members converge, removal wins.

**Transports** (`core/transport/`).  Local (in-process), WebSocket through a
relay, bridged over byte pipes the host application owns, and iroh over QUIC.
State: connections and handshakes by peer or by pipe, queued bytes, timers.
Operations: `connect`, `accept`, `send`, `close`, the handlers of the socket,
the pipes and the streams; the four steps of the handshake; the frame codec and
reassembly; the priority queue; `RelayFailoverManager.establish`.  Hard: what is
kept by peer outlives the session it was meant for; two handshakes with one peer
cross; bytes arrive before anyone listens; a failed handshake tears down by id;
ends notice a loss separately; an attempt given up on may still succeed.
Correct when: both ends agree on the session and its streams, a frame is heard
on the session it was sent on and in order, every call settles.

**Blob transfer** (`HLessEnd/blob-service.ts`).  State per fetch: bytes
received, peers tried, a stall timer; a row of what arrived.  Hard: answers find
a fetch by hash, not by request; the timer races the last write.  Correct when:
honest peers never make a corrupt blob, nothing that arrived is thrown away,
whoever asked is answered.

**Vouchers and trust** (`HLessEnd/wot/`, `trust-service.ts`).  State: requests in
flight, issued counts, spent nullifiers, counters per peer.  Hard: late answers,
asynchronous read-modify-write, a key generated on first use, spent marks lost
in a crash.  Correct when: a voucher is what its issuer signed for that request,
credited once, and whoever asked is told.

**Slashing** (`HLessEnd/slashing/`).  State: points by nullifier, revocations,
the blacklist.  Hard: points and tombstones come by several ways and in any
order, applying a verdict awaits storage.  Correct when: only who used an index
twice is slashed, and evidence ends in the blacklist.

**Proofs** (`core/zk/`, `HLessEnd/proof-service.ts`).  State: workers, jobs, a
bounded queue, timers.  Hard: a job's timeout racing its result, reset and
disposal under load.  Correct when: no job is lost and all settle.

**Profiles and pairing requests** (`HLessEnd/profile-service.ts`,
`pairing-request.ts`, `client.ts`).  State: own profile, those of others, to whom
it was offered.  Hard: two connections with one peer, offers remembered per
peer, answers to answers.  Correct when: strangers learn nothing, a published
profile arrives, the exchange ends.

**Storage, secrets, identity, cryptography** (`HLessEnd/storage/`,
`identity-service.ts`, `core/crypto/`).  State: rows, an ordered write queue, the
key that seals them.  Hard: writes that are rejected or still queued at a crash,
one process after another under different salts, two identities in one table.
Correct when: a node keeps its identity and opens what it sealed, and what was
held at `disconnect()` is there at the next start.

`PROJECT.json` lists the components with what is modelled of each, and the
hazards of the code, each at the line where it bites.

## 2. The modules

| module | models | checked by | proved in |
| --- | --- | --- | --- |
| `OutboxOps`, `Outbox` | `outbox.ts`: one queue, its rows in storage, concurrent flush passes, crashes | `MCOutbox` | `OutboxProofs` |
| `ChannelDoc`, `Messaging` | several nodes in one conversation: chat, sessions, peers, documents, outboxes, connections | `MCNode`, `MCMessaging` | `MessagingProofs` |
| `Reactions` | reactions: what is written, merged and told, over restarts | `MCNode` | `MessagingProofs` |
| `Node` | `Messaging` and `Reactions` side by side | `MCNode` | `MessagingProofs` |
| `GroupView`, `Membership` | one group: trees, departures, roots and lists, connections, restarts | `MCMembership` | `MembershipProofs` |
| `BlobTransfer` | `blob-service.ts` over two kinds of storage driver | `MCBlobTransfer` | `BlobTransferProofs` |
| `Sessions` | connections, pairing and profiles of two clients | `MCSessions` | `SessionsProofs` |
| `RelaySessions` | `websocket-transport.ts` and the relay between two clients | `MCRelaySessions` | |
| `DocSync` | `sync-engine.ts` with Automerge's per-peer state, checkpoints, crashes | `MCTraffic` | `ChannelTrafficProofs` |
| `Slashing` | anonymous messages, their shares, evidence, tombstones | `MCTraffic` | `ChannelTrafficProofs` |
| `ChannelTraffic` | `Slashing` and `DocSync` side by side | `MCTraffic` | `ChannelTrafficProofs` |
| `Endorsements` | vouchers and trust counters | `MCEndorsements` | `NodeServicesProofs` |
| `WorkerPool` | `worker-pool.ts` | `MCEndorsements` | `NodeServicesProofs` |
| `Vault` | identity, storage key, document snapshots over the processes of one node | `MCEndorsements`, `MCVault` | `NodeServicesProofs` |
| `NodeServices` | `Endorsements`, `WorkerPool` and `Vault` side by side | `MCEndorsements` | `NodeServicesProofs` |
| `BridgedSessions` | `bridged-transport.ts` over the host's pipes | `MCTransports` | `TransportsProofs` |
| `IrohSessions` | one connection of `iroh-transport.ts` | `MCTransports` | `TransportsProofs` |
| `RelayFailover` | `relay-failover.ts` | `MCTransports` | `TransportsProofs` |
| `Transports` | `BridgedSessions`, `IrohSessions` and `RelayFailover` side by side | `MCTransports` | `TransportsProofs` |

A handler is one action; one that awaits is an action per piece, with what it
read before the await kept in the state.  Histories (`accepted`, `announced`,
`handed`, `chosen`, `ran`, ...) exist for the properties only and no guard reads
them.  A definition that ends in a bug's name and is introduced as a "faulty
variant" is the body a property is tried against; nothing else uses it.

Some modules put components side by side that share no state: `Node`,
`ChannelTraffic`, `NodeServices`, `Transports`, and for the instances of one
component `MCMembership`.  In the runs a behaviour is of the one that `subject`
names; the others stay in their initial state, so that the state space is the
sum of those of the components and not the product.  `subject` is part of the
specification in `ChannelTraffic`, `NodeServices` and `Transports`; `Node` lets
messages and reactions interleave freely, which is what its theorems are about,
and `MCNode` adds the cut.  The properties of the components appear in these
modules under their own names.

### `OutboxOps`, `Outbox`

`queue` is `entries` (a function from the ids held to their status),
`createdAt` and `clock` what `flush` sorts by.  `passes[p]` is a call of
`flush` that is under way: the rest of its snapshot and the entry whose sender
it awaits.  `disk` holds the rows, `writes` the writes issued and not yet
applied; `StorageApplies` and `StorageRejects` settle the oldest.  `Restart`
loses everything but `disk` and hydrates.

### `ChannelDoc`, `Messaging`

Automerge is outside the repository and is modelled by what the code relies on:
a replica is a set of changes; a change writes one key, replaces the writes of
that key its author knew and is numbered above all it had seen; merging is
union; a key shows its highest live write.  On that stand the operations of the
document manager that the chat service calls.

`Messaging` is one conversation.  Per node: `doc`; `registry`, `live`, `online`,
`due`; `outbox` with its passes; `emitted`, `baseline`, `sighted` and
`announced`; `ingest`, the frames between two awaits of `ingestRemote`.  Between
nodes `wire[n][m]`, per message `stage`, where `sendMessage` stands.  A
connection is lost at one end at a time, with all that end was about to receive.
`Sync` abstracts an exchange of the sync engine to a one-way merge with the
checks of both sides; `DocSync` looks at the exchange itself.

`StaysOut` is what `removeParticipant` says of a removal: "This stops future sharing
... in both directions".  `Out(m)` holds when all others have the document and none
lists m; a step from there either leaves m out, hands it no message it had not been
handed, and lets none of its messages in, or is one by which another adds m
(`Readmits`).  It is an action property over the whole of `Messaging`: recipients are
chosen from the list and the connections at each send, inbound frames are checked
against the list, a merge is allowed by both sides, and changes of one key are
decided by what each author had seen.

### `Reactions`, `Vault`

A reaction is a write to the slot `reactionKey`; the slot shows the write that
is highest among those no other replaces.  `seen` is `reactionState` of the chat
service and `sighted` whether it has the channel; `view` is what an application
shows that reads once and then listens.  A process that stops keeps `stored`.

In `Vault` a phrase is a member of `Seeds`, a ciphertext the key and salt that
open it.  `rows` is the identity table in order of first insertion (the order
both drivers return), `puts` the identity writes in flight, `queue` the ordered
queue of the document store with its first `failure`.  `phase` follows
`bootstrapInternalEngine` and `disconnect` from await to await; a crash is
possible in each.

### `GroupView`, `Membership`

A commitment is named by the node whose it is, and a root by the set it is
computed from: the tree orders its leaves canonically, so equal roots mean equal
sets.  `known` are the nodes that have stored the group, `held` those with a
tree in memory, `tree` and `departed` the two halves of the two-phase set,
`state[n][m]` what `PeerChannelState` keeps.  `Receive` is one frame up to its
first await, `Continue` each further frame of the answer, so that two answers to
one peer may mix.  `LinkLost` and `Connect` keep `state`, because `removePeer`
has no caller; `Restart` loses what is in memory only.

`GroupView` says what a caller may rely on: a view gains only commitments their
owners have offered by joining, and loses one only because its owner left, the
view is full, or the node starts over.  A merge is its `Learn`, a departure its
`Forget`; roots, answers and connections stutter.

### `BlobTransfer`

`calls` are callers of `get`, `fetches` the transfers they started, `pending` the
one the service holds under the hash: frames and timers find that one, whoever
they were meant for.  `requests` is the driver's queue: SQLite (`"sqlite"`)
serves a request before anything else runs, IndexedDB later.  Content is which
chunks are right.

### `Sessions`, `RelaySessions`, `BridgedSessions`, `IrohSessions`

`Sessions` starts where the transports end.  A connection is one object per end;
the registry keeps the last, frames of all open ones are handled (`handled`),
and `offered` is kept per peer.  In `RelaySessions` a node is a record (`node`)
of socket, places by peer (`conn`, the dial, the accept, the waiting reader, the
queued bytes) and tasks, one per handshake, each where it awaits; operators
transform such records in the order the code does.  In `BridgedSessions` a host
reports what happens on a pipe in the line `events[n][p]`, and JavaScript handles
each report with everything it resumes; reports of different pipes come in any
order; ids may be used again once a pipe is gone and both ends have heard.  A turn
of `send()` goes through the two bands of the priority queue (`flushed`).  In `IrohSessions` the two ends may be of different
builds; the accepter takes sub-streams in any order and knows each by its tag, which
names one of `Known` or nothing to it; sub-streams are read in loops of their own.

### `DocSync`, `Slashing`, `Endorsements`, `WorkerPool`, `RelayFailover`

`DocSync` has roots, matches and deltas as frames and Automerge's sync state per
peer (`sync`), which outlives connections as in the code.  The library's Bloom
filter is taken to be exact.  A message carries the heads of the document it was
generated from, which after an edit are the new change alone.  `Slashing` names a point by the nullifier and the
x it is at; two points of one nullifier prove; a verdict is applied when its row is
stored (`Blacklisted`) or refused (`Rejected`), after which nobody is told.  `Endorsements` names a voucher by
its request and a counter's change by its read and its write.  `WorkerPool` is
the whole class; executors may never return.  `RelayFailover` is `establish` with
overlapping calls; each call counts its refusals by relay, and how many tries a relay
gets (`mayRetry`) is the code's, one more than the option's comment says (section 5).

## 3. What is checked

Every passing run explores its instance completely.  Together they make 40
checks, each with a mutant of the code's model that it refutes.

| run | instance | shows |
| --- | --- | --- |
| `outbox` | 2 ids, 2 passes, 1 restart, 1 clear, 1 failed write, 2 writes in flight | `NothingForgotten`, `DurableUntilSent`; `EventuallySent` |
| `node` | 2 nodes from first contact with an anonymous message and 1 lost link; 3 nodes that have paired, of which two remove, add and write while the third names the others, is connected to one of them and may write too, 2 edits; 2 nodes reacting thrice, 1 checkpoint, 1 crash | `AnnouncedOnce`, `RecordedFirst`, `InboundNeverAdmits`, `Isolation`; `RemovedStaysOut`; `LastWord`, `NoReplay` |
| `membership` | 3 connected nodes, 3 joins, 1 may leave, lists in pieces of 2, 2 answers at a time; the same with 1 lost connection and 1 restart; 3 members and room for 2, pieces of 1, an observer and 1 restart | `RemoveWins`, `Converged`, `ViewSpec`; `GroupExchangesEnd` |
| `blob_transfer` | 2 peers, 2 callers, 3 chunks, both drivers, 1 fault or application call, 2 storage requests in flight | `HonestNeverCorrupt`; `KeepsWhatArrived`; `NeverHangsAtOnce` |
| `sessions` | 2 clients, 2 connections, 1 move (a profile changed, a request, a connection lost) | `StrangersLearnNothing`; `PublishedArrives`; `ExchangeEnds` |
| `relay_sessions` | 2 clients, 2 calls of `connect`, 4 handshakes each, 2 moves | `OneSession`; `EveryoneSettles` |
| `docsync` | 2 nodes, 3 changes, 2 connections, 1 loss or crash, checkpoints only while one of these is left | `Converged`; `ConversationEnds` |
| `slashing` | 2 nodes, an open and a gated channel, 2 messages, 2 epochs, quota 1, 1 move (a loss, a failed send or write, a crash, a retirement) | `HonestNeverSlashed`; `EvidenceBlacklists` |
| `vouchers` | 2 requests, 1 call for the key, 2 epochs, quota 1, 2 moves; a pool of 1 worker, queue of 1, 3 jobs, 1 reset; 2 processes of a node with 2 phrases, a key of bytes, a passphrase and none, 1 rejected write | `VouchersAreSigned`, `CreditedOnce`, `AskersAreTold`; `NoJobLost`, `EverySubmitSettles`; `SameKeyOpens`, `OneIdentity`, `DisconnectKeeps`, `Settles` |
| `connections` | 2 pipes under 1 id, 1 turn of frames, 1 loss; 3 builds of iroh dialers, sub-streams accepted in any order, 2 frames; 2 relays, 2 retries, 2 overlapping calls | `FramesAsSent`, `EndsAgree`; `SameStreams`, `GoneIsNoticed`; `Ladder` |

What the properties exclude is part of their statement: `Converged` of
`Membership` speaks of behaviours without loss and restart, `DocSync`'s of those
in which no frame was lost, `LastWord` of processes that lost nothing unstored,
`CreditedOnce` of nullifiers a crash did not take from the queue, `EndsAgree` and
`FramesAsSent` of pipes on whose channel no other's session was established
(`NoZombie`), `EvidenceBlacklists` of rows that storage takes, `RemovedStaysOut` of the
time from which the removal is known to all others.  Each exclusion is needed; section
5 says what happens without it.

Bounds.  Two of a kind are what a race needs: two passes, two connections, two
handshakes, two answers, two callers; a third node gives a relay, a third change
one that arrives while two cross, a third chunk one that is neither first nor
last, a third job one refused by the full queue.  Limits of the code are made
small with their relation kept (`MaxSize`, `Capacity` and `ChunkSize` for 4,096
commitments in frames of 1,024, `WindowQuota`, `Quota`, `Depth`,
`maxRetriesPerRelay`).  The other bounds (`MaxMoves`, `MaxLosses`, `MaxEvents`,
`MaxCalls`, `MaxWire`, ...) count what the application or the environment does
and do not appear in the code.  One message suffices for two
nodes of `Messaging` because messages interact only through the outbox.  With three
nodes there are two, one by a participant connected to the node that is removed and
one by that node, and one of them is sent (`Bounded` in `MCNode`): what the removed
node may receive and what may be let in from it are separate questions.  `Bounded`
also keeps that node to one connection, which the participant dials, and lets frames
to it lie unread, because they count as received when they are on their way; other
ways and readings are covered by the theorem.  Without any one of the checks in
`Recipients`, `Sync` and `Receive` the run finds the property violated.  Deadlock is not checked: with its
bounds used up and everything delivered a system rests.

Fairness.  No module assumes that an application calls, that a connection is
lost or comes back, or that a peer answers, with the exception of the outbox.

| module | assumed | because |
| --- | --- | --- |
| `Outbox` | a flush recurs while something is pending, a send settles, one tried again and again succeeds, storage applies | `client.ts` drains on every connection; without a connection the code promises nothing |
| `Membership`, `DocSync`, `Sessions`, `RelaySessions` | frames that can be delivered are, replies begun are finished, timers run | handlers run on one event loop, timers are armed in the code |
| `BlobTransfer`, `WorkerPool` | timers fire, storage answers; no peer or executor need | `setTimeout` is all the code relies on |
| `Endorsements`, `Slashing`, `Vault` | awaited steps and storage go on | they await promises of their own process |

`MCMessaging_done` and `MCVault_recovery` are the two runs that expect a
violation: statements of the documentation that the code does not keep.

- `messaging_done` (`DoneMeansHanded`): a drain that publishes to nobody marks
  the entry sent (`client.ts:981`).
- `vault_recovery` (`RecoveryLasts`): where an identity existed before the phrase
  was entered, a later start may load that one again (`identity-service.ts:374`).

## 4. What is proved

For all values of the constants that satisfy the modules' assumptions
(`OutboxAssumption`, `DocAssumption`, `MessagingAssumption`, `ReactionsAssumption`,
`MembershipAssumption`, `BlobAssumption`, `SessionsAssumption`,
`SlashingAssumption`, `ReplicasAssumption` and `SubjectsAssumption`,
`EndorsementsAssumption`, `PoolAssumption` and `VaultAssumption`,
`BridgedSessionsAssumption`, `IrohAssumption` and `FailoverAssumption`), which TLC
evaluates in the runs.  A module instantiated by another states its assumption as
a definition, and the module that instantiates it assumes that.  Each proof
starts from the types of the variables and strengthens the property until it is
inductive; TLC checked the strengthened invariants before they were proved.

- `OutboxProofs`: `NeverForgotten`, `AlwaysDurable`.  `NothingForgotten` is
  inductive once the entry a pass has in hand, and the rest of its snapshot, are
  known to be accepted ids.  `DurableUntilSent` is not: the strengthening says
  what the writes in flight will do, namely that only ids already sent have a
  deletion waiting.
- `MessagingProofs`, about messages: `Isolated`, `HeardOnce`, `FramesNeverAdmit`,
  `RecordedFirstAlways`, `StaysOutAlways`.  `IInv` relates the announcements to `emitted`, keeps a
  node's own messages marked from the moment they are recorded, and follows a
  message through wires, ingests and documents: each place that holds it belongs
  to its author or to a node that some other node's change lists.  For
  `RecordedFirst`, `RecIInv` says of every document that changes are numbered
  above those they replace and that no change deletes a message; the live write of
  a key with the greatest number is then still a message.  `StaysOutAlways` needs of
  `IInv` that what is queued, in a pass or on the wire of a node is its own messages.
  Its core is about the document: a merge lists nobody whom neither replica lists,
  because what replaced a write at one of them comes along (`MergeAddsNothing`), and an
  edit lists only whom it writes (`StillUnlisted`).
- `MessagingProofs`, about reactions: `LastChoiceShows`, `NothingReplayed`.
  `ReactIInv` says that no two writes have one rank and number, because a process
  gets a rank of its own and numbers above all it has; that a node that lost
  nothing keeps every write in its name; and that what was held when a process was
  ready is still there, and seen once the channel was sighted.
- `MembershipProofs`: `RemovalWins`, `ImplementsView`.  `RemoveWins` is inductive
  by itself.  The refinement is not: a merge is a `Learn` only if what it merges
  was offered, so the strengthening says that all that is under way, on wires, in
  answers and in half-received lists, was honest when sent (`Genuine`).
- `MembershipProofs`, about convergence: `ConvergedTogether`, for any number of
  nodes that are `Together`: they fit into one frame (1,024 commitments) and into
  the trees, all may connect to each other, each joins as it imports, the creator
  stays, and who leaves does not come back.  `Gathered` says, as long as no
  connection was lost and nobody restarted, that who has joined holds the group
  until it leaves, that a departure is known to everybody or on its way, and of
  every two holders n and m (`Told`) that m has n's commitment, or a list with it,
  a root that will be answered with one, or a list that will be answered with what
  it lacks is on its way; and that the mark `responded`, which suppresses such an
  answer, is set at n only when m does not need it.  Without any one of the conditions TLC
  finds three nodes that do not converge: on a chain a merge is not passed on; an
  observer announces nothing; a tree made when the creator has left names it
  still; one who is back is in its own tree only; pieces overflow (section 5).
  The `membership` run checks the property where the theorem does not reach, with
  lists in two pieces, which for three nodes never overflow.
- `BlobTransferProofs`: `NeverCorrupt`, `NothingArrivedIsLost`, for any number of
  peers, callers and chunks.  For the first the strengthening says of every place
  that holds bytes (rows, storage requests, buffers, frames) that while all peers
  are honest it is a prefix without holes, also when the chunks came from
  different peers and fetches.  For the second, `KInv` says that with a driver that
  serves requests at once at most one waits and is never behind the row it writes,
  and that the pending fetch has at least what the row has.
- `SessionsProofs`: `StrangersLearnNothingAlways`, for any number of connections.
  `PairedIInv` says of every profile under way that whoever sends it has paired
  the other, also when the connection it travels on has been replaced.
- `ChannelTrafficProofs`, about slashing: `OnlyReuseIsSlashed`, for any number of
  nodes, channels, messages and epochs.  The strengthening says of each point, on
  a wire or in a collector, whose message it is, and of each message in
  preparation that its index counts messages already in its author's document, so
  that two sends of one channel that overlap give one point and not two.
- `ChannelTrafficProofs`, about documents: `ConvergedAlways`, for any number of
  changes, connections and crashes.  `SyncIInv` says, as long as no frame was
  lost: a document is whole, so that equal heads mean equal documents; of the
  heads a node told last, that the other has them, is about to read them, has just
  read them and nothing behind them, or is about to be answered (`ToldHeads`);
  that not both wait for an answer while nothing is under way (`SomeoneAnswers`);
  and how far the exchange of roots is, after which each node either has nothing
  to say or still has the document that both roots showed (`Opened`).
- `NodeServicesProofs`: `VouchersAreSignedAlways`, `CreditedOnceAlways`
  (`VouchersIInv`: what is under way, and what waits to be redeemed or written, for
  each request); `NoJobLostAlways` (`PoolIInv`: where each job is, and that none
  waits beside an idle worker); `SameKeyOpensAlways`, `OneIdentityAlways`,
  `DisconnectKeepsAlways` (`VaultIInv`: what the rows, the writes in flight and the
  process under way have in common, phase by phase).
- `TransportsProofs`: `SameStreamsAlways`, `GoneIsNoticedAlways` (`QuicIInv`: what
  each end has opened, adopted and still has to read, for any builds and in whatever
  order sub-streams are accepted);
  `LadderAlways` (`FailoverIInv`: the tries each call has behind it).
- `TransportsProofs`, about pipes: `FramesAsSentAlways`, which covers QUIC as well,
  and `EndsAgreeAlways`, for any number of pipes, ids and frames.  `PipesIInv`
  takes what is due at one end of a pipe, the reader's buffer and what its host has
  still to report, as one sequence, so that a byte moving from one to the other
  changes nothing.  Of that sequence it says in which order the kinds of message
  come (`Lined`), that a closed pipe's ends with the news of it (`Ending`), and that
  frames are as far apart as they were sent (`Steady`), up to the last sent while
  the pipe is open (`UpTo`); of the two ends, how far one handshake can be given the
  other (`Meeting`), and that an accepter whose handshake is over has a session, or
  a disconnect of the pipe is asked for (`Agreement`).  The rest ties ids to pipes:
  a channel with a reader or a session is that of the pipe that last had its id.
  Both properties are stated, and the invariant holds, as long as no session was
  established on a channel that is not its own (`stray`, section 5: `NoZombie`).

Only model-checked:

- liveness, in every module;
- `OneSession` of `RelaySessions`: the model handles what is queued with folds over
  sequences and filters them when a link goes, and what a fold or a filter returns
  for every sequence takes an induction the provers do not do;
- `Converged` of `Membership` for lists in pieces, of which it holds only while no
  two answers overflow (section 5);
- `RemovedStaysOut` under that name: it is `StaysOut` of an instance with three
  nodes, and `StaysOutAlways` has any number of them.

## 5. Where code and documentation disagree

The two runs above are in `PROJECT.json` with the statements they refute.  The
others were met on the way.  Where a module defines a property of that name it is
the statement that fails (TLC refutes it on the run's instance or one named
here); the rest are read off the action that models the line.

Messaging and membership
- `AnonymousNeverNamed`: the replay of an anonymous message carries the author's
  did:key (`client.ts:984`; `chat-service.ts:243` says that this would defeat it).
- `MergedAnnounced`: messages that arrive with the first sync of a channel are
  never announced (`chat-service.ts:713` against :688).
- A replay overwrites a stored message with one without attachments
  (`client.ts:981`); a participant that has not seen a removal goes on
  synchronising with the one removed (`document-manager.ts:202`).
- `JoinersAdmitted`: the mark `responded` outlives its exchange
  (`membership-sync.ts:298`).  At capacity the tree depends on the order of
  arrival (`membership-tree.ts:316` against :309).
- `Converged` with pieces of one, three nodes and room for three, when the creator
  joins again: two answers to one peer that overlap (`session-manager.ts:562`) fill
  one buffer, exceed its limit together and are both dropped
  (`membership-sync.ts:274`; the comment at :65 says that so many cannot describe a
  valid membership).
- What a node learns by a merge it does not pass on (`membership-sync.ts:288`);
  departures are not sent back to a peer that lacks them (:162); a node that leaves
  and joins again is a member in its own tree only (`group-service.ts:195`).

Outbox, blobs
- `SizeBounded` with three ids and two passes: a pass re-inserts an entry another
  has sent (`outbox.ts:125`).  A failed entry does not hold back younger ones of
  its channel (`outbox.ts:119` against the comment at :110).
- `NeverHangs`: a fetch that ends deletes a newer one from `pending`
  (`blob-service.ts:420`), whose callers then wait for ever.  `WrongNeverStored`: a
  full but wrong prefix may be stored by a late save (:410 against :108).

Sessions and transports
- `DiallingPairs`: a dial that finds an existing connection does not pair
  (`client.ts:709` against :707).  `AskIsAnswered`: a profile asked for on a second
  connection is not sent (`client.ts:686`, :319).  The close of a replaced
  connection reports the peer as gone (:752).  A pairing request is accepted once
  per process and not per connection (`session-manager.ts:433`).
- `EndsForBoth`: a relay session refused at one end stays at the other
  (`websocket-transport.ts:558`); `start()` keeps a rejected promise (:284); timers
  remove what a later call placed (:453, :625).
- `FirstFramesHeard` (bridged and iroh): frames behind the last handshake message
  are emitted before anyone listens (`bridged-transport.ts:478`,
  `iroh-connection.ts:178`).  `NoZombie`, `EndsItsOwn`: a handshake whose pipe is gone
  establishes a session on a fresh channel, a failed one drops whatever has its id
  (`bridged-transport.ts:463`, :453).
- `UnknownAdopted`: "A tag this build does not recognise is still adopted"
  (`iroh-transport.ts:367`, and RFC 001 section 5, item 5: a responder "MUST adopt a
  stream whose tag it does not recognise"), but line 373 passes such a stream over:
  `readStreamTag` (`iroh-connection.ts:323`) answers nothing for a tag it does not
  know.  `SameStreams` therefore speaks of the types the accepter knows.
- `AttemptsPerRelay`: `maxRetriesPerRelay` is documented as "Attempts per relay endpoint
  before moving to the next" (`relay-failover.ts:40`); the loop at :220 runs once more.
  `Ladder` asks for at least as many attempts as the option grants, on either reading.
- `BadFrameDropsOnlyItself`: a frame that does not inflate ends its stream's loop
  (`iroh-connection.ts:305`).
- `OneConnection`: a direct attempt given up on may still connect beside the relay
  (`relay-failover.ts:71`); a relay attempt has no deadline.

Trust and slashing
- `OneKey`: two first calls generate two keys (`identity-service.ts:208`).
  `EndsByItsOwnAnswer`: an answer ends whichever request is in flight to that peer
  (`voucher-handshake.ts:98`).  `NeverCreditedTwice`: a crash before the queue has
  written (`voucher-store.ts:89`).  `EveryIssueDebited`, `BlacklistedStays`: two changes
  of one row read before either wrote (`trust-store.ts:95`, :152).
- `RefusedOnlyOverQuota`: the index is the channel's message count, whoever wrote
  them (`chat-service.ts:241`), so that a busy channel exceeds everybody's quota; and
  a node that writes anonymously in two channels in one epoch may use one index
  twice and be slashed (`client.ts:1223`), which is why `HonestNeverSlashed` excludes
  it.  A message refused as a frame arrives by synchronisation.  A failed send of a
  tombstone suppresses the local event; a refused write of its row suppresses the
  gossip too, and nothing tries again until a restart, because the commitment counts
  as revoked (`slashing-coordinator.ts:219`).

Documents, identity, proofs
- `Resumes`: the sync state of a lost connection is kept, and what was in flight is
  never sent again (`sync-engine.ts:99`).  `NeverForgets`: frames handled before the
  documents are restored are overwritten by them (`client.ts:1123`, :1144).
- `NeverReplayed`, `ViewFollows`, `LastWordAlways`: reactions merged before the first
  sight are not told, those after a restart may be told again if peers come first,
  and a choice lost in a crash may lose to an older one (`chat-service.ts:639`).
- `OnlyRecoveryReplaces`: a key pair being generated when a phrase is entered puts
  the old identity back (`identity-service.ts:214`).  What is edited between the
  checkpoint and the close of `disconnect()` is lost (`client.ts:1036`).
- `CountedOnce`, `ExecutorsBounded`: a timer of a run that reset() abandoned counts
  again, and "terminated" workers' executors go on (`worker-pool.ts:226`, :13).

## 6. Not modelled

- Cryptography, encodings, tickets, mDNS, sockets and the native bindings: pure
  functions, or I/O without decisions of this code.  The modules say what they
  rely on: a signature verifies or not, a line has one secret, a stream delivers
  in order until it ends.
- The nonce registry of the handshake and its clock skew: time windows over large
  nonces, a question of arithmetic more than of order.
- Session credit and the score (`session-tracker.ts`, `score-calculator.ts`): sums
  and thresholds of one process; the message store, migrations, read receipts,
  typing, schema lenses and the rosters of groups.
- One exchange over several documents: `DocSync` has one, `Messaging` takes the
  exchange as a step.  That each synchronisation of `DocSync` is a merge of
  `Messaging` is not checked by a refinement, because `DocSync` numbers changes
  without keys.

What would add most next: the message store and `hydrate` order of a whole node
over one storage (with `Vault`'s start), several documents in one `DocSync`
conversation, the nonce registry, and the inductive invariant of `RelaySessions`.
