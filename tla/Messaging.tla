----------------------------- MODULE Messaging -----------------------------
(***************************************************************************)
(* One conversation among several nodes: HLessEnd's client, chat service,  *)
(* session manager, peer registry and outbox, each node running all of     *)
(* them.  A message reaches a node as an E2EE frame from its author        *)
(* (sendMessage, or the outbox's replay of it), or inside the document     *)
(* when two replicas synchronise.                                          *)
(*                                                                         *)
(* What one synchronisation exchanges is the concern of another module;    *)
(* here a replica hands another its whole document in one step.  Nodes do  *)
(* not restart here, and the outbox never fills up: Outbox covers both.    *)
(***************************************************************************)
EXTENDS ChannelDoc, OutboxOps, Sequences

CONSTANTS
  NoMsg,       \* not a message
  Author,      \* who sends each message
  Anonymous,   \* messages sent with `anonymous: true`
  Rich,        \* messages with attachments or replyTo
  Passes,      \* flush() calls that may be running at one node
  GuestLists,  \* the lists an application passes to createChannel or sendMessage
  Contacts,    \* whom each node has paired at the start
  Declared,    \* the guests each node has declared at the start, {} for none
  MaxChanges,  \* bound on how far a document's change numbers go
  Editors,     \* nodes whose application edits the guest list
  MaxLosses,   \* bound on connections lost and nodes taken offline
  MaxWire      \* bound on the frames in flight from one node to another

ASSUME MessagingAssumption ==
  /\ NoMsg \notin Msgs
  /\ Author \in [Msgs -> Nodes]
  /\ Anonymous \subseteq Msgs /\ Rich \subseteq Msgs /\ Editors \subseteq Nodes
  /\ GuestLists \subseteq SUBSET Nodes
  /\ Contacts \in [Nodes -> SUBSET Nodes] /\ Declared \in [Nodes -> SUBSET Nodes]
  /\ {MaxChanges, MaxLosses, MaxWire} \subseteq Nat

VARIABLES
  doc,       \* each node's copy of the conversation
  registry,  \* registry[n][m]: what n's PeerRegistry says of m
  live,      \* whom n holds an Active connection to
  online,    \* the client's `online` flag
  due,       \* a connect() is about to call drainAfterReconnect
  stage,     \* how far sendMessage has come with each message
  outbox,    \* each node's queue: id -> status
  createdAt, clock,  \* when a message was queued
  pass,      \* pass[n][p]: what flush pass p of node n has left to do
  wire,      \* wire[n][m]: frames from n that m has not received, in order
  ingest,    \* frames a node has let in and is still working on
  emitted,   \* the chat service's `emitted` set
  baseline,  \* its `baseline`: ids held when the channel was first sighted
  sighted,   \* whether there is a baseline
  announced, \* history: how often onMessage fired for a message (2 is "more")
  handed,    \* history: nodes a send of the message resolved for
  losses     \* how much of MaxLosses is used

chat  == <<emitted, baseline, sighted, announced>>
queue == <<outbox, createdAt, clock, pass>>
peers == <<registry, live, online, due, losses>>
vars == <<doc, peers, stage, queue, wire, ingest, chat, handed>>

Idle == [todo |-> {}, cur |-> NoMsg, rejects |-> FALSE]

Frame == [id : Msgs, body : Body]
Task  == [id : Msgs, body : Body, step : {"verify", "emit"}]

(* What sendMessage puts on the wire, and what flushOutbox does: it        *)
(* rebuilds the payload from the queue entry, which has the content only,  *)
(* under the local did:key.                                                *)
Original(id) == [id |-> id, body |-> [named |-> id \notin Anonymous, whole |-> TRUE]]
Replay(id)   == [id |-> id,
                 body |-> [named |-> TRUE, whole |-> id \notin Rich \cup Anonymous]]

Paired(n) == {m \in Nodes : registry[n][m] = "paired"}

(* Faulty variant: to everybody paired and connected.                      *)
RecipientsOfAll(n, lv) == Paired(n) \cap lv[n]

(* Whom publish() sends to: paired, connected (by lv) and on the list.     *)
Recipients(n, lv) == Paired(n) \cap lv[n] \cap participants(doc[n])

isOnline(n) == online[n] /\ Paired(n) \cap live[n] # {}

(* The changes, at any replica, that put m on the guest list.              *)
Additions(m) ==
  {c \in UNION {doc[n] : n \in Nodes} : c.key = MemberKey(m) /\ c.val # Gone}

WithinBound(d) == NextCtr(d) <= MaxChanges + 1

(* n sends a frame to each of ok; it is lost unless the other end is up.   *)
Transmit(n, frame, ok, lv, wr) ==
  /\ \A m \in ok : Len(wr[n][m]) < MaxWire
  /\ wire' = [wr EXCEPT ![n] =
       [m \in Nodes |-> IF m \in ok /\ n \in lv[m] THEN Append(wr[n][m], frame)
                                                    ELSE wr[n][m]]]
  /\ handed' = [handed EXCEPT ![frame.id] = @ \cup ok]
-----------------------------------------------------------------------------
Init ==
  /\ doc = [n \in Nodes |-> IF Declared[n] = {} THEN {}
                            ELSE createChannel({}, n, Declared[n])]
  /\ registry = [n \in Nodes |-> [m \in Nodes |->
       IF m \in Contacts[n] THEN "paired" ELSE "unknown"]]
  /\ live = [n \in Nodes |-> {}]
  /\ online = [n \in Nodes |-> TRUE] /\ due = [n \in Nodes |-> FALSE]
  /\ stage = [id \in Msgs |-> "unsent"]
  /\ outbox = [n \in Nodes |-> EmptyQueue]
  /\ createdAt = [id \in Msgs |-> 0] /\ clock = 0
  /\ pass = [n \in Nodes |-> [p \in Passes |-> Idle]]
  /\ wire = [n \in Nodes |-> [m \in Nodes |-> <<>>]]
  /\ ingest = [n \in Nodes |-> {}]
  /\ emitted = [n \in Nodes |-> {}]
  /\ baseline = [n \in Nodes |-> {}] /\ sighted = [n \in Nodes |-> FALSE]
  /\ announced = [n \in Nodes |-> [id \in Msgs |-> 0]]
  /\ handed = [id \in Msgs |-> {}]
  /\ losses = 0

(* ------------------------- the application's calls --------------------- *)

(* addPeer, or accepting a pairing request.                                *)
AddPeer(n, m) ==
  /\ n # m /\ registry[n][m] # "paired"
  /\ registry' = [registry EXCEPT ![n][m] = "paired"]
  /\ UNCHANGED <<doc, live, online, due, losses, stage, queue, wire, ingest,
                 chat, handed>>

EditDoc(n, d) ==
  /\ n \in Editors
  /\ d # doc[n] /\ WithinBound(d)
  /\ doc' = [doc EXCEPT ![n] = d]
  /\ UNCHANGED <<peers, stage, queue, wire, ingest, chat, handed>>

CreateChannel(n, guests) == EditDoc(n, createChannel(doc[n], n, guests))

AddParticipant(n, did) ==
  hasDocument(doc[n]) /\ EditDoc(n, addParticipants(doc[n], n, {did}))

RemoveParticipant(n, did) == EditDoc(n, removeParticipants(doc[n], n, {did}))

(* sendMessage up to its first await: the message is recorded, and marked  *)
(* emitted so that no sync brings it back as news.                         *)
SendMessage(id, guests) ==
  LET n == Author[id]
      d == recordLocally(doc[n], n, id, Original(id).body, guests, n)
  IN  /\ stage[id] = "unsent"
      /\ WithinBound(d)
      /\ doc' = [doc EXCEPT ![n] = d]
      /\ emitted' = [emitted EXCEPT ![n] = @ \cup {id}]
      /\ stage' = [stage EXCEPT ![id] = "recorded"]
      /\ UNCHANGED <<peers, queue, wire, ingest, baseline, sighted, announced, handed>>

(* enqueue of the outbox, as sendMessage calls it.                         *)
Enqueue(id) ==
  /\ outbox' = [outbox EXCEPT ![Author[id]] = SetStatus(@, id, "pending")]
  /\ createdAt' = [createdAt EXCEPT ![id] = clock]
  /\ clock' = clock + 1
  /\ UNCHANGED pass

(* sendMessage after its own storage write: publish when it looks online   *)
(* (each send may fail on its own), else queue.                            *)
Publish(id) ==
  LET n == Author[id] IN
  /\ stage[id] = "recorded"
  /\ \/ /\ ~isOnline(n)
        /\ Enqueue(id)
        /\ stage' = [stage EXCEPT ![id] = "done"]
        /\ UNCHANGED <<wire, handed>>
     \/ /\ isOnline(n)
        /\ \E ok \in SUBSET Recipients(n, live) :
             /\ Transmit(n, Original(id), ok, live, wire)
             /\ stage' = [stage EXCEPT ![id] =
                  IF ok = Recipients(n, live) /\ ok # {} THEN "published"
                                                         ELSE "unpublished"]
        /\ UNCHANGED queue
  /\ UNCHANGED <<doc, peers, ingest, chat>>

(* ... and once publish() has settled: queued unless it reached somebody.  *)
SendSettles(id) ==
  /\ \/ stage[id] = "published" /\ UNCHANGED queue
     \/ stage[id] = "unpublished" /\ Enqueue(id)
  /\ stage' = [stage EXCEPT ![id] = "done"]
  /\ UNCHANGED <<doc, peers, wire, ingest, chat, handed>>

(* --------------------------- draining the outbox ----------------------- *)

(* The loop of flush() up to its next await, with the queue q: the oldest  *)
(* entry left is marked and published; `rejects` is how that will settle.  *)
(* Publishing to nobody is a success here.                                 *)
NextEntry(n, p, q, todo, lv, wr) ==
  \/ /\ todo = {}
     /\ outbox' = [outbox EXCEPT ![n] = q]
     /\ pass' = [pass EXCEPT ![n][p] = Idle]
     /\ wire' = wr
     /\ UNCHANGED handed
  \/ \E id \in Oldest(todo, createdAt), ok \in SUBSET Recipients(n, lv) :
       /\ outbox' = [outbox EXCEPT ![n] = SetStatus(q, id, "sending")]
       /\ pass' = [pass EXCEPT ![n][p] =
            [todo |-> todo \ {id}, cur |-> id, rejects |-> ok # Recipients(n, lv)]]
       /\ Transmit(n, Replay(id), ok, lv, wr)

Drain(n, lv, wr) ==
  LET pending == GetPending(outbox[n]) IN
  IF pending = {} THEN /\ wire' = wr
                       /\ UNCHANGED <<outbox, pass, handed>>
  ELSE \E p \in Passes : /\ pass[n][p] = Idle
                         /\ NextEntry(n, p, outbox[n], pending, lv, wr)

(* The publish a pass is awaiting settles: markSent or markFailed, and on  *)
(* to the next entry.                                                      *)
PassSettles(n, p) ==
  LET r == pass[n][p]
      q == IF r.rejects THEN MarkFailed(outbox[n], r.cur)
                        ELSE MarkSent(outbox[n], r.cur)
  IN  /\ r # Idle
      /\ NextEntry(n, p, q, r.todo, live, wire)
      /\ UNCHANGED <<doc, peers, stage, createdAt, clock, ingest, chat>>

GoOffline(n) ==
  /\ losses < MaxLosses /\ online[n]
  /\ online' = [online EXCEPT ![n] = FALSE]
  /\ losses' = losses + 1
  /\ UNCHANGED <<doc, registry, live, due, stage, queue, wire, ingest,
                 chat, handed>>

(* goOnline flushes, whether or not it was offline.                        *)
GoOnline(n) ==
  /\ online' = [online EXCEPT ![n] = TRUE]
  /\ Drain(n, live, wire)
  /\ UNCHANGED <<doc, registry, live, due, losses, stage, createdAt, clock,
                 ingest, chat>>

(* ----------------------------- connections ----------------------------- *)

(* n dials m (connect, with a ticket that carries a key) and the handshake *)
(* completes: each registers the connection, m drains its outbox at once,  *)
(* n when its own sync frame has been sent.  Frames of an earlier          *)
(* connection between them are gone.                                       *)
Connect(n, m) ==
  LET lv == [live EXCEPT ![n] = @ \cup {m}, ![m] = @ \cup {n}]
      wr == [wire EXCEPT ![n][m] = <<>>, ![m][n] = <<>>]
  IN  /\ n # m /\ m \notin live[n]
      /\ registry' = [registry EXCEPT
           ![n][m] = IF @ = "unknown" THEN "paired" ELSE @,
           ![m][n] = IF @ = "unknown" THEN "stranger" ELSE @]
      /\ live' = lv
      /\ due' = [due EXCEPT ![n] = TRUE]
      /\ Drain(m, lv, wr)
      /\ UNCHANGED <<doc, online, losses, stage, createdAt, clock, ingest, chat>>

(* drainAfterReconnect of the side that dialled.                           *)
DrainAfterDial(n) ==
  /\ due[n]
  /\ due' = [due EXCEPT ![n] = FALSE]
  /\ Drain(n, live, wire)
  /\ UNCHANGED <<doc, registry, live, online, losses, stage, createdAt, clock,
                 ingest, chat>>

(* n's end of its connection to m goes down.  What was coming in is lost,  *)
(* and the part of what was going out that had not left the send queue.    *)
(* The other end does not notice.                                          *)
LinkLost(n, m) ==
  /\ losses < MaxLosses /\ m \in live[n]
  /\ live' = [live EXCEPT ![n] = @ \ {m}]
  /\ \E left \in 0 .. Len(wire[n][m]) :
       wire' = [wire EXCEPT ![m][n] = <<>>, ![n][m] = SubSeq(@, 1, left)]
  /\ losses' = losses + 1
  /\ UNCHANGED <<doc, registry, online, due, stage, queue, ingest, chat,
                 handed>>

(* -------------------------- inbound, frame by frame -------------------- *)

(* handleFrame and handleMessageFrame at m: a stranger's frame is dropped, *)
(* and a frame for a conversation held here by somebody not on its list.   *)
Receive(n, m) ==
  LET frame == Head(wire[n][m])
      admitted == /\ n \in Paired(m)
                  /\ hasDocument(doc[m]) => n \in participants(doc[m])
  IN  /\ wire[n][m] # <<>> /\ n \in live[m]
      /\ wire' = [wire EXCEPT ![n][m] = Tail(@)]
      /\ ingest' = IF admitted
                   THEN [ingest EXCEPT ![m] = @ \cup
                          {[id |-> frame.id, body |-> frame.body, step |-> "verify"]}]
                   ELSE ingest
      /\ UNCHANGED <<doc, peers, stage, queue, chat, handed>>

(* ingestRemote once verifyRlnSignal has returned: an anonymous message    *)
(* may be refused; any other is recorded, and stored under an await.       *)
Refuse(n, t) ==
  /\ t \in ingest[n] /\ t.step = "verify" /\ ~t.body.named
  /\ ingest' = [ingest EXCEPT ![n] = @ \ {t}]
  /\ UNCHANGED <<doc, peers, stage, queue, wire, chat, handed>>

Record(n, t) ==
  LET d == recordLocally(doc[n], n, t.id, t.body, {}, Author[t.id]) IN
  /\ t \in ingest[n] /\ t.step = "verify"
  /\ WithinBound(d)
  /\ doc' = [doc EXCEPT ![n] = d]
  /\ ingest' = [ingest EXCEPT ![n] = (@ \ {t}) \cup {[t EXCEPT !.step = "emit"]}]
  /\ UNCHANGED <<peers, stage, queue, wire, chat, handed>>

(* Faulty variant: emitted without being marked emitted.                   *)
AnnounceUnmarked(n, ids) ==
  /\ announced' = [announced EXCEPT ![n] =
       [id \in Msgs |-> IF id \in ids /\ @[id] < 2 THEN @[id] + 1 ELSE @[id]]]
  /\ UNCHANGED emitted

Announce(n, ids) ==
  /\ announced' = [announced EXCEPT ![n] =
       [id \in Msgs |-> IF id \in ids /\ @[id] < 2 THEN @[id] + 1 ELSE @[id]]]
  /\ emitted' = [emitted EXCEPT ![n] = @ \cup ids]

(* _emitMessage at the end of ingestRemote.                                *)
Emit(n, t) ==
  /\ t \in ingest[n] /\ t.step = "emit"
  /\ ingest' = [ingest EXCEPT ![n] = @ \ {t}]
  /\ Announce(n, {t.id} \ emitted[n])
  /\ UNCHANGED <<doc, peers, stage, queue, wire, baseline, sighted, handed>>

(* emitSynced, after the document became d: the first update of a channel  *)
(* sets its baseline; a later one emits what is in neither set.            *)
EmitSynced(n, d) ==
  IF ~sighted[n]
  THEN /\ sighted' = [sighted EXCEPT ![n] = TRUE]
       /\ baseline' = [baseline EXCEPT ![n] = messages(d)]
       /\ UNCHANGED <<emitted, announced>>
  ELSE /\ Announce(n, (messages(d) \ baseline[n]) \ emitted[n])
       /\ UNCHANGED <<sighted, baseline>>

(* Faulty variant: only who it comes from is checked, not whom it goes to. *)
SyncUnlisted(n, m) ==
  LET d == doc[n] \cup doc[m] IN
  /\ m \in Paired(n) \cap live[n] /\ n \in Recipients(m, live)
  /\ d # doc[m]
  /\ doc' = [doc EXCEPT ![m] = d]
  /\ EmitSynced(m, d)
  /\ UNCHANGED <<peers, stage, queue, wire, ingest, handed>>

(* n offers its document to m (pushDocument and the answers to a root) and *)
(* m merges it (handleSendDelta): both must be connected, have paired and  *)
(* list the other.                                                         *)
Sync(n, m) ==
  LET d == doc[n] \cup doc[m] IN
  /\ m \in Recipients(n, live)
  /\ n \in Recipients(m, live)
  /\ d # doc[m]
  /\ doc' = [doc EXCEPT ![m] = d]
  /\ EmitSynced(m, d)
  /\ UNCHANGED <<peers, stage, queue, wire, ingest, handed>>

Next ==
  \/ \E n, m \in Nodes :
       \/ AddPeer(n, m) \/ Connect(n, m) \/ LinkLost(n, m)
       \/ Receive(n, m) \/ Sync(n, m)
       \/ AddParticipant(n, m) \/ RemoveParticipant(n, m)
  \/ \E n \in Nodes :
       \/ \E guests \in GuestLists : CreateChannel(n, guests)
       \/ GoOffline(n) \/ GoOnline(n) \/ DrainAfterDial(n)
       \/ \E p \in Passes : PassSettles(n, p)
       \/ \E t \in ingest[n] : Refuse(n, t) \/ Record(n, t) \/ Emit(n, t)
  \/ \E id \in Msgs :
       \/ \E guests \in GuestLists : SendMessage(id, guests)
       \/ Publish(id) \/ SendSettles(id)

Spec == Init /\ [][Next]_vars
-----------------------------------------------------------------------------
IsChange(c) ==
  /\ c.actor \in Nodes
  /\ c.key \in {MemberKey(n) : n \in Nodes} \cup {MessageKey(id) : id \in Msgs}
  /\ c.val \in Body \cup {Gone}

PassType == [todo : SUBSET Msgs, cur : Msgs \cup {NoMsg}, rejects : BOOLEAN]

QueueType(q) == DOMAIN q \subseteq Msgs /\ \A id \in DOMAIN q : q[id] \in Status

(* Types; the numbering of changes is left out.                            *)
TypeOK ==
  /\ DOMAIN doc = Nodes /\ \A n \in Nodes : \A c \in doc[n] : IsChange(c)
  /\ registry \in [Nodes -> [Nodes -> {"unknown", "stranger", "paired"}]]
  /\ live \in [Nodes -> SUBSET Nodes]
  /\ online \in [Nodes -> BOOLEAN] /\ due \in [Nodes -> BOOLEAN]
  /\ stage \in [Msgs -> {"unsent", "recorded", "published", "unpublished", "done"}]
  /\ DOMAIN outbox = Nodes /\ \A n \in Nodes : QueueType(outbox[n])
  /\ createdAt \in [Msgs -> Nat] /\ clock \in Nat
  /\ pass \in [Nodes -> [Passes -> PassType]]
  /\ wire \in [Nodes -> [Nodes -> Seq(Frame)]]
  /\ ingest \in [Nodes -> SUBSET Task]
  /\ emitted \in [Nodes -> SUBSET Msgs] /\ baseline \in [Nodes -> SUBSET Msgs]
  /\ sighted \in [Nodes -> BOOLEAN]
  /\ announced \in [Nodes -> [Msgs -> 0 .. 2]]
  /\ handed \in [Msgs -> SUBSET Nodes]
  /\ losses \in Nat

(* Somebody other than m has, at some time, put m on the guest list.       *)
Admitted(m) == \E c \in Additions(m) : c.actor # m

Reached(m, id) ==
  \/ id \in messages(doc[m])
  \/ \E t \in ingest[m] : t.id = id
  \/ \E n \in Nodes : \E i \in 1 .. Len(wire[n][m]) : wire[n][m][i].id = id

(* Pairing is not entitlement (publish, the sync engine's mayShare): by    *)
(* whatever mix of frames, replays and relayed documents, somebody else's  *)
(* message reaches only a node that somebody else put on the guest list.   *)
(* Putting oneself there is not enough.                                    *)
Isolation ==
  \A m \in Nodes, id \in Msgs :
    Reached(m, id) /\ Author[id] # m => Admitted(m)

(* onMessage fires once per message by whichever routes it arrives: frame, *)
(* replayed frame, sync from any peer, with the ingest of a frame open     *)
(* across a sync; and never for one's own (_emitMessage, markEmitted).     *)
AnnouncedOnce ==
  \A n \in Nodes, id \in Msgs :
    announced[n][id] <= IF Author[id] = n THEN 0 ELSE 1

(* What the application has been told of is in the history it can read,    *)
(* and so is everything a node still owes its peers (sendMessage's "record *)
(* it before attempting any network work").                                *)
RecordedFirst ==
  \A n \in Nodes, id \in Msgs :
    \/ announced[n][id] > 0
    \/ Author[id] = n /\ (id \in DOMAIN outbox[n] \/ \E m \in Nodes : Reached(m, id))
    => id \in messages(doc[n])

(* Nobody but m itself lists m, and each of the others has the document.   *)
Out(m) == \A n \in Nodes \ {m} : hasDocument(doc[n]) /\ m \notin participants(doc[n])

(* Somebody else puts m on the list.                                       *)
Readmits(m) ==
  \E n \in Nodes \ {m} :
    \/ AddParticipant(n, m)
    \/ \E guests \in GuestLists : m \in guests /\ CreateChannel(n, guests)

(* A message of m's that one of the others holds or has let in.            *)
Heard(m, id) ==
  \E n \in Nodes \ {m} : id \in messages(doc[n]) \/ \E t \in ingest[n] : t.id = id

(* "This stops future sharing ... in both directions" (removeParticipant), *)
(* once the removal has come to all: until one of the others adds it again *)
(* a removed node gets nothing that was not held there or on its way, and  *)
(* nothing it says is let in.  Neither its own list, nor merging replicas  *)
(* that saw other parts of the removal, nor a pass begun before, nor a     *)
(* frame let in before puts it back.                                       *)
StaysOut ==
  [][\A m \in Nodes : Out(m) =>
       \/ /\ Out(m)'
          /\ \A id \in Msgs : IF Author[id] = m THEN Heard(m, id)' => Heard(m, id)
                                             ELSE Reached(m, id)' => Reached(m, id)
       \/ Readmits(m)]_vars

(* A frame never changes the guest list of a conversation already held:    *)
(* the author is inferred only while a channel is being created            *)
(* (recordLocally), though it was let in while there was none.             *)
InboundNeverAdmits ==
  [][\A n \in Nodes :
       ingest'[n] # ingest[n] /\ hasDocument(doc[n])
       => participants(doc'[n]) = participants(doc[n])]_vars
-----------------------------------------------------------------------------
(* "A message with no eligible recipient is marked delivered and never     *)
(* queued" is what RFC 004 7.5 rules out: once sendMessage has returned,   *)
(* the message is queued or has been handed to somebody.                   *)
DoneMeansHanded ==
  \A id \in Msgs :
    stage[id] = "done" => id \in DOMAIN outbox[Author[id]] \/ handed[id] # {}

(* "Carrying both would defeat the anonymity the nullifier exists to       *)
(* provide" (sendMessage): no copy of an anonymous message names its       *)
(* author.                                                                 *)
AnonymousNeverNamed ==
  \A n \in Nodes, id \in Anonymous :
    id \in messages(doc[n]) => ~BodyOf(doc[n], id).named

(* "Notified nobody ... indistinguishable from the message being lost" is  *)
(* what emitSynced is there to prevent: nobody restarts here, so a message *)
(* of somebody else that is held, and that no frame or replay is still     *)
(* bringing, has been announced.                                           *)
MergedAnnounced ==
  \A n \in Nodes, id \in Msgs :
    /\ id \in messages(doc[n]) /\ Author[id] # n
    /\ stage[id] = "done" /\ id \notin DOMAIN outbox[Author[id]]
    /\ \A t \in ingest[n] : t.id # id
    /\ \A i \in 1 .. Len(wire[Author[id]][n]) : wire[Author[id]][n][i].id # id
    => announced[n][id] > 0
=============================================================================
