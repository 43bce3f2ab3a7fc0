-------------------------- MODULE MessagingProofs --------------------------
(***************************************************************************)
(* Proofs about Messaging, and about the Reactions beside it, for any      *)
(* nodes, messages, guest lists, initial pairings, emojis and bounds.  The *)
(* parts of the inductive invariant of Messaging are operators of the      *)
(* values they constrain, with A for the nodes admitted and S for the      *)
(* messages sent, so that one lemma serves several actions.                *)
(***************************************************************************)
EXTENDS Node, SequenceTheorems, FiniteSetTheorems, WellFoundedInduction, TLAPS

(* The nodes somebody else has put on a guest list, in documents d.        *)
AdmittedBy(d) ==
  {m \in Nodes : \E n \in Nodes : \E c \in d[n] :
     c.actor # m /\ c.key = MemberKey(m) /\ c.val # Gone}

SentAt(st) == {id \in Msgs : st[id] # "unsent"}

(* Of the messages S, those of n.                                          *)
Own(n, S) == {id \in S : Author[id] = n}

Wires == [Nodes -> [Nodes -> Seq(Frame)]]

(* A node lists another only if that one is admitted; it holds a message   *)
(* of another only if it is admitted itself; and only what was sent.       *)
DocsOK(d, A, S) ==
  \A n \in Nodes : \A c \in d[n] :
    /\ IsChange(c)
    /\ \A m \in Nodes : c.key = MemberKey(m) /\ c.val # Gone /\ m # n => m \in A
    /\ \A id \in Msgs : c.key = MessageKey(id) => id \in S /\ (Author[id] # n => n \in A)

WireOK(wr, A, S) ==
  \A x, y \in Nodes : \A i \in 1 .. Len(wr[x][y]) : y \in A /\ wr[x][y][i].id \in Own(x, S)

IngestOK(ing, A, S) == \A n \in Nodes : \A t \in ing[n] : n \in A /\ t.id \in S

QueueOK(ob, S) ==
  /\ DOMAIN ob = Nodes
  /\ \A n \in Nodes : QueueType(ob[n]) /\ DOMAIN ob[n] \subseteq Own(n, S)

PassOK(ps, S) ==
  /\ ps \in [Nodes -> [Passes -> PassType]]
  /\ \A n \in Nodes, p \in Passes :
       /\ ps[n][p].todo \subseteq Own(n, S)
       /\ ps[n][p] = Idle \/ ps[n][p].cur \in Own(n, S)

LiveOK(lv) == lv \in [Nodes -> SUBSET Nodes] /\ \A n \in Nodes : n \notin lv[n]

(* Whatever was announced is marked emitted, and so is what one sent.      *)
ChatOK(em, an, S) ==
  /\ \A id \in S : id \in em[Author[id]]
  /\ \A n \in Nodes, id \in Msgs :
       /\ an[n][id] > 0 => id \in em[n]
       /\ an[n][id] <= IF Author[id] = n THEN 0 ELSE 1

(* The inductive invariant.                                                *)
IInv ==
  /\ TypeOK
  /\ DocsOK(doc, AdmittedBy(doc), SentAt(stage))
  /\ WireOK(wire, AdmittedBy(doc), SentAt(stage))
  /\ IngestOK(ingest, AdmittedBy(doc), SentAt(stage))
  /\ QueueOK(outbox, SentAt(stage))
  /\ PassOK(pass, SentAt(stage))
  /\ LiveOK(live)
  /\ ChatOK(emitted, announced, SentAt(stage))
-----------------------------------------------------------------------------
(* Keys of guests and of messages never coincide.                          *)
LEMMA KeysDiffer ==
  /\ \A m, id : MemberKey(m) # MessageKey(id)
  /\ \A m, k : MemberKey(m) = MemberKey(k) => m = k
  /\ \A id, jd : MessageKey(id) = MessageKey(jd) => id = jd
BY DEF MemberKey, MessageKey

(* The constants' assumption, as the proofs use it.                        *)
LEMMA Constants ==
  /\ NoMsg \notin Msgs
  /\ \A id \in Msgs : Author[id] \in Nodes
  /\ \A guests \in GuestLists : guests \subseteq Nodes
BY MessagingAssumption

(* What a new change says.                                                 *)
LEMMA ChangeFields ==
  ASSUME NEW d, NEW n, NEW key, NEW val
  PROVE  /\ Change(d, n, key, val).actor = n
         /\ Change(d, n, key, val).key = key
         /\ Change(d, n, key, val).val = val
BY DEF Change

(* d2 is d and changes of n's, which write no messages but ids.            *)
LocalChanges(d, d2, n, ids) ==
  /\ d \subseteq d2
  /\ \A c \in d2 \ d :
       /\ IsChange(c) /\ c.actor = n
       /\ \A id \in Msgs : c.key = MessageKey(id) => id \in ids

LEMMA LocalTransitive ==
  ASSUME NEW d, NEW d1, NEW d2, NEW n, NEW ids,
         LocalChanges(d, d1, n, ids), LocalChanges(d1, d2, n, ids)
  PROVE  LocalChanges(d, d2, n, ids)
BY DEF LocalChanges

LEMMA AddLocal ==
  ASSUME NEW d, NEW n \in Nodes, NEW dids, dids \subseteq Nodes, NEW ids
  PROVE  LocalChanges(d, addParticipants(d, n, dids), n, ids)
<1>1. Present \in Body
  BY DEF Present, Body
<1> QED
  BY <1>1, ChangeFields, KeysDiffer DEF LocalChanges, addParticipants, IsChange

LEMMA RemoveLocal ==
  ASSUME NEW d, NEW n \in Nodes, NEW dids, NEW ids
  PROVE  LocalChanges(d, removeParticipants(d, n, dids), n, ids)
<1>1. participants(d) \subseteq Nodes
  BY DEF participants
<1> QED
  BY <1>1, ChangeFields, KeysDiffer DEF LocalChanges, removeParticipants, IsChange

LEMMA CreateLocal ==
  ASSUME NEW d, NEW n \in Nodes, NEW guests, guests \subseteq Nodes, NEW ids
  PROVE  LocalChanges(d, createChannel(d, n, guests), n, ids)
<1> DEFINE intended == guests \cup {n}
           trimmed  == removeParticipants(d, n, participants(d) \ intended)
<1>1. LocalChanges(d, trimmed, n, ids)
  BY RemoveLocal
<1>2. LocalChanges(trimmed, addParticipants(trimmed, n, intended), n, ids)
  BY AddLocal
<1> QED
  BY <1>1, <1>2, LocalTransitive DEF createChannel

LEMMA RecordLocal ==
  ASSUME NEW d, NEW n \in Nodes, NEW id \in Msgs, NEW body \in Body,
         NEW guests, guests \subseteq Nodes, NEW author \in Nodes
  PROVE  LocalChanges(d, recordLocally(d, n, id, body, guests, author), n, {id})
<1> DEFINE listed == {n} \cup guests \cup (IF body.named THEN {author} ELSE {})
           made   == IF hasDocument(d) THEN d ELSE addParticipants(d, n, listed)
<1>1. LocalChanges(d, made, n, {id})
  <2>1. listed \subseteq Nodes
    OBVIOUS
  <2>2. LocalChanges(d, d, n, {id})
    BY DEF LocalChanges
  <2> QED
    BY <2>1, <2>2, AddLocal
<1>2. LocalChanges(made, addMessage(made, n, id, body), n, {id})
  <2> HIDE DEF made
  <2> QED
    BY ChangeFields, KeysDiffer DEF LocalChanges, addMessage, IsChange
<1>3. recordLocally(d, n, id, body, guests, author) = addMessage(made, n, id, body)
  BY DEF recordLocally
<1> QED
  BY <1>1, <1>2, <1>3, LocalTransitive
-----------------------------------------------------------------------------
(* Writing a message leaves the guest list as it is.                       *)
LEMMA MessageKeepsGuests ==
  ASSUME NEW d, NEW n, NEW id, NEW body
  PROVE  participants(addMessage(d, n, id, body)) = participants(d)
<1> DEFINE new == Change(d, n, MessageKey(id), body)
<1>1. addMessage(d, n, id, body) = d \cup {new}
  BY DEF addMessage
<1>2. \A did : new.key # MemberKey(did)
  BY ChangeFields, KeysDiffer
<1>3. \A did : Live(d \cup {new}, MemberKey(did)) = Live(d, MemberKey(did))
  <2> HIDE DEF new
  <2> QED
    BY <1>2 DEF Live
<1> QED
  BY <1>1, <1>3 DEF participants

(* Whoever is on the list of d was put there by a change in d.             *)
LEMMA ListedByChange ==
  ASSUME NEW d, NEW m \in participants(d)
  PROVE  m \in Nodes /\ \E c \in d : c.key = MemberKey(m) /\ c.val # Gone
BY DEF participants, Live

LEMMA HeldByChange ==
  ASSUME NEW d, NEW id \in messages(d)
  PROVE  id \in Msgs /\ \E c \in d : c.key = MessageKey(id)
BY DEF messages, Live

(* A node is entitled only if it is admitted.                              *)
LEMMA RecipientAdmitted ==
  ASSUME NEW n \in Nodes, NEW lv, LiveOK(lv), NEW S,
         DocsOK(doc, AdmittedBy(doc), S), NEW m \in Recipients(n, lv)
  PROVE  m \in Nodes /\ m # n /\ m \in AdmittedBy(doc)
<1>1. m \in participants(doc[n]) /\ m \in lv[n]
  BY DEF Recipients
<1>2. m \in Nodes /\ \E c \in doc[n] : c.key = MemberKey(m) /\ c.val # Gone
  BY <1>1, ListedByChange
<1>3. m # n
  BY <1>1 DEF LiveOK
<1> QED
  BY <1>2, <1>3 DEF DocsOK

(* With more nodes admitted and more messages sent, everything still holds.*)
LEMMA Monotone ==
  ASSUME NEW A, NEW S, NEW A2, NEW S2, A \subseteq A2, S \subseteq S2
  PROVE  /\ \A wr : WireOK(wr, A, S) => WireOK(wr, A2, S2)
         /\ \A ing : IngestOK(ing, A, S) => IngestOK(ing, A2, S2)
         /\ \A ob : QueueOK(ob, S) => QueueOK(ob, S2)
         /\ \A ps : PassOK(ps, S) => PassOK(ps, S2)
<1>1. \A wr : WireOK(wr, A, S) => WireOK(wr, A2, S2)
  BY DEF WireOK, Own
<1>2. \A ing : IngestOK(ing, A, S) => IngestOK(ing, A2, S2)
  BY DEF IngestOK
<1>3. \A ob : QueueOK(ob, S) => QueueOK(ob, S2)
  BY DEF QueueOK, Own
<1>4. \A ps : PassOK(ps, S) => PassOK(ps, S2)
  BY DEF PassOK, Own
<1> QED
  BY <1>1, <1>2, <1>3, <1>4

(* A change of n's own document keeps DocsOK: whom n adds, n admits.       *)
LEMMA LocalStep ==
  ASSUME NEW n \in Nodes, NEW d2, NEW ids,
         DOMAIN doc = Nodes, doc' = [doc EXCEPT ![n] = d2],
         DocsOK(doc, AdmittedBy(doc), SentAt(stage)), SentAt(stage) \subseteq SentAt(stage'),
         LocalChanges(doc[n], d2, n, ids), ids \subseteq SentAt(stage'),
         \A id \in ids : Author[id] # n => n \in AdmittedBy(doc)
  PROVE  /\ DOMAIN doc' = Nodes
         /\ AdmittedBy(doc) \subseteq AdmittedBy(doc')
         /\ DocsOK(doc', AdmittedBy(doc'), SentAt(stage'))
<1>1. DOMAIN doc' = Nodes /\ \A x \in Nodes : doc'[x] = IF x = n THEN d2 ELSE doc[x]
  OBVIOUS
<1>2. \A x \in Nodes : doc[x] \subseteq doc'[x]
  BY <1>1 DEF LocalChanges
<1>3. AdmittedBy(doc) \subseteq AdmittedBy(doc')
  BY <1>2 DEF AdmittedBy
<1>4. ASSUME NEW x \in Nodes, NEW c \in doc'[x]
      PROVE  /\ IsChange(c)
             /\ \A m \in Nodes : c.key = MemberKey(m) /\ c.val # Gone /\ m # x
                                 => m \in AdmittedBy(doc')
             /\ \A id \in Msgs : c.key = MessageKey(id)
                  => id \in SentAt(stage') /\ (Author[id] # x => x \in AdmittedBy(doc'))
  <2>1. CASE c \in doc[x]
    BY <2>1, <1>3 DEF DocsOK
  <2>2. CASE c \notin doc[x]
    <3>1. x = n /\ c \in d2 \ doc[n]
      BY <1>1, <2>2
    <3>2. IsChange(c) /\ c.actor = n
      BY <3>1 DEF LocalChanges
    <3>3. \A m \in Nodes : c.key = MemberKey(m) /\ c.val # Gone /\ m # x
                           => m \in AdmittedBy(doc')
      BY <3>1, <3>2 DEF AdmittedBy
    <3>4. \A id \in Msgs : c.key = MessageKey(id) => id \in ids
      BY <3>1 DEF LocalChanges
    <3> QED
      BY <1>3, <3>1, <3>2, <3>3, <3>4
  <2> QED
    BY <2>1, <2>2
<1>5. DocsOK(doc', AdmittedBy(doc'), SentAt(stage'))
  BY <1>4 DEF DocsOK
<1> QED
  BY <1>1, <1>3, <1>5
-----------------------------------------------------------------------------
(* The queue operators keep the type and add no id of their own.           *)
LEMMA SetStatusQueue ==
  ASSUME NEW q, QueueType(q), NEW id \in Msgs, NEW s \in Status
  PROVE  /\ QueueType(SetStatus(q, id, s))
         /\ DOMAIN SetStatus(q, id, s) = DOMAIN q \cup {id}
BY DEF QueueType, SetStatus

LEMMA MarkQueue ==
  ASSUME NEW q, QueueType(q), NEW id \in Msgs
  PROVE  /\ QueueType(MarkSent(q, id)) /\ DOMAIN MarkSent(q, id) \subseteq DOMAIN q
         /\ QueueType(MarkFailed(q, id)) /\ DOMAIN MarkFailed(q, id) = DOMAIN q
<1>1. QueueType(MarkSent(q, id)) /\ DOMAIN MarkSent(q, id) \subseteq DOMAIN q
  BY DEF QueueType, MarkSent
<1>2. CASE id \in DOMAIN q
  <2>1. "failed" \in Status
    BY DEF Status
  <2> QED
    BY <1>1, <1>2, <2>1, SetStatusQueue DEF MarkFailed
<1>3. CASE id \notin DOMAIN q
  BY <1>1, <1>3 DEF MarkFailed
<1> QED
  BY <1>2, <1>3

LEMMA Frames ==
  ASSUME NEW id \in Msgs
  PROVE  /\ Original(id) \in Frame /\ Original(id).id = id
         /\ Replay(id) \in Frame /\ Replay(id).id = id
         /\ Original(id).body \in Body
BY DEF Original, Replay, Frame, Body

(* Frames go to admitted nodes only, and only what was sent.               *)
LEMMA TransmitStep ==
  ASSUME NEW n \in Nodes, NEW frame \in Frame, NEW ok \in SUBSET Nodes, NEW lv,
         NEW wr \in Wires, NEW A, NEW S, WireOK(wr, A, S),
         ok \subseteq A, frame.id \in Own(n, S), handed \in [Msgs -> SUBSET Nodes],
         Transmit(n, frame, ok, lv, wr)
  PROVE  wire' \in Wires /\ WireOK(wire', A, S) /\ handed' \in [Msgs -> SUBSET Nodes]
<1>1. wire' = [wr EXCEPT ![n] =
         [m \in Nodes |-> IF m \in ok /\ n \in lv[m] THEN Append(wr[n][m], frame)
                                                      ELSE wr[n][m]]]
  BY DEF Transmit
<1>2. \A x, y \in Nodes :
        \/ wire'[x][y] = wr[x][y]
        \/ x = n /\ y \in ok /\ wire'[x][y] = Append(wr[x][y], frame)
  BY <1>1 DEF Wires
<1>3. wire' \in Wires
  <2>1. \A m \in Nodes : wr[n][m] \in Seq(Frame) /\ Append(wr[n][m], frame) \in Seq(Frame)
    BY DEF Wires
  <2> QED
    BY <1>1, <2>1 DEF Wires
<1>4. ASSUME NEW x \in Nodes, NEW y \in Nodes, NEW i \in 1 .. Len(wire'[x][y])
      PROVE  y \in A /\ wire'[x][y][i].id \in Own(x, S)
  <2>1. wr[x][y] \in Seq(Frame)
    BY DEF Wires
  <2>2. CASE wire'[x][y] = wr[x][y]
    BY <2>2, <1>4 DEF WireOK
  <2>3. CASE x = n /\ y \in ok /\ wire'[x][y] = Append(wr[x][y], frame)
    <3>1. \/ i \in 1 .. Len(wr[x][y]) /\ wire'[x][y][i] = wr[x][y][i]
          \/ wire'[x][y][i] = frame
      BY <2>1, <2>3, <1>4
    <3> QED
      BY <2>3, <3>1 DEF WireOK
  <2> QED
    BY <1>2, <2>2, <2>3
<1>5. handed' \in [Msgs -> SUBSET Nodes]
  BY DEF Transmit, Frame
<1> QED
  BY <1>3, <1>4, <1>5 DEF WireOK

(* What every step of a flush pass preserves.                              *)
Draining(S) ==
  /\ QueueOK(outbox, S) /\ PassOK(pass, S)
  /\ DocsOK(doc, AdmittedBy(doc), S)
  /\ handed \in [Msgs -> SUBSET Nodes]

Drained(S) ==
  /\ QueueOK(outbox', S) /\ PassOK(pass', S)
  /\ wire' \in Wires /\ WireOK(wire', AdmittedBy(doc), S)
  /\ handed' \in [Msgs -> SUBSET Nodes]

LEMMA NextEntryStep ==
  ASSUME NEW n \in Nodes, NEW p \in Passes, NEW S \in SUBSET Msgs, Draining(S),
         NEW q, QueueType(q), DOMAIN q \subseteq Own(n, S),
         NEW todo, todo \subseteq Own(n, S),
         NEW lv, LiveOK(lv), NEW wr \in Wires, WireOK(wr, AdmittedBy(doc), S),
         NextEntry(n, p, q, todo, lv, wr)
  PROVE  Drained(S)
<1>1. CASE /\ outbox' = [outbox EXCEPT ![n] = q]
           /\ pass' = [pass EXCEPT ![n][p] = Idle]
           /\ wire' = wr
           /\ UNCHANGED handed
  <2>1. QueueOK(outbox', S)
    BY <1>1 DEF Draining, QueueOK
  <2>2. PassOK(pass', S)
    <3>1. Idle \in PassType /\ Idle.todo = {}
      BY DEF Idle, PassType
    <3> QED
      BY <1>1, <3>1 DEF Draining, PassOK
  <2> QED
    BY <1>1, <2>1, <2>2 DEF Drained, Draining
<1>2. ASSUME NEW id \in Oldest(todo, createdAt), NEW ok \in SUBSET Recipients(n, lv),
             outbox' = [outbox EXCEPT ![n] = SetStatus(q, id, "sending")],
             pass' = [pass EXCEPT ![n][p] =
               [todo |-> todo \ {id}, cur |-> id, rejects |-> ok # Recipients(n, lv)]],
             Transmit(n, Replay(id), ok, lv, wr)
      PROVE  Drained(S)
  <2>1. id \in Own(n, S) /\ id \in Msgs /\ "sending" \in Status
    BY DEF Oldest, Status, Own
  <2>2. ok \in SUBSET Nodes /\ ok \subseteq AdmittedBy(doc)
    BY RecipientAdmitted DEF Draining
  <2>3. /\ wire' \in Wires /\ WireOK(wire', AdmittedBy(doc), S)
        /\ handed' \in [Msgs -> SUBSET Nodes]
    <3> DEFINE frame == Replay(id)
    <3>1. frame \in Frame /\ frame.id \in Own(n, S) /\ Transmit(n, frame, ok, lv, wr)
      BY <1>2, <2>1, Frames
    <3>2. handed \in [Msgs -> SUBSET Nodes]
      BY DEF Draining
    <3> HIDE DEF frame
    <3> QED
      BY <2>2, <3>1, <3>2, TransmitStep
  <2>4. QueueType(SetStatus(q, id, "sending")) /\ DOMAIN SetStatus(q, id, "sending") \subseteq Own(n, S)
    <3>1. /\ QueueType(SetStatus(q, id, "sending"))
          /\ DOMAIN SetStatus(q, id, "sending") = DOMAIN q \cup {id}
      BY <2>1, SetStatusQueue
    <3> QED
      BY <2>1, <3>1
  <2>5. QueueOK(outbox', S)
    <3> DEFINE q2 == SetStatus(q, id, "sending")
    <3>1. QueueType(q2) /\ DOMAIN q2 \subseteq Own(n, S) /\ outbox' = [outbox EXCEPT ![n] = q2]
      BY <1>2, <2>4
    <3>2. QueueOK(outbox, S)
      BY DEF Draining
    <3> HIDE DEF q2
    <3> QED
      BY <3>1, <3>2 DEF QueueOK
  <2>6. PassOK(pass', S)
    <3> DEFINE r == [todo |-> todo \ {id}, cur |-> id, rejects |-> ok # Recipients(n, lv)]
    <3>1. r \in PassType /\ r.todo \subseteq Own(n, S) /\ r.cur \in Own(n, S)
      BY <2>1 DEF PassType, Own
    <3>2. pass' = [pass EXCEPT ![n][p] = r]
      BY <1>2
    <3> HIDE DEF r
    <3> QED
      BY <3>1, <3>2 DEF Draining, PassOK
  <2> QED
    BY <2>3, <2>5, <2>6 DEF Drained
<1> QED
  BY <1>1, <1>2 DEF NextEntry

LEMMA DrainStep ==
  ASSUME NEW n \in Nodes, NEW S \in SUBSET Msgs, Draining(S),
         NEW lv, LiveOK(lv), NEW wr \in Wires, WireOK(wr, AdmittedBy(doc), S),
         Drain(n, lv, wr)
  PROVE  Drained(S)
<1>1. CASE wire' = wr /\ UNCHANGED <<outbox, pass, handed>>
  BY <1>1 DEF Drained, Draining
<1>2. ASSUME NEW p \in Passes, NextEntry(n, p, outbox[n], GetPending(outbox[n]), lv, wr)
      PROVE  Drained(S)
  <2>1. QueueType(outbox[n]) /\ DOMAIN outbox[n] \subseteq Own(n, S)
    BY DEF Draining, QueueOK
  <2>2. GetPending(outbox[n]) \subseteq Own(n, S)
    BY <2>1 DEF GetPending
  <2> QED
    BY <1>2, <2>1, <2>2, NextEntryStep
<1> QED
  BY <1>1, <1>2 DEF Drain
-----------------------------------------------------------------------------
LEMMA InitIInv == Init => IInv
<1> SUFFICES ASSUME Init PROVE IInv
  OBVIOUS
<1> DEFINE A == AdmittedBy(doc)
           S == SentAt(stage)
<1>1. ASSUME NEW n \in Nodes, NEW c \in doc[n]
      PROVE  IsChange(c) /\ c.actor = n /\ \A id \in Msgs : c.key # MessageKey(id)
  <2>1. doc[n] = {} \/ doc[n] = createChannel({}, n, Declared[n])
    BY DEF Init
  <2>2. Declared[n] \subseteq Nodes
    BY MessagingAssumption
  <2>3. LocalChanges({}, createChannel({}, n, Declared[n]), n, {})
    BY <2>2, CreateLocal
  <2> QED
    BY <2>1, <2>3, <1>1 DEF LocalChanges
<1>2. DocsOK(doc, A, S)
  BY <1>1 DEF DocsOK, AdmittedBy
<1>3. /\ \A n, m \in Nodes : wire[n][m] = <<>>
      /\ wire \in Wires
      /\ \A n \in Nodes : ingest[n] = {} /\ emitted[n] = {} /\ live[n] = {}
      /\ \A n \in Nodes : outbox[n] = EmptyQueue
      /\ \A n \in Nodes, id \in Msgs : announced[n][id] = 0
      /\ \A id \in Msgs : stage[id] = "unsent"
  BY DEF Init, Wires
<1>4. pass = [n \in Nodes |-> [p \in Passes |-> Idle]] /\ Idle \in PassType
      /\ Idle.todo = {}
  BY DEF Init, Idle, PassType
<1>5. PassOK(pass, S)
  BY <1>4 DEF PassOK
<1>6. DOMAIN outbox = Nodes /\ QueueType(EmptyQueue) /\ DOMAIN EmptyQueue = {}
  BY DEF Init, QueueType, EmptyQueue
<1>7. QueueOK(outbox, S)
  BY <1>3, <1>6 DEF QueueOK
<1>8. WireOK(wire, A, S) /\ IngestOK(ingest, A, S)
  BY <1>3 DEF WireOK, IngestOK
<1>9. S = {}
  BY <1>3 DEF SentAt
<1>10. ChatOK(emitted, announced, S)
  BY <1>3, <1>9 DEF ChatOK
<1>11. LiveOK(live)
  BY DEF Init, LiveOK
<1>12. TypeOK
  <2>1. DOMAIN doc = Nodes
    BY DEF Init
  <2>2. pass \in [Nodes -> [Passes -> PassType]]
    BY <1>5 DEF PassOK
  <2>3. /\ registry \in [Nodes -> [Nodes -> {"unknown", "stranger", "paired"}]]
        /\ live \in [Nodes -> SUBSET Nodes]
        /\ online \in [Nodes -> BOOLEAN] /\ due \in [Nodes -> BOOLEAN]
        /\ stage \in [Msgs -> {"unsent", "recorded", "published", "unpublished", "done"}]
        /\ createdAt \in [Msgs -> Nat] /\ clock \in Nat
        /\ losses \in Nat
    BY DEF Init
  <2>4. /\ ingest \in [Nodes -> SUBSET Task]
        /\ emitted \in [Nodes -> SUBSET Msgs] /\ baseline \in [Nodes -> SUBSET Msgs]
        /\ sighted \in [Nodes -> BOOLEAN]
        /\ announced \in [Nodes -> [Msgs -> 0 .. 2]]
        /\ handed \in [Msgs -> SUBSET Nodes]
    BY DEF Init
  <2> QED
    BY <1>1, <1>3, <1>6, <2>1, <2>2, <2>3, <2>4 DEF TypeOK, Wires
<1> QED
  BY <1>2, <1>5, <1>7, <1>8, <1>10, <1>11, <1>12 DEF IInv

(* Steps that leave documents, messages, queues and frames alone.          *)
LEMMA AddPeerStep ==
  ASSUME IInv, NEW n \in Nodes, NEW m \in Nodes, AddPeer(n, m) PROVE IInv'
<1>1. TypeOK'
  BY DEF IInv, AddPeer, TypeOK, queue, chat
<1> QED
  BY <1>1 DEF IInv, AddPeer, queue, chat

LEMMA GoOfflineStep ==
  ASSUME IInv, NEW n \in Nodes, GoOffline(n) PROVE IInv'
<1>1. TypeOK'
  BY DEF IInv, GoOffline, TypeOK, queue, chat
<1> QED
  BY <1>1 DEF IInv, GoOffline, queue, chat

LEMMA RefuseStep ==
  ASSUME IInv, NEW n \in Nodes, NEW t, Refuse(n, t) PROVE IInv'
<1>1. TypeOK'
  BY DEF IInv, Refuse, TypeOK, peers, queue, chat
<1>2. IngestOK(ingest', AdmittedBy(doc), SentAt(stage))
  BY DEF IInv, Refuse, IngestOK, TypeOK
<1> QED
  BY <1>1, <1>2 DEF IInv, Refuse, peers, queue, chat

(* Wires that carry only what others carried.                              *)
LEMMA FewerFrames ==
  ASSUME NEW wr, NEW wr2, NEW A, NEW S, WireOK(wr, A, S),
         \A x, y \in Nodes : \A i \in 1 .. Len(wr2[x][y]) :
           \E j \in 1 .. Len(wr[x][y]) : wr2[x][y][i] = wr[x][y][j]
  PROVE  WireOK(wr2, A, S)
<1> SUFFICES ASSUME NEW x \in Nodes, NEW y \in Nodes, NEW i \in 1 .. Len(wr2[x][y])
             PROVE  y \in A /\ wr2[x][y][i].id \in Own(x, S)
  BY DEF WireOK
<1>1. PICK j \in 1 .. Len(wr[x][y]) : wr2[x][y][i] = wr[x][y][j]
  OBVIOUS
<1> QED
  BY <1>1 DEF WireOK

(* A lost connection only takes frames away.                               *)
LEMMA LinkLostFrames ==
  ASSUME IInv, NEW n \in Nodes, NEW m \in Nodes, LinkLost(n, m)
  PROVE  /\ wire' \in Wires
         /\ \A x, y \in Nodes : \A i \in 1 .. Len(wire'[x][y]) :
              i \in 1 .. Len(wire[x][y]) /\ wire'[x][y][i] = wire[x][y][i]
<1>1. PICK left \in 0 .. Len(wire[n][m]) :
        wire' = [wire EXCEPT ![m][n] = <<>>, ![n][m] = SubSeq(@, 1, left)]
  BY DEF LinkLost
<1>2. wire \in Wires /\ LiveOK(live)
  BY DEF IInv, TypeOK, Wires
<1>3. n # m
  BY <1>2 DEF LinkLost, LiveOK
<1>4. \A x, y \in Nodes :
        \/ wire'[x][y] = wire[x][y]
        \/ wire'[x][y] = <<>>
        \/ wire'[x][y] = SubSeq(wire[x][y], 1, left) /\ x = n /\ y = m
  BY <1>1, <1>2, <1>3 DEF Wires
<1>5. \A x, y \in Nodes :
        /\ wire'[x][y] \in Seq(Frame)
        /\ \A i \in 1 .. Len(wire'[x][y]) :
             i \in 1 .. Len(wire[x][y]) /\ wire'[x][y][i] = wire[x][y][i]
  <2> TAKE x, y \in Nodes
  <2>1. wire[x][y] \in Seq(Frame)
    BY <1>2 DEF Wires
  <2> DEFINE old == wire[x][y]
             new == wire'[x][y]
  <2>2. CASE new = SubSeq(old, 1, left) /\ x = n /\ y = m
    <3>1. left \in 0 .. Len(old)
      BY <1>1, <2>2
    <3>2. CASE left = 0
      <4>1. new = <<>>
        BY <2>1, <2>2, <3>2
      <4> QED
        BY <4>1
    <3>3. CASE left # 0
      <4>1. /\ SubSeq(old, 1, left) \in Seq(Frame)
            /\ Len(SubSeq(old, 1, left)) = left
            /\ \A i \in 1 .. left : SubSeq(old, 1, left)[i] = old[i]
        <5>1. old \in Seq(Frame) /\ left \in Int /\ 1 <= left /\ left <= Len(old)
          BY <2>1, <3>1, <3>3
        <5> HIDE DEF old
        <5>2. \A i \in 1 .. left : old[i] \in Frame
          BY <5>1
        <5> QED
          BY <5>1, <5>2, SubSeqProperties
      <4> QED
        BY <2>1, <2>2, <3>1, <4>1
    <3> QED
      BY <3>2, <3>3
  <2>3. CASE new = old
    BY <2>1, <2>3
  <2>4. CASE new = <<>>
    BY <2>4
  <2> QED
    BY <1>4, <2>2, <2>3, <2>4
<1>6. wire' \in Wires
  BY <1>1, <1>2, <1>5 DEF Wires
<1> QED
  BY <1>5, <1>6

LEMMA LinkLostStep ==
  ASSUME IInv, NEW n \in Nodes, NEW m \in Nodes, LinkLost(n, m) PROVE IInv'
<1>1. WireOK(wire', AdmittedBy(doc), SentAt(stage)) /\ wire' \in Wires
  BY LinkLostFrames, FewerFrames DEF IInv
<1>2. live' \in [Nodes -> SUBSET Nodes] /\ LiveOK(live') /\ losses' \in Nat
  BY DEF IInv, LinkLost, LiveOK, TypeOK
<1>3. TypeOK'
  BY <1>1, <1>2 DEF IInv, LinkLost, TypeOK, Wires, queue, chat
<1> QED
  BY <1>1, <1>2, <1>3 DEF IInv, LinkLost, queue, chat

(* What is read off a wire was meant for an admitted node.                 *)
LEMMA ReceiveFrames ==
  ASSUME IInv, NEW n \in Nodes, NEW m \in Nodes, Receive(n, m)
  PROVE  /\ Head(wire[n][m]) = wire[n][m][1] /\ 1 \in 1 .. Len(wire[n][m])
         /\ \A x, y \in Nodes : \A i \in 1 .. Len(wire'[x][y]) :
              \E j \in 1 .. Len(wire[x][y]) : wire'[x][y][i] = wire[x][y][j]
<1>1. wire \in Wires /\ wire[n][m] \in Seq(Frame) /\ wire[n][m] # <<>>
  BY DEF IInv, TypeOK, Wires, Receive
<1>2. /\ Head(wire[n][m]) = wire[n][m][1] /\ 1 \in 1 .. Len(wire[n][m])
      /\ \A i \in 1 .. Len(Tail(wire[n][m])) :
           /\ i + 1 \in 1 .. Len(wire[n][m])
           /\ Tail(wire[n][m])[i] = wire[n][m][i + 1]
  BY <1>1
<1>3. \A x, y \in Nodes : wire'[x][y] = IF x = n /\ y = m THEN Tail(wire[n][m])
                                                           ELSE wire[x][y]
  BY <1>1 DEF Wires, Receive
<1>4. ASSUME NEW x \in Nodes, NEW y \in Nodes, NEW i \in 1 .. Len(wire'[x][y])
      PROVE  \E j \in 1 .. Len(wire[x][y]) : wire'[x][y][i] = wire[x][y][j]
  <2>1. CASE x = n /\ y = m
    <3>1. wire'[x][y] = Tail(wire[n][m])
      BY <1>3, <2>1
    <3>2. i + 1 \in 1 .. Len(wire[n][m]) /\ wire'[x][y][i] = wire[n][m][i + 1]
      BY <1>2, <1>4, <3>1
    <3> QED
      BY <2>1, <3>2
  <2>2. CASE ~(x = n /\ y = m)
    <3>1. wire'[x][y] = wire[x][y]
      BY <1>3, <2>2
    <3> QED
      BY <1>4, <3>1
  <2> QED
    BY <2>1, <2>2
<1> QED
  BY <1>2, <1>4

LEMMA ReceiveStep ==
  ASSUME IInv, NEW n \in Nodes, NEW m \in Nodes, Receive(n, m) PROVE IInv'
<1> DEFINE frame == Head(wire[n][m])
           task == [id |-> frame.id, body |-> frame.body, step |-> "verify"]
<1>1. wire \in Wires /\ wire[n][m] \in Seq(Frame) /\ wire[n][m] # <<>>
  BY DEF IInv, TypeOK, Wires, Receive
<1>2. /\ frame \in Frame /\ frame = wire[n][m][1] /\ 1 \in 1 .. Len(wire[n][m])
      /\ Tail(wire[n][m]) \in Seq(Frame)
      /\ \A i \in 1 .. Len(Tail(wire[n][m])) :
           /\ i + 1 \in 1 .. Len(wire[n][m])
           /\ Tail(wire[n][m])[i] = wire[n][m][i + 1]
  BY <1>1
<1>3. m \in AdmittedBy(doc) /\ frame.id \in SentAt(stage)
  BY <1>2 DEF IInv, WireOK, Own
<1>4. wire' = [wire EXCEPT ![n][m] = Tail(@)]
  BY DEF Receive
<1>5. wire' \in Wires
  BY <1>1, <1>2, <1>4 DEF Wires
<1>6. WireOK(wire', AdmittedBy(doc), SentAt(stage))
  BY ReceiveFrames, FewerFrames DEF IInv
<1>7. task \in Task /\ task.id = frame.id
  BY <1>2 DEF Task, Frame
<1>8. ingest' = ingest \/ ingest' = [ingest EXCEPT ![m] = @ \cup {task}]
  BY DEF Receive
<1>9. ingest' \in [Nodes -> SUBSET Task] /\ IngestOK(ingest', AdmittedBy(doc), SentAt(stage))
  <2> HIDE DEF frame, task
  <2>1. ingest \in [Nodes -> SUBSET Task] /\ IngestOK(ingest, AdmittedBy(doc), SentAt(stage))
    BY DEF IInv, TypeOK
  <2>2. CASE ingest' = ingest
    BY <2>1, <2>2
  <2>3. CASE ingest' = [ingest EXCEPT ![m] = @ \cup {task}]
    <3>1. \A x \in Nodes : ingest'[x] = IF x = m THEN ingest[m] \cup {task} ELSE ingest[x]
      BY <2>1, <2>3
    <3>2. ingest' \in [Nodes -> SUBSET Task]
      BY <2>1, <2>3, <1>7
    <3> QED
      BY <2>1, <1>3, <1>7, <3>1, <3>2 DEF IngestOK
  <2> QED
    BY <1>8, <2>2, <2>3
<1>10. TypeOK'
  BY <1>5, <1>9 DEF IInv, Receive, TypeOK, Wires, peers, queue, chat
<1> QED
  BY <1>6, <1>9, <1>10 DEF IInv, Receive, peers, queue, chat
-----------------------------------------------------------------------------
(* Steps of flush passes, and sends.                                       *)
LEMMA DrainingNow == ASSUME IInv PROVE Draining(SentAt(stage)) /\ SentAt(stage) \in SUBSET Msgs
BY DEF IInv, Draining, TypeOK, SentAt

LEMMA PassSettlesStep ==
  ASSUME IInv, NEW n \in Nodes, NEW p \in Passes, PassSettles(n, p) PROVE IInv'
<1> DEFINE S == SentAt(stage)
           r == pass[n][p]
           q == IF r.rejects THEN MarkFailed(outbox[n], r.cur)
                             ELSE MarkSent(outbox[n], r.cur)
<1>1. /\ r \in PassType /\ r.todo \subseteq Own(n, S) /\ r.cur \in Own(n, S)
      /\ r.cur \in Msgs
  BY DEF IInv, PassOK, PassSettles, SentAt, Own
<1>2. QueueType(outbox[n]) /\ DOMAIN outbox[n] \subseteq Own(n, S)
  BY DEF IInv, QueueOK
<1>3. QueueType(q) /\ DOMAIN q \subseteq Own(n, S)
  BY <1>1, <1>2, MarkQueue
<1>4. NextEntry(n, p, q, r.todo, live, wire)
  BY DEF PassSettles
<1>5. wire \in Wires /\ WireOK(wire, AdmittedBy(doc), S) /\ LiveOK(live)
  BY DEF IInv, TypeOK, Wires
<1>6. Drained(S)
  <2> HIDE DEF q, r, S
  <2> QED
    BY <1>1, <1>3, <1>4, <1>5, NextEntryStep, DrainingNow DEF S
<1>7. TypeOK'
  BY <1>6 DEF IInv, PassSettles, TypeOK, Drained, QueueOK, PassOK, Wires, peers, chat
<1> QED
  BY <1>6, <1>7 DEF IInv, PassSettles, Drained, peers, chat

LEMMA GoOnlineStep ==
  ASSUME IInv, NEW n \in Nodes, GoOnline(n) PROVE IInv'
<1>1. wire \in Wires /\ WireOK(wire, AdmittedBy(doc), SentAt(stage)) /\ LiveOK(live)
  BY DEF IInv, TypeOK, Wires
<1>2. Drained(SentAt(stage))
  BY <1>1, DrainStep, DrainingNow DEF GoOnline
<1>3. TypeOK'
  BY <1>2 DEF IInv, GoOnline, TypeOK, Drained, QueueOK, PassOK, Wires, chat
<1> QED
  BY <1>2, <1>3 DEF IInv, GoOnline, Drained, chat

LEMMA DrainAfterDialStep ==
  ASSUME IInv, NEW n \in Nodes, DrainAfterDial(n) PROVE IInv'
<1>1. wire \in Wires /\ WireOK(wire, AdmittedBy(doc), SentAt(stage)) /\ LiveOK(live)
  BY DEF IInv, TypeOK, Wires
<1>2. Drained(SentAt(stage))
  BY <1>1, DrainStep, DrainingNow DEF DrainAfterDial
<1>3. TypeOK'
  BY <1>2 DEF IInv, DrainAfterDial, TypeOK, Drained, QueueOK, PassOK, Wires, chat
<1> QED
  BY <1>2, <1>3 DEF IInv, DrainAfterDial, Drained, chat

LEMMA ConnectStep ==
  ASSUME IInv, NEW n \in Nodes, NEW m \in Nodes, Connect(n, m) PROVE IInv'
<1> DEFINE lv == [live EXCEPT ![n] = @ \cup {m}, ![m] = @ \cup {n}]
           wr == [wire EXCEPT ![n][m] = <<>>, ![m][n] = <<>>]
<1>1. wire \in Wires /\ WireOK(wire, AdmittedBy(doc), SentAt(stage)) /\ LiveOK(live)
      /\ live \in [Nodes -> SUBSET Nodes] /\ n # m
  BY DEF IInv, TypeOK, Wires, Connect
<1>2. LiveOK(lv)
  BY <1>1 DEF LiveOK
<1>3. \A x, y \in Nodes : wr[x][y] = wire[x][y] \/ wr[x][y] = <<>>
  BY <1>1 DEF Wires
<1>4. wr \in Wires
  <2>1. <<>> \in Seq(Frame)
    OBVIOUS
  <2>2. [wire EXCEPT ![n][m] = <<>>] \in Wires
    BY <1>1, <2>1 DEF Wires
  <2> QED
    BY <1>1, <2>1, <2>2 DEF Wires
<1>5. WireOK(wr, AdmittedBy(doc), SentAt(stage))
  <2>1. \A x, y \in Nodes : \A i \in 1 .. Len(wr[x][y]) :
          \E j \in 1 .. Len(wire[x][y]) : wr[x][y][i] = wire[x][y][j]
    <3> HIDE DEF wr
    <3> TAKE x, y \in Nodes
    <3>1. CASE wr[x][y] = wire[x][y]
      BY <3>1
    <3>2. CASE wr[x][y] = <<>>
      BY <3>2
    <3> QED
      BY <1>3, <3>1, <3>2
  <2> HIDE DEF wr
  <2> QED
    BY <1>1, <2>1, FewerFrames
<1>6. Drain(m, lv, wr) /\ live' = lv
  BY DEF Connect
<1>7. Drained(SentAt(stage))
  <2> HIDE DEF lv, wr
  <2> QED
    BY <1>2, <1>4, <1>5, <1>6, DrainStep, DrainingNow
<1>8. /\ registry' \in [Nodes -> [Nodes -> {"unknown", "stranger", "paired"}]]
      /\ due' \in [Nodes -> BOOLEAN]
  <2>1. registry \in [Nodes -> [Nodes -> {"unknown", "stranger", "paired"}]]
        /\ due \in [Nodes -> BOOLEAN]
    BY DEF IInv, TypeOK
  <2> QED
    BY <2>1 DEF Connect
<1>9. live' \in [Nodes -> SUBSET Nodes] /\ LiveOK(live')
  BY <1>2, <1>6 DEF LiveOK
<1>10. TypeOK'
  BY <1>7, <1>8, <1>9 DEF IInv, Connect, TypeOK, Drained, QueueOK, PassOK, Wires, chat
<1> QED
  BY <1>7, <1>9, <1>10 DEF IInv, Connect, Drained, chat

(* Queueing a message that was sent.                                       *)
LEMMA EnqueueQueue ==
  ASSUME IInv, NEW id \in Msgs, stage[id] # "unsent", Enqueue(id)
  PROVE  /\ QueueOK(outbox', SentAt(stage)) /\ pass' = pass
         /\ createdAt' \in [Msgs -> Nat] /\ clock' \in Nat
<1> DEFINE n == Author[id]
           q == SetStatus(outbox[n], id, "pending")
<1>1. n \in Nodes /\ id \in Own(n, SentAt(stage)) /\ "pending" \in Status
  BY Constants DEF SentAt, Status, Own
<1>2. QueueOK(outbox, SentAt(stage))
  BY DEF IInv
<1>3. QueueType(q) /\ DOMAIN q = DOMAIN outbox[n] \cup {id}
  BY <1>1, <1>2, SetStatusQueue DEF QueueOK
<1>4. outbox' = [outbox EXCEPT ![n] = q]
  BY DEF Enqueue
<1>5. QueueOK(outbox', SentAt(stage))
  <2> HIDE DEF q, n
  <2> QED
    BY <1>1, <1>2, <1>3, <1>4 DEF QueueOK
<1>6. createdAt' \in [Msgs -> Nat] /\ clock' \in Nat /\ pass' = pass
  BY DEF Enqueue, IInv, TypeOK
<1> QED
  BY <1>5, <1>6

LEMMA PublishStep == ASSUME IInv, NEW id \in Msgs, Publish(id) PROVE IInv'
<1> DEFINE n == Author[id]
<1>1. n \in Nodes /\ stage[id] = "recorded" /\ id \in SentAt(stage)
  BY Constants DEF Publish, SentAt
<1>2. stage \in [Msgs -> {"unsent", "recorded", "published", "unpublished", "done"}]
  BY DEF IInv, TypeOK
<1>3. /\ stage' \in [Msgs -> {"unsent", "recorded", "published", "unpublished", "done"}]
      /\ SentAt(stage') = SentAt(stage)
  BY <1>1, <1>2 DEF Publish, SentAt
<1>4. wire \in Wires /\ handed \in [Msgs -> SUBSET Nodes]
  BY DEF IInv, TypeOK, Wires
<1>5. CASE Enqueue(id) /\ UNCHANGED <<wire, handed>>
  <2>1. /\ QueueOK(outbox', SentAt(stage)) /\ pass' = pass
        /\ createdAt' \in [Msgs -> Nat] /\ clock' \in Nat
    BY <1>1, <1>5, EnqueueQueue
  <2>2. TypeOK'
    BY <1>3, <1>5, <2>1 DEF IInv, Publish, TypeOK, QueueOK, peers, chat
  <2> QED
    BY <1>3, <1>5, <2>1, <2>2 DEF IInv, Publish, peers, chat
<1>6. ASSUME NEW ok \in SUBSET Recipients(n, live),
             Transmit(n, Original(id), ok, live, wire), UNCHANGED queue
      PROVE  IInv'
  <2>1. ok \in SUBSET Nodes /\ ok \subseteq AdmittedBy(doc)
    BY <1>1, RecipientAdmitted DEF IInv
  <2>2. /\ wire' \in Wires /\ WireOK(wire', AdmittedBy(doc), SentAt(stage))
        /\ handed' \in [Msgs -> SUBSET Nodes]
    <3> DEFINE frame == Original(id)
    <3>1. frame \in Frame /\ frame.id \in Own(n, SentAt(stage))
          /\ Transmit(n, frame, ok, live, wire)
      BY <1>1, <1>6, Frames DEF Own
    <3>2. WireOK(wire, AdmittedBy(doc), SentAt(stage))
      BY DEF IInv
    <3> HIDE DEF frame, n
    <3> QED
      BY <1>1, <1>4, <2>1, <3>1, <3>2, TransmitStep
  <2>3. TypeOK'
    BY <1>3, <1>6, <2>2 DEF IInv, Publish, TypeOK, Wires, queue, peers, chat
  <2> QED
    BY <1>3, <1>6, <2>2, <2>3 DEF IInv, Publish, queue, peers, chat
<1> QED
  BY <1>5, <1>6 DEF Publish

LEMMA SendSettlesStep == ASSUME IInv, NEW id \in Msgs, SendSettles(id) PROVE IInv'
<1>1. stage[id] # "unsent"
  BY DEF SendSettles
<1>2. stage \in [Msgs -> {"unsent", "recorded", "published", "unpublished", "done"}]
  BY DEF IInv, TypeOK
<1>3. /\ stage' \in [Msgs -> {"unsent", "recorded", "published", "unpublished", "done"}]
      /\ SentAt(stage') = SentAt(stage)
  BY <1>1, <1>2 DEF SendSettles, SentAt
<1>4. /\ QueueOK(outbox', SentAt(stage)) /\ pass' = pass
      /\ createdAt' \in [Msgs -> Nat] /\ clock' \in Nat
  <2>1. CASE UNCHANGED queue
    BY <2>1 DEF IInv, TypeOK, queue
  <2>2. CASE Enqueue(id)
    BY <1>1, <2>2, EnqueueQueue
  <2> QED
    BY <2>1, <2>2 DEF SendSettles
<1>5. TypeOK'
  BY <1>3, <1>4 DEF IInv, SendSettles, TypeOK, QueueOK, peers, chat
<1> QED
  BY <1>3, <1>4, <1>5 DEF IInv, SendSettles, peers, chat
-----------------------------------------------------------------------------
(* Announcing, to one node, messages sent that are neither marked there    *)
(* nor its own.                                                            *)
LEMMA AnnounceStep ==
  ASSUME NEW n \in Nodes, NEW ids, NEW S,
         emitted \in [Nodes -> SUBSET Msgs], announced \in [Nodes -> [Msgs -> 0 .. 2]],
         ChatOK(emitted, announced, S), ids \subseteq Msgs,
         \A id \in ids : id \notin emitted[n] /\ id \in S,
         Announce(n, ids)
  PROVE  /\ emitted' \in [Nodes -> SUBSET Msgs]
         /\ announced' \in [Nodes -> [Msgs -> 0 .. 2]]
         /\ ChatOK(emitted', announced', S)
<1>1. \A id \in ids : Author[id] # n /\ announced[n][id] = 0
  BY DEF ChatOK
<1>2. \A x \in Nodes, id \in Msgs :
        announced'[x][id] = IF x = n /\ id \in ids THEN 1 ELSE announced[x][id]
  BY <1>1 DEF Announce
<1>3. \A x \in Nodes : emitted'[x] = IF x = n THEN emitted[x] \cup ids ELSE emitted[x]
  BY DEF Announce
<1>4. emitted' \in [Nodes -> SUBSET Msgs]
  BY DEF Announce
<1>5. announced' \in [Nodes -> [Msgs -> 0 .. 2]]
  BY DEF Announce
<1>6. \A id \in S : Author[id] \in Nodes => id \in emitted'[Author[id]]
  BY <1>3 DEF ChatOK
<1>7. \A id \in S : Author[id] \notin Nodes => emitted'[Author[id]] = emitted[Author[id]]
  BY DEF Announce
<1>8. \A x \in Nodes, id \in Msgs :
        /\ announced'[x][id] > 0 => id \in emitted'[x]
        /\ announced'[x][id] <= IF Author[id] = x THEN 0 ELSE 1
  <2> TAKE x \in Nodes, id \in Msgs
  <2>1. CASE x = n /\ id \in ids
    <3>1. announced'[x][id] = 1 /\ id \in emitted'[x]
      BY <1>2, <1>3, <2>1
    <3>2. Author[id] # x
      BY <1>1, <2>1
    <3> QED
      BY <3>1, <3>2
  <2>2. CASE ~(x = n /\ id \in ids)
    <3>1. announced'[x][id] = announced[x][id] /\ emitted[x] \subseteq emitted'[x]
      BY <1>2, <1>3, <2>2
    <3> QED
      BY <3>1 DEF ChatOK
  <2> QED
    BY <2>1, <2>2
<1> QED
  BY <1>4, <1>5, <1>6, <1>7, <1>8 DEF ChatOK

LEMMA EmitStep == ASSUME IInv, NEW n \in Nodes, NEW t, Emit(n, t) PROVE IInv'
<1> DEFINE S == SentAt(stage)
           ids == {t.id} \ emitted[n]
<1>1. t \in Task /\ t.id \in Msgs /\ t.id \in S
  BY DEF IInv, Emit, TypeOK, IngestOK, Task
<1>2. /\ emitted \in [Nodes -> SUBSET Msgs] /\ announced \in [Nodes -> [Msgs -> 0 .. 2]]
      /\ ChatOK(emitted, announced, S)
  BY DEF IInv, TypeOK
<1>3. Announce(n, ids)
  BY DEF Emit
<1>4. /\ emitted' \in [Nodes -> SUBSET Msgs] /\ announced' \in [Nodes -> [Msgs -> 0 .. 2]]
      /\ ChatOK(emitted', announced', S)
  BY <1>1, <1>2, <1>3, AnnounceStep
<1>5. ingest' \in [Nodes -> SUBSET Task] /\ IngestOK(ingest', AdmittedBy(doc), S)
  BY DEF IInv, Emit, TypeOK, IngestOK
<1>6. TypeOK'
  BY <1>4, <1>5 DEF IInv, Emit, TypeOK, peers, queue
<1> QED
  BY <1>4, <1>5, <1>6 DEF IInv, Emit, peers, queue

(* The documents' type, which DocsOK includes.                             *)
LEMMA DocsTyped ==
  ASSUME NEW d, NEW A, NEW S, DocsOK(d, A, S)
  PROVE  \A n \in Nodes : \A c \in d[n] : IsChange(c)
BY DEF DocsOK

LEMMA EditDocStep ==
  ASSUME IInv, NEW n \in Nodes, NEW d, LocalChanges(doc[n], d, n, {}), EditDoc(n, d)
  PROVE  IInv'
<1> DEFINE S == SentAt(stage)
<1>1. DOMAIN doc = Nodes /\ doc' = [doc EXCEPT ![n] = d] /\ stage' = stage
  BY DEF IInv, TypeOK, EditDoc
<1>2. /\ DOMAIN doc' = Nodes
      /\ AdmittedBy(doc) \subseteq AdmittedBy(doc')
      /\ DocsOK(doc', AdmittedBy(doc'), S)
  <2>1. DocsOK(doc, AdmittedBy(doc), SentAt(stage))
    BY DEF IInv
  <2> DEFINE ids == {}
  <2>2. SentAt(stage) \subseteq SentAt(stage') /\ ids \subseteq SentAt(stage')
    BY <1>1
  <2>3. LocalChanges(doc[n], d, n, ids) /\ \A id \in ids : Author[id] # n => n \in AdmittedBy(doc)
    OBVIOUS
  <2> HIDE DEF ids
  <2> QED
    BY <1>1, <2>1, <2>2, <2>3, LocalStep
<1>3. WireOK(wire, AdmittedBy(doc'), S) /\ IngestOK(ingest, AdmittedBy(doc'), S)
  BY <1>2, Monotone DEF IInv
<1>4. TypeOK'
  BY <1>2, DocsTyped DEF IInv, EditDoc, TypeOK, peers, queue, chat
<1> QED
  BY <1>2, <1>3, <1>4 DEF IInv, EditDoc, peers, queue, chat

LEMMA ApplicationEditStep ==
  ASSUME IInv, NEW n \in Nodes
  PROVE  /\ \A guests \in GuestLists : CreateChannel(n, guests) => IInv'
         /\ \A m \in Nodes : AddParticipant(n, m) \/ RemoveParticipant(n, m) => IInv'
<1>1. ASSUME NEW guests \in GuestLists, CreateChannel(n, guests) PROVE IInv'
  <2>1. LocalChanges(doc[n], createChannel(doc[n], n, guests), n, {})
    BY Constants, CreateLocal
  <2> QED
    BY <1>1, <2>1, EditDocStep DEF CreateChannel
<1>2. ASSUME NEW m \in Nodes, AddParticipant(n, m) PROVE IInv'
  <2>1. LocalChanges(doc[n], addParticipants(doc[n], n, {m}), n, {})
    BY AddLocal
  <2> QED
    BY <1>2, <2>1, EditDocStep DEF AddParticipant
<1>3. ASSUME NEW m \in Nodes, RemoveParticipant(n, m) PROVE IInv'
  <2>1. LocalChanges(doc[n], removeParticipants(doc[n], n, {m}), n, {})
    BY RemoveLocal
  <2> QED
    BY <1>3, <2>1, EditDocStep DEF RemoveParticipant
<1> QED
  BY <1>1, <1>2, <1>3

LEMMA SendMessageStep ==
  ASSUME IInv, NEW id \in Msgs, NEW guests \in GuestLists, SendMessage(id, guests)
  PROVE  IInv'
<1> DEFINE n == Author[id]
           d == recordLocally(doc[n], n, id, Original(id).body, guests, n)
           S == SentAt(stage)
           S2 == SentAt(stage')
<1>1. n \in Nodes /\ guests \subseteq Nodes /\ Original(id).body \in Body
  BY Constants, Frames
<1>2. /\ DOMAIN doc = Nodes /\ DocsOK(doc, AdmittedBy(doc), S)
      /\ stage \in [Msgs -> {"unsent", "recorded", "published", "unpublished", "done"}]
      /\ emitted \in [Nodes -> SUBSET Msgs] /\ announced \in [Nodes -> [Msgs -> 0 .. 2]]
      /\ ChatOK(emitted, announced, S)
  BY DEF IInv, TypeOK
<1>3. /\ doc' = [doc EXCEPT ![n] = d]
      /\ emitted' = [emitted EXCEPT ![n] = @ \cup {id}]
      /\ stage' = [stage EXCEPT ![id] = "recorded"]
      /\ announced' = announced
  BY DEF SendMessage
<1>4. /\ stage' \in [Msgs -> {"unsent", "recorded", "published", "unpublished", "done"}]
      /\ S2 = S \cup {id}
  BY <1>2, <1>3 DEF SentAt
<1>5. LocalChanges(doc[n], d, n, {id})
  BY <1>1, RecordLocal
<1>6. /\ DOMAIN doc' = Nodes
      /\ AdmittedBy(doc) \subseteq AdmittedBy(doc')
      /\ DocsOK(doc', AdmittedBy(doc'), S2)
  <2> DEFINE ids == {id}
  <2>1. \A jd \in ids : Author[jd] # n => n \in AdmittedBy(doc)
    OBVIOUS
  <2>2. SentAt(stage) \subseteq SentAt(stage') /\ ids \subseteq SentAt(stage')
    BY <1>4
  <2>3. LocalChanges(doc[n], d, n, ids)
    BY <1>5
  <2> HIDE DEF d, n, ids
  <2> QED
    BY <1>1, <1>2, <1>3, <2>1, <2>2, <2>3, LocalStep
<1>7. /\ WireOK(wire, AdmittedBy(doc'), S2) /\ IngestOK(ingest, AdmittedBy(doc'), S2)
      /\ QueueOK(outbox, S2) /\ PassOK(pass, S2)
  <2>1. S \subseteq S2
    BY <1>4
  <2>2. /\ WireOK(wire, AdmittedBy(doc), S) /\ IngestOK(ingest, AdmittedBy(doc), S)
        /\ QueueOK(outbox, S) /\ PassOK(pass, S)
    BY DEF IInv
  <2> HIDE DEF S, S2
  <2> QED
    BY <1>6, <2>1, <2>2, Monotone
<1>8. emitted' \in [Nodes -> SUBSET Msgs] /\ ChatOK(emitted', announced', S2)
  <2>1. \A x \in Nodes : emitted[x] \subseteq emitted'[x]
    BY <1>2, <1>3
  <2>2. id \in emitted'[n]
    BY <1>1, <1>2, <1>3
  <2>3. \A jd \in S : Author[jd] \in Nodes
    BY Constants DEF SentAt
  <2>4. \A jd \in S2 : jd \in emitted'[Author[jd]]
    BY <1>2, <1>4, <2>1, <2>2, <2>3 DEF ChatOK
  <2>5. emitted' \in [Nodes -> SUBSET Msgs]
    BY <1>1, <1>2, <1>3
  <2> QED
    BY <1>2, <1>3, <2>1, <2>4, <2>5 DEF ChatOK
<1>9. TypeOK'
  <2>1. \A x \in Nodes : \A c \in doc'[x] : IsChange(c)
    BY <1>6, DocsTyped
  <2> QED
    BY <1>4, <1>6, <1>8, <2>1 DEF IInv, SendMessage, TypeOK, peers, queue
<1> QED
  BY <1>6, <1>7, <1>8, <1>9 DEF IInv, SendMessage, peers, queue

LEMMA RecordStep == ASSUME IInv, NEW n \in Nodes, NEW t, Record(n, t) PROVE IInv'
<1> DEFINE d == recordLocally(doc[n], n, t.id, t.body, {}, Author[t.id])
           S == SentAt(stage)
           done == [t EXCEPT !.step = "emit"]
<1>1. /\ t \in ingest[n] /\ ingest \in [Nodes -> SUBSET Task] /\ t \in Task
      /\ t.id \in Msgs /\ t.body \in Body /\ t.id \in S /\ n \in AdmittedBy(doc)
  BY DEF IInv, Record, TypeOK, IngestOK, Task
<1>2. Author[t.id] \in Nodes
  BY <1>1, Constants
<1>3. DOMAIN doc = Nodes /\ DocsOK(doc, AdmittedBy(doc), S)
  BY DEF IInv, TypeOK
<1>4. doc' = [doc EXCEPT ![n] = d] /\ stage' = stage
  BY DEF Record
<1>5. LocalChanges(doc[n], d, n, {t.id})
  BY <1>1, <1>2, RecordLocal
<1>6. /\ DOMAIN doc' = Nodes
      /\ AdmittedBy(doc) \subseteq AdmittedBy(doc')
      /\ DocsOK(doc', AdmittedBy(doc'), S)
  <2> DEFINE ids == {t.id}
  <2>1. \A jd \in ids : Author[jd] # n => n \in AdmittedBy(doc)
    BY <1>1
  <2>2. SentAt(stage) \subseteq SentAt(stage') /\ ids \subseteq SentAt(stage')
    BY <1>1, <1>4
  <2>3. LocalChanges(doc[n], d, n, ids)
    BY <1>5
  <2> HIDE DEF d, ids
  <2> QED
    BY <1>1, <1>3, <1>4, <2>1, <2>2, <2>3, LocalStep
<1>7. WireOK(wire, AdmittedBy(doc'), S) /\ IngestOK(ingest, AdmittedBy(doc'), S)
  BY <1>6, Monotone DEF IInv
<1>8. ingest' = [ingest EXCEPT ![n] = (@ \ {t}) \cup {done}]
  BY DEF Record
<1>9. done \in Task /\ done.id = t.id
  BY <1>1 DEF Task
<1>10. ingest' \in [Nodes -> SUBSET Task] /\ IngestOK(ingest', AdmittedBy(doc'), S)
  <2> HIDE DEF done, S
  <2>1. ingest' \in [Nodes -> SUBSET Task]
    BY <1>1, <1>8, <1>9
  <2>2. \A x \in Nodes : \A u \in ingest'[x] :
          u \in ingest[x] \/ (x = n /\ u = done)
    BY <1>1, <1>8
  <2> QED
    BY <1>1, <1>6, <1>7, <1>9, <2>1, <2>2 DEF IngestOK
<1>11. TypeOK'
  <2>1. \A x \in Nodes : \A c \in doc'[x] : IsChange(c)
    BY <1>6, DocsTyped
  <2> QED
    BY <1>6, <1>10, <2>1 DEF IInv, Record, TypeOK, peers, queue, chat
<1> QED
  BY <1>6, <1>7, <1>10, <1>11 DEF IInv, Record, peers, queue, chat

(* Merging n's document into m's: both are admitted, so whatever n's       *)
(* document says of others may be said in m's.                             *)
LEMMA SyncStep == ASSUME IInv, NEW n \in Nodes, NEW m \in Nodes, Sync(n, m) PROVE IInv'
<1> DEFINE d == doc[n] \cup doc[m]
           S == SentAt(stage)
<1>1. DOMAIN doc = Nodes /\ DocsOK(doc, AdmittedBy(doc), S) /\ LiveOK(live)
  BY DEF IInv, TypeOK
<1>2. /\ doc' = [doc EXCEPT ![m] = d] /\ stage' = stage
      /\ m \in Recipients(n, live) /\ n \in Recipients(m, live)
  BY DEF Sync
<1>3. m # n /\ m \in AdmittedBy(doc) /\ n \in AdmittedBy(doc)
  BY <1>1, <1>2, RecipientAdmitted
<1>4. DOMAIN doc' = Nodes /\ \A x \in Nodes : doc'[x] = IF x = m THEN d ELSE doc[x]
  BY <1>1, <1>2
<1>5. AdmittedBy(doc) \subseteq AdmittedBy(doc')
  BY <1>4 DEF AdmittedBy
<1>6. DocsOK(doc', AdmittedBy(doc'), S)
  <2>1. ASSUME NEW x \in Nodes, NEW c \in doc'[x]
        PROVE  /\ IsChange(c)
               /\ \A k \in Nodes : c.key = MemberKey(k) /\ c.val # Gone /\ k # x
                                   => k \in AdmittedBy(doc')
               /\ \A id \in Msgs : c.key = MessageKey(id)
                    => id \in S /\ (Author[id] # x => x \in AdmittedBy(doc'))
    <3>1. CASE c \in doc[x]
      BY <1>1, <1>5, <3>1 DEF DocsOK
    <3>2. CASE c \notin doc[x]
      <4>1. x = m /\ c \in doc[n]
        BY <1>4, <2>1, <3>2
      <4>2. /\ IsChange(c)
            /\ \A k \in Nodes : c.key = MemberKey(k) /\ c.val # Gone /\ k # n
                                => k \in AdmittedBy(doc)
            /\ \A id \in Msgs : c.key = MessageKey(id) => id \in S
        BY <1>1, <4>1 DEF DocsOK
      <4> QED
        BY <1>3, <1>5, <4>1, <4>2
    <3> QED
      BY <3>1, <3>2
  <2> QED
    BY <2>1 DEF DocsOK
<1>7. WireOK(wire, AdmittedBy(doc'), S) /\ IngestOK(ingest, AdmittedBy(doc'), S)
  BY <1>5, Monotone DEF IInv
<1>8. messages(d) \subseteq Msgs /\ \A id \in messages(d) : id \in S
  <2>1. messages(d) \subseteq Msgs
    BY DEF messages
  <2>2. ASSUME NEW id \in messages(d) PROVE id \in S
    <3>1. PICK c \in d : c.key = MessageKey(id)
      BY HeldByChange
    <3>2. c \in doc[n] \/ c \in doc[m]
      OBVIOUS
    <3> QED
      BY <1>1, <2>1, <3>1, <3>2 DEF DocsOK
  <2> QED
    BY <2>1, <2>2
<1>9. /\ emitted \in [Nodes -> SUBSET Msgs] /\ announced \in [Nodes -> [Msgs -> 0 .. 2]]
      /\ baseline \in [Nodes -> SUBSET Msgs] /\ sighted \in [Nodes -> BOOLEAN]
      /\ ChatOK(emitted, announced, S)
  BY DEF IInv, TypeOK
<1>10. EmitSynced(m, d)
  BY DEF Sync
<1>11. /\ emitted' \in [Nodes -> SUBSET Msgs] /\ announced' \in [Nodes -> [Msgs -> 0 .. 2]]
       /\ baseline' \in [Nodes -> SUBSET Msgs] /\ sighted' \in [Nodes -> BOOLEAN]
       /\ ChatOK(emitted', announced', S)
  <2> HIDE DEF d, S
  <2>1. CASE sighted[m]
    <3> DEFINE ids == (messages(d) \ baseline[m]) \ emitted[m]
    <3>1. Announce(m, ids) /\ UNCHANGED <<sighted, baseline>>
      BY <1>10, <2>1 DEF EmitSynced
    <3>2. ids \subseteq Msgs /\ \A id \in ids : id \notin emitted[m] /\ id \in S
      BY <1>8
    <3> HIDE DEF ids
    <3> QED
      BY <1>9, <3>1, <3>2, AnnounceStep
  <2>2. CASE ~sighted[m]
    BY <1>8, <1>9, <1>10, <2>2 DEF EmitSynced
  <2> QED
    BY <2>1, <2>2
<1>12. TypeOK'
  <2>1. \A x \in Nodes : \A c \in doc'[x] : IsChange(c)
    BY <1>6, DocsTyped
  <2> QED
    BY <1>4, <1>11, <2>1 DEF IInv, Sync, TypeOK, peers, queue
<1> QED
  BY <1>6, <1>7, <1>11, <1>12 DEF IInv, Sync, peers, queue
-----------------------------------------------------------------------------
LEMMA NextIInv == IInv /\ [Next]_vars => IInv'
<1> SUFFICES ASSUME IInv, [Next]_vars PROVE IInv'
  OBVIOUS
<1>1. ASSUME NEW n \in Nodes, NEW m \in Nodes,
             AddPeer(n, m) \/ Connect(n, m) \/ LinkLost(n, m)
      PROVE  IInv'
  BY <1>1, AddPeerStep, ConnectStep, LinkLostStep
<1>2. ASSUME NEW n \in Nodes, NEW m \in Nodes, Receive(n, m) \/ Sync(n, m) PROVE IInv'
  BY <1>2, ReceiveStep, SyncStep
<1>3. ASSUME NEW n \in Nodes, NEW m \in Nodes,
             AddParticipant(n, m) \/ RemoveParticipant(n, m)
      PROVE  IInv'
  BY <1>3, ApplicationEditStep
<1>4. ASSUME NEW n \in Nodes, NEW guests \in GuestLists, CreateChannel(n, guests) PROVE IInv'
  BY <1>4, ApplicationEditStep
<1>5. ASSUME NEW n \in Nodes, GoOffline(n) \/ GoOnline(n) \/ DrainAfterDial(n) PROVE IInv'
  BY <1>5, GoOfflineStep, GoOnlineStep, DrainAfterDialStep
<1>6. ASSUME NEW n \in Nodes, NEW p \in Passes, PassSettles(n, p) PROVE IInv'
  BY <1>6, PassSettlesStep
<1>7. ASSUME NEW n \in Nodes, NEW t \in ingest[n],
             Refuse(n, t) \/ Record(n, t) \/ Emit(n, t)
      PROVE  IInv'
  BY <1>7, RefuseStep, RecordStep, EmitStep
<1>8. ASSUME NEW id \in Msgs, NEW guests \in GuestLists, SendMessage(id, guests) PROVE IInv'
  BY <1>8, SendMessageStep
<1>9. ASSUME NEW id \in Msgs, Publish(id) \/ SendSettles(id) PROVE IInv'
  BY <1>9, PublishStep, SendSettlesStep
<1>10. CASE UNCHANGED vars
  BY <1>10 DEF vars, peers, queue, chat, IInv, TypeOK
<1> QED
  BY <1>1, <1>2, <1>3, <1>4, <1>5, <1>6, <1>7, <1>8, <1>9, <1>10 DEF Next

LEMMA Invariance == Spec => []IInv
BY InitIInv, NextIInv, PTL DEF Spec

(* The type invariant, for any number of nodes and messages.               *)
THEOREM TypeCorrect == Spec => []TypeOK
<1>1. IInv => TypeOK
  BY DEF IInv
<1> QED
  BY <1>1, Invariance, PTL

(* However frames, replays and relayed documents mix, a node nobody else   *)
(* put on the guest list never gets at a message of another (publish, the  *)
(* sync engine's mayShare, recordLocally).                                 *)
THEOREM Isolated == Spec => []Isolation
<1>1. IInv => Isolation
  <2> SUFFICES ASSUME IInv, NEW m \in Nodes, NEW id \in Msgs,
                      Reached(m, id), Author[id] # m
               PROVE  Admitted(m)
    BY DEF Isolation
  <2>1. m \in AdmittedBy(doc)
    <3>1. CASE id \in messages(doc[m])
      <4>1. PICK c \in doc[m] : c.key = MessageKey(id)
        BY <3>1, HeldByChange
      <4> QED
        BY <4>1 DEF IInv, DocsOK
    <3>2. CASE \E t \in ingest[m] : t.id = id
      BY <3>2 DEF IInv, IngestOK
    <3>3. CASE \E n \in Nodes : \E i \in 1 .. Len(wire[n][m]) : wire[n][m][i].id = id
      BY <3>3 DEF IInv, WireOK
    <3> QED
      BY <3>1, <3>2, <3>3 DEF Reached
  <2> QED
    BY <2>1 DEF AdmittedBy, Admitted, Additions
<1> QED
  BY <1>1, Invariance, PTL

(* The application hears of a message at most once, by whichever routes it *)
(* arrives, and never of its own (_emitMessage, markEmitted, emitSynced).  *)
THEOREM HeardOnce == Spec => []AnnouncedOnce
<1>1. IInv => AnnouncedOnce
  BY DEF IInv, ChatOK, AnnouncedOnce
<1> QED
  BY <1>1, Invariance, PTL

(* No frame, whenever it was let in, changes the guest list of a           *)
(* conversation its receiver already holds (recordLocally).                *)
THEOREM FramesNeverAdmit == Spec => InboundNeverAdmits
<1> DEFINE Kept == \A n \in Nodes : ingest'[n] # ingest[n] /\ hasDocument(doc[n])
                     => participants(doc'[n]) = participants(doc[n])
<1>1. ASSUME TypeOK, [Next]_vars PROVE Kept
  <2> SUFFICES ASSUME NEW n \in Nodes, ingest'[n] # ingest[n], hasDocument(doc[n])
               PROVE  participants(doc'[n]) = participants(doc[n])
    OBVIOUS
  <2>1. CASE \E k \in Nodes : \E t \in ingest[k] : Record(k, t)
    <3>0. PICK k \in Nodes : \E t \in ingest[k] : Record(k, t)
      BY <2>1
    <3>1. PICK t \in ingest[k] : Record(k, t)
      BY <3>0
    <3>a. ingest' = [ingest EXCEPT ![k] = (@ \ {t}) \cup {[t EXCEPT !.step = "emit"]}]
      BY <3>1 DEF Record
    <3>b. DOMAIN ingest = Nodes /\ DOMAIN doc = Nodes
      BY <1>1 DEF TypeOK
    <3>2. k = n /\ DOMAIN doc = Nodes
      BY <3>a, <3>b
    <3>3. doc'[n] = recordLocally(doc[n], n, t.id, t.body, {}, Author[t.id])
      BY <3>1, <3>2 DEF Record
    <3>4. doc'[n] = addMessage(doc[n], n, t.id, t.body)
      BY <3>3 DEF recordLocally
    <3> QED
      BY <3>4, MessageKeepsGuests
  <2>2. CASE \E k, m \in Nodes : Receive(k, m)
    BY <2>2 DEF Receive
  <2>3. CASE \E k \in Nodes : \E t \in ingest[k] : Refuse(k, t) \/ Emit(k, t)
    BY <2>3 DEF Refuse, Emit
  <2>4. CASE UNCHANGED ingest
    BY <2>4
  <2>5. \/ \E k \in Nodes : \E t \in ingest[k] : Record(k, t) \/ Refuse(k, t) \/ Emit(k, t)
        \/ \E k, m \in Nodes : Receive(k, m)
        \/ UNCHANGED ingest
    <3>1. ASSUME NEW k \in Nodes, NEW m \in Nodes,
                 \/ AddPeer(k, m) \/ Connect(k, m) \/ LinkLost(k, m) \/ Sync(k, m)
                 \/ AddParticipant(k, m) \/ RemoveParticipant(k, m)
          PROVE  UNCHANGED ingest
      BY <3>1 DEF AddPeer, Connect, LinkLost, Sync, AddParticipant, RemoveParticipant, EditDoc
    <3>2. ASSUME NEW k \in Nodes, NEW guests, CreateChannel(k, guests)
          PROVE  UNCHANGED ingest
      BY <3>2 DEF CreateChannel, EditDoc
    <3>3. ASSUME NEW k \in Nodes, NEW p,
                 GoOffline(k) \/ GoOnline(k) \/ DrainAfterDial(k) \/ PassSettles(k, p)
          PROVE  UNCHANGED ingest
      BY <3>3 DEF GoOffline, GoOnline, DrainAfterDial, PassSettles
    <3>4. ASSUME NEW id \in Msgs, NEW guests,
                 SendMessage(id, guests) \/ Publish(id) \/ SendSettles(id)
          PROVE  UNCHANGED ingest
      BY <3>4 DEF SendMessage, Publish, SendSettles
    <3>5. UNCHANGED vars => UNCHANGED ingest
      BY DEF vars
    <3> QED
      BY <1>1, <3>1, <3>2, <3>3, <3>4, <3>5 DEF Next
  <2> QED
    BY <2>1, <2>2, <2>3, <2>4, <2>5
<1>2. TypeOK /\ [Next]_vars => [Kept]_vars
  BY <1>1
<1> QED
  BY <1>2, TypeCorrect, PTL DEF Spec, InboundNeverAdmits
-----------------------------------------------------------------------------
(* Who is left out.  A write that is live after more changes were added    *)
(* was live before, or is one of them.                                     *)
LEMMA LiveBefore ==
  ASSUME NEW d, NEW d2, d \subseteq d2, NEW key, NEW c \in Live(d2, key), c \in d
  PROVE  c \in Live(d, key)
BY DEF Live

LEMMA StillUnlisted ==
  ASSUME NEW d, NEW d2, d \subseteq d2, NEW m, m \notin participants(d),
         \A c \in d2 \ d : c.key = MemberKey(m) => c.val = Gone
  PROVE  m \notin participants(d2)
<1> SUFFICES ASSUME m \in participants(d2) PROVE FALSE
  OBVIOUS
<1>1. m \in Nodes /\ Live(d2, MemberKey(m)) # {}
  BY DEF participants
<1>2. PICK c \in Live(d2, MemberKey(m)) : TRUE
  BY <1>1
<1>3. c \in d2 /\ c.key = MemberKey(m) /\ c.val # Gone
  BY <1>2 DEF Live
<1>4. c \in Live(d, MemberKey(m))
  BY <1>3, LiveBefore
<1> QED
  BY <1>1, <1>4 DEF participants

(* Merging neither lists anybody nor holds anything that neither did.      *)
LEMMA MergeAddsNothing ==
  ASSUME NEW d, NEW e
  PROVE  /\ participants(d \cup e) \subseteq participants(d) \cup participants(e)
         /\ messages(d \cup e) \subseteq messages(d) \cup messages(e)
<1>1. \A key : Live(d \cup e, key) \subseteq Live(d, key) \cup Live(e, key)
  BY DEF Live
<1> QED
  BY <1>1 DEF participants, messages

LEMMA OnlyThoseWritten ==
  ASSUME NEW d, NEW d2, NEW n, NEW ids, LocalChanges(d, d2, n, ids)
  PROVE  messages(d2) \subseteq messages(d) \cup ids
<1> SUFFICES ASSUME NEW id \in messages(d2), id \notin ids PROVE id \in messages(d)
  OBVIOUS
<1>1. id \in Msgs /\ Live(d2, MessageKey(id)) # {}
  BY DEF messages
<1>2. PICK c \in Live(d2, MessageKey(id)) : TRUE
  BY <1>1
<1>3. c \in d2 /\ c.key = MessageKey(id)
  BY <1>2 DEF Live
<1>4. c \in d /\ d \subseteq d2
  BY <1>1, <1>3 DEF LocalChanges
<1>5. c \in Live(d, MessageKey(id))
  BY <1>4, LiveBefore
<1> QED
  BY <1>1, <1>5 DEF messages

(* What m being left out comes to, part by part.                           *)
Parted(m) ==
  \A n \in Nodes \ {m} : doc[n] \subseteq doc'[n] /\ m \notin participants(doc'[n])

Arrived(m, id) == id \in messages(doc[m]) \/ \E t \in ingest[m] : t.id = id

SameWires(m) ==
  \A x \in Nodes : \A i \in 1 .. Len(wire'[x][m]) :
    \E j \in 1 .. Len(wire[x][m]) : wire'[x][m][i] = wire[x][m][j]

NoNews(m) ==
  \A id \in Msgs : IF Author[id] = m THEN Heard(m, id)' => Heard(m, id)
                                     ELSE Reached(m, id)' => Reached(m, id)

(* Only what was being let in still is; and n may write of ids.            *)
NoneLetIn == \A n \in Nodes : \A t \in ingest'[n] : \E u \in ingest[n] : u.id = t.id

MayWrite(n, ids) == \A id \in ids : Author[id] = n \/ \E u \in ingest[n] : u.id = id

LEMMA OutAgain == ASSUME NEW m \in Nodes, Out(m), Parted(m) PROVE Out(m)'
BY DEF Out, Parted, hasDocument

(* A node sends to no node that it does not list, nor to itself.           *)
LEMMA NothingSent ==
  ASSUME NEW m \in Nodes, Out(m), NEW n \in Nodes, NEW frame, NEW lv, LiveOK(lv),
         NEW ok \in SUBSET Recipients(n, lv), NEW wr \in Wires,
         Transmit(n, frame, ok, lv, wr)
  PROVE  \A x \in Nodes : wire'[x][m] = wr[x][m]
<1>1. m \notin ok
  BY DEF Recipients, Out, LiveOK
<1>2. wire' = [wr EXCEPT ![n] =
         [k \in Nodes |-> IF k \in ok /\ n \in lv[k] THEN Append(wr[n][k], frame)
                                                      ELSE wr[n][k]]]
  BY DEF Transmit
<1> QED
  BY <1>1, <1>2 DEF Wires

LEMMA NothingDrained ==
  ASSUME NEW m \in Nodes, Out(m), NEW n \in Nodes, NEW lv, LiveOK(lv), NEW wr \in Wires,
         \/ Drain(n, lv, wr)
         \/ \E p, q, todo : NextEntry(n, p, q, todo, lv, wr)
  PROVE  \A x \in Nodes : wire'[x][m] = wr[x][m]
<1>1. ASSUME NEW p, NEW q, NEW todo, NextEntry(n, p, q, todo, lv, wr)
      PROVE  \A x \in Nodes : wire'[x][m] = wr[x][m]
  <2>1. CASE wire' = wr
    BY <2>1
  <2>2. ASSUME NEW id, NEW ok \in SUBSET Recipients(n, lv),
               Transmit(n, Replay(id), ok, lv, wr)
        PROVE  \A x \in Nodes : wire'[x][m] = wr[x][m]
    BY <2>2, NothingSent
  <2> QED
    BY <1>1, <2>1, <2>2 DEF NextEntry
<1>2. ASSUME Drain(n, lv, wr) PROVE wire' = wr \/ \E p, q, todo : NextEntry(n, p, q, todo, lv, wr)
  BY <1>2 DEF Drain
<1> QED
  BY <1>1, <1>2

(* Steps that change neither documents nor the ids being let in.           *)
LEMMA QuietStep ==
  ASSUME NEW m \in Nodes, Out(m), doc' = doc, SameWires(m), NoneLetIn
  PROVE  Out(m)' /\ NoNews(m)
<1>1. Out(m)'
  BY DEF Out
<1>2. ASSUME NEW id \in Msgs, Heard(m, id)' PROVE Heard(m, id)
  BY <1>2 DEF Heard, NoneLetIn
<1>3. ASSUME NEW id \in Msgs, Reached(m, id)' PROVE Reached(m, id)
  <2>1. CASE Arrived(m, id)'
    BY <2>1 DEF Arrived, Reached, NoneLetIn
  <2>2. CASE \E x \in Nodes : \E i \in 1 .. Len(wire'[x][m]) : wire'[x][m][i].id = id
    <3>1. PICK x \in Nodes : \E i \in 1 .. Len(wire'[x][m]) : wire'[x][m][i].id = id
      BY <2>2
    <3>2. PICK i \in 1 .. Len(wire'[x][m]) : wire'[x][m][i].id = id
      BY <3>1
    <3>3. PICK j \in 1 .. Len(wire[x][m]) : wire'[x][m][i] = wire[x][m][j]
      BY <3>2 DEF SameWires
    <3> QED
      BY <3>2, <3>3 DEF Reached
  <2> QED
    BY <1>3, <2>1, <2>2 DEF Arrived, Reached
<1> QED
  BY <1>1, <1>2, <1>3 DEF NoNews

LEMMA QuietSteps ==
  ASSUME IInv, NEW m \in Nodes, Out(m),
         \/ \E n, k \in Nodes : AddPeer(n, k) \/ Connect(n, k) \/ LinkLost(n, k)
         \/ \E n \in Nodes : \/ GoOffline(n) \/ GoOnline(n) \/ DrainAfterDial(n)
                             \/ \E p \in Passes : PassSettles(n, p)
                             \/ \E t \in ingest[n] : Refuse(n, t) \/ Emit(n, t)
         \/ \E id \in Msgs : Publish(id) \/ SendSettles(id)
         \/ UNCHANGED vars
  PROVE  Out(m)' /\ NoNews(m)
<1>1. /\ wire \in Wires /\ LiveOK(live) /\ live \in [Nodes -> SUBSET Nodes]
      /\ \A id \in Msgs : Author[id] \in Nodes
      /\ DOMAIN ingest = Nodes
  BY Constants DEF IInv, TypeOK, Wires
<1>2. (\A x \in Nodes : wire'[x][m] = wire[x][m]) => SameWires(m)
  BY DEF SameWires
<1>3. ASSUME NEW n \in Nodes, NEW k \in Nodes, AddPeer(n, k)
      PROVE  Out(m)' /\ NoNews(m)
  BY <1>2, <1>3, QuietStep DEF NoneLetIn, AddPeer
<1>4. ASSUME NEW n \in Nodes, NEW k \in Nodes, Connect(n, k)
      PROVE  Out(m)' /\ NoNews(m)
  <2> DEFINE lv == [live EXCEPT ![n] = @ \cup {k}, ![k] = @ \cup {n}]
             wr == [wire EXCEPT ![n][k] = <<>>, ![k][n] = <<>>]
  <2>1. LiveOK(lv)
    BY <1>1, <1>4 DEF LiveOK, Connect
  <2>2. wr \in Wires /\ \A x \in Nodes : wr[x][m] = wire[x][m] \/ wr[x][m] = <<>>
    <3>1. <<>> \in Seq(Frame)
      OBVIOUS
    <3>2. [wire EXCEPT ![n][k] = <<>>] \in Wires
      BY <1>1, <3>1 DEF Wires
    <3> QED
      BY <1>1, <3>1, <3>2 DEF Wires
  <2>3. Drain(k, lv, wr)
    BY <1>4 DEF Connect
  <2>4. \A x \in Nodes : wire'[x][m] = wr[x][m]
    <3> HIDE DEF lv, wr
    <3> QED
      BY <2>1, <2>2, <2>3, NothingDrained
  <2>5. \A x \in Nodes : wire'[x][m] = wire[x][m] \/ wire'[x][m] = <<>>
    <3> HIDE DEF wr
    <3> QED
      BY <2>2, <2>4
  <2>6. SameWires(m)
    BY <2>5 DEF SameWires
  <2> QED
    BY <1>4, <2>6, QuietStep DEF NoneLetIn, Connect
<1>5. ASSUME NEW n \in Nodes, NEW k \in Nodes, LinkLost(n, k)
      PROVE  Out(m)' /\ NoNews(m)
  <2>1. SameWires(m)
    BY <1>5, LinkLostFrames DEF SameWires
  <2> QED
    BY <1>5, <2>1, QuietStep DEF NoneLetIn, LinkLost
<1>6. ASSUME NEW n \in Nodes, GoOffline(n)
      PROVE  Out(m)' /\ NoNews(m)
  BY <1>2, <1>6, QuietStep DEF NoneLetIn, GoOffline
<1>7. ASSUME NEW n \in Nodes, GoOnline(n) \/ DrainAfterDial(n)
      PROVE  Out(m)' /\ NoNews(m)
  <2>1. SameWires(m)
    BY <1>1, <1>2, <1>7, NothingDrained DEF GoOnline, DrainAfterDial
  <2> QED
    BY <1>7, <2>1, QuietStep DEF NoneLetIn, GoOnline, DrainAfterDial
<1>8. ASSUME NEW n \in Nodes, NEW p \in Passes, PassSettles(n, p)
      PROVE  Out(m)' /\ NoNews(m)
  <2>1. \E q, todo : NextEntry(n, p, q, todo, live, wire)
    BY <1>8 DEF PassSettles
  <2>2. SameWires(m)
    BY <1>1, <1>2, <2>1, NothingDrained
  <2> QED
    BY <1>8, <2>2, QuietStep DEF NoneLetIn, PassSettles
<1>9. ASSUME NEW n \in Nodes, NEW t \in ingest[n], Refuse(n, t) \/ Emit(n, t)
      PROVE  Out(m)' /\ NoNews(m)
  <2>1. SameWires(m)
    BY <1>2, <1>9 DEF Refuse, Emit
  <2>2. \A x \in Nodes : ingest'[x] \subseteq ingest[x]
    BY <1>1, <1>9 DEF Refuse, Emit
  <2> QED
    BY <1>9, <2>1, <2>2, QuietStep DEF NoneLetIn, Refuse, Emit
<1>10. ASSUME NEW id \in Msgs, Publish(id) \/ SendSettles(id)
       PROVE  Out(m)' /\ NoNews(m)
  <2>1. \/ wire' = wire
        \/ \E ok \in SUBSET Recipients(Author[id], live) :
             Transmit(Author[id], Original(id), ok, live, wire)
    BY <1>10 DEF Publish, SendSettles
  <2>2. SameWires(m)
    BY <1>1, <1>2, <2>1, NothingSent
  <2> QED
    BY <1>10, <2>2, QuietStep DEF NoneLetIn, Publish, SendSettles
<1>11. CASE UNCHANGED vars
  BY <1>2, <1>11, QuietStep DEF NoneLetIn, vars
<1> QED
  BY <1>3, <1>4, <1>5, <1>6, <1>7, <1>8, <1>9, <1>10, <1>11

(* Steps that change the document of n by what n writes itself: messages   *)
(* ids, and no guest m unless n is m.                                      *)
LEMMA WritingStep ==
  ASSUME NEW m \in Nodes, Out(m), NEW n \in Nodes, NEW d2, NEW ids,
         DOMAIN doc = Nodes, doc' = [doc EXCEPT ![n] = d2], wire' = wire,
         LocalChanges(doc[n], d2, n, ids),
         n # m => m \notin participants(d2),
         MayWrite(n, ids), NoneLetIn
  PROVE  Out(m)' /\ NoNews(m)
<1>1. \A k \in Nodes : doc'[k] = IF k = n THEN d2 ELSE doc[k]
  OBVIOUS
<1>2. messages(d2) \subseteq messages(doc[n]) \cup ids /\ doc[n] \subseteq d2
  <2>1. messages(d2) \subseteq messages(doc[n]) \cup ids
    BY OnlyThoseWritten
  <2>2. doc[n] \subseteq d2
    BY DEF LocalChanges
  <2> QED
    BY <2>1, <2>2
<1>3. Parted(m)
  BY <1>1, <1>2 DEF Parted, Out
<1>4. ASSUME NEW id \in Msgs, Author[id] = m, Heard(m, id)' PROVE Heard(m, id)
  <2>1. PICK k \in Nodes \ {m} : id \in messages(doc'[k]) \/ \E t \in ingest'[k] : t.id = id
    BY <1>4 DEF Heard
  <2>2. CASE id \in messages(doc'[k])
    BY <1>1, <1>2, <1>4, <2>1, <2>2 DEF Heard, MayWrite
  <2>3. CASE \E t \in ingest'[k] : t.id = id
    BY <2>1, <2>3 DEF Heard, NoneLetIn
  <2> QED
    BY <2>1, <2>2, <2>3
<1>5. ASSUME NEW id \in Msgs, Author[id] # m, Reached(m, id)' PROVE Reached(m, id)
  <2>1. CASE id \in messages(doc'[m])
    BY <1>1, <1>2, <1>5, <2>1 DEF Reached, MayWrite
  <2>2. CASE \E t \in ingest'[m] : t.id = id
    BY <2>2 DEF Reached, NoneLetIn
  <2>3. CASE \E x \in Nodes : \E i \in 1 .. Len(wire'[x][m]) : wire'[x][m][i].id = id
    BY <2>3 DEF Reached
  <2> QED
    BY <1>5, <2>1, <2>2, <2>3 DEF Reached
<1> QED
  BY <1>3, <1>4, <1>5, OutAgain DEF NoNews

LEMMA WritingSteps ==
  ASSUME IInv, NEW m \in Nodes, Out(m), ~Readmits(m),
         \/ \E n, k \in Nodes : AddParticipant(n, k) \/ RemoveParticipant(n, k)
         \/ \E n \in Nodes : \/ \E guests \in GuestLists : CreateChannel(n, guests)
                             \/ \E t \in ingest[n] : Record(n, t)
         \/ \E id \in Msgs, guests \in GuestLists : SendMessage(id, guests)
  PROVE  Out(m)' /\ NoNews(m)
<1>1. DOMAIN doc = Nodes /\ ingest \in [Nodes -> SUBSET Task]
  BY DEF IInv, TypeOK
<1>2. \A n \in Nodes \ {m} : hasDocument(doc[n]) /\ m \notin participants(doc[n])
  BY DEF Out
<1> DEFINE none == {}
<1>3. ASSUME NEW n \in Nodes, NEW d2, LocalChanges(doc[n], d2, n, none), EditDoc(n, d2),
             n # m => m \notin participants(d2)
      PROVE  Out(m)' /\ NoNews(m)
  <2>1. doc' = [doc EXCEPT ![n] = d2] /\ wire' = wire /\ ingest' = ingest
    BY <1>3 DEF EditDoc
  <2>2. MayWrite(n, none) /\ NoneLetIn
    BY <2>1 DEF MayWrite, NoneLetIn
  <2> HIDE DEF none
  <2> QED
    BY <1>1, <1>3, <2>1, <2>2, WritingStep
<1>4. ASSUME NEW n \in Nodes, NEW k \in Nodes, AddParticipant(n, k)
      PROVE  Out(m)' /\ NoNews(m)
  <2> DEFINE d2 == addParticipants(doc[n], n, {k})
  <2>1. LocalChanges(doc[n], d2, n, none)
    BY AddLocal
  <2>2. n # m => k # m
    BY <1>4 DEF Readmits
  <2>3. ASSUME n # m PROVE m \notin participants(d2)
    <3>1. \A c \in d2 \ doc[n] : c.key # MemberKey(m)
      BY <2>2, <2>3, ChangeFields, KeysDiffer DEF addParticipants
    <3>2. doc[n] \subseteq d2
      BY DEF addParticipants
    <3> HIDE DEF d2
    <3> QED
      BY <1>2, <2>3, <3>1, <3>2, StillUnlisted
  <2> HIDE DEF none
  <2> QED
    BY <1>3, <1>4, <2>1, <2>3 DEF AddParticipant
<1>5. ASSUME NEW n \in Nodes, NEW gone
      PROVE  /\ LocalChanges(doc[n], removeParticipants(doc[n], n, gone), n, none)
             /\ n # m => m \notin participants(removeParticipants(doc[n], n, gone))
  <2> DEFINE d2 == removeParticipants(doc[n], n, gone)
  <2>1. LocalChanges(doc[n], d2, n, none)
    BY RemoveLocal
  <2>2. \A c \in d2 \ doc[n] : c.val = Gone
    BY ChangeFields DEF removeParticipants
  <2>3. doc[n] \subseteq d2
    BY DEF removeParticipants
  <2> HIDE DEF d2
  <2>4. n # m => m \notin participants(d2)
    BY <1>2, <2>2, <2>3, StillUnlisted
  <2> QED
    BY <2>1, <2>4 DEF d2
<1>6. ASSUME NEW n \in Nodes, NEW k \in Nodes, RemoveParticipant(n, k)
      PROVE  Out(m)' /\ NoNews(m)
  <2> HIDE DEF none
  <2> QED
    BY <1>3, <1>5, <1>6 DEF RemoveParticipant
<1>7. ASSUME NEW n \in Nodes, NEW guests \in GuestLists, CreateChannel(n, guests)
      PROVE  Out(m)' /\ NoNews(m)
  <2> DEFINE intended == guests \cup {n}
             trimmed  == removeParticipants(doc[n], n, participants(doc[n]) \ intended)
             d2       == addParticipants(trimmed, n, intended)
  <2>1. LocalChanges(doc[n], createChannel(doc[n], n, guests), n, none)
    BY Constants, CreateLocal
  <2>2. createChannel(doc[n], n, guests) = d2
    BY DEF createChannel
  <2>3. n # m => m \notin guests
    BY <1>7 DEF Readmits
  <2>4. ASSUME n # m PROVE m \notin participants(d2)
    <3>1. m \notin participants(trimmed)
      BY <1>5, <2>4
    <3>2. trimmed \subseteq d2
      BY DEF addParticipants
    <3>3. \A c \in d2 \ trimmed : c.key # MemberKey(m)
      <4> HIDE DEF trimmed
      <4> QED
        BY <2>3, <2>4, ChangeFields, KeysDiffer DEF addParticipants
    <3> HIDE DEF d2, trimmed
    <3> QED
      BY <3>1, <3>2, <3>3, StillUnlisted
  <2> HIDE DEF none, d2
  <2> QED
    BY <1>3, <1>7, <2>1, <2>2, <2>4 DEF CreateChannel
<1>8. ASSUME NEW n \in Nodes, NEW id \in Msgs, NEW body \in Body, NEW guests,
             guests \subseteq Nodes, NEW author \in Nodes,
             doc' = [doc EXCEPT ![n] = recordLocally(doc[n], n, id, body, guests, author)],
             wire' = wire, Author[id] = n \/ \E u \in ingest[n] : u.id = id,
             NoneLetIn
      PROVE  Out(m)' /\ NoNews(m)
  <2> DEFINE d2 == recordLocally(doc[n], n, id, body, guests, author)
             ids == {id}
  <2>1. LocalChanges(doc[n], d2, n, ids)
    BY <1>8, RecordLocal
  <2>2. ASSUME n # m PROVE m \notin participants(d2)
    <3>1. d2 = addMessage(doc[n], n, id, body)
      BY <1>2, <2>2 DEF recordLocally
    <3> QED
      BY <1>2, <2>2, <3>1, MessageKeepsGuests
  <2>3. MayWrite(n, ids) /\ NoneLetIn
    BY <1>8 DEF MayWrite
  <2>4. doc' = [doc EXCEPT ![n] = d2] /\ wire' = wire
    BY <1>8
  <2> HIDE DEF d2, ids, none
  <2> QED
    BY <1>1, <2>1, <2>2, <2>3, <2>4, WritingStep
<1>9. ASSUME NEW n \in Nodes, NEW t \in ingest[n], Record(n, t)
      PROVE  Out(m)' /\ NoNews(m)
  <2> DEFINE id     == t.id
             body   == t.body
             author == Author[t.id]
             nobody == {}
  <2>1. t \in Task /\ id \in Msgs /\ body \in Body /\ author \in Nodes /\ nobody \subseteq Nodes
    BY <1>1, <1>9, Constants DEF Task
  <2>2. NoneLetIn
    <3> DEFINE done == [t EXCEPT !.step = "emit"]
    <3>1. done.id = t.id
      BY <2>1 DEF Task
    <3>2. ingest' = [ingest EXCEPT ![n] = (@ \ {t}) \cup {done}]
      BY <1>9 DEF Record
    <3> HIDE DEF done
    <3> QED
      BY <1>1, <1>9, <3>1, <3>2 DEF NoneLetIn
  <2>3. /\ doc' = [doc EXCEPT ![n] = recordLocally(doc[n], n, id, body, nobody, author)]
        /\ wire' = wire
    BY <1>9 DEF Record
  <2>4. Author[id] = n \/ \E u \in ingest[n] : u.id = id
    BY <1>9
  <2> HIDE DEF id, body, author, nobody, none
  <2> QED
    BY <1>8, <2>1, <2>2, <2>3, <2>4
<1>10. ASSUME NEW id \in Msgs, NEW guests \in GuestLists, SendMessage(id, guests)
       PROVE  Out(m)' /\ NoNews(m)
  <2> DEFINE n == Author[id]
  <2>1. n \in Nodes /\ guests \subseteq Nodes /\ Original(id).body \in Body
    BY Constants, Frames
  <2>2. /\ doc' = [doc EXCEPT ![n] =
             recordLocally(doc[n], n, id, Original(id).body, guests, n)]
        /\ wire' = wire /\ NoneLetIn
    BY <1>10 DEF SendMessage, NoneLetIn
  <2> HIDE DEF none
  <2> QED
    BY <1>8, <2>1, <2>2
<1> QED
  BY <1>4, <1>6, <1>7, <1>9, <1>10

(* Two that synchronise list each other: neither is the one left out.      *)
LEMMA SyncOut ==
  ASSUME IInv, NEW m \in Nodes, Out(m), NEW n \in Nodes, NEW k \in Nodes, Sync(n, k)
  PROVE  Out(m)' /\ NoNews(m)
<1>1. DOMAIN doc = Nodes /\ LiveOK(live)
  BY DEF IInv, TypeOK
<1>2. /\ doc' = [doc EXCEPT ![k] = doc[n] \cup doc[k]] /\ wire' = wire /\ ingest' = ingest
      /\ k \in Recipients(n, live) /\ n \in Recipients(k, live)
  BY DEF Sync
<1>3. n # k /\ k \in participants(doc[n]) /\ n \in participants(doc[k])
  BY <1>1, <1>2 DEF Recipients, LiveOK
<1>4. n # m /\ k # m
  BY <1>3 DEF Out
<1>5. \A x \in Nodes : doc'[x] = IF x = k THEN doc[n] \cup doc[k] ELSE doc[x]
  BY <1>1, <1>2
<1>6. m \notin participants(doc[n] \cup doc[k])
  BY <1>4, MergeAddsNothing DEF Out
<1>7. Parted(m)
  BY <1>5, <1>6 DEF Parted, Out
<1>8. ASSUME NEW id \in Msgs, Heard(m, id)' PROVE Heard(m, id)
  <2>1. PICK x \in Nodes \ {m} : id \in messages(doc'[x]) \/ \E t \in ingest[x] : t.id = id
    BY <1>2, <1>8 DEF Heard
  <2>2. CASE id \in messages(doc'[x]) /\ x = k
    <3>1. id \in messages(doc[n]) \/ id \in messages(doc[k])
      BY <1>5, <2>2, MergeAddsNothing
    <3> QED
      BY <1>4, <3>1 DEF Heard
  <2> QED
    BY <1>5, <2>1, <2>2 DEF Heard
<1>9. ASSUME NEW id \in Msgs, Reached(m, id)' PROVE Reached(m, id)
  BY <1>2, <1>4, <1>5, <1>9 DEF Reached
<1> QED
  BY <1>7, <1>8, <1>9, OutAgain DEF NoNews

(* A frame of m's is not let in, and no other node sends m's messages.     *)
LEMMA ReceiveOut ==
  ASSUME IInv, NEW m \in Nodes, Out(m), NEW n \in Nodes, NEW k \in Nodes, Receive(n, k)
  PROVE  Out(m)' /\ NoNews(m)
<1> DEFINE frame == Head(wire[n][k])
           task == [id |-> frame.id, body |-> frame.body, step |-> "verify"]
<1>1. /\ frame = wire[n][k][1] /\ 1 \in 1 .. Len(wire[n][k])
      /\ \A x, y \in Nodes : \A i \in 1 .. Len(wire'[x][y]) :
           \E j \in 1 .. Len(wire[x][y]) : wire'[x][y][i] = wire[x][y][j]
  BY ReceiveFrames
<1>2. doc' = doc /\ DOMAIN ingest = Nodes
  BY DEF Receive, IInv, TypeOK
<1>3. Author[frame.id] = n
  BY <1>1 DEF IInv, WireOK, Own
<1>4. \/ ingest' = ingest
      \/ /\ ingest' = [ingest EXCEPT ![k] = @ \cup {task}]
         /\ hasDocument(doc[k]) => n \in participants(doc[k])
  BY DEF Receive
<1>5. task.id = frame.id
  OBVIOUS
<1> HIDE DEF frame, task
<1>6. Out(m)'
  BY <1>2 DEF Out
<1>7. ASSUME NEW id \in Msgs, Author[id] = m, Heard(m, id)' PROVE Heard(m, id)
  <2>1. PICK x \in Nodes \ {m} : id \in messages(doc[x]) \/ \E t \in ingest'[x] : t.id = id
    BY <1>2, <1>7 DEF Heard
  <2>2. CASE \E t \in ingest[x] : t.id = id
    BY <2>1, <2>2 DEF Heard
  <2>3. CASE x = k /\ id = frame.id /\ n \in participants(doc[k])
    BY <1>3, <1>7, <2>1, <2>3 DEF Out
  <2>4. hasDocument(doc[x])
    BY <2>1 DEF Out
  <2> QED
    BY <1>2, <1>4, <1>5, <2>1, <2>2, <2>3, <2>4 DEF Heard
<1>8. ASSUME NEW id \in Msgs, Reached(m, id)' PROVE Reached(m, id)
  <2>1. CASE id \in messages(doc[m]) \/ \E t \in ingest[m] : t.id = id
    BY <2>1 DEF Reached
  <2>2. CASE \E x \in Nodes : \E i \in 1 .. Len(wire'[x][m]) : wire'[x][m][i].id = id
    <3>1. PICK x \in Nodes : \E i \in 1 .. Len(wire'[x][m]) : wire'[x][m][i].id = id
      BY <2>2
    <3>2. PICK i \in 1 .. Len(wire'[x][m]) : wire'[x][m][i].id = id
      BY <3>1
    <3>3. PICK j \in 1 .. Len(wire[x][m]) : wire'[x][m][i] = wire[x][m][j]
      BY <1>1, <3>2
    <3> QED
      BY <3>2, <3>3 DEF Reached
  <2>3. CASE m = k /\ id = frame.id
    BY <1>1, <2>3 DEF Reached
  <2> QED
    BY <1>2, <1>4, <1>5, <1>8, <2>1, <2>2, <2>3 DEF Reached
<1> QED
  BY <1>6, <1>7, <1>8 DEF NoNews

(* Once nobody else lists a node, it stays out until one of the others     *)
(* adds it again: it gets nothing that was not there or on its way, and    *)
(* nothing it says is let in (removeParticipant, mayReceive, mayShare).    *)
THEOREM StaysOutAlways == Spec => StaysOut
<1> DEFINE Kept ==
             \A m \in Nodes : Out(m) =>
               \/ /\ Out(m)'
                  /\ \A id \in Msgs : IF Author[id] = m
                                       THEN Heard(m, id)' => Heard(m, id)
                                       ELSE Reached(m, id)' => Reached(m, id)
               \/ Readmits(m)
<1>1. ASSUME IInv, [Next]_vars PROVE Kept
  <2> SUFFICES ASSUME NEW m \in Nodes, Out(m), ~Readmits(m) PROVE Out(m)' /\ NoNews(m)
    BY DEF NoNews
  <2>1. ASSUME \E n, k \in Nodes :
                 \/ AddPeer(n, k) \/ Connect(n, k) \/ LinkLost(n, k)
                 \/ Receive(n, k) \/ Sync(n, k)
                 \/ AddParticipant(n, k) \/ RemoveParticipant(n, k)
        PROVE  Out(m)' /\ NoNews(m)
    BY <1>1, <2>1, QuietSteps, WritingSteps, SyncOut, ReceiveOut
  <2>2. ASSUME NEW n \in Nodes,
               \/ \E guests \in GuestLists : CreateChannel(n, guests)
               \/ GoOffline(n) \/ GoOnline(n) \/ DrainAfterDial(n)
               \/ \E p \in Passes : PassSettles(n, p)
               \/ \E t \in ingest[n] : Refuse(n, t) \/ Record(n, t) \/ Emit(n, t)
        PROVE  Out(m)' /\ NoNews(m)
    BY <1>1, <2>2, QuietSteps, WritingSteps
  <2>3. ASSUME NEW id \in Msgs,
               \/ \E guests \in GuestLists : SendMessage(id, guests)
               \/ Publish(id) \/ SendSettles(id)
        PROVE  Out(m)' /\ NoNews(m)
    BY <1>1, <2>3, QuietSteps, WritingSteps
  <2>4. CASE UNCHANGED vars
    BY <1>1, <2>4, QuietSteps
  <2> QED
    BY <1>1, <2>1, <2>2, <2>3, <2>4 DEF Next
<1>2. IInv /\ [Next]_vars => [Kept]_vars
  BY <1>1
<1> QED
  BY <1>2, Invariance, PTL DEF Spec, StaysOut
-----------------------------------------------------------------------------
(* What is held.  A message is in a document if some change wrote it: of   *)
(* its writes the highest-numbered is replaced by none, because a change   *)
(* is numbered above those it replaces, and no change deletes a message.   *)

(* The numbers of a document, which have a bound.                          *)
Numbered(d) ==
  /\ \E b \in Nat : \A c \in d : c.ctr \in Nat /\ c.ctr <= b
  /\ \A c \in d : \A old \in c.over : old[1] < c.ctr
  /\ \A c \in d : \A id \in Msgs : c.key = MessageKey(id) => c.val # Gone

Written(d, id) == \E c \in d : c.key = MessageKey(id)

(* A set of naturals that has a bound has a greatest element.              *)
LEMMA Greatest ==
  ASSUME NEW T \in SUBSET Nat, T # {}, NEW b \in Nat, \A x \in T : x <= b
  PROVE  \E x \in T : \A y \in T : y <= x
<1> DEFINE Above == {x .. b : x \in T}
<1>1. Above \subseteq FiniteSubsetsOf(Nat) /\ Above # {}
  <2>1. ASSUME NEW x \in T PROVE (x .. b) \in FiniteSubsetsOf(Nat)
    BY FS_Interval DEF FiniteSubsetsOf
  <2> QED BY <2>1
<1>2. PICK B \in Above : \A C \in Above : <<C, B>> \notin StrictSubsetOrdering(Nat)
  <2> HIDE DEF Above
  <2> QED BY <1>1, FS_StrictSubsetOrderingWellFounded, WFMin
<1>3. PICK x \in T : B = x .. b
  OBVIOUS
<1>4. ASSUME NEW y \in T PROVE y <= x
  <2>1. (y .. b) \in Above
    OBVIOUS
  <2>2. <<y .. b, x .. b>> \notin StrictSubsetOrdering(Nat)
    BY <1>2, <1>3, <2>1
  <2>3. CASE x < y
    <3>1. (y .. b) \subseteq x .. b /\ x \in x .. b /\ x \notin y .. b
      BY <2>3
    <3>2. (y .. b) \in SUBSET Nat /\ (x .. b) \in SUBSET Nat
      OBVIOUS
    <3> QED BY <2>2, <3>1, <3>2 DEF StrictSubsetOrdering
  <2> QED BY <2>3
<1> QED BY <1>4

(* A new change is numbered above all there are.                           *)
LEMMA NextNumber ==
  ASSUME NEW d, Numbered(d)
  PROVE  NextCtr(d) \in Nat /\ \A c \in d : c.ctr < NextCtr(d)
<1> DEFINE T == {c.ctr : c \in d} \cup {0}
<1>1. PICK b \in Nat : \A c \in d : c.ctr \in Nat /\ c.ctr <= b
  BY DEF Numbered
<1>2. T \in SUBSET Nat /\ T # {} /\ \A x \in T : x <= b
  BY <1>1
<1>3. Max(T) \in T /\ \A y \in T : Max(T) >= y
  <2> HIDE DEF T
  <2>1. PICK x \in T : \A y \in T : y <= x
    BY <1>2, Greatest
  <2>2. \A y \in T : x >= y
    BY <1>2, <2>1
  <2> QED BY <2>2 DEF Max
<1>4. NextCtr(d) = 1 + Max(T)
  BY DEF NextCtr
<1>5. \A c \in d : c.ctr \in T
  OBVIOUS
<1> HIDE DEF T
<1>6. Max(T) \in Nat
  BY <1>2, <1>3
<1>7. \A c \in d : c.ctr \in Nat /\ c.ctr <= Max(T)
  BY <1>1, <1>3, <1>5, <1>6
<1> QED BY <1>4, <1>6, <1>7

(* Changes that a node makes to its document keep it numbered.             *)
LEMMA ChangesNumbered ==
  ASSUME NEW d, Numbered(d), NEW n, NEW more,
         \A c \in more : \E key, val :
           /\ c = Change(d, n, key, val)
           /\ \A id \in Msgs : key = MessageKey(id) => val # Gone
  PROVE  Numbered(d \cup more)
<1>1. NextCtr(d) \in Nat /\ \A c \in d : c.ctr < NextCtr(d)
  BY NextNumber
<1>2. ASSUME NEW c \in more
      PROVE  /\ c.ctr = NextCtr(d)
             /\ \A old \in c.over : old[1] < c.ctr
             /\ \A id \in Msgs : c.key = MessageKey(id) => c.val # Gone
  <2>1. PICK key, val : /\ c = Change(d, n, key, val)
                        /\ \A id \in Msgs : key = MessageKey(id) => val # Gone
    OBVIOUS
  <2>2. /\ c.ctr = NextCtr(d) /\ c.key = key /\ c.val = val
        /\ c.over = {<<e.ctr, e.actor>> : e \in Live(d, key)}
    BY <2>1 DEF Change
  <2>3. Live(d, key) \subseteq d
    BY DEF Live
  <2>4. ASSUME NEW old \in c.over PROVE old[1] < NextCtr(d)
    <3>1. PICK e \in Live(d, key) : old = <<e.ctr, e.actor>>
      BY <2>2
    <3> QED BY <1>1, <2>3, <3>1
  <2> QED BY <2>1, <2>2, <2>4
<1>3. \A c \in d \cup more : c.ctr \in Nat /\ c.ctr <= NextCtr(d)
  <2>1. \A c \in d : c.ctr \in Nat
    BY DEF Numbered
  <2> QED BY <1>1, <1>2, <2>1
<1>4. \A c \in d \cup more : \A old \in c.over : old[1] < c.ctr
  BY <1>2 DEF Numbered
<1>5. \A c \in d \cup more : \A id \in Msgs : c.key = MessageKey(id) => c.val # Gone
  BY <1>2 DEF Numbered
<1> QED BY <1>1, <1>3, <1>4, <1>5 DEF Numbered

LEMMA AddNumbered ==
  ASSUME NEW d, Numbered(d), NEW n, NEW dids
  PROVE  Numbered(addParticipants(d, n, dids)) /\ Numbered(removeParticipants(d, n, dids))
<1>1. \A did, val : \A id \in Msgs : MemberKey(did) = MessageKey(id) => val # Gone
  BY KeysDiffer
<1>2. Numbered(addParticipants(d, n, dids))
  <2> DEFINE more == {Change(d, n, MemberKey(did), Present) : did \in dids \ participants(d)}
  <2>1. \A c \in more : \E key, val :
          /\ c = Change(d, n, key, val)
          /\ \A id \in Msgs : key = MessageKey(id) => val # Gone
    BY <1>1
  <2>2. addParticipants(d, n, dids) = d \cup more
    BY DEF addParticipants
  <2>3. Numbered(d \cup more)
    <3> HIDE DEF more
    <3> QED BY <2>1, ChangesNumbered
  <2> QED BY <2>2, <2>3
<1>3. Numbered(removeParticipants(d, n, dids))
  <2> DEFINE more == {Change(d, n, MemberKey(did), Gone) : did \in dids \cap participants(d)}
  <2>1. \A c \in more : \E key, val :
          /\ c = Change(d, n, key, val)
          /\ \A id \in Msgs : key = MessageKey(id) => val # Gone
    BY <1>1
  <2>2. removeParticipants(d, n, dids) = d \cup more
    BY DEF removeParticipants
  <2>3. Numbered(d \cup more)
    <3> HIDE DEF more
    <3> QED BY <2>1, ChangesNumbered
  <2> QED BY <2>2, <2>3
<1> QED BY <1>2, <1>3

LEMMA CreateNumbered ==
  ASSUME NEW d, Numbered(d), NEW n, NEW guests
  PROVE  Numbered(createChannel(d, n, guests))
BY AddNumbered DEF createChannel

LEMMA RecordNumbered ==
  ASSUME NEW d, Numbered(d), NEW n, NEW id \in Msgs, NEW body \in Body, NEW guests, NEW author
  PROVE  LET e == recordLocally(d, n, id, body, guests, author)
         IN  Numbered(e) /\ Written(e, id)
<1> DEFINE listed == {n} \cup guests \cup (IF body.named THEN {author} ELSE {})
           made   == IF hasDocument(d) THEN d ELSE addParticipants(d, n, listed)
           new    == Change(made, n, MessageKey(id), body)
<1>1. Numbered(made)
  BY AddNumbered
<1>2. recordLocally(d, n, id, body, guests, author) = made \cup {new}
  BY DEF recordLocally, addMessage
<1>3. body # Gone
  BY DocAssumption
<1>4. Numbered(made \cup {new})
  <2> HIDE DEF made
  <2>1. \A c \in {new} : \E key, val :
          /\ c = Change(made, n, key, val)
          /\ \A jd \in Msgs : key = MessageKey(jd) => val # Gone
    BY <1>3
  <2> HIDE DEF new
  <2> QED BY <1>1, <2>1, ChangesNumbered
<1>5. new.key = MessageKey(id)
  BY ChangeFields
<1> QED BY <1>2, <1>4, <1>5 DEF Written

(* Two documents that are merged.                                          *)
LEMMA MergeNumbered ==
  ASSUME NEW d, Numbered(d), NEW e, Numbered(e)
  PROVE  Numbered(d \cup e)
<1>1. PICK b \in Nat : \A c \in d : c.ctr \in Nat /\ c.ctr <= b
  BY DEF Numbered
<1>2. PICK x \in Nat : \A c \in e : c.ctr \in Nat /\ c.ctr <= x
  BY DEF Numbered
<1>3. b + x \in Nat /\ \A c \in d \cup e : c.ctr \in Nat /\ c.ctr <= b + x
  BY <1>1, <1>2
<1> QED BY <1>3 DEF Numbered

(* A message that was written is held, whatever was written after it.      *)
LEMMA WrittenIsHeld ==
  ASSUME NEW d, Numbered(d), NEW id \in Msgs, Written(d, id)
  PROVE  id \in messages(d)
<1> DEFINE writes == {c \in d : c.key = MessageKey(id)}
           T == {c.ctr : c \in writes}
<1>1. PICK b \in Nat : \A c \in d : c.ctr \in Nat /\ c.ctr <= b
  BY DEF Numbered
<1>2. T \in SUBSET Nat /\ T # {} /\ \A x \in T : x <= b
  BY <1>1 DEF Written
<1>3. PICK x \in T : \A y \in T : y <= x
  <2> HIDE DEF T
  <2> QED BY <1>1, <1>2, Greatest
<1>4. PICK c \in writes : c.ctr = x
  OBVIOUS
<1>5. ASSUME NEW e \in d, <<c.ctr, c.actor>> \in e.over PROVE e.key # MessageKey(id)
  <2>1. <<c.ctr, c.actor>>[1] < e.ctr
    BY <1>5 DEF Numbered
  <2>2. x < e.ctr /\ e.ctr \in Nat /\ x \in Nat
    BY <1>1, <1>2, <1>4, <2>1
  <2>3. e.ctr \notin T
    <3> HIDE DEF T
    <3> QED BY <1>3, <2>2
  <2> QED BY <2>3
<1>6. c.val # Gone
  BY DEF Numbered
<1>7. c \in Live(d, MessageKey(id))
  BY <1>5, <1>6 DEF Live
<1> QED BY <1>7 DEF messages

(* What a node sent, announced, or is about to announce, it has written.   *)
RecIInv ==
  /\ \A n \in Nodes : Numbered(doc[n])
  /\ \A id \in SentAt(stage) : Written(doc[Author[id]], id)
  /\ \A n \in Nodes, id \in Msgs : announced[n][id] > 0 => Written(doc[n], id)
  /\ \A n \in Nodes : \A t \in ingest[n] : t.step = "emit" => Written(doc[n], t.id)

LEMMA InitRecIInv == Init => RecIInv
<1> SUFFICES ASSUME Init PROVE RecIInv
  OBVIOUS
<1>1. ASSUME NEW n \in Nodes PROVE Numbered(doc[n])
  <2>1. Numbered({})
    <3> DEFINE d == {}
    <3>1. \E b \in Nat : \A c \in d : c.ctr \in Nat /\ c.ctr <= b
      BY 0 \in Nat
    <3>2. Numbered(d)
      BY <3>1 DEF Numbered
    <3> QED BY <3>2
  <2>2. Numbered(createChannel({}, n, Declared[n]))
    BY <2>1, CreateNumbered
  <2> QED BY <2>1, <2>2 DEF Init
<1>2. SentAt(stage) = {} /\ \A n \in Nodes : ingest[n] = {}
  BY DEF Init, SentAt
<1>3. \A n \in Nodes, id \in Msgs : announced[n][id] = 0
  BY DEF Init
<1> QED BY <1>1, <1>2, <1>3 DEF RecIInv

(* Documents only grow.                                                    *)
LEMMA RecKept ==
  ASSUME RecIInv, \A n \in Nodes : doc[n] \subseteq doc'[n] /\ Numbered(doc'[n]),
         \A id \in SentAt(stage') : id \in SentAt(stage) \/ Written(doc'[Author[id]], id),
         \A n \in Nodes, id \in Msgs :
           announced'[n][id] > 0 => announced[n][id] > 0 \/ Written(doc'[n], id),
         \A n \in Nodes : \A t \in ingest'[n] :
           t.step = "emit" => t \in ingest[n] \/ Written(doc'[n], t.id)
  PROVE  RecIInv'
<1>1. \A n \in Nodes : \A id : Written(doc[n], id) => Written(doc'[n], id)
  BY DEF Written
<1>2. \A id \in SentAt(stage') : Author[id] \in Nodes
  BY Constants DEF SentAt
<1>3. \A id \in SentAt(stage') : Written(doc'[Author[id]], id)
  BY <1>1, <1>2 DEF RecIInv
<1>4. \A n \in Nodes, id \in Msgs : announced'[n][id] > 0 => Written(doc'[n], id)
  BY <1>1 DEF RecIInv
<1>5. \A n \in Nodes : \A t \in ingest'[n] : t.step = "emit" => Written(doc'[n], t.id)
  BY <1>1 DEF RecIInv
<1> QED BY <1>3, <1>4, <1>5 DEF RecIInv

(* Steps that write nothing and announce nothing.                          *)
LEMMA RecQuiet ==
  ASSUME IInv, RecIInv, doc' = doc, announced' = announced, stage' = stage,
         \A n \in Nodes : \A t \in ingest'[n] : t.step = "emit" => t \in ingest[n]
  PROVE  RecIInv'
<1>1. \A n \in Nodes : doc[n] \subseteq doc'[n] /\ Numbered(doc'[n])
  BY DEF RecIInv
<1> QED BY <1>1, RecKept

(* A change of one document.                                               *)
LEMMA RecOneDoc ==
  ASSUME IInv, RecIInv, NEW n \in Nodes, NEW d, doc' = [doc EXCEPT ![n] = d],
         doc[n] \subseteq d, Numbered(d)
  PROVE  /\ \A x \in Nodes : doc[x] \subseteq doc'[x] /\ Numbered(doc'[x])
         /\ doc'[n] = d
BY DEF IInv, TypeOK, RecIInv

LEMMA RecEdit ==
  ASSUME IInv, RecIInv, NEW n \in Nodes, NEW d, doc[n] \subseteq d, Numbered(d), EditDoc(n, d)
  PROVE  RecIInv'
<1>1. doc' = [doc EXCEPT ![n] = d] /\ UNCHANGED <<stage, ingest, announced>>
  BY DEF EditDoc, chat
<1>2. \A x \in Nodes : doc[x] \subseteq doc'[x] /\ Numbered(doc'[x])
  BY <1>1, RecOneDoc
<1> QED BY <1>1, <1>2, RecKept

LEMMA RecEdits ==
  ASSUME IInv, RecIInv, NEW n \in Nodes,
         \/ \E guests \in GuestLists : CreateChannel(n, guests)
         \/ \E m \in Nodes : AddParticipant(n, m) \/ RemoveParticipant(n, m)
  PROVE  RecIInv'
<1>0. Numbered(doc[n])
  BY DEF RecIInv
<1>1. ASSUME NEW guests \in GuestLists, CreateChannel(n, guests) PROVE RecIInv'
  <2>1. Numbered(createChannel(doc[n], n, guests))
    BY <1>0, CreateNumbered
  <2>2. doc[n] \subseteq createChannel(doc[n], n, guests)
    BY Constants, CreateLocal DEF LocalChanges
  <2> QED BY <1>1, <2>1, <2>2, RecEdit DEF CreateChannel
<1>2. ASSUME NEW m \in Nodes, AddParticipant(n, m) PROVE RecIInv'
  <2>1. Numbered(addParticipants(doc[n], n, {m})) /\ doc[n] \subseteq addParticipants(doc[n], n, {m})
    BY <1>0, AddNumbered DEF addParticipants
  <2> QED BY <1>2, <2>1, RecEdit DEF AddParticipant
<1>3. ASSUME NEW m \in Nodes, RemoveParticipant(n, m) PROVE RecIInv'
  <2>1. /\ Numbered(removeParticipants(doc[n], n, {m}))
        /\ doc[n] \subseteq removeParticipants(doc[n], n, {m})
    BY <1>0, AddNumbered DEF removeParticipants
  <2> QED BY <1>3, <2>1, RecEdit DEF RemoveParticipant
<1> QED BY <1>1, <1>2, <1>3

LEMMA RecSend ==
  ASSUME IInv, RecIInv, NEW id \in Msgs, NEW guests \in GuestLists, SendMessage(id, guests)
  PROVE  RecIInv'
<1> DEFINE n == Author[id]
           d == recordLocally(doc[n], n, id, Original(id).body, guests, n)
<1>1. n \in Nodes /\ guests \subseteq Nodes /\ Original(id).body \in Body
  BY Constants, Frames
<1>2. /\ doc' = [doc EXCEPT ![n] = d] /\ stage' = [stage EXCEPT ![id] = "recorded"]
      /\ UNCHANGED <<announced, ingest>>
  BY DEF SendMessage
<1>3. Numbered(d) /\ Written(d, id) /\ doc[n] \subseteq d
  <2>1. Numbered(doc[n])
    BY <1>1 DEF RecIInv
  <2>2. doc[n] \subseteq d
    BY <1>1, RecordLocal DEF LocalChanges
  <2> QED BY <1>1, <2>1, <2>2, RecordNumbered
<1>4. /\ \A x \in Nodes : doc[x] \subseteq doc'[x] /\ Numbered(doc'[x])
      /\ doc'[n] = d
  <2> HIDE DEF n, d
  <2> QED BY <1>1, <1>2, <1>3, RecOneDoc
<1>5. \A jd \in SentAt(stage') : jd \in SentAt(stage) \/ jd = id
  BY <1>2 DEF SentAt, IInv, TypeOK
<1>6. \A jd \in SentAt(stage') : jd \in SentAt(stage) \/ Written(doc'[Author[jd]], jd)
  <2> HIDE DEF d
  <2> QED BY <1>3, <1>4, <1>5
<1> HIDE DEF n, d
<1> QED BY <1>2, <1>4, <1>6, RecKept

LEMMA RecRecord ==
  ASSUME IInv, RecIInv, NEW n \in Nodes, NEW t, Record(n, t)
  PROVE  RecIInv'
<1> DEFINE d == recordLocally(doc[n], n, t.id, t.body, {}, Author[t.id])
           done == [t EXCEPT !.step = "emit"]
<1>1. /\ t \in ingest[n] /\ ingest \in [Nodes -> SUBSET Task] /\ t \in Task
      /\ t.id \in Msgs /\ t.body \in Body /\ Author[t.id] \in Nodes
  BY Constants DEF IInv, Record, TypeOK, Task
<1>2. /\ doc' = [doc EXCEPT ![n] = d] /\ UNCHANGED <<announced, stage>>
      /\ ingest' = [ingest EXCEPT ![n] = (@ \ {t}) \cup {done}]
  BY DEF Record, chat
<1>3. Numbered(d) /\ Written(d, t.id) /\ doc[n] \subseteq d
  <2>1. Numbered(doc[n])
    BY DEF RecIInv
  <2>2. doc[n] \subseteq d
    BY <1>1, RecordLocal DEF LocalChanges
  <2> QED BY <1>1, <2>1, <2>2, RecordNumbered
<1>4. /\ \A x \in Nodes : doc[x] \subseteq doc'[x] /\ Numbered(doc'[x])
      /\ doc'[n] = d
  <2> HIDE DEF d
  <2> QED BY <1>2, <1>3, RecOneDoc
<1>5. done.id = t.id
  BY <1>1 DEF Task
<1>6. \A x \in Nodes : \A u \in ingest'[x] : u \in ingest[x] \/ (x = n /\ u = done)
  <2> HIDE DEF done
  <2> QED BY <1>1, <1>2
<1>7. \A x \in Nodes : \A u \in ingest'[x] :
        u.step = "emit" => u \in ingest[x] \/ Written(doc'[x], u.id)
  <2> HIDE DEF done, d
  <2> QED BY <1>3, <1>4, <1>5, <1>6
<1> HIDE DEF done, d
<1> QED BY <1>2, <1>4, <1>7, RecKept

LEMMA RecEmit ==
  ASSUME IInv, RecIInv, NEW n \in Nodes, NEW t, Emit(n, t)
  PROVE  RecIInv'
<1>1. /\ t \in ingest[n] /\ t.step = "emit" /\ ingest \in [Nodes -> SUBSET Task]
      /\ announced \in [Nodes -> [Msgs -> 0 .. 2]]
  BY DEF IInv, Emit, TypeOK
<1>2. Written(doc[n], t.id) /\ \A x \in Nodes : Numbered(doc[x])
  BY <1>1 DEF RecIInv
<1>3. /\ UNCHANGED <<doc, stage>> /\ ingest' = [ingest EXCEPT ![n] = @ \ {t}]
      /\ Announce(n, {t.id} \ emitted[n])
  BY DEF Emit
<1>4. \A x \in Nodes, id \in Msgs :
        announced'[x][id] > 0 => announced[x][id] > 0 \/ (x = n /\ id = t.id)
  BY <1>1, <1>3 DEF Announce
<1>5. \A x \in Nodes : \A u \in ingest'[x] : u \in ingest[x]
  BY <1>1, <1>3
<1> QED BY <1>2, <1>3, <1>4, <1>5, RecKept

LEMMA RecSync ==
  ASSUME IInv, RecIInv, NEW n \in Nodes, NEW m \in Nodes, Sync(n, m)
  PROVE  RecIInv'
<1> DEFINE d == doc[n] \cup doc[m]
<1>1. announced \in [Nodes -> [Msgs -> 0 .. 2]]
  BY DEF IInv, TypeOK
<1>2. doc' = [doc EXCEPT ![m] = d] /\ UNCHANGED <<stage, ingest>> /\ EmitSynced(m, d)
  BY DEF Sync
<1>3. Numbered(d) /\ doc[m] \subseteq d
  BY MergeNumbered DEF RecIInv
<1> HIDE DEF d
<1>4. /\ \A x \in Nodes : doc[x] \subseteq doc'[x] /\ Numbered(doc'[x])
      /\ doc'[m] = d
  BY <1>2, <1>3, RecOneDoc
<1>5. \A x \in Nodes, id \in Msgs :
        announced'[x][id] > 0 => announced[x][id] > 0 \/ (x = m /\ id \in messages(d))
  <2>1. CASE sighted[m]
    BY <1>1, <1>2, <2>1 DEF EmitSynced, Announce
  <2>2. CASE ~sighted[m]
    BY <1>2, <2>2 DEF EmitSynced
  <2> QED BY <2>1, <2>2
<1>6. \A id \in messages(d) : Written(d, id)
  BY HeldByChange DEF Written
<1> QED BY <1>2, <1>4, <1>5, <1>6, RecKept

LEMMA NextRecIInv == IInv /\ RecIInv /\ [Next]_vars => RecIInv'
<1> SUFFICES ASSUME IInv, RecIInv, [Next]_vars PROVE RecIInv'
  OBVIOUS
<1>0. stage \in [Msgs -> {"unsent", "recorded", "published", "unpublished", "done"}]
      /\ ingest \in [Nodes -> SUBSET Task]
  BY DEF IInv, TypeOK
<1>1. ASSUME NEW n \in Nodes, NEW m \in Nodes,
             AddPeer(n, m) \/ Connect(n, m) \/ LinkLost(n, m)
      PROVE  RecIInv'
  <2>1. UNCHANGED <<doc, announced, stage, ingest>>
    BY <1>1 DEF AddPeer, Connect, LinkLost, chat
  <2> QED BY <2>1, RecQuiet
<1>2. ASSUME NEW n \in Nodes, NEW m \in Nodes, Receive(n, m) PROVE RecIInv'
  <2>1. UNCHANGED <<doc, announced, stage>>
    BY <1>2 DEF Receive, chat
  <2> DEFINE task == [id |-> Head(wire[n][m]).id, body |-> Head(wire[n][m]).body, step |-> "verify"]
  <2>2. ingest' = ingest \/ ingest' = [ingest EXCEPT ![m] = @ \cup {task}]
    BY <1>2 DEF Receive
  <2>3. task.step # "emit"
    OBVIOUS
  <2>4. \A x \in Nodes : \A t \in ingest'[x] : t.step = "emit" => t \in ingest[x]
    <3> HIDE DEF task
    <3> QED BY <1>0, <2>2, <2>3
  <2> QED BY <2>1, <2>4, RecQuiet
<1>3. ASSUME NEW n \in Nodes, NEW p \in Passes,
             GoOffline(n) \/ GoOnline(n) \/ DrainAfterDial(n) \/ PassSettles(n, p)
      PROVE  RecIInv'
  <2>1. UNCHANGED <<doc, announced, stage, ingest>>
    BY <1>3 DEF GoOffline, GoOnline, DrainAfterDial, PassSettles, chat
  <2> QED BY <2>1, RecQuiet
<1>4. ASSUME NEW n \in Nodes, GoOffline(n) \/ GoOnline(n) \/ DrainAfterDial(n) PROVE RecIInv'
  <2>1. UNCHANGED <<doc, announced, stage, ingest>>
    BY <1>4 DEF GoOffline, GoOnline, DrainAfterDial, chat
  <2> QED BY <2>1, RecQuiet
<1>5. ASSUME NEW n \in Nodes, NEW t \in ingest[n], Refuse(n, t) \/ Record(n, t) \/ Emit(n, t)
      PROVE  RecIInv'
  <2>1. CASE Refuse(n, t)
    <3>1. UNCHANGED <<doc, announced, stage>> /\ ingest' = [ingest EXCEPT ![n] = @ \ {t}]
      BY <2>1 DEF Refuse, chat
    <3>2. \A x \in Nodes : ingest'[x] \subseteq ingest[x]
      BY <1>0, <3>1
    <3> QED BY <3>1, <3>2, RecQuiet
  <2> QED BY <1>5, <2>1, RecRecord, RecEmit
<1>6. ASSUME NEW id \in Msgs, Publish(id) \/ SendSettles(id) PROVE RecIInv'
  <2>1. UNCHANGED <<doc, announced, ingest>> /\ SentAt(stage') = SentAt(stage)
    BY <1>0, <1>6 DEF Publish, SendSettles, SentAt, chat
  <2>2. \A n \in Nodes : doc[n] \subseteq doc'[n] /\ Numbered(doc'[n])
    BY <2>1 DEF RecIInv
  <2> QED BY <2>1, <2>2, RecKept
<1>7. CASE UNCHANGED vars
  <2>1. UNCHANGED <<doc, announced, stage, ingest>>
    BY <1>7 DEF vars, chat
  <2> QED BY <2>1, RecQuiet
<1>8. ASSUME NEW n \in Nodes, NEW m \in Nodes,
             Sync(n, m) \/ AddParticipant(n, m) \/ RemoveParticipant(n, m)
      PROVE  RecIInv'
  BY <1>8, RecSync, RecEdits
<1>9. ASSUME NEW n \in Nodes, NEW guests \in GuestLists, CreateChannel(n, guests) PROVE RecIInv'
  BY <1>9, RecEdits
<1>10. ASSUME NEW id \in Msgs, NEW guests \in GuestLists, SendMessage(id, guests) PROVE RecIInv'
  BY <1>10, RecSend
<1> QED
  BY <1>1, <1>2, <1>3, <1>4, <1>5, <1>6, <1>7, <1>8, <1>9, <1>10 DEF Next

(* Whatever the application was told of, and whatever a node has still to  *)
(* deliver or has sent, is in the history the node itself can read, by     *)
(* whichever handler it came and however often it was written again        *)
(* (chat-service.ts sendMessage, ingestRemote, emitSynced).                *)
THEOREM RecordedFirstAlways == Spec => []RecordedFirst
<1>1. Spec => []RecIInv
  BY InitRecIInv, NextRecIInv, Invariance, PTL DEF Spec
<1>2. IInv /\ RecIInv => RecordedFirst
  <2> SUFFICES ASSUME IInv, RecIInv, NEW n \in Nodes, NEW id \in Msgs,
                      \/ announced[n][id] > 0
                      \/ Author[id] = n /\ (id \in DOMAIN outbox[n] \/ \E m \in Nodes : Reached(m, id))
               PROVE  id \in messages(doc[n])
    BY DEF RecordedFirst
  <2>1. ASSUME NEW m \in Nodes, Reached(m, id) PROVE id \in SentAt(stage)
    <3>1. CASE id \in messages(doc[m])
      <4>1. PICK c \in doc[m] : c.key = MessageKey(id)
        BY <3>1, HeldByChange
      <4> QED BY <4>1 DEF IInv, DocsOK
    <3>2. CASE \E t \in ingest[m] : t.id = id
      BY <3>2 DEF IInv, IngestOK
    <3>3. CASE \E k \in Nodes : \E i \in 1 .. Len(wire[k][m]) : wire[k][m][i].id = id
      BY <3>3 DEF IInv, WireOK, Own
    <3> QED BY <2>1, <3>1, <3>2, <3>3 DEF Reached
  <2>2. id \in DOMAIN outbox[n] => id \in SentAt(stage)
    BY DEF IInv, QueueOK, Own
  <2>3. Written(doc[n], id) /\ Numbered(doc[n])
    BY <2>1, <2>2 DEF RecIInv
  <2> QED BY <2>3, WrittenIsHeld
<1> QED BY <1>1, <1>2, Invariance, PTL
-----------------------------------------------------------------------------
(* Reactions.                                                              *)

Shown  == Emojis \cup {"", "none"}
Chosable == Emojis \cup {""}
Writes == [slot : R!Slots, emoji : Chosable, actor : Nat, ctr : Nat]

InUse(w) == \E n \in Nodes : w \in reacted[n] \/ w \in stored[n]

(* What a node will have when it is ready.                                 *)
Kept(n) == IF at[n] = "ready" THEN reacted[n] ELSE stored[n]

ReactTypes ==
  /\ reacted \in [Nodes -> SUBSET Writes] /\ stored \in [Nodes -> SUBSET Writes]
  /\ at \in [Nodes -> {"starting", "ready"}]
  /\ actor \in [Nodes -> R!Ranks] /\ spent \subseteq R!Ranks
  /\ firstSeen \in [Nodes -> BOOLEAN]
  /\ seen \in [Nodes -> [R!Slots -> Shown]]
  /\ held \in [Nodes -> [R!Slots -> Shown]]
  /\ replayed \in [Nodes -> SUBSET R!Slots]
  /\ chosen \in [Nodes -> [Msgs -> Shown]]
  /\ written \in Nat

(* A process has a rank of its own, and numbers what it writes above all   *)
(* it has: two writes are never of one rank and number.                    *)
RanksOwn == \A n \in Nodes : actor[n] \in spent /\ \A m \in Nodes : actor[n] = actor[m] => n = m
Counted  == \A w : InUse(w) => w.ctr <= written /\ w.actor \in spent
OwnRank  == \A n \in Nodes : \A w : InUse(w) /\ w.actor = actor[n] /\ at[n] = "ready" => w \in reacted[n]
Distinct == \A v, w : InUse(v) /\ InUse(w) /\ v.ctr = w.ctr /\ v.actor = w.actor => v = w

(* Who lost nothing has all that was ever written in its name, and the     *)
(* last of it shows.                                                       *)
OwnKept(n, id)    == \A w : InUse(w) /\ w.slot = <<id, n>> => w \in Kept(n)
LastChosen(n, id) == R!listReactions(Kept(n))[<<id, n>>] = chosen[n][id]
OwnWords == \A n \in Nodes \ crashed : \A id \in Msgs : OwnKept(n, id) /\ LastChosen(n, id)

(* What a node had when it was ready is there still, and once the channel  *)
(* has been sighted it has been seen.                                      *)
SeenAll(n) ==
  /\ replayed[n] = {}
  /\ at[n] = "starting" => ~firstSeen[n]
  /\ at[n] = "ready" => \A s \in R!Slots : held[n][s] # "none" =>
       (\E w \in reacted[n] : w.slot = s) /\ (firstSeen[n] => seen[n][s] # "none")
AllSeen == \A n \in Nodes \ hasty : SeenAll(n)

ReactIInv ==
  /\ ReactTypes /\ RanksOwn /\ Counted /\ OwnRank /\ Distinct
  /\ OwnWords /\ AllSeen

LEMMA ReactCardinality == \A T : R!Cardinality(T) = Cardinality(T)
BY DEF R!Cardinality, Cardinality

LEMMA ReactFinite == \A T : R!IsFiniteSet(T) = IsFiniteSet(T)
BY DEF R!IsFiniteSet, IsFiniteSet

(* Ranks are natural numbers, and have a bound.                            *)
LEMMA RanksBounded ==
  /\ R!Ranks \subseteq Nat
  /\ \E b \in Nat : \A r \in R!Ranks : r <= b
<1>1. R!ReactionsAssumption
  BY ReactionsAssumption
<1>2. IsFiniteSet(Nodes) /\ MaxCrashes \in Nat
  BY <1>1, ReactFinite DEF R!ReactionsAssumption
<1>3. R!Cardinality(Nodes) \in Nat
  BY <1>2, ReactCardinality, FS_CardinalityType
<1>4. R!Ranks = 1 .. R!Cardinality(Nodes) + MaxCrashes
  BY DEF R!Ranks
<1> DEFINE top == R!Cardinality(Nodes) + MaxCrashes
<1>5. top \in Nat /\ R!Ranks = 1 .. top
  BY <1>2, <1>3, <1>4
<1> HIDE DEF top
<1>6. \A r \in 1 .. top : r \in Nat /\ r <= top
  BY <1>5
<1> QED
  BY <1>5, <1>6

LEMMA ReactConstants ==
  "" \notin Emojis /\ "none" \notin Emojis /\ "" # "none"
<1>1. R!ReactionsAssumption
  BY ReactionsAssumption
<1> QED
  BY <1>1 DEF R!ReactionsAssumption

LEMMA SlotOf ==
  ASSUME NEW id \in Msgs, NEW n \in Nodes
  PROVE  R!reactionKey(id, n) = <<id, n>> /\ <<id, n>> \in R!Slots
BY DEF R!reactionKey, R!Slots

(* A slot shows the same in all documents that have the same writes of it. *)
LEMMA SlotAlone ==
  ASSUME NEW d, NEW e, NEW s \in R!Slots,
         \A w : w \in d /\ w.slot = s <=> w \in e /\ w.slot = s
  PROVE  R!listReactions(d)[s] = R!listReactions(e)[s]
<1>1. R!Winner(d, s) = R!Winner(e, s)
  BY DEF R!Winner
<1>2. R!listReactions(d)[s] = (IF R!Winner(d, s) = {} THEN "none" ELSE (CHOOSE w \in R!Winner(d, s) : TRUE).emoji)
  BY DEF R!listReactions
<1>3. R!listReactions(e)[s] = (IF R!Winner(e, s) = {} THEN "none" ELSE (CHOOSE w \in R!Winner(e, s) : TRUE).emoji)
  BY DEF R!listReactions
<1> QED
  BY <1>1, <1>2, <1>3

(* A write that wins is what its slot shows.                               *)
LEMMA WinnerShows ==
  ASSUME NEW d \in SUBSET Writes, NEW s \in R!Slots, NEW w \in R!Winner(d, s)
  PROVE  R!listReactions(d)[s] = w.emoji
<1>1. \A v \in R!Winner(d, s) : v \in Writes /\ v.ctr \in Nat /\ v.actor \in Nat
  BY DEF R!Winner, Writes
<1>2. ASSUME NEW v \in R!Winner(d, s), v # w
      PROVE  FALSE
  <2>1. R!Above(w, v) /\ R!Above(v, w)
    BY <1>2 DEF R!Winner
  <2> QED
    BY <1>1, <2>1 DEF R!Above
<1>3. (CHOOSE v \in R!Winner(d, s) : TRUE) = w
  BY <1>2
<1>4. R!listReactions(d)[s] = (IF R!Winner(d, s) = {} THEN "none" ELSE (CHOOSE v \in R!Winner(d, s) : TRUE).emoji)
  BY DEF R!listReactions
<1> QED
  BY <1>3, <1>4

LEMMA ListedShown ==
  ASSUME NEW d \in SUBSET Writes
  PROVE  R!listReactions(d) \in [R!Slots -> Shown]
<1>1. ASSUME NEW s \in R!Slots
      PROVE  R!listReactions(d)[s] \in Shown
  <2>1. CASE R!Winner(d, s) = {}
    BY <2>1 DEF R!listReactions, Shown
  <2>2. CASE R!Winner(d, s) # {}
    <3>1. PICK w \in R!Winner(d, s) : TRUE
      BY <2>2
    <3>2. w.emoji \in Shown
      BY <3>1 DEF R!Winner, Writes, Shown, Chosable
    <3> QED
      BY <3>1, <3>2, WinnerShows
  <2> QED
    BY <2>1, <2>2
<1> QED
  BY <1>1 DEF R!listReactions

(* What shows was written.                                                 *)
LEMMA ListedWritten ==
  ASSUME NEW d, NEW s \in R!Slots, R!listReactions(d)[s] # "none"
  PROVE  \E w \in d : w.slot = s
BY DEF R!listReactions, R!Winner

(* Of the writes of a slot one wins, when no two are of one rank and       *)
(* number: the highest number has a highest rank.                          *)
LEMMA SomeoneWins ==
  ASSUME NEW d \in SUBSET Writes, NEW s \in R!Slots,
         NEW b \in Nat, \A w \in d : w.ctr <= b /\ w.actor <= b,
         \A v, w \in d : v.ctr = w.ctr /\ v.actor = w.actor => v = w,
         NEW one \in d, one.slot = s
  PROVE  R!listReactions(d)[s] # "none"
<1>0. \A w \in d : w.ctr \in Nat /\ w.actor \in Nat /\ w.ctr <= b /\ w.actor <= b
  BY DEF Writes
<1> DEFINE C == {w.ctr : w \in {v \in d : v.slot = s}}
<1>1. C \in SUBSET Nat /\ C # {} /\ \A x \in C : x <= b
  <2>1. \A x \in C : x \in Nat /\ x <= b
    BY <1>0
  <2>2. one.ctr \in C
    OBVIOUS
  <2> QED BY <2>1, <2>2
<1>2. PICK c \in C : \A x \in C : x <= c
  <2> HIDE DEF C
  <2> QED BY <1>1, Greatest
<1> DEFINE A == {w.actor : w \in {v \in d : v.slot = s /\ v.ctr = c}}
<1>3. A \in SUBSET Nat /\ A # {} /\ \A x \in A : x <= b
  <2>1. \A x \in A : x \in Nat /\ x <= b
    BY <1>0
  <2>2. PICK w \in d : w.slot = s /\ w.ctr = c
    BY <1>2
  <2>3. w.actor \in A
    BY <2>2
  <2> QED BY <2>1, <2>3
<1>4. PICK r \in A : \A x \in A : x <= r
  <2> HIDE DEF A
  <2> QED BY <1>3, Greatest
<1>5. PICK w \in d : w.slot = s /\ w.ctr = c /\ w.actor = r
  BY <1>4
<1>6. ASSUME NEW v \in d, v.slot = s, v # w
      PROVE  R!Above(w, v)
  <2>1. v.ctr \in Nat /\ v.actor \in Nat /\ w.ctr \in Nat /\ w.actor \in Nat
    BY DEF Writes
  <2>2. v.ctr \in C
    BY <1>6
  <2>3. v.ctr <= w.ctr
    BY <1>2, <1>5, <2>2
  <2>4. CASE v.ctr < w.ctr
    BY <2>1, <2>4 DEF R!Above
  <2>5. CASE v.ctr = w.ctr
    <3>1. v.actor \in A
      BY <1>5, <1>6, <2>5
    <3>2. v.actor <= w.actor /\ v.actor # w.actor
      BY <1>4, <1>5, <1>6, <2>5, <3>1
    <3> QED
      BY <2>1, <2>5, <3>2 DEF R!Above
  <2> QED
    BY <2>1, <2>3, <2>4, <2>5
<1>7. w \in R!Winner(d, s)
  BY <1>5, <1>6 DEF R!Winner
<1>8. w.emoji # "none"
  BY ReactConstants DEF Writes, Chosable
<1> QED
  BY <1>7, <1>8, WinnerShows

(* A new write is numbered above all there are.                            *)
LEMMA NumberedAbove ==
  ASSUME NEW d \in SUBSET Writes, NEW b \in Nat, \A w \in d : w.ctr <= b
  PROVE  LET k == 1 + R!Max({0} \cup {w.ctr : w \in d}) IN
         k \in Nat /\ k <= b + 1 /\ \A w \in d : w.ctr < k
<1> DEFINE T == {0} \cup {w.ctr : w \in d}
<1>0. \A w \in d : w.ctr \in Nat /\ w.ctr <= b
  BY DEF Writes
<1>1. T \in SUBSET Nat /\ T # {} /\ (\A x \in T : x <= b) /\ \A w \in d : w.ctr \in T
  <2>1. \A x \in T : x \in Nat /\ x <= b
    BY <1>0
  <2>2. 0 \in T /\ \A w \in d : w.ctr \in T
    OBVIOUS
  <2> QED BY <2>1, <2>2
<1> HIDE DEF T
<1>2. PICK x \in T : \A y \in T : y <= x
  BY <1>1, Greatest
<1>3. R!Max(T) \in T /\ \A y \in T : R!Max(T) >= y
  <2>1. \A y \in T : x >= y
    BY <1>1, <1>2
  <2> QED BY <2>1 DEF R!Max
<1> DEFINE k == R!Max(T)
<1>4. k \in Nat /\ k <= b /\ \A w \in d : w.ctr <= k
  BY <1>1, <1>3
<1> HIDE DEF k
<1>5. 1 + k \in Nat /\ 1 + k <= b + 1 /\ \A w \in d : w.ctr < 1 + k
  BY <1>0, <1>4
<1> QED
  BY <1>5 DEF k, T

LEMMA WritesShow ==
  ASSUME NEW d \in SUBSET Writes, NEW k \in Nat,
         \A w \in d : w.ctr <= k /\ w.actor \in R!Ranks,
         \A v, w \in d : v.ctr = w.ctr /\ v.actor = w.actor => v = w,
         NEW s \in R!Slots, \E w \in d : w.slot = s
  PROVE  R!listReactions(d)[s] # "none"
<1>1. PICK b \in Nat : \A r \in R!Ranks : r <= b
  BY RanksBounded
<1>2. b + k \in Nat
  OBVIOUS
<1>3. \A w \in d : w.ctr \in Nat /\ w.actor \in Nat /\ w.actor <= b
  BY <1>1 DEF Writes
<1>4. \A w \in d : w.ctr <= b + k /\ w.actor <= b + k
  BY <1>3
<1>5. PICK w \in d : w.slot = s
  OBVIOUS
<1> QED
  BY <1>2, <1>4, <1>5, SomeoneWins

(* What telling the application of a document changes.                     *)
LEMMA EmitReactions ==
  ASSUME ReactTypes, NEW n \in Nodes, NEW d \in SUBSET Writes, R!emitSyncedReactions(n, d)
  PROVE  /\ firstSeen' \in [Nodes -> BOOLEAN] /\ firstSeen'[n]
         /\ seen' \in [Nodes -> [R!Slots -> Shown]]
         /\ replayed' \in [Nodes -> SUBSET R!Slots]
         /\ \A m \in Nodes : m # n => /\ firstSeen'[m] = firstSeen[m] /\ seen'[m] = seen[m]
                                      /\ replayed'[m] = replayed[m]
         /\ \A s \in R!Slots : R!listReactions(d)[s] # "none" => seen'[n][s] = R!listReactions(d)[s]
         /\ at[n] = "ready" => replayed'[n] = replayed[n] \cup
              {s \in R!news(n, R!listReactions(d)) : R!listReactions(d)[s] = held[n][s] /\ seen[n][s] = "none"}
<1> DEFINE now == R!listReactions(d)
           saw == [s \in R!Slots |-> IF now[s] = "none" THEN seen[n][s] ELSE now[s]]
           again == {s \in R!news(n, now) : now[s] = held[n][s] /\ seen[n][s] = "none"}
<1>1. now \in [R!Slots -> Shown]
  BY ListedShown
<1>2. /\ firstSeen' = [firstSeen EXCEPT ![n] = TRUE]
      /\ seen' = [seen EXCEPT ![n] = saw]
      /\ IF at[n] = "ready" THEN replayed' = [replayed EXCEPT ![n] = @ \cup again]
                            ELSE replayed' = replayed
  BY DEF R!emitSyncedReactions
<1>3. again \in SUBSET R!Slots
  BY DEF R!news
<1> HIDE DEF now, again
<1>4. saw \in [R!Slots -> Shown]
  BY <1>1 DEF ReactTypes
<1>5. \A s \in R!Slots : now[s] # "none" => saw[s] = now[s]
  OBVIOUS
<1> HIDE DEF saw
<1>6. /\ firstSeen' \in [Nodes -> BOOLEAN] /\ firstSeen'[n]
      /\ seen' \in [Nodes -> [R!Slots -> Shown]] /\ seen'[n] = saw
      /\ \A m \in Nodes : m # n => firstSeen'[m] = firstSeen[m] /\ seen'[m] = seen[m]
  BY <1>2, <1>4 DEF ReactTypes
<1>7. CASE at[n] = "ready"
  <2>0. replayed[n] \cup again \in SUBSET R!Slots
    BY <1>3 DEF ReactTypes
  <2>1. replayed' \in [Nodes -> SUBSET R!Slots] /\ replayed'[n] = replayed[n] \cup again
    BY <1>2, <1>7, <2>0 DEF ReactTypes
  <2>2. \A m \in Nodes : m # n => replayed'[m] = replayed[m]
    BY <1>2, <1>7 DEF ReactTypes
  <2> QED
    BY <1>5, <1>6, <2>1, <2>2 DEF now, again
<1>8. CASE at[n] # "ready"
  BY <1>2, <1>5, <1>6, <1>8 DEF ReactTypes, now
<1> QED
  BY <1>7, <1>8

(* A node that has seen all it had sees all it has, and tells nothing it   *)
(* had: what it had then is there still, and shows.                        *)
LEMMA EmitKeepsSeen ==
  ASSUME ReactTypes, NEW n \in Nodes, SeenAll(n), at[n] = "ready", at'[n] = "ready",
         reacted'[n] \in SUBSET Writes, reacted[n] \subseteq reacted'[n], held' = held,
         \A s \in R!Slots : (\E w \in reacted'[n] : w.slot = s) =>
                              R!listReactions(reacted'[n])[s] # "none",
         R!emitSyncedReactions(n, reacted'[n])
  PROVE  SeenAll(n)'
<1> DEFINE d == reacted'[n]
           now == R!listReactions(d)
<1>1. /\ firstSeen'[n]
      /\ \A s \in R!Slots : now[s] # "none" => seen'[n][s] = now[s]
      /\ replayed'[n] = replayed[n] \cup {s \in R!news(n, now) : now[s] = held[n][s] /\ seen[n][s] = "none"}
  BY EmitReactions
<1>2. ASSUME NEW s \in R!Slots, held[n][s] # "none"
      PROVE  (\E w \in d : w.slot = s) /\ now[s] # "none"
  BY <1>2 DEF SeenAll
<1>3. ASSUME NEW s \in R!news(n, now), now[s] = held[n][s], seen[n][s] = "none"
      PROVE  FALSE
  <2>1. s \in R!Slots /\ firstSeen[n] /\ now[s] # "none"
    BY <1>3 DEF R!news
  <2> QED
    BY <1>3, <2>1 DEF SeenAll
<1>4. replayed'[n] = {}
  BY <1>1, <1>3 DEF SeenAll
<1> HIDE DEF now
<1> QED
  BY <1>1, <1>2, <1>4 DEF SeenAll

LEMMA InUseTyped ==
  ASSUME ReactTypes, Counted, NEW w, InUse(w)
  PROVE  w \in Writes /\ w.ctr \in Nat /\ w.ctr <= written /\ w.actor \in R!Ranks /\ w.actor \in spent
<1>1. w \in Writes
  BY DEF ReactTypes, InUse
<1>2. w.ctr <= written /\ w.actor \in spent
  BY DEF Counted
<1>3. w.actor \in R!Ranks
  BY <1>2 DEF ReactTypes
<1> QED
  BY <1>1, <1>2, <1>3 DEF Writes

(* In every document what was written shows.                               *)
LEMMA DocShows ==
  ASSUME NEW d \in SUBSET Writes, NEW k \in Nat,
         \A w \in d : w.ctr <= k /\ w.actor \in R!Ranks,
         \A v, w \in d : v.ctr = w.ctr /\ v.actor = w.actor => v = w
  PROVE  \A s \in R!Slots : (\E w \in d : w.slot = s) => R!listReactions(d)[s] # "none"
BY WritesShow
-----------------------------------------------------------------------------
LEMMA ReactInit == R!Init => ReactIInv
<1> SUFFICES ASSUME R!Init
             PROVE  ReactIInv
  OBVIOUS
<1>0. R!Unseen \in [R!Slots -> Shown] /\ \A s \in R!Slots : R!Unseen[s] = "none"
  BY DEF R!Unseen, Shown
<1>1. /\ reacted = [n \in Nodes |-> {}] /\ stored = [n \in Nodes |-> {}]
      /\ at = [n \in Nodes |-> "ready"] /\ firstSeen = [n \in Nodes |-> FALSE]
      /\ seen = [n \in Nodes |-> R!Unseen] /\ held = [n \in Nodes |-> R!Unseen]
      /\ replayed = [n \in Nodes |-> {}] /\ written = 0
      /\ chosen = [n \in Nodes |-> [m \in Msgs |-> "none"]]
  BY DEF R!Init
<1>2. /\ actor \in [Nodes -> R!Ranks] /\ spent = {actor[n] : n \in Nodes}
      /\ \A n, m \in Nodes : actor[n] = actor[m] => n = m
  BY DEF R!Init
<1>3. ReactTypes
  BY <1>0, <1>1, <1>2 DEF ReactTypes, Shown
<1>4. \A w : ~InUse(w)
  BY <1>1 DEF InUse
<1>5. RanksOwn
  BY <1>2 DEF RanksOwn
<1>6. Counted /\ OwnRank /\ Distinct
  BY <1>4 DEF Counted, OwnRank, Distinct
<1>7. ASSUME NEW n \in Nodes, NEW id \in Msgs
      PROVE  OwnKept(n, id) /\ LastChosen(n, id)
  <2>1. Kept(n) = {}
    BY <1>1 DEF Kept
  <2>2. R!Winner({}, <<id, n>>) = {}
    BY DEF R!Winner
  <2>3. R!listReactions({})[<<id, n>>] = "none"
    BY <2>2, SlotOf DEF R!listReactions
  <2> QED
    BY <1>1, <1>4, <2>1, <2>3 DEF OwnKept, LastChosen
<1>8. AllSeen
  BY <1>0, <1>1 DEF AllSeen, SeenAll
<1> QED
  BY <1>3, <1>5, <1>6, <1>7, <1>8 DEF ReactIInv, OwnWords
-----------------------------------------------------------------------------
(* A reaction, or its withdrawal: the new write is the node's last word in *)
(* its slot, because it is numbered above all that the node has, and that  *)
(* is all there is in its name.                                            *)
LEMMA WriteKeeps ==
  ASSUME ReactIInv, NEW n \in Nodes, NEW id \in Msgs, NEW emoji \in Chosable,
         R!WriteReaction(n, id, emoji)
  PROVE  ReactIInv'
<1>0. ReactTypes /\ RanksOwn /\ Counted /\ OwnRank /\ Distinct /\ OwnWords /\ AllSeen
  BY DEF ReactIInv
<1> DEFINE k == 1 + R!Max({0} \cup {w.ctr : w \in reacted[n]})
           new == [slot |-> <<id, n>>, emoji |-> emoji, actor |-> actor[n], ctr |-> k]
<1>1. /\ at[n] = "ready" /\ written' = written + 1
      /\ chosen' = [chosen EXCEPT ![n][id] = emoji]
      /\ R!emitSyncedReactions(n, reacted'[n])
      /\ UNCHANGED <<stored, actor, spent, at, held, hasty, crashed>>
  BY DEF R!WriteReaction
<1>2. reacted' = [reacted EXCEPT ![n] = reacted[n] \cup {new}]
  BY DEF R!WriteReaction, R!setReaction, R!reactionKey
<1>3. reacted[n] \in SUBSET Writes /\ written \in Nat /\ \A w \in reacted[n] : w.ctr <= written
  BY <1>0 DEF ReactTypes, Counted, InUse
<1>3a. written \in Nat
  BY <1>3
<1>3b. written' = written + 1
  BY <1>1
<1>3c. written' \in Nat
  BY <1>3a, <1>3b
<1>4. k \in Nat /\ k <= written + 1 /\ \A w \in reacted[n] : w.ctr < k
  BY <1>3, NumberedAbove
<1> HIDE DEF k
<1>5. /\ new \in Writes /\ new.ctr = k /\ new.actor = actor[n] /\ new.slot = <<id, n>>
      /\ new.emoji = emoji
  <2>1. actor[n] \in Nat
    BY <1>0, RanksBounded DEF ReactTypes
  <2> QED
    BY <1>4, <2>1, SlotOf DEF Writes
<1> HIDE DEF new
<1>6. /\ reacted' \in [Nodes -> SUBSET Writes]
      /\ reacted'[n] = reacted[n] \cup {new}
      /\ \A m \in Nodes : m # n => reacted'[m] = reacted[m]
  BY <1>0, <1>2, <1>5 DEF ReactTypes
<1>7. \A w : InUse(w)' => InUse(w) \/ w = new
  BY <1>1, <1>6 DEF InUse
<1>8. /\ actor[n] \in R!Ranks /\ actor[n] \in spent
      /\ \A w : InUse(w) /\ w.actor = actor[n] => w \in reacted[n] /\ w.ctr < k
  BY <1>0, <1>1, <1>4 DEF ReactTypes, RanksOwn, OwnRank
<1>9. /\ firstSeen' \in [Nodes -> BOOLEAN]
      /\ seen' \in [Nodes -> [R!Slots -> Shown]]
      /\ replayed' \in [Nodes -> SUBSET R!Slots]
      /\ \A m \in Nodes : m # n => /\ firstSeen'[m] = firstSeen[m] /\ seen'[m] = seen[m]
                                   /\ replayed'[m] = replayed[m]
  BY <1>0, <1>1, <1>6, EmitReactions
<1>10. ReactTypes'
  <2>1. chosen' \in [Nodes -> [Msgs -> Shown]]
    BY <1>0, <1>1 DEF ReactTypes, Shown, Chosable
  <2>2. /\ stored' = stored /\ at' = at /\ actor' = actor /\ spent' = spent /\ held' = held
        /\ written' \in Nat
    BY <1>1, <1>3c
  <2> QED
    BY <1>0, <1>6, <1>9, <2>1, <2>2 DEF ReactTypes
<1>11. RanksOwn'
  BY <1>0, <1>1 DEF RanksOwn
<1>12. Counted'
  <2> SUFFICES ASSUME NEW w, InUse(w)'
               PROVE  w.ctr <= written' /\ w.actor \in spent'
    BY DEF Counted
  <2>1. CASE InUse(w)
    <3>1. w.ctr \in Nat /\ w.ctr <= written /\ w.actor \in spent
      BY <1>0, <2>1, InUseTyped
    <3>2. w.ctr <= written + 1
      BY <3>1, <1>3a
    <3> QED
      BY <1>1, <1>3b, <3>1, <3>2
  <2>2. CASE w = new
    BY <1>1, <1>4, <1>5, <1>8, <2>2
  <2> QED
    BY <1>7, <2>1, <2>2
<1>13. OwnRank'
  <2> SUFFICES ASSUME NEW m \in Nodes, NEW w, InUse(w)', w.actor = actor[m], at[m] = "ready"
               PROVE  w \in reacted'[m]
    BY <1>1 DEF OwnRank
  <2>1. CASE InUse(w)
    BY <1>0, <1>6, <2>1 DEF OwnRank
  <2>2. CASE w = new
    BY <1>0, <1>5, <1>6, <2>2 DEF RanksOwn
  <2> QED
    BY <1>7, <2>1, <2>2
<1>14. Distinct'
  <2> SUFFICES ASSUME NEW v, NEW w, InUse(v)', InUse(w)', v.ctr = w.ctr, v.actor = w.actor
               PROVE  v = w
    BY DEF Distinct
  <2>1. CASE InUse(v) /\ InUse(w)
    BY <1>0, <2>1 DEF Distinct
  <2>2. ASSUME NEW u, InUse(u), u.ctr = new.ctr, u.actor = new.actor
        PROVE  FALSE
    <3>1. u \in reacted[n] /\ u.ctr < k
      BY <1>5, <1>8, <2>2
    <3>2. u.ctr = k
      BY <1>5, <2>2
    <3>3. k \in Nat
      BY <1>4
    <3>4. k < k
      BY <3>1, <3>2
    <3> QED
      BY <3>3, <3>4
  <2> QED
    BY <1>7, <2>1, <2>2
<1>15. ASSUME NEW m \in Nodes \ crashed, NEW other \in Msgs
       PROVE  OwnKept(m, other)' /\ LastChosen(m, other)'
  <2>1. OwnKept(m, other) /\ LastChosen(m, other)
    BY <1>0 DEF OwnWords
  <2>2. Kept(m)' = IF m = n THEN reacted[n] \cup {new} ELSE Kept(m)
    BY <1>1, <1>6 DEF Kept
  <2>3. m = n => Kept(m) = reacted[n]
    BY <1>1 DEF Kept
  <2>4. OwnKept(m, other)'
    <3> SUFFICES ASSUME NEW w, InUse(w)', w.slot = <<other, m>>
                 PROVE  w \in Kept(m)'
      BY DEF OwnKept
    <3>1. CASE InUse(w)
      BY <2>1, <2>2, <2>3, <3>1 DEF OwnKept
    <3>2. CASE w = new
      <4>1. <<other, m>> = <<id, n>>
        BY <1>5, <3>2
      <4>2. m = n
        BY <4>1
      <4> QED
        BY <2>2, <3>2, <4>2
    <3> QED
      BY <1>7, <3>1, <3>2
  <2>5. CASE m = n /\ other = id
    <3>1. new \in R!Winner(reacted'[n], <<id, n>>)
      BY <1>3, <1>4, <1>5, <1>6 DEF R!Winner, R!Above, Writes
    <3>2. R!listReactions(reacted'[n])[<<id, n>>] = emoji
      <4>1. reacted'[n] \in SUBSET Writes /\ <<id, n>> \in R!Slots
        BY <1>6, SlotOf
      <4> QED
        BY <1>5, <3>1, <4>1, WinnerShows
    <3>3. chosen'[n][id] = emoji
      BY <1>0, <1>1 DEF ReactTypes
    <3> QED
      BY <1>6, <2>2, <2>4, <2>5, <3>2, <3>3 DEF LastChosen
  <2>6. CASE ~(m = n /\ other = id)
    <3>1. <<other, m>> # <<id, n>>
      BY <2>6
    <3>2. \A w : w \in Kept(m)' /\ w.slot = <<other, m>> <=> w \in Kept(m) /\ w.slot = <<other, m>>
      BY <1>5, <2>2, <2>3, <3>1
    <3>3. R!listReactions(Kept(m)')[<<other, m>>] = R!listReactions(Kept(m))[<<other, m>>]
      BY <3>2, SlotOf, SlotAlone
    <3>4. chosen'[m][other] = chosen[m][other]
      BY <1>0, <1>1, <2>6 DEF ReactTypes
    <3> QED
      BY <2>1, <2>4, <3>3, <3>4 DEF LastChosen
  <2> QED
    BY <2>5, <2>6
<1>16. OwnWords'
  BY <1>1, <1>15 DEF OwnWords
<1>17. ASSUME NEW m \in Nodes \ hasty
       PROVE  SeenAll(m)'
  <2>1. SeenAll(m)
    BY <1>0 DEF AllSeen
  <2>2. CASE m = n
    <3>1. reacted'[n] \in SUBSET Writes
      BY <1>6
    <3>2. \A s \in R!Slots : (\E w \in reacted'[n] : w.slot = s) => R!listReactions(reacted'[n])[s] # "none"
      <4>1. \A w \in reacted'[n] : InUse(w)'
        BY DEF InUse
      <4>2. \A w \in reacted'[n] : w.ctr <= written' /\ w.actor \in R!Ranks
        BY <1>10, <1>12, <4>1 DEF Counted, ReactTypes
      <4>3. \A v, w \in reacted'[n] : v.ctr = w.ctr /\ v.actor = w.actor => v = w
        BY <1>14, <4>1 DEF Distinct
      <4>4. reacted'[n] \in SUBSET Writes /\ written' \in Nat
        BY <1>10 DEF ReactTypes
      <4> QED
        BY <4>2, <4>3, <4>4, DocShows
    <3> QED
      BY <1>0, <1>1, <1>6, <2>1, <2>2, <3>1, <3>2, EmitKeepsSeen
  <2>3. CASE m # n
    BY <1>1, <1>6, <1>9, <2>1, <2>3 DEF SeenAll
  <2> QED
    BY <2>2, <2>3
<1>18. AllSeen'
  BY <1>1, <1>17 DEF AllSeen
<1> QED
  BY <1>10, <1>11, <1>12, <1>13, <1>14, <1>16, <1>18 DEF ReactIInv
-----------------------------------------------------------------------------
(* A merge brings a node nothing of its own that it had not kept.          *)
LEMMA MergeKeeps ==
  ASSUME ReactIInv, NEW n \in Nodes, NEW p \in Nodes, R!Merge(n, p)
  PROVE  ReactIInv'
<1>0. ReactTypes /\ RanksOwn /\ Counted /\ OwnRank /\ Distinct /\ OwnWords /\ AllSeen
  BY DEF ReactIInv
<1>1. /\ reacted' = [reacted EXCEPT ![n] = reacted[n] \cup reacted[p]]
      /\ R!emitSyncedReactions(n, reacted'[n])
      /\ stored' = stored /\ actor' = actor /\ spent' = spent /\ at' = at
      /\ chosen' = chosen /\ held' = held /\ crashed' = crashed /\ written' = written
  BY DEF R!Merge
<1>2. hasty' = IF at[n] = "starting" THEN hasty \cup {n} ELSE hasty
  BY DEF R!Merge
<1>3. reacted[n] \cup reacted[p] \in SUBSET Writes
  BY <1>0 DEF ReactTypes
<1>4. /\ reacted' \in [Nodes -> SUBSET Writes]
      /\ reacted'[n] = reacted[n] \cup reacted[p]
      /\ \A m \in Nodes : m # n => reacted'[m] = reacted[m]
  BY <1>0, <1>1, <1>3 DEF ReactTypes
<1>5. \A w : InUse(w)' => InUse(w)
  BY <1>1, <1>4 DEF InUse
<1>6. /\ firstSeen' \in [Nodes -> BOOLEAN]
      /\ seen' \in [Nodes -> [R!Slots -> Shown]]
      /\ replayed' \in [Nodes -> SUBSET R!Slots]
      /\ \A m \in Nodes : m # n => /\ firstSeen'[m] = firstSeen[m] /\ seen'[m] = seen[m]
                                   /\ replayed'[m] = replayed[m]
  BY <1>0, <1>1, <1>4, EmitReactions
<1>7. ReactTypes'
  BY <1>0, <1>1, <1>4, <1>6 DEF ReactTypes
<1>8. RanksOwn'
  BY <1>0, <1>1 DEF RanksOwn
<1>9. Counted'
  BY <1>0, <1>1, <1>5 DEF Counted
<1>10. OwnRank'
  <2> SUFFICES ASSUME NEW m \in Nodes, NEW w, InUse(w)', w.actor = actor[m], at[m] = "ready"
               PROVE  w \in reacted'[m]
    BY <1>1 DEF OwnRank
  <2>1. w \in reacted[m]
    BY <1>0, <1>5 DEF OwnRank
  <2> QED
    BY <1>4, <2>1
<1>11. Distinct'
  BY <1>0, <1>5 DEF Distinct
<1>12. ASSUME NEW m \in Nodes \ crashed, NEW id \in Msgs
       PROVE  OwnKept(m, id)' /\ LastChosen(m, id)'
  <2>1. OwnKept(m, id) /\ LastChosen(m, id)
    BY <1>0 DEF OwnWords
  <2>2. Kept(m) \subseteq Kept(m)' /\ \A w \in Kept(m)' : w \in Kept(m) \/ w \in reacted[p]
    BY <1>1, <1>4 DEF Kept
  <2>3. \A w \in reacted[p] : w.slot = <<id, m>> => w \in Kept(m)
    BY <2>1 DEF OwnKept, InUse
  <2>4. R!listReactions(Kept(m)')[<<id, m>>] = R!listReactions(Kept(m))[<<id, m>>]
    <3>1. \A w : w \in Kept(m)' /\ w.slot = <<id, m>> <=> w \in Kept(m) /\ w.slot = <<id, m>>
      BY <2>2, <2>3
    <3> QED
      BY <3>1, SlotOf, SlotAlone
  <2>5. OwnKept(m, id)'
    BY <1>5, <2>1, <2>2 DEF OwnKept
  <2> QED
    BY <1>1, <2>1, <2>4, <2>5 DEF LastChosen
<1>13. OwnWords'
  BY <1>1, <1>12 DEF OwnWords
<1>14. ASSUME NEW m \in Nodes \ hasty'
       PROVE  SeenAll(m)'
  <2>1. SeenAll(m)
    BY <1>0, <1>2 DEF AllSeen
  <2>2. CASE m = n
    <3>1. at[n] = "ready" /\ at'[n] = "ready"
      BY <1>0, <1>1, <1>2, <2>2 DEF ReactTypes
    <3>2. reacted'[n] \in SUBSET Writes /\ reacted[n] \subseteq reacted'[n]
      BY <1>4
    <3>3. \A s \in R!Slots : (\E w \in reacted'[n] : w.slot = s) => R!listReactions(reacted'[n])[s] # "none"
      <4>1. \A w \in reacted'[n] : InUse(w)'
        BY DEF InUse
      <4>2. \A w \in reacted'[n] : w.ctr <= written' /\ w.actor \in R!Ranks
        BY <1>7, <1>9, <4>1 DEF Counted, ReactTypes
      <4>3. \A v, w \in reacted'[n] : v.ctr = w.ctr /\ v.actor = w.actor => v = w
        BY <1>11, <4>1 DEF Distinct
      <4>4. reacted'[n] \in SUBSET Writes /\ written' \in Nat
        BY <1>7 DEF ReactTypes
      <4> QED
        BY <4>2, <4>3, <4>4, DocShows
    <3> QED
      BY <1>0, <1>1, <2>1, <2>2, <3>1, <3>2, <3>3, EmitKeepsSeen
  <2>3. CASE m # n
    BY <1>1, <1>4, <1>6, <2>1, <2>3 DEF SeenAll
  <2> QED
    BY <2>2, <2>3
<1>15. AllSeen'
  BY <1>14 DEF AllSeen
<1> QED
  BY <1>7, <1>8, <1>9, <1>10, <1>11, <1>13, <1>15 DEF ReactIInv
-----------------------------------------------------------------------------
(* A checkpoint stores what the node has.                                  *)
LEMMA CheckpointKeeps ==
  ASSUME ReactIInv, NEW n \in Nodes, R!Checkpoint(n)
  PROVE  ReactIInv'
<1>0. ReactTypes /\ RanksOwn /\ Counted /\ OwnRank /\ Distinct /\ OwnWords /\ AllSeen
  BY DEF ReactIInv
<1>1. /\ at[n] = "ready" /\ stored' = [stored EXCEPT ![n] = reacted[n]]
      /\ reacted' = reacted /\ actor' = actor /\ spent' = spent /\ at' = at
      /\ firstSeen' = firstSeen /\ seen' = seen /\ replayed' = replayed
      /\ chosen' = chosen /\ held' = held /\ hasty' = hasty /\ crashed' = crashed
      /\ written' = written
  BY DEF R!Checkpoint, R!told, R!past
<1>2. /\ stored' \in [Nodes -> SUBSET Writes] /\ stored'[n] = reacted[n]
      /\ \A m \in Nodes : m # n => stored'[m] = stored[m]
  BY <1>0, <1>1 DEF ReactTypes
<1>3. \A w : InUse(w)' => InUse(w)
  BY <1>1, <1>2 DEF InUse
<1>4. \A m \in Nodes : Kept(m)' = Kept(m)
  BY <1>1, <1>2 DEF Kept
<1>5. ReactTypes'
  BY <1>0, <1>1, <1>2 DEF ReactTypes
<1>6. RanksOwn' /\ Counted' /\ OwnRank' /\ Distinct'
  BY <1>0, <1>1, <1>3 DEF RanksOwn, Counted, OwnRank, Distinct
<1>7. OwnWords'
  <2> SUFFICES ASSUME NEW m \in Nodes \ crashed, NEW id \in Msgs
               PROVE  OwnKept(m, id)' /\ LastChosen(m, id)'
    BY <1>1 DEF OwnWords
  <2>1. OwnKept(m, id) /\ LastChosen(m, id)
    BY <1>0 DEF OwnWords
  <2> QED
    BY <1>1, <1>3, <1>4, <2>1 DEF OwnKept, LastChosen
<1>8. AllSeen'
  BY <1>0, <1>1 DEF AllSeen, SeenAll
<1> QED
  BY <1>5, <1>6, <1>7, <1>8 DEF ReactIInv

(* Who stops with something unsaved is among those who lost; what all      *)
(* others have is what they stored.                                        *)
LEMMA CrashKeeps ==
  ASSUME ReactIInv, NEW n \in Nodes, R!Crash(n)
  PROVE  ReactIInv'
<1>0. ReactTypes /\ RanksOwn /\ Counted /\ OwnRank /\ Distinct /\ OwnWords /\ AllSeen
  BY DEF ReactIInv
<1>1. /\ at[n] = "ready" /\ at' = [at EXCEPT ![n] = "starting"]
      /\ reacted' = [reacted EXCEPT ![n] = {}] /\ hasty' = hasty \ {n}
      /\ firstSeen' = [firstSeen EXCEPT ![n] = FALSE]
      /\ seen' = [seen EXCEPT ![n] = R!Unseen]
      /\ replayed' = [replayed EXCEPT ![n] = {}]
      /\ stored' = stored /\ actor' = actor /\ spent' = spent
      /\ chosen' = chosen /\ held' = held /\ written' = written
  BY DEF R!Crash
<1>2. crashed' = IF reacted[n] = stored[n] THEN crashed ELSE crashed \cup {n}
  BY DEF R!Crash
<1>3. /\ at' \in [Nodes -> {"starting", "ready"}] /\ at'[n] = "starting"
      /\ \A m \in Nodes : m # n => at'[m] = at[m]
  BY <1>0, <1>1 DEF ReactTypes
<1>4. /\ reacted' \in [Nodes -> SUBSET Writes] /\ reacted'[n] = {}
      /\ \A m \in Nodes : m # n => reacted'[m] = reacted[m]
  BY <1>0, <1>1 DEF ReactTypes
<1>5. R!Unseen \in [R!Slots -> Shown]
  BY DEF R!Unseen, Shown
<1>6. /\ firstSeen' \in [Nodes -> BOOLEAN] /\ ~firstSeen'[n]
      /\ seen' \in [Nodes -> [R!Slots -> Shown]]
      /\ replayed' \in [Nodes -> SUBSET R!Slots] /\ replayed'[n] = {}
      /\ \A m \in Nodes : m # n => /\ firstSeen'[m] = firstSeen[m] /\ seen'[m] = seen[m]
                                   /\ replayed'[m] = replayed[m]
  BY <1>0, <1>1, <1>5 DEF ReactTypes
<1>7. \A w : InUse(w)' => InUse(w)
  BY <1>1, <1>4 DEF InUse
<1>8. ReactTypes'
  BY <1>0, <1>1, <1>3, <1>4, <1>6 DEF ReactTypes
<1>9. RanksOwn' /\ Counted' /\ Distinct'
  BY <1>0, <1>1, <1>7 DEF RanksOwn, Counted, Distinct
<1>10. OwnRank'
  BY <1>0, <1>1, <1>3, <1>4, <1>7 DEF OwnRank
<1>11. ASSUME NEW m \in Nodes \ crashed'
       PROVE  Kept(m)' = Kept(m) /\ m \notin crashed
  <2>1. m \notin crashed /\ (m = n => reacted[n] = stored[n])
    BY <1>2
  <2>2. CASE m = n
    BY <1>1, <1>3, <2>1, <2>2 DEF Kept
  <2>3. CASE m # n
    BY <1>1, <1>3, <1>4, <2>1, <2>3 DEF Kept
  <2> QED
    BY <2>2, <2>3
<1>12. OwnWords'
  BY <1>0, <1>1, <1>7, <1>11 DEF OwnWords, OwnKept, LastChosen
<1>13. AllSeen'
  <2> SUFFICES ASSUME NEW m \in Nodes \ hasty'
               PROVE  SeenAll(m)'
    BY DEF AllSeen
  <2>1. CASE m = n
    BY <1>3, <1>6, <2>1 DEF SeenAll
  <2>2. CASE m # n
    <3>1. SeenAll(m)
      BY <1>0, <1>1, <2>2 DEF AllSeen
    <3> QED
      BY <1>1, <1>3, <1>4, <1>6, <2>2, <3>1 DEF SeenAll
  <2> QED
    BY <2>1, <2>2
<1> QED
  BY <1>8, <1>9, <1>10, <1>12, <1>13 DEF ReactIInv

(* A process that has restored begins with what was stored, and under a    *)
(* rank that no write has.                                                 *)
LEMMA RestoreKeeps ==
  ASSUME ReactIInv, NEW n \in Nodes, R!RestoreAll(n)
  PROVE  ReactIInv'
<1>0. ReactTypes /\ RanksOwn /\ Counted /\ OwnRank /\ Distinct /\ OwnWords /\ AllSeen
  BY DEF ReactIInv
<1>1. /\ at[n] = "starting" /\ at' = [at EXCEPT ![n] = "ready"]
      /\ reacted' = [reacted EXCEPT ![n] = stored[n]]
      /\ held' = [held EXCEPT ![n] = R!listReactions(stored[n])]
      /\ stored' = stored /\ firstSeen' = firstSeen /\ seen' = seen /\ replayed' = replayed
      /\ chosen' = chosen /\ hasty' = hasty /\ crashed' = crashed /\ written' = written
  BY DEF R!RestoreAll
<1>2. PICK r \in R!Ranks \ spent : actor' = [actor EXCEPT ![n] = r] /\ spent' = spent \cup {r}
  BY DEF R!RestoreAll
<1>3. /\ at' \in [Nodes -> {"starting", "ready"}] /\ at'[n] = "ready"
      /\ \A m \in Nodes : m # n => at'[m] = at[m]
  BY <1>0, <1>1 DEF ReactTypes
<1>4. /\ reacted' \in [Nodes -> SUBSET Writes] /\ reacted'[n] = stored[n]
      /\ \A m \in Nodes : m # n => reacted'[m] = reacted[m]
  BY <1>0, <1>1 DEF ReactTypes
<1>5. /\ actor' \in [Nodes -> R!Ranks] /\ actor'[n] = r
      /\ \A m \in Nodes : m # n => actor'[m] = actor[m]
  BY <1>0, <1>2 DEF ReactTypes
<1>6. stored[n] \in SUBSET Writes
  BY <1>0 DEF ReactTypes
<1>7. R!listReactions(stored[n]) \in [R!Slots -> Shown]
  BY <1>6, ListedShown
<1>8. /\ held' \in [Nodes -> [R!Slots -> Shown]]
      /\ held'[n] = R!listReactions(stored[n])
      /\ \A m \in Nodes : m # n => held'[m] = held[m]
  BY <1>0, <1>1, <1>7 DEF ReactTypes
<1>9. \A w : InUse(w)' => InUse(w)
  BY <1>1, <1>4 DEF InUse
<1>10. ReactTypes'
  BY <1>0, <1>1, <1>2, <1>3, <1>4, <1>5, <1>8 DEF ReactTypes
<1>11. RanksOwn'
  BY <1>0, <1>2, <1>5 DEF RanksOwn
<1>12. Counted' /\ Distinct'
  BY <1>0, <1>1, <1>2, <1>9 DEF Counted, Distinct
<1>13. OwnRank'
  <2> SUFFICES ASSUME NEW m \in Nodes, NEW w, InUse(w)', w.actor = actor'[m], at'[m] = "ready"
               PROVE  w \in reacted'[m]
    BY DEF OwnRank
  <2>1. InUse(w) /\ w.actor \in spent
    BY <1>0, <1>9 DEF Counted
  <2>2. m # n
    BY <1>2, <1>5, <2>1
  <2> QED
    BY <1>0, <1>3, <1>4, <1>5, <2>1, <2>2 DEF OwnRank
<1>14. \A m \in Nodes : Kept(m)' = Kept(m)
  BY <1>1, <1>3, <1>4 DEF Kept
<1>15. OwnWords'
  <2> SUFFICES ASSUME NEW m \in Nodes \ crashed, NEW id \in Msgs
               PROVE  OwnKept(m, id)' /\ LastChosen(m, id)'
    BY <1>1 DEF OwnWords
  <2>1. OwnKept(m, id) /\ LastChosen(m, id)
    BY <1>0 DEF OwnWords
  <2> QED
    BY <1>1, <1>9, <1>14, <2>1 DEF OwnKept, LastChosen
<1>16. AllSeen'
  <2> SUFFICES ASSUME NEW m \in Nodes \ hasty
               PROVE  SeenAll(m)'
    BY <1>1 DEF AllSeen
  <2>0. SeenAll(m)
    BY <1>0 DEF AllSeen
  <2>1. CASE m = n
    <3>1. replayed'[n] = {} /\ ~firstSeen'[n]
      BY <1>1, <2>0, <2>1 DEF SeenAll
    <3>2. \A s \in R!Slots : held'[n][s] # "none" => \E w \in reacted'[n] : w.slot = s
      BY <1>4, <1>8, ListedWritten
    <3> QED
      BY <1>3, <2>1, <3>1, <3>2 DEF SeenAll
  <2>2. CASE m # n
    BY <1>1, <1>3, <1>4, <1>8, <2>0, <2>2 DEF SeenAll
  <2> QED
    BY <2>1, <2>2
<1> QED
  BY <1>10, <1>11, <1>12, <1>13, <1>15, <1>16 DEF ReactIInv
-----------------------------------------------------------------------------
LEMMA NextReact ==
  ASSUME ReactIInv, R!Next
  PROVE  ReactIInv'
<1>1. PICK n \in Nodes :
        \/ \E id \in Msgs, emoji \in Chosable : R!WriteReaction(n, id, emoji)
        \/ \E p \in Nodes : R!Merge(n, p)
        \/ R!Checkpoint(n) \/ R!Crash(n) \/ R!RestoreAll(n)
  BY DEF R!Next, Chosable
<1> QED
  BY <1>1, WriteKeeps, MergeKeeps, CheckpointKeeps, CrashKeeps, RestoreKeeps

LEMMA ReactUnchanged ==
  ASSUME ReactIInv, UNCHANGED reactions
  PROVE  ReactIInv'
<1>1. /\ reacted' = reacted /\ stored' = stored /\ actor' = actor /\ at' = at
      /\ firstSeen' = firstSeen /\ seen' = seen /\ chosen' = chosen /\ held' = held
      /\ replayed' = replayed /\ hasty' = hasty /\ crashed' = crashed /\ spent' = spent
      /\ written' = written
  BY DEF reactions
<1>2. ReactTypes' /\ RanksOwn' /\ Counted' /\ OwnRank' /\ Distinct'
  BY <1>1 DEF ReactIInv, ReactTypes, RanksOwn, Counted, OwnRank, Distinct, InUse
<1>3. OwnWords'
  BY <1>1 DEF ReactIInv, OwnWords, OwnKept, LastChosen, Kept, InUse
<1>4. AllSeen'
  BY <1>1 DEF ReactIInv, AllSeen, SeenAll
<1> QED
  BY <1>2, <1>3, <1>4 DEF ReactIInv

LEMMA AlwaysReactIInv == NodeSpec => []ReactIInv
<1>1. NodeInit => ReactIInv
  BY ReactInit DEF NodeInit
<1>2. ReactIInv /\ [NodeNext]_node => ReactIInv'
  BY NextReact, ReactUnchanged DEF NodeNext, OnMessages, OnReactions, node
<1> QED
  BY <1>1, <1>2, PTL DEF NodeSpec

(* A person's last choice is the one reaction a message has from them,     *)
(* wherever their writes have arrived.  (document-manager.ts setReaction)  *)
THEOREM LastChoiceShows == NodeSpec => []LastWord
<1>1. ReactIInv => LastWord
  <2> SUFFICES ASSUME ReactIInv, NEW n \in Nodes \ crashed, NEW p \in Nodes, NEW id \in Msgs,
                      at[n] = "ready", {w \in reacted[n] : w.slot = <<id, n>>} \subseteq reacted[p]
               PROVE  R!listReactions(reacted[p])[<<id, n>>] = chosen[n][id]
    BY DEF LastWord, R!LastWord, R!reactionKey
  <2>1. OwnKept(n, id) /\ LastChosen(n, id) /\ Kept(n) = reacted[n]
    BY DEF ReactIInv, OwnWords, Kept
  <2>2. \A w : w \in reacted[p] /\ w.slot = <<id, n>> <=> w \in reacted[n] /\ w.slot = <<id, n>>
    BY <2>1 DEF OwnKept, InUse
  <2>3. R!listReactions(reacted[p])[<<id, n>>] = R!listReactions(reacted[n])[<<id, n>>]
    BY <2>2, SlotOf, SlotAlone
  <2> QED
    BY <2>1, <2>3 DEF LastChosen
<1> QED
  BY <1>1, AlwaysReactIInv, PTL

(* A restart tells the application nothing that it could read already.     *)
(* (chat-service.ts emitSyncedReactions)                                   *)
THEOREM NothingReplayed == NodeSpec => []NoReplay
<1>1. ReactIInv => NoReplay
  BY DEF ReactIInv, AllSeen, SeenAll, NoReplay, R!NoReplay
<1> QED
  BY <1>1, AlwaysReactIInv, PTL
=============================================================================
