----------------------------- MODULE ChannelDoc -----------------------------
(***************************************************************************)
(* The document of one conversation, as core/src/crdt/document-manager.ts  *)
(* and the chat service use it: who takes part, and which messages it      *)
(* holds.  Automerge, which merges it, is outside the repository; it is    *)
(* modelled by what the code relies on.  A document is the set of changes  *)
(* a replica has.  A change writes one key, knows which writes of that key *)
(* it replaces (`over`), and is numbered above everything its author had   *)
(* seen (`ctr`).  Merging is union; a key's value is the highest-numbered  *)
(* write nothing else replaces, and a deleted key is one left without such *)
(* a write.  So of a concurrent add and removal, the add survives.         *)
(*                                                                         *)
(* Titles, timestamps and reactions are left out.  A message is stored as  *)
(* `named` (authorDid is recorded) and `whole` (attachments, replyTo and   *)
(* nullifier are, where it had any): all a reader can tell two stored      *)
(* versions of one message apart by.                                       *)
(***************************************************************************)
EXTENDS Naturals, FiniteSets, FiniteSetsExt

CONSTANTS
  Nodes,   \* did:keys
  Msgs,    \* message ids
  Rank,    \* the order of the actor ids, which breaks ties between writes
  Gone     \* what a deletion writes

Body == [named : BOOLEAN, whole : BOOLEAN]
Present == [named |-> TRUE, whole |-> TRUE]   \* the value of a participant

ASSUME DocAssumption ==
  /\ Rank \in [Nodes -> Nat]
  /\ \A a, b \in Nodes : Rank[a] = Rank[b] => a = b
  /\ Gone \notin Body

MemberKey(did) == <<"participants", did>>
MessageKey(id) == <<"messages", id>>

NextCtr(doc) == 1 + Max({c.ctr : c \in doc} \cup {0})

(* The writes of a key that no other change replaces.                      *)
Live(doc, key) ==
  {c \in doc : /\ c.key = key /\ c.val # Gone
               /\ \A d \in doc : <<c.ctr, c.actor>> \in d.over => d.key # key}

Change(doc, actor, key, val) ==
  [ctr |-> NextCtr(doc), actor |-> actor, key |-> key, val |-> val,
   over |-> {<<c.ctr, c.actor>> : c \in Live(doc, key)}]

hasDocument(doc) == doc # {}

participants(doc) == {did \in Nodes : Live(doc, MemberKey(did)) # {}}

messages(doc) == {id \in Msgs : Live(doc, MessageKey(id)) # {}}

(* The version of a stored message that every replica with these changes   *)
(* shows.                                                                  *)
BodyOf(doc, id) ==
  LET live == Live(doc, MessageKey(id)) IN
  (CHOOSE c \in live : \A d \in live :
     \/ c.ctr > d.ctr
     \/ c.ctr = d.ctr /\ Rank[c.actor] >= Rank[d.actor]).val

(* addParticipant for each of dids, a no-op for one already present.       *)
addParticipants(doc, actor, dids) ==
  doc \cup {Change(doc, actor, MemberKey(did), Present) :
              did \in dids \ participants(doc)}

(* removeParticipant for each of dids.                                     *)
removeParticipants(doc, actor, dids) ==
  doc \cup {Change(doc, actor, MemberKey(did), Gone) :
              did \in dids \cap participants(doc)}

(* Faulty variant: a message without an author is not written.             *)
addMessageNamed(doc, actor, id, body) ==
  IF body.named THEN doc \cup {Change(doc, actor, MessageKey(id), body)} ELSE doc

(* addMessage: writes messages[id] whether or not it is there already.     *)
addMessage(doc, actor, id, body) ==
  doc \cup {Change(doc, actor, MessageKey(id), body)}

(* createChannel: the list is authoritative, not additive.                 *)
createChannel(doc, actor, guests) ==
  LET intended == guests \cup {actor}
      trimmed  == removeParticipants(doc, actor, participants(doc) \ intended)
  IN  addParticipants(trimmed, actor, intended)

(* Faulty variant: the author is listed in a conversation already held.    *)
recordLocallyAdmits(doc, actor, id, body, guests, author) ==
  LET listed == {actor} \cup guests \cup (IF body.named THEN {author} ELSE {})
  IN  addMessage(addParticipants(doc, actor, listed), actor, id, body)

(* recordLocally: a conversation first heard of lists this node, the       *)
(* guests the caller named and the author the message names; one already   *)
(* held keeps its list.                                                    *)
recordLocally(doc, actor, id, body, guests, author) ==
  LET listed == {actor} \cup guests \cup (IF body.named THEN {author} ELSE {})
      held   == IF hasDocument(doc) THEN doc
                ELSE addParticipants(doc, actor, listed)
  IN  addMessage(held, actor, id, body)
=============================================================================
