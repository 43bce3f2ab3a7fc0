------------------------------ MODULE Slashing ------------------------------
(***************************************************************************)
(* Anonymous messages, rate limiting and slashing (HLessEnd/src/slashing,  *)
(* core/src/zk/rln.ts and shamir.ts, the anonymous half of chat-service.ts *)
(* and client.ts).  An anonymous message carries a nullifier and one point *)
(* of a line; two points under one nullifier give the sender's secret, and *)
(* whoever holds both blacklists the sender and tells its peers.           *)
(*                                                                         *)
(* A secret and the commitment to it are named by the node.  The nullifier *)
(* of a signal is <<secret, epoch, index>>; its point is determined by the *)
(* nullifier and by x, the commitment to <<channel, index>> in that epoch. *)
(***************************************************************************)
EXTENDS Integers, FiniteSets

CONSTANTS
  Nodes,
  Channels,
  Links,     \* node -> the peers it is connected to and paired with
  WindowQuota, \* messages tier 0 may send in a window of three epochs; 3 in the code
  Gated,     \* channels whose anchor requires a proof with each anonymous message
  MaxSends,  \* bound on messages
  MaxEpoch,  \* bound on the RLN epoch
  MaxMoves   \* bound on lost frames, failed gossip and writes, crashes and retirements

ASSUME SlashingAssumption ==
  /\ Links \in [Nodes -> SUBSET Nodes] /\ Gated \subseteq Channels
  /\ WindowQuota \in Nat /\ MaxSends \in Nat
  /\ MaxEpoch \in Nat /\ MaxMoves \in Nat

VARIABLES
  epoch,
  message,     \* message -> who sends it, where and how, and how far sending is
  doc,         \* node -> messages in its documents
  wire,        \* node -> frames under way to it
  checking,    \* node -> anonymous messages whose proof is being verified
  shares,      \* the collector: node -> points observed
  reported,    \* node -> nullifiers that have given evidence
  revoked,     \* node -> commitments revoked, in memory
  verdict,     \* node -> revocations that are being applied
  blacklisted, \* node -> commitments blacklisted in storage
  events,      \* node -> commitments the application was told of
  refused,     \* messages some receiver refused
  retired,     \* nodes that revoked their own identity
  moves

chat     == <<message, doc, checking, refused>>
slashing == <<shares, reported, revoked, verdict, blacklisted, events>>
vars == <<epoch, chat, wire, slashing, retired, moves>>

Messages == 1 .. MaxSends
Epochs   == 0 .. MaxEpoch
NoOne    == "no one"
Unsent   == [at |-> "unused", by |-> NoOne, channel |-> NoOne, anonymous |-> FALSE,
             epoch |-> 0, index |-> 0]

WindowEpochs == 3
isWithinQuota(index) == index < WindowQuota

(* A point, as it travels with a message or alone.                         *)
Share(m) ==
  [nullifier |-> <<message[m].by, message[m].epoch, message[m].index>>,
   x |-> <<message[m].channel, message[m].index>>]

MessageFrame(m)   == [type |-> "message", of |-> m]
ShareFrame(m)     == [type |-> "share", of |-> m]
TombstoneFrame(c) == [type |-> "tombstone", of |-> c]

Init ==
  /\ epoch = 0
  /\ message = [m \in Messages |-> Unsent]
  /\ doc = [n \in Nodes |-> {}] /\ wire = [n \in Nodes |-> {}]
  /\ checking = [n \in Nodes |-> {}] /\ shares = [n \in Nodes |-> {}]
  /\ reported = [n \in Nodes |-> {}] /\ revoked = [n \in Nodes |-> {}]
  /\ verdict = [n \in Nodes |-> {}] /\ blacklisted = [n \in Nodes |-> {}]
  /\ events = [n \in Nodes |-> {}] /\ refused = {} /\ retired = {} /\ moves = 0

Move == moves < MaxMoves /\ moves' = moves + 1

(* getMessageCount(): all messages of a channel, whoever wrote them.       *)
getMessageCount(n, c) == Cardinality({m \in doc[n] : message[m].channel = c})

sent(peers, frame) == [p \in Nodes |-> IF p \in peers THEN wire[p] \cup {frame} ELSE wire[p]]
-----------------------------------------------------------------------------
(* sendMessage() up to its first wait: the index is read, and for an       *)
(* anonymous message createAnonymousSignal() called, which on a gated      *)
(* channel generates a proof.                                              *)
SendMessage(n, m, c, anonymous) ==
  /\ message[m].at = "unused" /\ \A k \in Messages : k < m => message[k].at # "unused"
  /\ message' = [message EXCEPT ![m] =
       [at |-> "signing", by |-> n, channel |-> c, anonymous |-> anonymous,
        epoch |-> epoch, index |-> getMessageCount(n, c)]]
  /\ UNCHANGED <<epoch, doc, wire, checking, slashing, refused, retired, moves>>

(* The rest of sendMessage(): recorded, then published.                    *)
Publish(m) ==
  /\ message[m].at = "signing"
  /\ message' = [message EXCEPT ![m].at = "sent"]
  /\ doc' = [doc EXCEPT ![message[m].by] = @ \cup {m}]
  /\ wire' = sent(Links[message[m].by], MessageFrame(m))
  /\ UNCHANGED <<epoch, checking, slashing, refused, retired, moves>>

(* broadcastRlnShare() with the last signal of this node.                  *)
BroadcastShare(n, m) ==
  /\ message[m].at = "sent" /\ message[m].by = n /\ message[m].anonymous
  /\ \A k \in Messages : message[k].at = "sent" /\ message[k].by = n
                         /\ message[k].anonymous => k <= m
  /\ wire' = sent(Links[n], ShareFrame(m))
  /\ UNCHANGED <<epoch, chat, slashing, retired, moves>>
-----------------------------------------------------------------------------
(* Faulty variant: a point seen twice is taken for two.                    *)
provesAny(s, t) == s.nullifier = t.nullifier

(* recoverSecret() and verifyRecovery(): two points of one line.           *)
proves(s, t) == s.nullifier = t.nullifier /\ s.x # t.x

(* ShareCollector.observe() and, on evidence, publishTombstone() up to its *)
(* first wait: from the secret follow the trapdoor and the commitment.     *)
observe(n, s) ==
  IF s.nullifier \in reported[n] THEN UNCHANGED <<shares, reported, revoked, verdict>>
  ELSE /\ shares' = [shares EXCEPT ![n] = @ \cup {s}]
       /\ IF \E t \in shares[n] : proves(s, t)
          THEN /\ reported' = [reported EXCEPT ![n] = @ \cup {s.nullifier}]
               /\ revoked' = [revoked EXCEPT ![n] = @ \cup {s.nullifier[1]}]
               /\ verdict' = [verdict EXCEPT ![n] = @ \cup
                    {[about |-> s.nullifier[1], then |-> "gossip", stored |-> FALSE]}]
          ELSE UNCHANGED <<reported, revoked, verdict>>

(* ingestRemote() once verifyRlnSignal() has returned TRUE.                *)
admit(n, m) ==
  /\ observe(n, Share(m))
  /\ doc' = [doc EXCEPT ![n] = @ \cup {m}]
  /\ UNCHANGED refused

(* A message frame: an anonymous one is refused over the quota, and its    *)
(* proof, if the channel wants one, is verified before anything else.      *)
HearMessage(n, m) ==
  /\ MessageFrame(m) \in wire[n]
  /\ wire' = [wire EXCEPT ![n] = @ \ {MessageFrame(m)}]
  /\ IF ~message[m].anonymous
     THEN /\ doc' = [doc EXCEPT ![n] = @ \cup {m}]
          /\ UNCHANGED <<checking, refused, shares, reported, revoked, verdict>>
     ELSE IF ~isWithinQuota(message[m].index)
     THEN /\ refused' = refused \cup {m}
          /\ UNCHANGED <<doc, checking, shares, reported, revoked, verdict>>
     ELSE IF message[m].channel \in Gated
     THEN /\ checking' = [checking EXCEPT ![n] = @ \cup {m}]
          /\ UNCHANGED <<doc, refused, shares, reported, revoked, verdict>>
     ELSE admit(n, m) /\ UNCHANGED checking
  /\ UNCHANGED <<epoch, message, blacklisted, events, retired, moves>>

(* ProofService.verify() has answered; an honest proof verifies while the  *)
(* receiver's tree has the root it was made for.                           *)
ProofChecked(n, m, ok) ==
  /\ m \in checking[n]
  /\ checking' = [checking EXCEPT ![n] = @ \ {m}]
  /\ IF ok THEN admit(n, m)
     ELSE refused' = refused \cup {m} /\ UNCHANGED <<doc, shares, reported, revoked, verdict>>
  /\ UNCHANGED <<epoch, message, wire, blacklisted, events, retired, moves>>

(* handleShareFrame().                                                     *)
HearShare(n, m) ==
  /\ ShareFrame(m) \in wire[n]
  /\ wire' = [wire EXCEPT ![n] = @ \ {ShareFrame(m)}]
  /\ observe(n, Share(m))
  /\ UNCHANGED <<epoch, chat, blacklisted, events, retired, moves>>

(* Faulty variant: a tombstone that was received is only remembered.       *)
noted(n, c) == verdict

received(n, c) ==
  [verdict EXCEPT ![n] = @ \cup {[about |-> c, then |-> "end", stored |-> FALSE]}]

(* handleTombstoneFrame(): an honest tombstone proves itself.              *)
HearTombstone(n, c) ==
  /\ TombstoneFrame(c) \in wire[n]
  /\ wire' = [wire EXCEPT ![n] = @ \ {TombstoneFrame(c)}]
  /\ IF c \in revoked[n] THEN UNCHANGED <<revoked, verdict>>
     ELSE revoked' = [revoked EXCEPT ![n] = @ \cup {c}] /\ verdict' = received(n, c)
  /\ UNCHANGED <<epoch, chat, shares, reported, blacklisted, events, retired, moves>>

(* What is left of a revocation whose row was refused.                     *)
Refusal(c) == [about |-> c, then |-> "refused", stored |-> TRUE]

(* The row is stored; a revocation of its own is announced at once.        *)
Blacklisted(n, v) ==
  /\ v \in verdict[n] /\ ~v.stored
  /\ blacklisted' = [blacklisted EXCEPT ![n] = @ \cup {v.about}]
  /\ verdict' = [verdict EXCEPT ![n] =
       IF v.then # "gossip" THEN @ \ {v}
       ELSE (@ \ {v}) \cup {[about |-> v.about, then |-> "gossip", stored |-> TRUE]}]
  /\ events' = IF v.then = "tell" THEN [events EXCEPT ![n] = @ \cup {v.about}] ELSE events
  /\ UNCHANGED <<epoch, chat, wire, shares, reported, revoked, retired, moves>>

(* Storage refuses the row: publishTombstone() and its like throw there,   *)
(* nobody is told, and nobody tries again: the commitment is in revoked.   *)
Rejected(n, v) ==
  /\ v \in verdict[n] /\ ~v.stored /\ Move
  /\ verdict' = [verdict EXCEPT ![n] = (@ \ {v}) \cup {Refusal(v.about)}]
  /\ UNCHANGED <<epoch, chat, wire, shares, reported, revoked, blacklisted, events, retired>>

(* The tombstone goes to every connection; the application is told after   *)
(* all the sends, and not when one of them failed.                         *)
Gossip(n, v, failing) ==
  /\ v \in verdict[n] /\ v.then = "gossip" /\ v.stored /\ failing \subseteq Links[n]
  /\ verdict' = [verdict EXCEPT ![n] = @ \ {v}]
  /\ wire' = sent(Links[n] \ failing, TombstoneFrame(v.about))
  /\ IF failing = {}
     THEN events' = [events EXCEPT ![n] = @ \cup {v.about}] /\ UNCHANGED moves
     ELSE Move /\ UNCHANGED events
  /\ UNCHANGED <<epoch, chat, shares, reported, revoked, blacklisted, retired>>

(* revokeIdentity(): applied here, and never gossiped.                     *)
Retire(n) ==
  /\ n \notin retired /\ Move
  /\ retired' = retired \cup {n}
  /\ revoked' = [revoked EXCEPT ![n] = @ \cup {n}]
  /\ verdict' = [verdict EXCEPT ![n] = @ \cup {[about |-> n, then |-> "tell", stored |-> FALSE]}]
  /\ UNCHANGED <<epoch, chat, wire, shares, reported, blacklisted, events>>
-----------------------------------------------------------------------------
(* Document synchronisation brings messages without their signals being    *)
(* looked at.                                                              *)
Merge(n, p) ==
  /\ p \in Links[n] /\ ~(doc[p] \subseteq doc[n])
  /\ doc' = [doc EXCEPT ![n] = @ \cup doc[p]]
  /\ UNCHANGED <<epoch, message, checking, refused, wire, slashing, retired, moves>>

Tick ==
  /\ epoch < MaxEpoch /\ epoch' = epoch + 1
  /\ UNCHANGED <<chat, wire, slashing, retired, moves>>

Lose(n) ==
  /\ wire[n] # {} /\ Move
  /\ wire' = [wire EXCEPT ![n] = {}]
  /\ UNCHANGED <<epoch, chat, slashing, retired>>

(* The process stops and starts again: collector, revocations and the      *)
(* verdicts under way are gone, rows stay, and of the documents what was   *)
(* last stored.                                                            *)
Crash(n) ==
  /\ Move
  /\ \E kept \in SUBSET doc[n] : doc' = [doc EXCEPT ![n] = kept]
  /\ message' = [m \in Messages |->
       IF message[m].at = "signing" /\ message[m].by = n
       THEN [message[m] EXCEPT !.at = "lost"] ELSE message[m]]
  /\ wire' = [wire EXCEPT ![n] = {}]
  /\ checking' = [checking EXCEPT ![n] = {}]
  /\ shares' = [shares EXCEPT ![n] = {}] /\ reported' = [reported EXCEPT ![n] = {}]
  /\ revoked' = [revoked EXCEPT ![n] = {}] /\ verdict' = [verdict EXCEPT ![n] = {}]
  /\ UNCHANGED <<epoch, blacklisted, events, refused, retired>>

(* A write to storage settles.                                             *)
Store == \E n \in Nodes : \E v \in verdict[n] : Blacklisted(n, v) \/ Rejected(n, v)

Next ==
  \/ Tick
  \/ \E m \in Messages : Publish(m)
  \/ \E n \in Nodes, m \in Messages :
       HearMessage(n, m) \/ HearShare(n, m) \/ \E ok \in BOOLEAN : ProofChecked(n, m, ok)
  \/ \E n, c \in Nodes : HearTombstone(n, c)
  \/ Store
  \/ \E n \in Nodes, m \in Messages, c \in Channels, anonymous \in BOOLEAN :
       SendMessage(n, m, c, anonymous)
  \/ \E n \in Nodes, m \in Messages : BroadcastShare(n, m)
  \/ \E n \in Nodes : \E v \in verdict[n], failing \in SUBSET Links[n] : Gossip(n, v, failing)
  \/ \E n \in Nodes : Retire(n) \/ Lose(n) \/ Crash(n) \/ \E p \in Nodes : Merge(n, p)

Spec == Init /\ [][Next]_vars
FairSpec == Spec /\ WF_vars(Store)
-----------------------------------------------------------------------------
Sending == [at : {"unused", "signing", "sent", "lost"}, by : Nodes \cup {NoOne},
            channel : Channels \cup {NoOne}, anonymous : BOOLEAN, epoch : Epochs, index : Nat]
Point   == [nullifier : Nodes \X Epochs \X Nat, x : Channels \X Nat]
Frames  == [type : {"message", "share"}, of : Messages] \cup [type : {"tombstone"}, of : Nodes]
Verdict == [about : Nodes, then : {"gossip", "tell", "end"}, stored : BOOLEAN]
           \cup [about : Nodes, then : {"refused"}, stored : {TRUE}]

(* Types.                                                                  *)
TypeOK ==
  /\ epoch \in Epochs /\ moves \in 0 .. MaxMoves
  /\ message \in [Messages -> Sending]
  /\ doc \in [Nodes -> SUBSET Messages] /\ checking \in [Nodes -> SUBSET Messages]
  /\ wire \in [Nodes -> SUBSET Frames] /\ shares \in [Nodes -> SUBSET Point]
  /\ reported \in [Nodes -> SUBSET (Nodes \X Epochs \X Nat)]
  /\ revoked \in [Nodes -> SUBSET Nodes] /\ verdict \in [Nodes -> SUBSET Verdict]
  /\ blacklisted \in [Nodes -> SUBSET Nodes] /\ events \in [Nodes -> SUBSET Nodes]
  /\ refused \subseteq Messages /\ retired \subseteq Nodes

Used(m) == message[m].at # "unused"

(* Two anonymous messages of c have the same index in one epoch: both were *)
(* sent while their channels, which are not the same, held equally many.   *)
Reused(c) ==
  \E m, k \in Messages :
    /\ Used(m) /\ message[m].anonymous /\ message[m].by = c
    /\ Used(k) /\ message[k].anonymous /\ message[k].by = c
    /\ message[m].epoch = message[k].epoch /\ message[m].index = message[k].index
    /\ message[m].channel # message[k].channel

(* No node is slashed or blacklisted anywhere that did not use one index   *)
(* in two channels in an epoch, unless it revoked itself: not for two      *)
(* sends of one channel that overlap, not for a message that arrives       *)
(* twice, with its share, or after a crash (slashing-coordinator.ts,       *)
(* share-collector.ts).                                                    *)
HonestNeverSlashed ==
  \A n, c \in Nodes :
    c \in revoked[n] \cup blacklisted[n] \cup events[n] =>
      Reused(c) \/ (c = n /\ c \in retired)

(* A node holds two points of a line of c, or has taken its tombstone.     *)
Judged(n, c) == c \in revoked[n] \/ \E s, t \in shares[n] : proves(s, t) /\ s.nullifier[1] = c

(* Two points of one line, or a tombstone, in the hands of a node end in a *)
(* row of its blacklist, unless it restarts first or storage refuses that  *)
(* row (observe(), onRevoked of slashing-bootstrap.ts).                    *)
EvidenceBlacklists ==
  \A n, c \in Nodes :
    Judged(n, c) ~> (c \in blacklisted[n] \/ ~Judged(n, c) \/ Refusal(c) \in verdict[n])

(* What the documentation of the code says, and TLC refutes.               *)

(* A signal is refused for its index only if its sender sent more than the *)
(* quota of a window: rln.ts says of the index that it is one within the   *)
(* epoch; chat-service.ts counts all messages of the channel.              *)
RefusedOnlyOverQuota ==
  \A m \in refused : message[m].channel \in Gated \/
    Cardinality({k \in Messages : /\ Used(k) /\ message[k].anonymous
                                  /\ message[k].by = message[m].by
                                  /\ message[k].epoch <= message[m].epoch
                                  /\ message[m].epoch < message[k].epoch + WindowEpochs}) > WindowQuota
=============================================================================
