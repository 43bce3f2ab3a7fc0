------------------------ MODULE ChannelTrafficProofs ------------------------
(***************************************************************************)
(* Proofs about what nodes exchange for a channel.                         *)
(*                                                                         *)
(* Slashing, for any nodes, links, channels and quota.  The invariant      *)
(* follows the evidence: every point held, and every frame and verdict on  *)
(* its way, goes back to messages that were sent.                          *)
(*                                                                         *)
(* DocSync, for any number of changes, connections and crashes.  As long   *)
(* as no frame was lost, what a node told last is known to the other, on   *)
(* its way to it, or about to be answered, so two nodes that have nothing  *)
(* more to say hold the same document.                                     *)
(***************************************************************************)
EXTENDS ChannelTraffic, FiniteSetTheorems, SequenceTheorems, TLAPS

Witnessed(s) == \E m \in Messages : Used(m) /\ message[m].anonymous /\ s = Share(m)

Senders == \A m \in Messages : Used(m) =>
             message[m].by \in Nodes /\ message[m].channel \in Channels

InFlight == \A n \in Nodes, m \in Messages :
  /\ MessageFrame(m) \in wire[n] => Used(m)
  /\ ShareFrame(m) \in wire[n] => Used(m) /\ message[m].anonymous
  /\ m \in checking[n] => Used(m) /\ message[m].anonymous

Told     == \A n, c \in Nodes : TombstoneFrame(c) \in wire[n] => Reused(c)
Observed == \A n \in Nodes : \A s \in shares[n] : Witnessed(s)
Judgement == \A n \in Nodes : \A v \in verdict[n] :
  /\ v.then = "tell" => v.about = n /\ n \in retired
  /\ v.then \in {"gossip", "end"} => Reused(v.about)

Guilty(n, c) == Reused(c) \/ (c = n /\ c \in retired)
Accused == \A n, c \in Nodes : c \in revoked[n] \cup blacklisted[n] \cup events[n] => Guilty(n, c)

IInv == TypeOK /\ Senders /\ InFlight /\ Told /\ Observed /\ Judgement /\ Accused

(* Messages that were sent stay what they were.                            *)
Kept == \A m \in Messages : Used(m) =>
  /\ Used(m)'
  /\ message'[m].by = message[m].by /\ message'[m].channel = message[m].channel
  /\ message'[m].anonymous = message[m].anonymous
  /\ message'[m].epoch = message[m].epoch /\ message'[m].index = message[m].index

(* Guilt and evidence do not go away while messages stay what they were.   *)
LEMMA Lasting ==
  ASSUME Kept
  PROVE  /\ \A c : Reused(c) => Reused(c)'
         /\ \A s : Witnessed(s) => Witnessed(s)'
<1>1. ASSUME NEW c, Reused(c) PROVE Reused(c)'
  BY <1>1 DEF Kept, Reused
<1>2. ASSUME NEW s, Witnessed(s) PROVE Witnessed(s)'
  <2>1. PICK m \in Messages : Used(m) /\ message[m].anonymous /\ s = Share(m)
    BY <1>2 DEF Witnessed
  <2>2. Used(m)' /\ message'[m].anonymous /\ s = Share(m)'
    BY <2>1 DEF Kept, Share
  <2> QED BY <2>2 DEF Witnessed
<1> QED BY <1>1, <1>2

(* Two points of one line go back to two messages with one index.          *)
LEMMA TwoPoints ==
  ASSUME NEW s, NEW t, Witnessed(s), Witnessed(t), proves(s, t)
  PROVE  Reused(s.nullifier[1])
<1>1. PICK m \in Messages : Used(m) /\ message[m].anonymous /\ s = Share(m)
  BY DEF Witnessed
<1>2. PICK k \in Messages : Used(k) /\ message[k].anonymous /\ t = Share(k)
  BY DEF Witnessed
<1>3. /\ s.nullifier = <<message[m].by, message[m].epoch, message[m].index>>
      /\ t.nullifier = <<message[k].by, message[k].epoch, message[k].index>>
      /\ s.x = <<message[m].channel, message[m].index>>
      /\ t.x = <<message[k].channel, message[k].index>>
  BY <1>1, <1>2 DEF Share
<1>4. /\ message[m].by = message[k].by /\ message[m].epoch = message[k].epoch
      /\ message[m].index = message[k].index
  <2>1. <<message[m].by, message[m].epoch, message[m].index>>
        = <<message[k].by, message[k].epoch, message[k].index>>
    BY <1>3 DEF proves
  <2> QED BY <2>1
<1>5. message[m].channel # message[k].channel
  BY <1>3, <1>4 DEF proves
<1>6. s.nullifier[1] = message[m].by
  BY <1>3
<1> QED BY <1>1, <1>2, <1>4, <1>5, <1>6 DEF Reused

(* A point of a message that was sent has its type.                        *)
LEMMA PointOfMessage ==
  ASSUME TypeOK, Senders, NEW m \in Messages, Used(m)
  PROVE  /\ Share(m) \in Point
         /\ Share(m).nullifier \in Nodes \X Epochs \X Nat
         /\ Share(m).nullifier[1] = message[m].by /\ message[m].by \in Nodes
<1>1. message[m] \in Sending
  BY DEF TypeOK
<1>2. message[m].by \in Nodes /\ message[m].channel \in Channels
  BY DEF Senders
<1>3. message[m].epoch \in Epochs /\ message[m].index \in Nat
  BY <1>1 DEF Sending
<1> QED BY <1>2, <1>3 DEF Share, Point

(* What observe() does to the collector and to the verdicts is justified.  *)
LEMMA ObserveGood ==
  ASSUME TypeOK, Senders, Observed, Judgement, Accused,
         NEW n \in Nodes, NEW m \in Messages, Used(m), message[m].anonymous,
         observe(n, Share(m)), message' = message, retired' = retired,
         blacklisted' = blacklisted, events' = events
  PROVE  /\ shares' \in [Nodes -> SUBSET Point]
         /\ reported' \in [Nodes -> SUBSET (Nodes \X Epochs \X Nat)]
         /\ revoked' \in [Nodes -> SUBSET Nodes] /\ verdict' \in [Nodes -> SUBSET Verdict]
         /\ Observed' /\ Judgement' /\ Accused'
<1> DEFINE s == Share(m)
<1>1. /\ s \in Point /\ s.nullifier \in Nodes \X Epochs \X Nat /\ s.nullifier[1] \in Nodes
      /\ s.nullifier = <<message[m].by, message[m].epoch, message[m].index>>
  BY PointOfMessage DEF Share
<1>2. Witnessed(s)
  BY DEF Witnessed
<1>0. observe(n, s)
  OBVIOUS
<1>3. Kept
  BY DEF Kept, Used
<1>4. /\ \A c : Reused(c) => Reused(c)'
      /\ \A p : Witnessed(p) => Witnessed(p)'
  BY <1>3, Lasting
<1> HIDE DEF s
<1>t. /\ shares \in [Nodes -> SUBSET Point]
      /\ reported \in [Nodes -> SUBSET (Nodes \X Epochs \X Nat)]
      /\ revoked \in [Nodes -> SUBSET Nodes] /\ verdict \in [Nodes -> SUBSET Verdict]
  BY DEF TypeOK
<1>5. CASE shares' = shares /\ reported' = reported /\ revoked' = revoked /\ verdict' = verdict
  <2>1. Observed' /\ Judgement' /\ Accused'
    BY <1>4, <1>5 DEF Observed, Judgement, Accused, Guilty
  <2> QED BY <1>t, <1>5, <2>1
<1>6. CASE /\ shares' = [shares EXCEPT ![n] = @ \cup {s}]
           /\ reported' = reported /\ revoked' = revoked /\ verdict' = verdict
  <2>1. shares' \in [Nodes -> SUBSET Point]
    BY <1>6, <1>1, <1>t
  <2>2. Observed'
    BY <1>6, <1>2, <1>4, <1>t DEF Observed
  <2>3. Judgement' /\ Accused'
    BY <1>4, <1>6 DEF Judgement, Accused, Guilty
  <2> QED BY <1>t, <1>6, <2>1, <2>2, <2>3
<1>7. CASE /\ shares' = [shares EXCEPT ![n] = @ \cup {s}]
           /\ \E t \in shares[n] : proves(s, t)
           /\ reported' = [reported EXCEPT ![n] = @ \cup {s.nullifier}]
           /\ revoked' = [revoked EXCEPT ![n] = @ \cup {s.nullifier[1]}]
           /\ verdict' = [verdict EXCEPT ![n] = @ \cup
                {[about |-> s.nullifier[1], then |-> "gossip", stored |-> FALSE]}]
  <2> DEFINE c == s.nullifier[1]
             v == [about |-> c, then |-> "gossip", stored |-> FALSE]
  <2>1. c \in Nodes /\ v \in Verdict /\ v.then = "gossip" /\ v.about = c
    BY <1>1 DEF Verdict
  <2>2. Reused(c)
    <3>1. PICK t \in shares[n] : proves(s, t)
      BY <1>7
    <3>2. Witnessed(t)
      BY <3>1 DEF Observed
    <3> QED BY <3>1, <3>2, <1>2, TwoPoints
  <2>3. /\ revoked' = [revoked EXCEPT ![n] = @ \cup {c}]
        /\ verdict' = [verdict EXCEPT ![n] = @ \cup {v}]
    BY <1>7
  <2> HIDE DEF c, v
  <2>4. /\ shares' \in [Nodes -> SUBSET Point]
        /\ reported' \in [Nodes -> SUBSET (Nodes \X Epochs \X Nat)]
    BY <1>7, <1>1, <1>t
  <2>5. revoked' \in [Nodes -> SUBSET Nodes] /\ verdict' \in [Nodes -> SUBSET Verdict]
    BY <2>3, <2>1, <1>t
  <2>6. Observed'
    BY <1>7, <1>2, <1>4, <1>t DEF Observed
  <2>7. Judgement'
    <3> SUFFICES ASSUME NEW p \in Nodes, NEW w \in verdict'[p]
                 PROVE  /\ w.then = "tell" => w.about = p /\ p \in retired'
                        /\ w.then \in {"gossip", "end"} => Reused(w.about)'
      BY DEF Judgement
    <3>1. w \in verdict[p] \/ w = v
      BY <2>3, <1>t
    <3> QED BY <3>1, <2>1, <2>2, <1>4 DEF Judgement
  <2>8. Accused'
    <3> SUFFICES ASSUME NEW p \in Nodes, NEW d \in Nodes,
                        d \in revoked'[p] \cup blacklisted'[p] \cup events'[p]
                 PROVE  Guilty(p, d)'
      BY DEF Accused
    <3>1. d \in revoked[p] \cup blacklisted[p] \cup events[p] \/ d = c
      BY <2>3, <1>t
    <3> QED BY <3>1, <2>2, <1>4 DEF Accused, Guilty
  <2> QED BY <2>4, <2>5, <2>6, <2>7, <2>8
<1> QED BY <1>0, <1>5, <1>6, <1>7 DEF observe

(* The frames of the protocol differ by their type.                        *)
LEMMA FramesDiffer ==
  ASSUME NEW m, NEW k, NEW c, NEW d
  PROVE  /\ MessageFrame(m) # ShareFrame(k) /\ MessageFrame(m) # TombstoneFrame(c)
         /\ ShareFrame(m) # TombstoneFrame(c)
         /\ (MessageFrame(m) = MessageFrame(k) => m = k)
         /\ (ShareFrame(m) = ShareFrame(k) => m = k)
         /\ (TombstoneFrame(c) = TombstoneFrame(d) => c = d)
<1>1. /\ MessageFrame(m).type = "message" /\ MessageFrame(k).type = "message"
      /\ ShareFrame(k).type = "share" /\ ShareFrame(m).type = "share"
      /\ TombstoneFrame(c).type = "tombstone"
      /\ MessageFrame(m).of = m /\ MessageFrame(k).of = k /\ ShareFrame(m).of = m
      /\ ShareFrame(k).of = k /\ TombstoneFrame(c).of = c /\ TombstoneFrame(d).of = d
  BY DEF MessageFrame, ShareFrame, TombstoneFrame
<1> QED BY <1>1

LEMMA FramesTyped ==
  /\ \A m \in Messages : MessageFrame(m) \in Frames /\ ShareFrame(m) \in Frames
  /\ \A c \in Nodes : TombstoneFrame(c) \in Frames
BY DEF Frames, MessageFrame, ShareFrame, TombstoneFrame

(* What a broadcast leaves on the wires.                                   *)
LEMMA SentWhat ==
  ASSUME wire \in [Nodes -> SUBSET Frames], NEW peers, NEW frame \in Frames
  PROVE  /\ sent(peers, frame) \in [Nodes -> SUBSET Frames]
         /\ \A n \in Nodes : \A f : f \in sent(peers, frame)[n] => f \in wire[n] \/ f = frame
BY DEF sent
(* The same for the collectors and verdicts, when nothing happens to them. *)
LEMMA Untouched ==
  ASSUME Kept, Observed, Judgement, Accused, UNCHANGED <<slashing, retired>>
  PROVE  Observed' /\ Judgement' /\ Accused'
<1>1. /\ shares' = shares /\ revoked' = revoked /\ verdict' = verdict
      /\ blacklisted' = blacklisted /\ events' = events /\ retired' = retired
  BY DEF slashing
<1>2. /\ \A c : Reused(c) => Reused(c)'
      /\ \A s : Witnessed(s) => Witnessed(s)'
  BY Lasting
<1> QED BY <1>1, <1>2 DEF Observed, Judgement, Accused, Guilty

(* Frames that were under way, and none else, are still good ones.         *)
LEMMA FewerFrames ==
  ASSUME Kept, InFlight, Told,
         \A n \in Nodes : wire'[n] \subseteq wire[n] /\ checking'[n] \subseteq checking[n]
  PROVE  InFlight' /\ Told'
<1>1. \A c : Reused(c) => Reused(c)'
  BY Lasting
<1>2. \A n \in Nodes : \A f : f \in wire'[n] => f \in wire[n]
  OBVIOUS
<1>3. \A n \in Nodes : \A m : m \in checking'[n] => m \in checking[n]
  OBVIOUS
<1>4. InFlight'
  BY <1>2, <1>3 DEF InFlight, Kept, MessageFrame, ShareFrame
<1>5. Told'
  BY <1>1, <1>2 DEF Told, TombstoneFrame
<1> QED BY <1>4, <1>5

LEMMA SameMessages == ASSUME message' = message PROVE Kept /\ (Senders => Senders')
BY DEF Kept, Senders, Used

LEMMA AtFirst == Init => IInv
<1> SUFFICES ASSUME Init PROVE IInv
  OBVIOUS
<1> USE DEF Init
<1>1. message \in [Messages -> Sending]
  <2>1. 0 \in Epochs
    BY SlashingAssumption DEF Epochs, SlashingAssumption
  <2>2. Unsent \in Sending
    BY <2>1 DEF Sending, Unsent
  <2> HIDE DEF Init
  <2>3. message = [m \in Messages |-> Unsent]
    BY DEF Init
  <2> QED BY <2>2, <2>3
<1>2. \A m \in Messages : ~Used(m)
  BY DEF Used, Unsent
<1>3. TypeOK
  BY <1>1, SlashingAssumption DEF TypeOK, Epochs, SlashingAssumption
<1> QED BY <1>2, <1>3 DEF IInv, Senders, InFlight, Told, Observed, Judgement, Accused

(* Sending.                                                                *)
LEMMA SendMessageKeeps ==
  ASSUME IInv, NEW n \in Nodes, NEW m \in Messages, NEW c \in Channels,
         NEW anonymous \in BOOLEAN, SendMessage(n, m, c, anonymous)
  PROVE  IInv'
<1> DEFINE new == [at |-> "signing", by |-> n, channel |-> c, anonymous |-> anonymous,
                   epoch |-> epoch, index |-> getMessageCount(n, c)]
<1>0. TypeOK /\ Senders /\ InFlight /\ Told /\ Observed /\ Judgement /\ Accused
  BY DEF IInv
<1>1. message[m].at = "unused" /\ message' = [message EXCEPT ![m] = new]
  BY DEF SendMessage
<1>2. /\ wire' = wire /\ checking' = checking /\ doc' = doc /\ moves' = moves
      /\ epoch' = epoch /\ refused' = refused /\ retired' = retired
      /\ UNCHANGED <<slashing, retired>>
  BY DEF SendMessage
<1>3. getMessageCount(n, c) \in Nat
  <2>1. IsFiniteSet(Messages)
    BY FS_Interval, SlashingAssumption DEF Messages, SlashingAssumption
  <2>2. doc[n] \subseteq Messages
    BY <1>0 DEF TypeOK
  <2>3. IsFiniteSet({k \in doc[n] : message[k].channel = c})
    BY <2>1, <2>2, FS_Subset
  <2> QED BY <2>3, FS_CardinalityType DEF getMessageCount
<1>4. /\ new \in Sending /\ new.at # "unused" /\ new.by \in Nodes /\ new.channel \in Channels
  BY <1>0, <1>3 DEF Sending, TypeOK
<1> HIDE DEF new
<1>5. message \in [Messages -> Sending]
  BY <1>0 DEF TypeOK
<1>6. Kept
  BY <1>1, <1>5 DEF Kept, Used
<1>7. message' \in [Messages -> Sending] /\ Senders'
  BY <1>0, <1>1, <1>4, <1>5 DEF Senders, Used
<1>8. TypeOK'
  BY <1>0, <1>2, <1>7 DEF TypeOK, slashing
<1>9. InFlight' /\ Told'
  BY <1>0, <1>2, <1>6, FewerFrames
<1>10. Observed' /\ Judgement' /\ Accused'
  BY <1>0, <1>2, <1>6, Untouched
<1> QED BY <1>7, <1>8, <1>9, <1>10 DEF IInv

(* A message, a point or a tombstone is sent on.                           *)
LEMMA BroadcastKeeps ==
  ASSUME Kept, wire \in [Nodes -> SUBSET Frames], InFlight, Told, checking' = checking,
         NEW peers, NEW frame \in Frames, wire' = sent(peers, frame),
         \/ \E m \in Messages : frame = MessageFrame(m) /\ Used(m)
         \/ \E m \in Messages : frame = ShareFrame(m) /\ Used(m) /\ message[m].anonymous
         \/ \E c \in Nodes : frame = TombstoneFrame(c) /\ Reused(c)
  PROVE  wire' \in [Nodes -> SUBSET Frames] /\ InFlight' /\ Told'
<1>1. /\ wire' \in [Nodes -> SUBSET Frames]
      /\ \A n \in Nodes : \A f : f \in wire'[n] => f \in wire[n] \/ f = frame
  BY SentWhat
<1>2. \A c : Reused(c) => Reused(c)'
  BY Lasting
<1>3. InFlight'
  <2> SUFFICES ASSUME NEW n \in Nodes, NEW m \in Messages
               PROVE  /\ MessageFrame(m) \in wire'[n] => Used(m)'
                      /\ ShareFrame(m) \in wire'[n] => Used(m)' /\ message'[m].anonymous
                      /\ m \in checking'[n] => Used(m)' /\ message'[m].anonymous
    BY DEF InFlight, MessageFrame, ShareFrame
  <2>1. MessageFrame(m) \in wire'[n] => Used(m)
    BY <1>1, FramesDiffer DEF InFlight
  <2>2. ShareFrame(m) \in wire'[n] => Used(m) /\ message[m].anonymous
    BY <1>1, FramesDiffer DEF InFlight
  <2>3. m \in checking'[n] => Used(m) /\ message[m].anonymous
    BY DEF InFlight
  <2> QED BY <2>1, <2>2, <2>3 DEF Kept
<1>4. Told'
  <2> SUFFICES ASSUME NEW n \in Nodes, NEW c \in Nodes, TombstoneFrame(c) \in wire'[n]
               PROVE  Reused(c)'
    BY DEF Told, TombstoneFrame
  <2>1. Reused(c)
    BY <1>1, FramesDiffer DEF Told
  <2> QED BY <2>1, <1>2
<1> QED BY <1>1, <1>3, <1>4

LEMMA PublishKeeps ==
  ASSUME IInv, NEW m \in Messages, Publish(m)
  PROVE  IInv'
<1>0. TypeOK /\ Senders /\ InFlight /\ Told /\ Observed /\ Judgement /\ Accused
  BY DEF IInv
<1>1. /\ message[m].at = "signing" /\ message' = [message EXCEPT ![m].at = "sent"]
      /\ doc' = [doc EXCEPT ![message[m].by] = @ \cup {m}]
      /\ wire' = sent(Links[message[m].by], MessageFrame(m))
  BY DEF Publish
<1>2. /\ checking' = checking /\ moves' = moves /\ epoch' = epoch /\ refused' = refused
      /\ retired' = retired /\ UNCHANGED <<slashing, retired>>
  BY DEF Publish
<1>3. message \in [Messages -> Sending] /\ Used(m)
  BY <1>0, <1>1 DEF TypeOK, Used
<1>4. Kept /\ message' \in [Messages -> Sending] /\ Senders'
  BY <1>0, <1>1, <1>3 DEF Kept, Used, Senders, Sending
<1>5. wire' \in [Nodes -> SUBSET Frames] /\ InFlight' /\ Told'
  <2>1. MessageFrame(m) \in Frames /\ wire \in [Nodes -> SUBSET Frames]
    BY <1>0, FramesTyped DEF TypeOK
  <2> QED BY <1>0, <1>1, <1>2, <1>3, <1>4, <2>1, BroadcastKeeps
<1>6. doc' \in [Nodes -> SUBSET Messages]
  BY <1>0, <1>1 DEF TypeOK
<1>7. TypeOK'
  BY <1>0, <1>2, <1>4, <1>5, <1>6 DEF TypeOK, slashing
<1>8. Observed' /\ Judgement' /\ Accused'
  BY <1>0, <1>2, <1>4, Untouched
<1> QED BY <1>4, <1>5, <1>7, <1>8 DEF IInv

LEMMA BroadcastShareKeeps ==
  ASSUME IInv, NEW n \in Nodes, NEW m \in Messages, BroadcastShare(n, m)
  PROVE  IInv'
<1>0. TypeOK /\ Senders /\ InFlight /\ Told /\ Observed /\ Judgement /\ Accused
  BY DEF IInv
<1>1. /\ Used(m) /\ message[m].anonymous /\ wire' = sent(Links[n], ShareFrame(m))
      /\ message' = message /\ doc' = doc /\ checking' = checking /\ refused' = refused
      /\ epoch' = epoch /\ moves' = moves /\ UNCHANGED <<slashing, retired>>
  BY DEF BroadcastShare, chat, Used
<1>2. Kept /\ Senders'
  BY <1>0, <1>1, SameMessages
<1>3. wire' \in [Nodes -> SUBSET Frames] /\ InFlight' /\ Told'
  <2>1. ShareFrame(m) \in Frames /\ wire \in [Nodes -> SUBSET Frames]
    BY <1>0, FramesTyped DEF TypeOK
  <2> QED BY <1>0, <1>1, <1>2, <2>1, BroadcastKeeps
<1>4. TypeOK'
  BY <1>0, <1>1, <1>3 DEF TypeOK, slashing
<1>5. Observed' /\ Judgement' /\ Accused'
  BY <1>0, <1>1, <1>2, Untouched
<1> QED BY <1>2, <1>3, <1>4, <1>5 DEF IInv
(* Receiving.  All three handlers that observe a point end like this.      *)
LEMMA ObservingKeeps ==
  ASSUME IInv, NEW n \in Nodes, NEW m \in Messages, Used(m), message[m].anonymous,
         observe(n, Share(m)),
         message' = message, retired' = retired, blacklisted' = blacklisted, events' = events,
         epoch' = epoch, moves' = moves, refused' = refused,
         doc' \in [Nodes -> SUBSET Messages], checking' \in [Nodes -> SUBSET Messages],
         wire' \in [Nodes -> SUBSET Frames],
         \A p \in Nodes : wire'[p] \subseteq wire[p] /\ checking'[p] \subseteq checking[p]
  PROVE  IInv'
<1>0. TypeOK /\ Senders /\ InFlight /\ Told /\ Observed /\ Judgement /\ Accused
  BY DEF IInv
<1>1. Kept /\ Senders'
  BY <1>0, SameMessages
<1>2. /\ shares' \in [Nodes -> SUBSET Point]
      /\ reported' \in [Nodes -> SUBSET (Nodes \X Epochs \X Nat)]
      /\ revoked' \in [Nodes -> SUBSET Nodes] /\ verdict' \in [Nodes -> SUBSET Verdict]
      /\ Observed' /\ Judgement' /\ Accused'
  BY <1>0, ObserveGood
<1>3. InFlight' /\ Told'
  BY <1>0, <1>1, FewerFrames
<1>4. TypeOK'
  BY <1>0, <1>2 DEF TypeOK
<1> QED BY <1>1, <1>2, <1>3, <1>4 DEF IInv

(* Steps that only take frames away, or move messages about.               *)
LEMMA ShufflingKeeps ==
  ASSUME IInv, message' = message, epoch' = epoch, moves' \in 0 .. MaxMoves,
         refused' \subseteq Messages, UNCHANGED <<slashing, retired>>,
         doc' \in [Nodes -> SUBSET Messages], checking' \in [Nodes -> SUBSET Messages],
         wire' \in [Nodes -> SUBSET Frames],
         \A p \in Nodes :
           wire'[p] \subseteq wire[p] /\
           \A m \in checking'[p] : m \in checking[p] \/ (Used(m) /\ message[m].anonymous)
  PROVE  IInv'
<1>0. TypeOK /\ Senders /\ InFlight /\ Told /\ Observed /\ Judgement /\ Accused
  BY DEF IInv
<1>1. Kept /\ Senders'
  BY <1>0, SameMessages
<1>2. Observed' /\ Judgement' /\ Accused'
  BY <1>0, <1>1, Untouched
<1>3. \A c : Reused(c) => Reused(c)'
  BY <1>1, Lasting
<1>4. \A p \in Nodes : \A f : f \in wire'[p] => f \in wire[p]
  OBVIOUS
<1>5. Told'
  BY <1>0, <1>3, <1>4 DEF Told, TombstoneFrame
<1>6. InFlight'
  <2> SUFFICES ASSUME NEW n \in Nodes, NEW m \in Messages
               PROVE  /\ MessageFrame(m) \in wire'[n] => Used(m)'
                      /\ ShareFrame(m) \in wire'[n] => Used(m)' /\ message'[m].anonymous
                      /\ m \in checking'[n] => Used(m)' /\ message'[m].anonymous
    BY DEF InFlight, MessageFrame, ShareFrame
  <2>1. MessageFrame(m) \in wire'[n] => Used(m)
    BY <1>0, <1>4 DEF InFlight
  <2>2. ShareFrame(m) \in wire'[n] => Used(m) /\ message[m].anonymous
    BY <1>0, <1>4 DEF InFlight
  <2>3. m \in checking'[n] => Used(m) /\ message[m].anonymous
    BY <1>0 DEF InFlight
  <2> QED BY <2>1, <2>2, <2>3 DEF Used
<1>7. TypeOK'
  BY <1>0 DEF TypeOK, slashing
<1> QED BY <1>1, <1>2, <1>5, <1>6, <1>7 DEF IInv

LEMMA HearMessageKeeps ==
  ASSUME IInv, NEW n \in Nodes, NEW m \in Messages, HearMessage(n, m)
  PROVE  IInv'
<1>0. TypeOK /\ InFlight
  BY DEF IInv
<1>1. /\ Used(m) /\ wire' = [wire EXCEPT ![n] = @ \ {MessageFrame(m)}]
      /\ message' = message /\ epoch' = epoch /\ moves' = moves /\ retired' = retired
      /\ blacklisted' = blacklisted /\ events' = events
  BY <1>0 DEF HearMessage, InFlight
<1>2. /\ wire' \in [Nodes -> SUBSET Frames] /\ \A p \in Nodes : wire'[p] \subseteq wire[p]
  <2>1. wire \in [Nodes -> SUBSET Frames]
    BY <1>0 DEF TypeOK
  <2> QED BY <1>1, <2>1
<1>t. /\ doc \in [Nodes -> SUBSET Messages] /\ checking \in [Nodes -> SUBSET Messages]
      /\ refused \subseteq Messages /\ moves \in 0 .. MaxMoves
  BY <1>0 DEF TypeOK
<1>3. CASE message[m].anonymous /\ admit(n, m) /\ checking' = checking
  <2>1. /\ observe(n, Share(m)) /\ doc' = [doc EXCEPT ![n] = @ \cup {m}]
        /\ refused' = refused
    BY <1>3 DEF admit
  <2>2. doc' \in [Nodes -> SUBSET Messages]
    BY <1>t, <2>1
  <2> QED BY <1>1, <1>2, <1>3, <1>t, <2>1, <2>2, ObservingKeeps
<1>4. CASE /\ doc' = [doc EXCEPT ![n] = @ \cup {m}]
           /\ UNCHANGED <<checking, refused, shares, reported, revoked, verdict>>
  <2>1. doc' \in [Nodes -> SUBSET Messages]
    BY <1>t, <1>4
  <2> QED BY <1>1, <1>2, <1>4, <1>t, <2>1, ShufflingKeeps DEF slashing
<1>5. CASE /\ refused' = refused \cup {m}
           /\ UNCHANGED <<doc, checking, shares, reported, revoked, verdict>>
  BY <1>1, <1>2, <1>5, <1>t, ShufflingKeeps DEF slashing
<1>6. CASE /\ message[m].anonymous /\ checking' = [checking EXCEPT ![n] = @ \cup {m}]
           /\ UNCHANGED <<doc, refused, shares, reported, revoked, verdict>>
  <2>1. /\ checking' \in [Nodes -> SUBSET Messages]
        /\ \A p \in Nodes : \A k \in checking'[p] :
             k \in checking[p] \/ (Used(k) /\ message[k].anonymous)
    BY <1>1, <1>6, <1>t
  <2> QED BY <1>1, <1>2, <1>6, <1>t, <2>1, ShufflingKeeps DEF slashing
<1> QED BY <1>3, <1>4, <1>5, <1>6 DEF HearMessage

LEMMA ProofCheckedKeeps ==
  ASSUME IInv, NEW n \in Nodes, NEW m \in Messages, NEW ok \in BOOLEAN, ProofChecked(n, m, ok)
  PROVE  IInv'
<1>0. TypeOK /\ InFlight
  BY DEF IInv
<1>1. /\ Used(m) /\ message[m].anonymous /\ checking' = [checking EXCEPT ![n] = @ \ {m}]
      /\ message' = message /\ epoch' = epoch /\ moves' = moves /\ retired' = retired
      /\ blacklisted' = blacklisted /\ events' = events /\ wire' = wire
  BY <1>0 DEF ProofChecked, InFlight
<1>t. /\ doc \in [Nodes -> SUBSET Messages] /\ checking \in [Nodes -> SUBSET Messages]
      /\ refused \subseteq Messages /\ moves \in 0 .. MaxMoves
      /\ wire \in [Nodes -> SUBSET Frames]
  BY <1>0 DEF TypeOK
<1>2. /\ checking' \in [Nodes -> SUBSET Messages]
      /\ \A p \in Nodes : wire'[p] \subseteq wire[p] /\ checking'[p] \subseteq checking[p]
  BY <1>1, <1>t
<1>3. CASE admit(n, m)
  <2>1. /\ observe(n, Share(m)) /\ doc' = [doc EXCEPT ![n] = @ \cup {m}]
        /\ refused' = refused
    BY <1>3 DEF admit
  <2>2. doc' \in [Nodes -> SUBSET Messages]
    BY <1>t, <2>1
  <2> QED BY <1>1, <1>2, <1>t, <2>1, <2>2, ObservingKeeps
<1>4. CASE refused' = refused \cup {m} /\ UNCHANGED <<doc, shares, reported, revoked, verdict>>
  BY <1>1, <1>2, <1>4, <1>t, ShufflingKeeps DEF slashing
<1> QED BY <1>3, <1>4 DEF ProofChecked

LEMMA HearShareKeeps ==
  ASSUME IInv, NEW n \in Nodes, NEW m \in Messages, HearShare(n, m)
  PROVE  IInv'
<1>0. TypeOK /\ InFlight
  BY DEF IInv
<1>1. /\ Used(m) /\ message[m].anonymous /\ wire' = [wire EXCEPT ![n] = @ \ {ShareFrame(m)}]
      /\ observe(n, Share(m)) /\ message' = message /\ doc' = doc /\ checking' = checking
      /\ refused' = refused /\ epoch' = epoch /\ moves' = moves /\ retired' = retired
      /\ blacklisted' = blacklisted /\ events' = events
  BY <1>0 DEF HearShare, InFlight, chat
<1>t. /\ doc \in [Nodes -> SUBSET Messages] /\ checking \in [Nodes -> SUBSET Messages]
      /\ wire \in [Nodes -> SUBSET Frames]
  BY <1>0 DEF TypeOK
<1>2. /\ wire' \in [Nodes -> SUBSET Frames] /\ \A p \in Nodes : wire'[p] \subseteq wire[p]
  BY <1>1, <1>t
<1> QED BY <1>1, <1>2, <1>t, ObservingKeeps
LEMMA HearTombstoneKeeps ==
  ASSUME IInv, NEW n \in Nodes, NEW c \in Nodes, HearTombstone(n, c)
  PROVE  IInv'
<1> DEFINE v == [about |-> c, then |-> "end", stored |-> FALSE]
<1>0. TypeOK /\ Senders /\ InFlight /\ Told /\ Observed /\ Judgement /\ Accused
  BY DEF IInv
<1>1. /\ Reused(c) /\ wire' = [wire EXCEPT ![n] = @ \ {TombstoneFrame(c)}]
      /\ message' = message /\ doc' = doc /\ checking' = checking /\ refused' = refused
      /\ epoch' = epoch /\ moves' = moves /\ retired' = retired
      /\ shares' = shares /\ reported' = reported
      /\ blacklisted' = blacklisted /\ events' = events
  BY <1>0 DEF HearTombstone, Told, chat
<1>t. /\ doc \in [Nodes -> SUBSET Messages] /\ checking \in [Nodes -> SUBSET Messages]
      /\ wire \in [Nodes -> SUBSET Frames] /\ moves \in 0 .. MaxMoves
      /\ refused \subseteq Messages
      /\ revoked \in [Nodes -> SUBSET Nodes] /\ verdict \in [Nodes -> SUBSET Verdict]
  BY <1>0 DEF TypeOK
<1>2. /\ wire' \in [Nodes -> SUBSET Frames] /\ \A p \in Nodes : wire'[p] \subseteq wire[p]
  BY <1>1, <1>t
<1>3. CASE UNCHANGED <<revoked, verdict>>
  BY <1>1, <1>2, <1>3, <1>t, ShufflingKeeps DEF slashing
<1>4. CASE revoked' = [revoked EXCEPT ![n] = @ \cup {c}] /\ verdict' = received(n, c)
  <2>1. v \in Verdict /\ v.then = "end" /\ v.about = c /\ verdict' = [verdict EXCEPT ![n] = @ \cup {v}]
    BY <1>4 DEF Verdict, received
  <2> HIDE DEF v
  <2>2. verdict' \in [Nodes -> SUBSET Verdict] /\ revoked' \in [Nodes -> SUBSET Nodes]
    BY <2>1, <1>4, <1>t
  <2>3. TypeOK'
    BY <1>0, <1>1, <1>2, <2>2 DEF TypeOK
  <2>4. Kept /\ Senders'
    BY <1>0, <1>1, SameMessages
  <2>5. InFlight' /\ Told'
    BY <1>0, <1>1, <1>2, <2>4, FewerFrames
  <2>6. /\ \A d : Reused(d) => Reused(d)'
        /\ \A s : Witnessed(s) => Witnessed(s)'
    BY <2>4, Lasting
  <2>7. Observed'
    BY <1>0, <1>1, <2>6 DEF Observed
  <2>8. Judgement'
    <3> SUFFICES ASSUME NEW p \in Nodes, NEW w \in verdict'[p]
                 PROVE  /\ w.then = "tell" => w.about = p /\ p \in retired'
                        /\ w.then \in {"gossip", "end"} => Reused(w.about)'
      BY DEF Judgement
    <3>1. w \in verdict[p] \/ w = v
      BY <2>1, <1>t
    <3> QED BY <3>1, <2>1, <2>6, <1>0, <1>1 DEF Judgement
  <2>9. Accused'
    <3> SUFFICES ASSUME NEW p \in Nodes, NEW d \in Nodes,
                        d \in revoked'[p] \cup blacklisted'[p] \cup events'[p]
                 PROVE  Guilty(p, d)'
      BY DEF Accused
    <3>1. d \in revoked[p] \cup blacklisted[p] \cup events[p] \/ d = c
      BY <1>1, <1>4, <1>t
    <3> QED BY <3>1, <2>6, <1>0, <1>1 DEF Accused, Guilty
  <2> QED BY <2>3, <2>4, <2>5, <2>7, <2>8, <2>9 DEF IInv
<1> QED BY <1>3, <1>4 DEF HearTombstone

(* A verdict names a node; one not stored has not been refused.            *)
LEMMA WellJudged ==
  ASSUME NEW v \in Verdict
  PROVE  v.about \in Nodes /\ (~v.stored => v.then \in {"gossip", "tell", "end"})
<1>1. CASE v \in [about : Nodes, then : {"gossip", "tell", "end"}, stored : BOOLEAN]
  BY <1>1
<1>2. CASE v \in [about : Nodes, then : {"refused"}, stored : {TRUE}]
  BY <1>2
<1> QED BY <1>1, <1>2 DEF Verdict

(* Verdicts.                                                               *)
LEMMA BlacklistedKeeps ==
  ASSUME IInv, NEW n \in Nodes, NEW v \in verdict[n], Blacklisted(n, v)
  PROVE  IInv'
<1> DEFINE w == [about |-> v.about, then |-> "gossip", stored |-> TRUE]
<1>0. TypeOK /\ Senders /\ InFlight /\ Told /\ Observed /\ Judgement /\ Accused
  BY DEF IInv
<1>t. /\ verdict \in [Nodes -> SUBSET Verdict] /\ blacklisted \in [Nodes -> SUBSET Nodes]
      /\ events \in [Nodes -> SUBSET Nodes]
  BY <1>0 DEF TypeOK
<1>1. /\ blacklisted' = [blacklisted EXCEPT ![n] = @ \cup {v.about}]
      /\ message' = message /\ doc' = doc /\ checking' = checking /\ refused' = refused
      /\ epoch' = epoch /\ moves' = moves /\ retired' = retired /\ wire' = wire
      /\ shares' = shares /\ reported' = reported /\ revoked' = revoked
  BY DEF Blacklisted, chat
<1>2. /\ v \in Verdict /\ v.about \in Nodes /\ v.then \in {"gossip", "tell", "end"}
      /\ w \in Verdict /\ w.about = v.about /\ w.then = "gossip"
  <2>1. v \in Verdict /\ ~v.stored
    BY <1>t DEF Blacklisted
  <2>2. v.about \in Nodes /\ v.then \in {"gossip", "tell", "end"}
    BY <2>1, WellJudged
  <2> QED BY <2>1, <2>2 DEF Verdict
<1>3. verdict' = [verdict EXCEPT ![n] =
        IF v.then # "gossip" THEN @ \ {v} ELSE (@ \ {v}) \cup {w}]
  BY DEF Blacklisted
<1>3a. events' = IF v.then = "tell" THEN [events EXCEPT ![n] = @ \cup {v.about}] ELSE events
  BY DEF Blacklisted
<1> HIDE DEF w
<1>4. /\ verdict' \in [Nodes -> SUBSET Verdict] /\ blacklisted' \in [Nodes -> SUBSET Nodes]
      /\ events' \in [Nodes -> SUBSET Nodes]
  BY <1>1, <1>2, <1>3, <1>3a, <1>t
<1>5. TypeOK'
  BY <1>0, <1>1, <1>4 DEF TypeOK
<1>6. Kept /\ Senders'
  BY <1>0, <1>1, SameMessages
<1>7. InFlight' /\ Told'
  BY <1>0, <1>1, <1>6, FewerFrames
<1>8. /\ \A d : Reused(d) => Reused(d)'
      /\ \A s : Witnessed(s) => Witnessed(s)'
  BY <1>6, Lasting
<1>9. Observed'
  BY <1>0, <1>1, <1>8 DEF Observed
<1>10. Judgement'
  <2> SUFFICES ASSUME NEW p \in Nodes, NEW u \in verdict'[p]
               PROVE  /\ u.then = "tell" => u.about = p /\ p \in retired'
                      /\ u.then \in {"gossip", "end"} => Reused(u.about)'
    BY DEF Judgement
  <2>1. u \in verdict[p] \/ (u = w /\ p = n /\ v.then = "gossip")
    BY <1>3, <1>t
  <2>2. CASE u \in verdict[p]
    BY <2>2, <1>0, <1>1, <1>8 DEF Judgement
  <2>3. CASE u = w /\ p = n /\ v.then = "gossip"
    BY <2>3, <1>0, <1>1, <1>2, <1>8 DEF Judgement
  <2> QED BY <2>1, <2>2, <2>3
<1>11. Accused'
  <2> SUFFICES ASSUME NEW p \in Nodes, NEW d \in Nodes,
                      d \in revoked'[p] \cup blacklisted'[p] \cup events'[p]
               PROVE  Guilty(p, d)'
    BY DEF Accused
  <2>1. d \in revoked[p] \cup blacklisted[p] \cup events[p] \/ (p = n /\ d = v.about)
    BY <1>1, <1>3a, <1>t
  <2>2. Guilty(n, v.about)
    BY <1>0, <1>2 DEF Judgement, Guilty
  <2>3. Guilty(p, d)
    BY <2>1, <2>2, <1>0 DEF Accused
  <2> QED BY <2>3, <1>1, <1>8 DEF Guilty
<1> QED BY <1>5, <1>6, <1>7, <1>9, <1>10, <1>11 DEF IInv

LEMMA RejectedKeeps ==
  ASSUME IInv, NEW n \in Nodes, NEW v \in verdict[n], Rejected(n, v)
  PROVE  IInv'
<1> DEFINE w == Refusal(v.about)
<1>0. TypeOK /\ Senders /\ InFlight /\ Told /\ Observed /\ Judgement /\ Accused
  BY DEF IInv
<1>t. verdict \in [Nodes -> SUBSET Verdict] /\ moves \in 0 .. MaxMoves
  BY <1>0 DEF TypeOK
<1>1. /\ message' = message /\ doc' = doc /\ checking' = checking /\ refused' = refused
      /\ epoch' = epoch /\ retired' = retired /\ wire' = wire
      /\ shares' = shares /\ reported' = reported /\ revoked' = revoked
      /\ blacklisted' = blacklisted /\ events' = events
      /\ moves < MaxMoves /\ moves' = moves + 1
  BY DEF Rejected, Move, chat
<1>2. w \in Verdict /\ w.then = "refused"
  BY <1>t DEF Verdict, Refusal
<1>3. verdict' = [verdict EXCEPT ![n] = (@ \ {v}) \cup {w}]
  BY DEF Rejected
<1> HIDE DEF w
<1>4. verdict' \in [Nodes -> SUBSET Verdict] /\ moves' \in 0 .. MaxMoves
  BY <1>1, <1>2, <1>3, <1>t, SlashingAssumption DEF SlashingAssumption
<1>5. TypeOK'
  BY <1>0, <1>1, <1>4 DEF TypeOK
<1>6. Kept /\ Senders'
  BY <1>0, <1>1, SameMessages
<1>7. InFlight' /\ Told'
  BY <1>0, <1>1, <1>6, FewerFrames
<1>8. /\ \A d : Reused(d) => Reused(d)'
      /\ \A s : Witnessed(s) => Witnessed(s)'
  BY <1>6, Lasting
<1>9. Observed' /\ Accused'
  BY <1>0, <1>1, <1>8 DEF Observed, Accused, Guilty
<1>10. Judgement'
  <2> SUFFICES ASSUME NEW p \in Nodes, NEW u \in verdict'[p]
               PROVE  /\ u.then = "tell" => u.about = p /\ p \in retired'
                      /\ u.then \in {"gossip", "end"} => Reused(u.about)'
    BY DEF Judgement
  <2>1. u \in verdict[p] \/ u.then = "refused"
    BY <1>2, <1>3, <1>t
  <2> QED BY <2>1, <1>0, <1>1, <1>8 DEF Judgement
<1> QED BY <1>5, <1>6, <1>7, <1>9, <1>10 DEF IInv

LEMMA GossipKeeps ==
  ASSUME IInv, NEW n \in Nodes, NEW v \in verdict[n], NEW failing, Gossip(n, v, failing)
  PROVE  IInv'
<1>0. TypeOK /\ Senders /\ InFlight /\ Told /\ Observed /\ Judgement /\ Accused
  BY DEF IInv
<1>t. /\ verdict \in [Nodes -> SUBSET Verdict] /\ events \in [Nodes -> SUBSET Nodes]
      /\ wire \in [Nodes -> SUBSET Frames] /\ moves \in 0 .. MaxMoves
  BY <1>0 DEF TypeOK
<1>1. /\ verdict' = [verdict EXCEPT ![n] = @ \ {v}]
      /\ wire' = sent(Links[n] \ failing, TombstoneFrame(v.about))
      /\ message' = message /\ doc' = doc /\ checking' = checking /\ refused' = refused
      /\ epoch' = epoch /\ retired' = retired
      /\ shares' = shares /\ reported' = reported /\ revoked' = revoked
      /\ blacklisted' = blacklisted
  BY DEF Gossip, chat
<1>2. /\ events' = [events EXCEPT ![n] = @ \cup {v.about}] \/ events' = events
      /\ moves' = moves \/ (moves < MaxMoves /\ moves' = moves + 1)
  BY DEF Gossip, Move
<1>3. v.about \in Nodes /\ Reused(v.about) /\ Guilty(n, v.about)
  <2>1. v \in Verdict /\ v.then = "gossip"
    BY <1>t DEF Gossip
  <2>2. v.about \in Nodes
    BY <2>1, WellJudged
  <2> QED BY <2>1, <2>2, <1>0 DEF Judgement, Guilty
<1>4. Kept /\ Senders'
  BY <1>0, <1>1, SameMessages
<1>5. wire' \in [Nodes -> SUBSET Frames] /\ InFlight' /\ Told'
  <2>1. TombstoneFrame(v.about) \in Frames
    BY <1>3, FramesTyped
  <2> QED BY <1>0, <1>1, <1>3, <1>4, <1>t, <2>1, BroadcastKeeps
<1>6. /\ verdict' \in [Nodes -> SUBSET Verdict] /\ events' \in [Nodes -> SUBSET Nodes]
      /\ moves' \in 0 .. MaxMoves
  BY <1>1, <1>2, <1>3, <1>t, SlashingAssumption DEF SlashingAssumption
<1>7. TypeOK'
  BY <1>0, <1>1, <1>5, <1>6 DEF TypeOK
<1>8. /\ \A d : Reused(d) => Reused(d)'
      /\ \A s : Witnessed(s) => Witnessed(s)'
  BY <1>4, Lasting
<1>9. Observed' /\ Judgement'
  BY <1>0, <1>1, <1>8, <1>t DEF Observed, Judgement
<1>10. Accused'
  <2> SUFFICES ASSUME NEW p \in Nodes, NEW d \in Nodes,
                      d \in revoked'[p] \cup blacklisted'[p] \cup events'[p]
               PROVE  Guilty(p, d)'
    BY DEF Accused
  <2>1. d \in revoked[p] \cup blacklisted[p] \cup events[p] \/ (p = n /\ d = v.about)
    BY <1>1, <1>2, <1>t
  <2>2. Guilty(p, d)
    BY <2>1, <1>3, <1>0 DEF Accused
  <2> QED BY <2>2, <1>1, <1>8 DEF Guilty
<1> QED BY <1>4, <1>5, <1>7, <1>9, <1>10 DEF IInv

LEMMA RetireKeeps ==
  ASSUME IInv, NEW n \in Nodes, Retire(n)
  PROVE  IInv'
<1> DEFINE v == [about |-> n, then |-> "tell", stored |-> FALSE]
<1>0. TypeOK /\ Senders /\ InFlight /\ Told /\ Observed /\ Judgement /\ Accused
  BY DEF IInv
<1>t. /\ verdict \in [Nodes -> SUBSET Verdict] /\ revoked \in [Nodes -> SUBSET Nodes]
      /\ moves \in 0 .. MaxMoves /\ retired \subseteq Nodes
  BY <1>0 DEF TypeOK
<1>1. /\ verdict' = [verdict EXCEPT ![n] = @ \cup {v}]
      /\ revoked' = [revoked EXCEPT ![n] = @ \cup {n}] /\ retired' = retired \cup {n}
      /\ message' = message /\ doc' = doc /\ checking' = checking /\ refused' = refused
      /\ epoch' = epoch /\ wire' = wire /\ shares' = shares /\ reported' = reported
      /\ blacklisted' = blacklisted /\ events' = events
      /\ moves < MaxMoves /\ moves' = moves + 1
  BY DEF Retire, Move, chat
<1>2. v \in Verdict /\ v.then = "tell" /\ v.about = n
  BY DEF Verdict
<1> HIDE DEF v
<1>3. /\ verdict' \in [Nodes -> SUBSET Verdict] /\ revoked' \in [Nodes -> SUBSET Nodes]
      /\ retired' \subseteq Nodes /\ moves' \in 0 .. MaxMoves
  BY <1>1, <1>2, <1>t, SlashingAssumption DEF SlashingAssumption
<1>4. TypeOK'
  BY <1>0, <1>1, <1>3 DEF TypeOK
<1>5. Kept /\ Senders'
  BY <1>0, <1>1, SameMessages
<1>6. InFlight' /\ Told'
  BY <1>0, <1>1, <1>5, FewerFrames
<1>7. /\ \A d : Reused(d) => Reused(d)'
      /\ \A s : Witnessed(s) => Witnessed(s)'
  BY <1>5, Lasting
<1>8. Observed'
  BY <1>0, <1>1, <1>7 DEF Observed
<1>9. Judgement'
  <2> SUFFICES ASSUME NEW p \in Nodes, NEW u \in verdict'[p]
               PROVE  /\ u.then = "tell" => u.about = p /\ p \in retired'
                      /\ u.then \in {"gossip", "end"} => Reused(u.about)'
    BY DEF Judgement
  <2>1. u \in verdict[p] \/ (u = v /\ p = n)
    BY <1>1, <1>t
  <2> QED BY <2>1, <1>0, <1>1, <1>2, <1>7 DEF Judgement
<1>10. Accused'
  <2> SUFFICES ASSUME NEW p \in Nodes, NEW d \in Nodes,
                      d \in revoked'[p] \cup blacklisted'[p] \cup events'[p]
               PROVE  Guilty(p, d)'
    BY DEF Accused
  <2>1. d \in revoked[p] \cup blacklisted[p] \cup events[p] \/ (p = n /\ d = n)
    BY <1>1, <1>t
  <2> QED BY <2>1, <1>0, <1>1, <1>7 DEF Accused, Guilty
<1> QED BY <1>4, <1>5, <1>6, <1>8, <1>9, <1>10 DEF IInv

LEMMA CrashKeeps ==
  ASSUME IInv, NEW n \in Nodes, Crash(n)
  PROVE  IInv'
<1>0. TypeOK /\ Senders /\ InFlight /\ Told /\ Observed /\ Judgement /\ Accused
  BY DEF IInv
<1>1. PICK kept \in SUBSET doc[n] : doc' = [doc EXCEPT ![n] = kept]
  BY DEF Crash
<1>2. /\ wire' = [wire EXCEPT ![n] = {}] /\ checking' = [checking EXCEPT ![n] = {}]
      /\ shares' = [shares EXCEPT ![n] = {}] /\ reported' = [reported EXCEPT ![n] = {}]
      /\ revoked' = [revoked EXCEPT ![n] = {}] /\ verdict' = [verdict EXCEPT ![n] = {}]
      /\ epoch' = epoch /\ blacklisted' = blacklisted /\ events' = events
      /\ refused' = refused /\ retired' = retired
      /\ moves < MaxMoves /\ moves' = moves + 1
  BY DEF Crash, Move
<1>3. message' = [m \in Messages |->
        IF message[m].at = "signing" /\ message[m].by = n
        THEN [message[m] EXCEPT !.at = "lost"] ELSE message[m]]
  BY DEF Crash
<1>t. /\ message \in [Messages -> Sending] /\ moves \in 0 .. MaxMoves
      /\ doc \in [Nodes -> SUBSET Messages] /\ checking \in [Nodes -> SUBSET Messages]
      /\ wire \in [Nodes -> SUBSET Frames] /\ shares \in [Nodes -> SUBSET Point]
      /\ reported \in [Nodes -> SUBSET (Nodes \X Epochs \X Nat)]
      /\ revoked \in [Nodes -> SUBSET Nodes] /\ verdict \in [Nodes -> SUBSET Verdict]
  BY <1>0 DEF TypeOK
<1>4. \A m \in Messages :
        /\ message'[m] \in Sending
        /\ message'[m].at # "unused" <=> message[m].at # "unused"
        /\ message'[m].by = message[m].by /\ message'[m].channel = message[m].channel
        /\ message'[m].anonymous = message[m].anonymous
        /\ message'[m].epoch = message[m].epoch /\ message'[m].index = message[m].index
  <2> TAKE m \in Messages
  <2>1. message[m] \in Sending
    BY <1>t
  <2>2. CASE message[m].at = "signing" /\ message[m].by = n
    BY <1>3, <2>1, <2>2 DEF Sending
  <2>3. CASE ~(message[m].at = "signing" /\ message[m].by = n)
    BY <1>3, <2>1, <2>3
  <2> QED BY <2>2, <2>3
<1>5. Kept /\ Senders' /\ message' \in [Messages -> Sending]
  <2>1. Kept
    BY <1>4 DEF Kept, Used
  <2>2. Senders'
    BY <1>0, <1>4 DEF Senders, Used
  <2> QED BY <1>3, <1>4, <2>1, <2>2
<1>6. /\ doc' \in [Nodes -> SUBSET Messages] /\ checking' \in [Nodes -> SUBSET Messages]
      /\ wire' \in [Nodes -> SUBSET Frames] /\ shares' \in [Nodes -> SUBSET Point]
      /\ reported' \in [Nodes -> SUBSET (Nodes \X Epochs \X Nat)]
      /\ revoked' \in [Nodes -> SUBSET Nodes] /\ verdict' \in [Nodes -> SUBSET Verdict]
      /\ moves' \in 0 .. MaxMoves
  BY <1>1, <1>2, <1>t, SlashingAssumption DEF SlashingAssumption
<1>7. TypeOK'
  BY <1>0, <1>2, <1>5, <1>6 DEF TypeOK
<1>8. InFlight' /\ Told'
  <2>1. \A p \in Nodes : wire'[p] \subseteq wire[p] /\ checking'[p] \subseteq checking[p]
    BY <1>2, <1>t
  <2> QED BY <1>0, <1>5, <2>1, FewerFrames
<1>9. /\ \A d : Reused(d) => Reused(d)'
      /\ \A s : Witnessed(s) => Witnessed(s)'
  BY <1>5, Lasting
<1>10. \A p \in Nodes : /\ shares'[p] \subseteq shares[p] /\ verdict'[p] \subseteq verdict[p]
                        /\ revoked'[p] \subseteq revoked[p]
  BY <1>2, <1>t
<1>11. Observed' /\ Judgement'
  BY <1>0, <1>2, <1>9, <1>10 DEF Observed, Judgement
<1>12. Accused'
  BY <1>0, <1>2, <1>9, <1>10 DEF Accused, Guilty
<1> QED BY <1>5, <1>7, <1>8, <1>11, <1>12 DEF IInv

(* Merging documents, the clock, and frames that are lost.                 *)
LEMMA MergeKeeps ==
  ASSUME IInv, NEW n \in Nodes, NEW p \in Nodes, Merge(n, p)
  PROVE  IInv'
<1>0. TypeOK
  BY DEF IInv
<1>1. /\ doc' = [doc EXCEPT ![n] = @ \cup doc[p]]
      /\ message' = message /\ checking' = checking /\ refused' = refused /\ wire' = wire
      /\ epoch' = epoch /\ moves' = moves /\ UNCHANGED <<slashing, retired>>
  BY DEF Merge
<1>2. doc' \in [Nodes -> SUBSET Messages]
  BY <1>0, <1>1 DEF TypeOK
<1> QED BY <1>0, <1>1, <1>2, ShufflingKeeps DEF TypeOK

LEMMA LoseKeeps ==
  ASSUME IInv, NEW n \in Nodes, Lose(n)
  PROVE  IInv'
<1>0. TypeOK
  BY DEF IInv
<1>1. /\ wire' = [wire EXCEPT ![n] = {}] /\ moves < MaxMoves /\ moves' = moves + 1
      /\ message' = message /\ checking' = checking /\ refused' = refused /\ doc' = doc
      /\ epoch' = epoch /\ UNCHANGED <<slashing, retired>>
  BY DEF Lose, Move, chat
<1>2. /\ wire' \in [Nodes -> SUBSET Frames] /\ moves' \in 0 .. MaxMoves
      /\ \A p \in Nodes : wire'[p] \subseteq wire[p]
  BY <1>0, <1>1, SlashingAssumption DEF TypeOK, SlashingAssumption
<1> QED BY <1>0, <1>1, <1>2, ShufflingKeeps DEF TypeOK

LEMMA StillKeeps ==
  ASSUME IInv, Tick \/ UNCHANGED vars
  PROVE  IInv'
<1>0. TypeOK /\ Senders /\ InFlight /\ Told /\ Observed /\ Judgement /\ Accused
  BY DEF IInv
<1>1. /\ message' = message /\ checking' = checking /\ refused' = refused /\ doc' = doc
      /\ wire' = wire /\ moves' = moves /\ UNCHANGED <<slashing, retired>>
  BY DEF Tick, vars, chat
<1>2. epoch' \in Epochs
  BY <1>0, SlashingAssumption DEF Tick, vars, TypeOK, Epochs, SlashingAssumption
<1>3. Kept /\ Senders'
  BY <1>0, <1>1, SameMessages
<1>4. InFlight' /\ Told'
  BY <1>0, <1>1, <1>3, FewerFrames
<1>5. Observed' /\ Judgement' /\ Accused'
  BY <1>0, <1>1, <1>3, Untouched
<1>6. TypeOK'
  BY <1>0, <1>1, <1>2 DEF TypeOK, slashing
<1> QED BY <1>3, <1>4, <1>5, <1>6 DEF IInv

LEMMA EveryStep == IInv /\ [Next]_vars => IInv'
<1> SUFFICES ASSUME IInv, [Next]_vars PROVE IInv'
  OBVIOUS
<1>1. CASE Tick \/ UNCHANGED vars
  BY <1>1, StillKeeps
<1>2. CASE \E m \in Messages : Publish(m)
  BY <1>2, PublishKeeps
<1>3. ASSUME NEW n \in Nodes, NEW m \in Messages,
             \/ HearMessage(n, m) \/ HearShare(n, m)
             \/ \E ok \in BOOLEAN : ProofChecked(n, m, ok)
      PROVE  IInv'
  BY <1>3, HearMessageKeeps, HearShareKeeps, ProofCheckedKeeps
<1>4. CASE \E n, c \in Nodes : HearTombstone(n, c)
  BY <1>4, HearTombstoneKeeps
<1>5. CASE Store
  BY <1>5, BlacklistedKeeps, RejectedKeeps DEF Store
<1>6. CASE \E n \in Nodes, m \in Messages, c \in Channels, anonymous \in BOOLEAN :
             SendMessage(n, m, c, anonymous)
  BY <1>6, SendMessageKeeps
<1>7. CASE \E n \in Nodes, m \in Messages : BroadcastShare(n, m)
  BY <1>7, BroadcastShareKeeps
<1>8. ASSUME NEW n \in Nodes, NEW v \in verdict[n], NEW failing, Gossip(n, v, failing)
      PROVE  IInv'
  BY <1>8, GossipKeeps
<1>9. ASSUME NEW n \in Nodes, Retire(n) \/ Lose(n) \/ Crash(n) \/ \E p \in Nodes : Merge(n, p)
      PROVE  IInv'
  BY <1>9, RetireKeeps, LoseKeeps, CrashKeeps, MergeKeeps
<1> QED BY <1>1, <1>2, <1>3, <1>4, <1>5, <1>6, <1>7, <1>8, <1>9 DEF Next

(* The invariant holds in every state (slashing-coordinator.ts,            *)
(* share-collector.ts, the anonymous half of chat-service.ts).             *)
THEOREM Invariant == Spec => []IInv
<1>1. Init => IInv
  BY AtFirst
<1>2. IInv /\ [Next]_vars => IInv'
  BY EveryStep
<1> QED BY <1>1, <1>2, PTL DEF Spec

(* Types are kept, for any nodes, links, channels, quota and bounds.       *)
THEOREM TypeCorrect == Spec => []TypeOK
<1>1. IInv => TypeOK
  BY DEF IInv
<1> QED BY <1>1, Invariant, PTL

(* Nobody is slashed, blacklisted or reported who neither used an index    *)
(* twice in an epoch nor revoked itself.                                   *)
THEOREM OnlyReuseIsSlashed == Spec => []HonestNeverSlashed
<1>1. IInv => HonestNeverSlashed
  BY DEF IInv, Accused, Guilty, HonestNeverSlashed
<1> QED BY <1>1, Invariant, PTL
-----------------------------------------------------------------------------
(* Two replicas, and bounds that are numbers.                              *)
LEMMA TwoReplicas ==
  /\ \E n, m \in Replicas : n # m /\ Replicas = {n, m}
  /\ MaxChanges \in Nat /\ MaxConnects \in Nat /\ MaxSyncMoves \in Nat
BY ReplicasAssumption DEF D!DocSyncAssumption

LEMMA OneOther ==
  ASSUME NEW n \in Replicas
  PROVE  /\ D!Other(n) \in Replicas /\ D!Other(n) # n /\ D!Other(D!Other(n)) = n
         /\ \A m \in Replicas : m = n \/ m = D!Other(n)
<1>1. PICK x \in Replicas, y \in Replicas : x # y /\ Replicas = {x, y}
  BY TwoReplicas
<1>2. D!Other(n) \in Replicas /\ D!Other(n) # n
  BY <1>1 DEF D!Other
<1>3. D!Other(D!Other(n)) \in Replicas /\ D!Other(D!Other(n)) # D!Other(n)
  BY <1>1, <1>2 DEF D!Other
<1> QED BY <1>1, <1>2, <1>3
-----------------------------------------------------------------------------
(* What variables hold.                                                    *)
Have    == [lastSync : SUBSET D!Changes, bloom : SUBSET D!Changes]
Message == [heads : SUBSET D!Changes, need : SUBSET D!Changes, changes : SUBSET D!Changes,
            have : SUBSET Have]
State   == [shared : SUBSET D!Changes, lastSent : SUBSET D!Changes, theirHeads : SUBSET D!Changes,
            theirNeed : SUBSET D!Changes, theirHave : SUBSET Have, heard : BOOLEAN,
            sent : SUBSET D!Changes, inFlight : BOOLEAN, responded : BOOLEAN]
Frame   == [type : {"ROOT_SYNC"}, root : SUBSET D!Changes]
             \cup [type : {"ROOT_MATCH"}, matched : BOOLEAN]
             \cup [type : {"SEND_DELTA"}, message : Message]

SyncTypes ==
  /\ deps \in [D!Changes -> SUBSET D!Changes]
  /\ docs \in [Replicas -> SUBSET D!Changes]
  /\ queue \in [Replicas -> SUBSET D!Changes]
  /\ sync \in [Replicas -> State]
  /\ wires \in [Replicas -> Seq(Frame)]
  /\ late \in [Replicas -> Seq(Frame)]
  /\ up \in BOOLEAN /\ untold \in BOOLEAN

(* The frames for m that are under way or still to be sent, and the        *)
(* messages of Automerge among them.                                       *)
FramesTo(m) == Range(wires[m]) \cup Range(late[D!Other(m)])
MessagesOf(F) == {f.message : f \in {g \in F : g.type = "SEND_DELTA"}}
MessagesTo(m) == MessagesOf(FramesTo(m))

(* A change is above all it was made on, nothing is made on a change there *)
(* is not, and numbers are given in order.                                 *)
Made == {c \in D!Changes : c = D!Genesis \/ deps[c] # {}}
Ordered ==
  /\ deps[D!Genesis] = {}
  /\ \A c \in D!Changes, b \in D!Changes :
       /\ b \in deps[c] => b < c /\ b \in Made /\ deps[b] \subseteq deps[c]
       /\ b < c /\ c \in Made => b \in Made

(* A document has all that its changes were made on.                       *)
Whole(d) == d \subseteq Made /\ \A c \in d : deps[c] \subseteq d

(* What a message to m and a sync state of m say of either document.       *)
Sound(m, x) ==
  /\ x.heads \subseteq docs[D!Other(m)] /\ x.changes \subseteq docs[D!Other(m)]
  /\ \A h \in x.have : h.lastSync \subseteq docs[m]
Knows(n, s) ==
  /\ s.theirHeads \subseteq docs[D!Other(n)] /\ s.shared \subseteq docs[D!Other(n)]
  /\ \A h \in s.theirHave : h.lastSync \subseteq docs[n]
Grounded(n) ==
  /\ Whole(docs[n]) /\ queue[n] \subseteq docs[D!Other(n)]
  /\ Knows(n, sync[n]) /\ sync[n].lastSent \subseteq docs[n]
  /\ \A x \in MessagesTo(n) : Sound(n, x)

(* The heads that n told last: the other has them, is about to read them,  *)
(* has just read them, or is about to be answered.                         *)
ToldHeads(n) ==
  \/ sync[n].lastSent \subseteq docs[D!Other(n)]
  \/ \E x \in MessagesTo(D!Other(n)) : x.heads = sync[n].lastSent
  \/ sync[D!Other(n)].theirHeads = sync[n].lastSent /\ MessagesTo(D!Other(n)) = {}
  \/ MessagesTo(n) # {}

(* Two messages that wait for an answer do not both lack one.              *)
SomeoneAnswers == (\A n \in Replicas : sync[n].inFlight) => \E n \in Replicas : MessagesTo(n) # {}

(* n has nothing to say: it told its heads, and they are the other's or it *)
(* waits for an answer.                                                    *)
Silent(s, heads) == s.lastSent = heads /\ (s.theirHeads = heads \/ s.inFlight)
Calm(n) == docs[n] = {} \/ Silent(sync[n], D!Heads(docs[n]))

(* How far the two are with the roots of this connection: the root of n is *)
(* to be read, or its answer, or both roots were r.                        *)
Asked(n, m, r) ==
  /\ wires[m] # <<>> /\ Head(wires[m]) = D!Root(r)
  /\ r \subseteq docs[n] /\ (Calm(n) \/ docs[n] = r)
  /\ Calm(m) \/ sync[m].theirHeads \subseteq r
Answered(n, m) == Calm(m) /\ D!Matched(FALSE) \in Range(wires[n])
Settled(r) ==
  \A n \in Replicas :
    /\ r \subseteq docs[n]
    /\ Calm(n) \/ (docs[n] = r /\ sync[n].theirHeads \subseteq r)
Opened ==
  \/ \E n \in Replicas, r \in SUBSET D!Changes : Asked(n, D!Other(n), r)
  \/ \E n \in Replicas : Answered(n, D!Other(n))
  \/ \E r \in SUBSET D!Changes : Settled(r)

Idle == \A n \in Replicas : wires[n] = <<>> /\ late[n] = <<>>

Lossless ==
  /\ SyncTypes /\ Ordered
  /\ \A n \in Replicas : started[n] /\ Grounded(n) /\ ToldHeads(n)
  /\ SomeoneAnswers
  /\ ~up => Idle
  /\ up /\ ~untold => Opened

SyncIInv == ~lost => Lossless
-----------------------------------------------------------------------------
LEMMA GreatestChange ==
  ASSUME NEW T \in SUBSET D!Changes, T # {}
  PROVE  \E x \in T : \A y \in T : y <= x
<1> DEFINE Above == {x .. MaxChanges : x \in T}
<1>0. MaxChanges \in Nat
  BY TwoReplicas
<1>1. Above \subseteq FiniteSubsetsOf(Nat) /\ Above # {}
  <2>1. ASSUME NEW x \in T PROVE (x .. MaxChanges) \in FiniteSubsetsOf(Nat)
    BY <1>0, FS_Interval DEF FiniteSubsetsOf, D!Changes
  <2> QED BY <2>1
<1>2. PICK B \in Above : \A C \in Above : <<C, B>> \notin StrictSubsetOrdering(Nat)
  <2> HIDE DEF Above
  <2> QED BY <1>1, FS_StrictSubsetOrderingWellFounded, WFMin
<1>3. PICK x \in T : B = x .. MaxChanges
  OBVIOUS
<1>4. ASSUME NEW y \in T PROVE y <= x
  <2>1. (y .. MaxChanges) \in Above
    OBVIOUS
  <2>2. <<y .. MaxChanges, x .. MaxChanges>> \notin StrictSubsetOrdering(Nat)
    BY <1>2, <1>3, <2>1
  <2>3. CASE x < y
    <3>1. (y .. MaxChanges) \subseteq x .. MaxChanges /\ x \in x .. MaxChanges
          /\ x \notin y .. MaxChanges
      BY <1>0, <2>3 DEF D!Changes
    <3>2. (y .. MaxChanges) \in SUBSET Nat /\ (x .. MaxChanges) \in SUBSET Nat
      BY <1>0 DEF D!Changes
    <3> QED BY <2>2, <3>1, <3>2 DEF StrictSubsetOrdering
  <2> QED BY <1>0, <2>3 DEF D!Changes
<1> QED BY <1>4

(* Every change of a document is a head of it or below one.                *)
LEMMA Covered ==
  ASSUME SyncTypes, Ordered, NEW d \in SUBSET D!Changes, Whole(d), NEW c \in d
  PROVE  \E h \in D!Heads(d) : h = c \/ c \in deps[h]
<1> DEFINE T == {x \in d : x = c \/ c \in deps[x]}
<1>1. T \in SUBSET D!Changes /\ T # {}
  OBVIOUS
<1>2. PICK h \in T : \A y \in T : y <= h
  <2> HIDE DEF T
  <2> QED BY <1>1, GreatestChange
<1>3. ASSUME NEW y \in d, h \in deps[y] PROVE FALSE
  <2>1. h \in D!Changes /\ y \in D!Changes /\ h \in Nat /\ y \in Nat
    BY TwoReplicas DEF D!Changes
  <2>2. h < y /\ deps[h] \subseteq deps[y]
    BY <1>3, <2>1 DEF Ordered
  <2>3. y \in T
    BY <1>3, <2>2
  <2>4. y <= h
    BY <1>2, <2>3
  <2> QED BY <2>1, <2>2, <2>4
<1>4. h \in D!Heads(d)
  BY <1>3 DEF D!Heads
<1> QED BY <1>4

(* A document that has the heads of another has all of it.                 *)
LEMMA HeadsSuffice ==
  ASSUME SyncTypes, Ordered, NEW d \in SUBSET D!Changes, Whole(d), NEW e, Whole(e),
         D!Heads(d) \subseteq e
  PROVE  d \subseteq e
<1>1. ASSUME NEW c \in d PROVE c \in e
  <2>1. PICK h \in D!Heads(d) : h = c \/ c \in deps[h]
    BY Covered
  <2> QED BY <2>1 DEF Whole
<1> QED BY <1>1

(* When the wires are empty, what Lossless says of the two documents makes *)
(* them equal.                                                             *)
LEMMA SilentAgree ==
  ASSUME SyncTypes, Ordered, SomeoneAnswers, Idle,
         \A n \in Replicas : Grounded(n) /\ ToldHeads(n) /\ Silent(sync[n], D!Heads(docs[n])),
         NEW n \in Replicas, NEW m \in Replicas, m = D!Other(n), n = D!Other(m), m # n,
         \A x \in Replicas : x = n \/ x = m
  PROVE  docs[n] = docs[m]
<1>1. \A x \in Replicas : MessagesTo(x) = {}
  BY OneOther DEF Idle, MessagesTo, MessagesOf, FramesTo, Range
<1>2. Whole(docs[n]) /\ Whole(docs[m]) /\ docs[n] \in SUBSET D!Changes /\ docs[m] \in SUBSET D!Changes
  BY DEF Grounded, SyncTypes
<1>3. /\ D!Heads(docs[n]) \subseteq docs[m] => docs[n] \subseteq docs[m]
      /\ D!Heads(docs[m]) \subseteq docs[n] => docs[m] \subseteq docs[n]
  BY <1>2, HeadsSuffice
<1>4. sync[n].theirHeads \subseteq docs[m] /\ sync[m].theirHeads \subseteq docs[n]
  BY DEF Grounded, Knows
<1>5. /\ D!Heads(docs[n]) \subseteq docs[m] \/ sync[m].theirHeads = D!Heads(docs[n])
      /\ D!Heads(docs[m]) \subseteq docs[n] \/ sync[n].theirHeads = D!Heads(docs[m])
  BY <1>1 DEF ToldHeads, Silent
<1>6. /\ sync[n].theirHeads = D!Heads(docs[n]) \/ sync[n].inFlight
      /\ sync[m].theirHeads = D!Heads(docs[m]) \/ sync[m].inFlight
  BY DEF Silent
<1>7. ~(sync[n].inFlight /\ sync[m].inFlight)
  BY <1>1 DEF SomeoneAnswers
<1>8. \A d \in SUBSET D!Changes : D!Heads(d) \subseteq d
  BY DEF D!Heads
<1>9. D!Heads(docs[n]) \subseteq docs[n] /\ D!Heads(docs[m]) \subseteq docs[m]
  BY <1>2, <1>8
<1> QED BY <1>3, <1>4, <1>5, <1>6, <1>7, <1>9

LEMMA LosslessConverged ==
  ASSUME Lossless, D!Quiet, ~untold, NEW n \in Replicas, NEW m \in Replicas
  PROVE  docs[n] = docs[m]
<1> USE DEF Lossless
<1>1. CASE m = n
  BY <1>1
<1>2. CASE m # n
  <2>1. m = D!Other(n) /\ n = D!Other(m) /\ \A x \in Replicas : x = n \/ x = m
    BY <1>2, OneOther
  <2>2. Idle /\ up /\ \A x \in Replicas : docs[x] # {}
    BY DEF D!Quiet, Idle
  <2>3. PICK r \in SUBSET D!Changes : Settled(r)
    <3>1. \A x \in Replicas : wires[x] = <<>> /\ Range(wires[x]) = {}
      BY <2>2 DEF Idle, Range
    <3>2. \A x \in Replicas, s \in SUBSET D!Changes : ~Asked(x, D!Other(x), s)
      BY <3>1, OneOther DEF Asked
    <3>3. \A x \in Replicas : ~Answered(x, D!Other(x))
      BY <3>1 DEF Answered
    <3> QED BY <2>2, <3>2, <3>3 DEF Opened
  <2>4. CASE \A x \in Replicas : Calm(x)
    <3>1. \A x \in Replicas : Silent(sync[x], D!Heads(docs[x]))
      BY <2>2, <2>4 DEF Calm
    <3> QED BY <1>2, <2>1, <2>2, <3>1, SilentAgree
  <2>5. ASSUME NEW x \in Replicas, NEW y \in Replicas, x # y, ~Calm(x), Calm(y)
        PROVE  docs[x] = docs[y]
    <3>1. docs[x] = r /\ sync[x].theirHeads \subseteq r /\ r \subseteq docs[y]
      BY <2>3, <2>5 DEF Settled
    <3>2. sync[y].lastSent = D!Heads(docs[y]) /\ x = D!Other(y)
      BY <2>2, <2>5, OneOther DEF Calm, Silent
    <3>3. MessagesTo(y) = {} /\ MessagesTo(x) = {}
      BY <2>2, OneOther DEF Idle, MessagesTo, MessagesOf, FramesTo, Range
    <3>4. D!Heads(docs[y]) \subseteq docs[x]
      BY <3>1, <3>2, <3>3 DEF ToldHeads
    <3>5. docs[y] \subseteq docs[x]
      BY <3>4, HeadsSuffice DEF Grounded, SyncTypes
    <3> QED BY <3>1, <3>5
  <2>6. CASE ~Calm(n) /\ ~Calm(m)
    BY <2>3, <2>6 DEF Settled
  <2> QED BY <1>2, <2>1, <2>4, <2>5, <2>6
<1> QED BY <1>1, <1>2
-----------------------------------------------------------------------------
(* The frames of a sequence, when one is read or others are added.         *)
LEMMA Read ==
  ASSUME NEW s \in Seq(Frame), s # <<>>
  PROVE  /\ Head(s) \in Range(s) /\ Tail(s) \in Seq(Frame)
         /\ Range(s) = {Head(s)} \cup Range(Tail(s))
<1>1. /\ Tail(s) \in Seq(Frame) /\ Len(Tail(s)) = Len(s) - 1
      /\ \A i \in 1 .. Len(Tail(s)) : Tail(s)[i] = s[i+1]
  BY HeadTailProperties
<1>2. Len(s) \in Nat \ {0}
  BY EmptySeq
<1>3. Head(s) = s[1]
  OBVIOUS
<1>4. Range(s) = {s[i] : i \in 1 .. Len(s)}
  BY RangeEquality
<1>5. Range(Tail(s)) = {Tail(s)[i] : i \in 1 .. Len(Tail(s))}
  BY <1>1, RangeEquality
<1>6. ASSUME NEW f \in Range(s) PROVE f = Head(s) \/ f \in Range(Tail(s))
  <2>1. PICK i \in 1 .. Len(s) : f = s[i]
    BY <1>4
  <2>2. CASE i = 1
    BY <1>3, <2>1, <2>2
  <2>3. CASE i # 1
    <3>1. i - 1 \in 1 .. Len(Tail(s)) /\ (i - 1) + 1 = i
      BY <1>1, <1>2, <2>3
    <3>2. Tail(s)[i - 1] = f
      BY <1>1, <2>1, <3>1
    <3> QED BY <1>5, <3>1, <3>2
  <2> QED BY <2>2, <2>3
<1>7. ASSUME NEW f \in Range(Tail(s)) PROVE f \in Range(s)
  <2>1. PICK i \in 1 .. Len(Tail(s)) : f = Tail(s)[i]
    BY <1>5, <1>7
  <2>2. i + 1 \in 1 .. Len(s) /\ f = s[i + 1]
    BY <1>1, <1>2, <2>1
  <2> QED BY <1>4, <2>2
<1>8. Head(s) \in Range(s)
  BY <1>2, <1>3, <1>4
<1> QED BY <1>1, <1>6, <1>7, <1>8

LEMMA Single ==
  ASSUME NEW f \in Frame
  PROVE  /\ <<f>> \in Seq(Frame) /\ <<f>> # <<>> /\ Head(<<f>>) = f /\ Tail(<<f>>) = <<>>
         /\ Range(<<f>>) = {f}
<1>1. <<f>> \in Seq(Frame) /\ Len(<<f>>) = 1 /\ <<f>>[1] = f
  OBVIOUS
<1>2. Range(<<f>>) = {<<f>>[i] : i \in 1 .. 1}
  BY <1>1, RangeEquality
<1> QED BY <1>1, <1>2

LEMMA NoFrames == <<>> \in Seq(Frame) /\ Range(<<>>) = {}
BY DEF Range

LEMMA Added ==
  ASSUME NEW s \in Seq(Frame), NEW f \in Frame
  PROVE  /\ Append(s, f) \in Seq(Frame) /\ Range(Append(s, f)) = Range(s) \cup {f}
         /\ Append(s, f) # <<>>
         /\ s # <<>> => Head(Append(s, f)) = Head(s)
<1>1. Append(s, f) = s \o <<f>> /\ Append(s, f) \in Seq(Frame) /\ Append(s, f) # <<>>
  BY AppendIsConcat, AppendProperties
<1>2. Range(s \o <<f>>) = Range(s) \cup {f}
  <2>1. <<f>> \in Seq(Frame) /\ Range(<<f>>) = {f}
    BY Single
  <2>2. Range(s \o <<f>>) = Range(s) \cup Range(<<f>>)
    BY <2>1, RangeConcatenation
  <2> QED BY <2>1, <2>2
<1>3. Head(Append(s, f)) = IF s = <<>> THEN f ELSE Head(s)
  BY HeadTailAppend
<1> QED BY <1>1, <1>2, <1>3

(* Frames go out by a wire, the first at once, or wait to: the other       *)
(* node's wire gains some and loses none.                                  *)
Given(n, m, F) ==
  /\ wires'[m] \in Seq(Frame) /\ late'[n] \in Seq(Frame)
  /\ Range(wires'[m]) \cup Range(late'[n]) = Range(wires[m]) \cup Range(late[n]) \cup F
  /\ Range(wires[m]) \subseteq Range(wires'[m])
  /\ wires[m] # <<>> => wires'[m] # <<>> /\ Head(wires'[m]) = Head(wires[m])
  /\ late'[m] = late[m]
  /\ wires' = [k \in Replicas |-> wires'[k]] /\ late' = [k \in Replicas |-> late'[k]]
Taken(n) == wires[n] # <<>> /\ wires'[n] = Tail(wires[n])

Pair(n, m) ==
  n \in Replicas /\ m \in Replicas /\ m = D!Other(n) /\ n = D!Other(m) /\ m # n
  /\ \A x \in Replicas : x = n \/ x = m

LEMMA APair == ASSUME NEW n \in Replicas PROVE Pair(n, D!Other(n)) /\ Pair(D!Other(n), n)
BY OneOther DEF Pair

LEMMA RepliedOne ==
  ASSUME SyncTypes, NEW n, NEW m, Pair(n, m), wires[n] # <<>>, NEW f \in Frame,
         D!replies(n, <<f>>)
  PROVE  Given(n, m, {f}) /\ Taken(n) /\ f \in Range(wires'[m])
<1>0. <<f>> # <<>> /\ Head(<<f>>) = f /\ Tail(<<f>>) = <<>>
  BY Single
<1> DEFINE fs == <<f>>
<1>r. fs # <<>> /\ Head(fs) = f /\ Tail(fs) = <<>> /\ D!replies(n, fs)
  BY <1>0
<1> HIDE DEF fs
<1>1. wires'[n] = Tail(wires[n]) /\ wires'[m] = Append(wires[m], f) /\ wires' = [k \in Replicas |-> wires'[k]]
  BY <1>r DEF D!replies, Pair, SyncTypes
<1>2. late'[n] = late[n] \o <<>> /\ late'[m] = late[m] /\ late' = [k \in Replicas |-> late'[k]]
  BY <1>r DEF D!replies, Pair, SyncTypes
<1>3. wires[m] \in Seq(Frame) /\ late[n] \in Seq(Frame)
  BY DEF SyncTypes, Pair
<1>4. late'[n] = late[n]
  BY <1>2, <1>3, ConcatEmptySeq
<1> QED BY <1>1, <1>2, <1>3, <1>4, Added DEF Given, Taken

LEMMA RepliedNone ==
  ASSUME SyncTypes, NEW n, NEW m, Pair(n, m), wires[n] # <<>>, D!replies(n, <<>>)
  PROVE  Given(n, m, {}) /\ Taken(n)
<1>1. wires'[n] = Tail(wires[n]) /\ wires'[m] = wires[m] /\ wires' = [k \in Replicas |-> wires'[k]]
  BY DEF D!replies, Pair, SyncTypes
<1>2. late'[n] = late[n] /\ late'[m] = late[m] /\ late' = [k \in Replicas |-> late'[k]]
  BY DEF D!replies, Pair, SyncTypes
<1>3. wires[m] \in Seq(Frame) /\ late[n] \in Seq(Frame)
  BY DEF SyncTypes, Pair
<1> QED BY <1>1, <1>2, <1>3 DEF Given, Taken

LEMMA RepliedTwo ==
  ASSUME SyncTypes, NEW n, NEW m, Pair(n, m), wires[n] # <<>>, NEW f \in Frame, NEW g \in Frame,
         D!replies(n, <<f>> \o <<g>>)
  PROVE  Given(n, m, {f, g}) /\ Taken(n) /\ f \in Range(wires'[m])
<1> DEFINE fs == <<f>> \o <<g>>
<1>0. <<f>> \in Seq(Frame) /\ <<g>> \in Seq(Frame) /\ Range(<<g>>) = {g}
  BY Single
<1>1. fs # <<>> /\ Head(fs) = f /\ Tail(fs) = <<g>>
  <2>1. fs = Append(<<f>>, g)
    BY <1>0, AppendIsConcat
  <2>2. fs # <<>> /\ Head(fs) = Head(<<f>>) /\ Tail(fs) = Append(Tail(<<f>>), g)
    BY <1>0, <2>1, AppendProperties, HeadTailAppend, Single
  <2>3. Head(<<f>>) = f /\ Tail(<<f>>) = <<>> /\ Append(<<>>, g) = <<g>>
    BY Single
  <2> QED BY <2>2, <2>3
<1> HIDE DEF fs
<1>r. D!replies(n, fs)
  BY DEF fs
<1>2. wires'[n] = Tail(wires[n]) /\ wires'[m] = Append(wires[m], f) /\ wires' = [k \in Replicas |-> wires'[k]]
  BY <1>1, <1>r DEF D!replies, Pair, SyncTypes
<1>3. late'[n] = late[n] \o <<g>> /\ late'[m] = late[m] /\ late' = [k \in Replicas |-> late'[k]]
  BY <1>1, <1>r DEF D!replies, Pair, SyncTypes
<1>4. wires[m] \in Seq(Frame) /\ late[n] \in Seq(Frame)
  BY DEF SyncTypes, Pair
<1>5. late'[n] \in Seq(Frame) /\ Range(late'[n]) = Range(late[n]) \cup {g}
  <2>1. Range(late[n] \o <<g>>) = Range(late[n]) \cup Range(<<g>>)
    BY <1>0, <1>4, RangeConcatenation
  <2> QED BY <1>0, <1>3, <1>4, <2>1, ConcatProperties
<1>6. /\ wires'[m] \in Seq(Frame) /\ Range(wires'[m]) = Range(wires[m]) \cup {f} /\ wires'[m] # <<>>
      /\ wires[m] # <<>> => Head(wires'[m]) = Head(wires[m])
  BY <1>2, <1>4, Added
<1>7. Range(wires'[m]) \cup Range(late'[n]) = Range(wires[m]) \cup Range(late[n]) \cup {f, g}
  BY <1>5, <1>6
<1> QED BY <1>2, <1>3, <1>5, <1>6, <1>7 DEF Given, Taken

(* Frames sent at once.                                                    *)
LEMMA SentOne ==
  ASSUME SyncTypes, NEW n, NEW m, Pair(n, m), up, NEW f \in Frame, D!sends(n, <<f>>), late' = late
  PROVE  Given(n, m, {f}) /\ wires'[n] = wires[n]
<1>1. wires'[n] = wires[n] /\ wires'[m] = wires[m] \o <<f>> /\ wires' = [k \in Replicas |-> wires'[k]]
  BY DEF D!sends, Pair, SyncTypes
<1>2. wires[m] \in Seq(Frame) /\ late[n] \in Seq(Frame) /\ late = [k \in Replicas |-> late[k]]
  BY DEF SyncTypes, Pair
<1>3. wires'[m] = Append(wires[m], f)
  BY <1>1, <1>2, AppendIsConcat
<1> QED BY <1>1, <1>2, <1>3, Added DEF Given

LEMMA SentNone ==
  ASSUME SyncTypes, NEW n, NEW m, Pair(n, m), up, D!sends(n, <<>>), late' = late
  PROVE  Given(n, m, {}) /\ wires'[n] = wires[n]
<1>1. wires'[n] = wires[n] /\ wires'[m] = wires[m] \o <<>> /\ wires' = [k \in Replicas |-> wires'[k]]
  BY DEF D!sends, Pair, SyncTypes
<1>2. wires[m] \in Seq(Frame) /\ late[n] \in Seq(Frame) /\ late = [k \in Replicas |-> late[k]]
  BY DEF SyncTypes, Pair
<1>3. wires'[m] = wires[m]
  BY <1>1, <1>2, ConcatEmptySeq
<1> QED BY <1>1, <1>2, <1>3 DEF Given

(* The frames of m after n has given F, and of n after it took one.        *)
LEMMA GivenFrames ==
  ASSUME NEW n, NEW m, Pair(n, m), NEW F, Given(n, m, F)
  PROVE  FramesTo(m)' = FramesTo(m) \cup F /\ MessagesTo(m)' = MessagesTo(m) \cup MessagesOf(F)
BY DEF Given, FramesTo, MessagesTo, MessagesOf, Pair

LEMMA TakenFrames ==
  ASSUME SyncTypes, NEW n, NEW m, Pair(n, m), NEW F, Given(n, m, F), Taken(n)
  PROVE  /\ FramesTo(n) = FramesTo(n)' \cup {Head(wires[n])}
         /\ MessagesTo(n) = MessagesTo(n)' \cup MessagesOf({Head(wires[n])})
         /\ Range(wires[n]) = Range(wires'[n]) \cup {Head(wires[n])}
         /\ wires'[n] \in Seq(Frame)
<1>1. /\ Range(wires[n]) = Range(wires'[n]) \cup {Head(wires[n])}
      /\ wires'[n] \in Seq(Frame) /\ late'[m] = late[m]
  BY Read DEF Taken, SyncTypes, Pair, Given
<1> QED BY <1>1 DEF FramesTo, MessagesTo, MessagesOf, Pair

LEMMA KeptFrames ==
  ASSUME NEW n, NEW m, Pair(n, m), NEW F, Given(n, m, F), wires'[n] = wires[n]
  PROVE  FramesTo(n)' = FramesTo(n) /\ MessagesTo(n)' = MessagesTo(n)
BY DEF FramesTo, MessagesTo, MessagesOf, Pair, Given
-----------------------------------------------------------------------------
(* generateSyncMessage(): nothing is said only by who has nothing to say,  *)
(* and what is said are the heads.                                         *)
Says(s, t, x, heads) ==
  /\ t \in State /\ x \in Message /\ x.heads = heads
  /\ \A h \in x.have : h.lastSync = s.shared
  /\ t.theirHeads = s.theirHeads /\ t.shared = s.shared /\ t.theirHave = s.theirHave
  /\ t.lastSent = heads /\ t.inFlight

LEMMA Generated ==
  ASSUME SyncTypes, NEW d \in SUBSET D!Changes, NEW heads \in SUBSET D!Changes,
         NEW q \in SUBSET D!Changes, NEW s \in State, d # {},
         \A h \in s.theirHave : h.lastSync \subseteq d,
         NEW g, g = D!generateFor(d, heads, q, s)
  PROVE  \/ g.state = s /\ g.frames = <<>> /\ Silent(s, heads)
         \/ \E x : /\ g.frames = <<D!Delta(x)>> /\ x.changes \subseteq d
                   /\ Says(s, g.state, x, heads)
<1> DEFINE need == D!missing(d, q, s.theirHeads)
           have == IF need \subseteq s.theirHeads
                   THEN {[lastSync |-> s.shared, bloom |-> d \ D!Below(s.shared)]} ELSE {}
           unsent == IF s.heard THEN D!toSend(d, s) \ s.sent ELSE {}
           silent == s.lastSent = heads /\ s.responded
           quiet == silent /\ ((s.heard /\ s.theirHeads = heads /\ unsent = {}) \/ s.inFlight)
           t == [s EXCEPT !.responded = TRUE, !.lastSent = heads, !.inFlight = TRUE,
                          !.sent = @ \cup unsent]
           x == [heads |-> heads, need |-> need, have |-> have, changes |-> unsent]
           gen == D!generate(d, heads, q, s)
<1>1. ~ \E h \in s.theirHave : ~(h.lastSync \subseteq d)
  OBVIOUS
<1>2. gen = IF quiet THEN [state |-> s, message |-> {}] ELSE [state |-> t, message |-> {x}]
  BY <1>1 DEF D!generate
<1>3. g = [state |-> gen.state,
           frames |-> IF gen.message = {} THEN <<>> ELSE <<D!Delta(CHOOSE y \in gen.message : TRUE)>>]
  BY DEF D!generateFor
<1>4. CASE quiet
  <2>1. gen.state = s /\ gen.message = {}
    BY <1>2, <1>4
  <2>2. Silent(s, heads)
    BY <1>4 DEF Silent
  <2> HIDE DEF gen, quiet
  <2> QED BY <1>3, <2>1, <2>2
<1>5. CASE ~quiet
  <2>1. gen.state = t /\ gen.message = {x}
    BY <1>2, <1>5
  <2>2. unsent \in SUBSET D!Changes /\ unsent \subseteq d
    BY DEF D!toSend
  <2>3. need \in SUBSET D!Changes
    BY DEF D!missing, State, SyncTypes
  <2>4. have \in SUBSET Have /\ \A h \in have : h.lastSync = s.shared
    <3>1. s.shared \in SUBSET D!Changes
      BY DEF State
    <3>2. d \ D!Below(s.shared) \in SUBSET D!Changes
      OBVIOUS
    <3> HIDE DEF need
    <3> QED BY <3>1, <3>2 DEF Have
  <2> HIDE DEF need, have, unsent, gen, quiet, silent
  <2>5. x \in Message /\ x.heads = heads /\ x.changes = unsent /\ x.have = have
    BY <2>2, <2>3, <2>4 DEF Message
  <2>6. /\ t \in State /\ t.theirHeads = s.theirHeads /\ t.shared = s.shared
        /\ t.theirHave = s.theirHave /\ t.lastSent = heads /\ t.inFlight
    <3>1. s.sent \cup unsent \in SUBSET D!Changes
      BY <2>2 DEF State
    <3> QED BY <3>1 DEF State
  <2> HIDE DEF t, x
  <2>7. g.state = t /\ g.frames = <<D!Delta(x)>>
    <3>1. gen.message # {} /\ (CHOOSE y \in gen.message : TRUE) = x
      BY <2>1
    <3> QED BY <1>3, <2>1, <3>1
  <2>8. x.changes \subseteq d /\ Says(s, t, x, heads)
    BY <2>2, <2>4, <2>5, <2>6 DEF Says
  <2> QED BY <2>7, <2>8
<1> QED BY <1>4, <1>5

(* applyChanges(): a whole document stays whole.                           *)
LEMMA Applied ==
  ASSUME SyncTypes, Ordered, NEW d \in SUBSET D!Changes, Whole(d), NEW s \in SUBSET Made
  PROVE  Whole(D!applied(d, s)) /\ d \subseteq D!applied(d, s) /\ D!applied(d, s) \subseteq d \cup s
         /\ D!applied(d, s) \in SUBSET D!Changes
<1> DEFINE ready == {c \in s : deps[c] \subseteq d \cup s}
           new == d \cup {c \in ready : \A b \in deps[c] : b \in d \/ b \in ready}
<1>1. D!applied(d, s) = new
  BY DEF D!applied
<1>2. d \subseteq new /\ new \subseteq d \cup s /\ Made \subseteq D!Changes
  BY DEF Made
<1>3. new \subseteq Made
  BY <1>2 DEF Whole
<1>4. ASSUME NEW c \in new, NEW b \in deps[c] PROVE b \in new
  <2>1. c \in D!Changes /\ b \in D!Changes
    BY <1>2, <1>3, <1>4 DEF SyncTypes
  <2>2. CASE c \in d
    BY <2>2, <1>4 DEF Whole
  <2>3. CASE c \notin d /\ b \notin d
    <3>1. c \in ready /\ b \in ready
      BY <1>4, <2>3
    <3>2. deps[b] \subseteq deps[c]
      BY <1>4, <2>1 DEF Ordered
    <3>3. \A a \in deps[b] : a \in d \/ a \in ready
      BY <1>4, <2>3, <3>2
    <3> QED BY <3>1, <3>3
  <2> QED BY <2>2, <2>3
<1> QED BY <1>1, <1>2, <1>3, <1>4 DEF Whole

(* receiveSyncMessage(): what is learnt is the other's.                    *)
LEMMA Received ==
  ASSUME SyncTypes, Ordered, NEW n, NEW m, Pair(n, m), Grounded(n), Grounded(m),
         NEW x \in Message, Sound(n, x),
         NEW r, r = D!receive(docs[n], queue[n], sync[n], x)
  PROVE  /\ r.doc \in SUBSET D!Changes /\ Whole(r.doc) /\ docs[n] \subseteq r.doc
         /\ r.queue \in SUBSET D!Changes /\ r.queue \subseteq docs[m]
         /\ r.state \in State /\ ~r.state.inFlight /\ r.state.theirHeads = x.heads
         /\ r.state.shared \subseteq docs[m] /\ r.state.theirHave = x.have
         /\ r.state.lastSent \subseteq docs[n]
<1> DEFINE d == docs[n]
           q == queue[n]
           s == sync[n]
           pool == q \cup (x.changes \ d)
           new == D!applied(d, pool)
           known == x.heads \cap new
           shared == IF x.changes = {} THEN s.shared
                     ELSE (D!Heads(new) \ D!Heads(d)) \cup (s.shared \cap D!Heads(new))
           whole == known = x.heads
           forget == whole /\ x.heads = {}
           sh == IF whole THEN x.heads ELSE shared \cup known
           ls == IF forget THEN {} ELSE IF x.changes = {} /\ x.heads = D!Heads(d) THEN x.heads
                 ELSE s.lastSent
           st == IF forget THEN {} ELSE s.sent \ D!Below(known)
           t == [s EXCEPT !.inFlight = FALSE, !.heard = TRUE,
                   !.theirHave = x.have, !.theirHeads = x.heads, !.theirNeed = x.need,
                   !.shared = sh, !.lastSent = ls, !.sent = st]
<1>1. d \in SUBSET D!Changes /\ q \in SUBSET D!Changes /\ s \in State
  BY DEF SyncTypes, Pair
<1>2. r = [doc |-> new, queue |-> pool \ new, state |-> t]
  BY DEF D!receive
<1>3. pool \subseteq docs[m] /\ docs[m] \subseteq Made /\ Whole(d)
  BY DEF Grounded, Whole, Sound, Pair
<1>4. Whole(new) /\ d \subseteq new /\ new \subseteq d \cup pool /\ new \in SUBSET D!Changes
  BY <1>1, <1>3, Applied
<1>5. /\ x.heads \in SUBSET D!Changes /\ x.need \in SUBSET D!Changes /\ x.have \in SUBSET Have
      /\ x.heads \subseteq docs[m]
  BY DEF Message, Sound, Pair
<1>6. /\ s.shared \in SUBSET D!Changes /\ s.sent \in SUBSET D!Changes /\ s.lastSent \in SUBSET D!Changes
      /\ s.shared \subseteq docs[m] /\ s.lastSent \subseteq d
  BY <1>1 DEF State, Grounded, Knows, Pair
<1> HIDE DEF pool, new, s, d, q
<1>7. D!Heads(new) \ D!Heads(d) \subseteq docs[m]
  <2>1. ASSUME NEW c \in D!Heads(new), c \in d PROVE c \in D!Heads(d)
    BY <1>4, <2>1 DEF D!Heads
  <2>2. D!Heads(new) \subseteq new
    BY DEF D!Heads
  <2> QED BY <1>3, <1>4, <2>1, <2>2
<1>8. shared \subseteq docs[m]
  BY <1>6, <1>7
<1>9. sh \subseteq docs[m]
  BY <1>5, <1>8
<1>10. ls \subseteq d
  BY <1>6 DEF D!Heads
<1>11. st \in SUBSET D!Changes /\ docs[m] \in SUBSET D!Changes
  BY <1>6 DEF SyncTypes, Pair
<1> HIDE DEF sh, ls, st
<1>12. sh \in SUBSET D!Changes /\ ls \in SUBSET D!Changes
  BY <1>1, <1>9, <1>10, <1>11
<1>13. /\ t \in State /\ ~t.inFlight /\ t.theirHeads = x.heads /\ t.theirHave = x.have
       /\ t.shared = sh /\ t.lastSent = ls
  BY <1>1, <1>5, <1>11, <1>12 DEF State
<1> HIDE DEF t
<1>14. r.doc = new /\ r.queue = pool \ new /\ r.state = t
  BY <1>2
<1>15. pool \ new \subseteq docs[m]
  BY <1>3
<1> QED BY <1>4, <1>9, <1>10, <1>11, <1>13, <1>14, <1>15 DEF d
-----------------------------------------------------------------------------
(* What becomes of a node's sync state s, and of the frames it sends, when *)
(* it has its document d with these heads to tell.                         *)
Out(d, heads, s, t, F) ==
  \/ d = {} /\ t = s /\ MessagesOf(F) = {}
  \/ d # {} /\ t = s /\ Silent(s, heads) /\ MessagesOf(F) = {}
  \/ \E x : Says(s, t, x, heads) /\ x.changes \subseteq d /\ MessagesOf(F) = {x}

LEMMA DeltaFrame ==
  ASSUME NEW x \in Message
  PROVE  D!Delta(x) \in Frame /\ MessagesOf({D!Delta(x)}) = {x}
<1>1. D!Delta(x).type = "SEND_DELTA" /\ D!Delta(x).message = x
  BY DEF D!Delta
<1> QED BY <1>1 DEF Frame, MessagesOf, D!Delta

LEMMA MatchFrame ==
  ASSUME NEW b \in BOOLEAN
  PROVE  /\ D!Matched(b) \in Frame
         /\ \A F : MessagesOf(F \cup {D!Matched(b)}) = MessagesOf(F)
<1>1. D!Matched(b).type # "SEND_DELTA"
  BY DEF D!Matched
<1>2. D!Matched(b) \in Frame
  BY DEF Frame, D!Matched
<1> QED BY <1>1, <1>2 DEF MessagesOf

LEMMA RootFrame ==
  ASSUME NEW r \in SUBSET D!Changes
  PROVE  D!Root(r) \in Frame /\ MessagesOf({D!Root(r)}) = {}
BY DEF Frame, D!Root, MessagesOf

LEMMA NoMessages == MessagesOf({}) = {}
BY DEF MessagesOf

(* generateFor(), with its frames answered, answered behind another frame, *)
(* or pushed.                                                              *)
Generates(n, d, heads, q, s, g) ==
  /\ d \in SUBSET D!Changes /\ heads \in SUBSET D!Changes /\ q \in SUBSET D!Changes
  /\ s \in State /\ \A h \in s.theirHave : h.lastSync \subseteq d
  /\ g = D!generateFor(d, heads, q, s)
  /\ sync' = [sync EXCEPT ![n] = g.state]

Uttered(d, heads, s, t, frames) ==
  \/ frames = <<>> /\ Out(d, heads, s, t, {})
  \/ \E x \in Message : frames = <<D!Delta(x)>> /\ Out(d, heads, s, t, {D!Delta(x)})

LEMMA GeneratesOut ==
  ASSUME SyncTypes, NEW n, NEW m, Pair(n, m), NEW d, NEW heads, NEW q, NEW s, NEW g,
         Generates(n, d, heads, q, s, g)
  PROVE  /\ sync' \in [Replicas -> State] /\ sync'[m] = sync[m]
         /\ Uttered(d, heads, s, sync'[n], g.frames)
<1>0. s \in State /\ g.state = sync'[n] /\ sync'[m] = sync[m]
      /\ (g.state \in State => sync' \in [Replicas -> State])
  BY DEF Generates, Pair, SyncTypes
<1>1. CASE d = {}
  <2>1. g.state = s /\ g.frames = <<>>
    BY <1>1 DEF Generates, D!generateFor
  <2> QED BY <1>0, <1>1, <2>1, NoMessages DEF Out, Uttered
<1>2. CASE d # {} /\ g.state = s /\ g.frames = <<>> /\ Silent(s, heads)
  BY <1>0, <1>2, NoMessages DEF Out, Uttered
<1>3. ASSUME NEW x, g.frames = <<D!Delta(x)>>, x.changes \subseteq d, Says(s, g.state, x, heads)
      PROVE  sync' \in [Replicas -> State] /\ x \in Message
             /\ Out(d, heads, s, sync'[n], {D!Delta(x)})
  <2>1. g.state \in State /\ x \in Message
    BY <1>3 DEF Says
  <2>2. MessagesOf({D!Delta(x)}) = {x}
    BY <2>1, DeltaFrame
  <2> QED BY <1>0, <1>3, <2>1, <2>2 DEF Out
<1>4. d = {} \/ (d # {} /\ g.state = s /\ g.frames = <<>> /\ Silent(s, heads))
      \/ \E x : g.frames = <<D!Delta(x)>> /\ x.changes \subseteq d /\ Says(s, g.state, x, heads)
  BY Generated DEF Generates
<1> QED BY <1>0, <1>1, <1>2, <1>3, <1>4 DEF Uttered

LEMMA Answers ==
  ASSUME SyncTypes, NEW n, NEW m, Pair(n, m), NEW d, NEW heads, NEW q, NEW s, NEW g,
         Generates(n, d, heads, q, s, g), wires[n] # <<>>, D!replies(n, g.frames)
  PROVE  /\ Taken(n) /\ sync' \in [Replicas -> State] /\ sync'[m] = sync[m]
         /\ \E F : Given(n, m, F) /\ Out(d, heads, s, sync'[n], F)
<1>1. sync' \in [Replicas -> State] /\ sync'[m] = sync[m]
  BY GeneratesOut
<1>2. CASE g.frames = <<>> /\ Out(d, heads, s, sync'[n], {})
  <2>1. D!replies(n, <<>>)
    BY <1>2
  <2> QED BY <1>1, <1>2, <2>1, RepliedNone
<1>3. ASSUME NEW x \in Message, g.frames = <<D!Delta(x)>>, Out(d, heads, s, sync'[n], {D!Delta(x)})
      PROVE  Taken(n) /\ \E F : Given(n, m, F) /\ Out(d, heads, s, sync'[n], F)
  <2>1. D!replies(n, <<D!Delta(x)>>) /\ D!Delta(x) \in Frame
    BY <1>3, DeltaFrame
  <2> QED BY <1>3, <2>1, RepliedOne
<1>4. Uttered(d, heads, s, sync'[n], g.frames)
  BY GeneratesOut
<1>5. CASE \E x \in Message :
             g.frames = <<D!Delta(x)>> /\ Out(d, heads, s, sync'[n], {D!Delta(x)})
  BY <1>1, <1>3, <1>5
<1> QED BY <1>2, <1>4, <1>5 DEF Uttered

LEMMA AnswersBehind ==
  ASSUME SyncTypes, NEW n, NEW m, Pair(n, m), NEW d, NEW heads, NEW q, NEW s, NEW g,
         Generates(n, d, heads, q, s, g), wires[n] # <<>>,
         D!replies(n, <<D!Matched(FALSE)>> \o g.frames)
  PROVE  /\ Taken(n) /\ sync' \in [Replicas -> State] /\ sync'[m] = sync[m]
         /\ D!Matched(FALSE) \in Range(wires'[m])
         /\ \E F : Given(n, m, F) /\ Out(d, heads, s, sync'[n], F)
<1>1. sync' \in [Replicas -> State] /\ sync'[m] = sync[m]
  BY GeneratesOut
<1>0. D!Matched(FALSE) \in Frame /\ \A F : MessagesOf(F \cup {D!Matched(FALSE)}) = MessagesOf(F)
  BY MatchFrame
<1>r. \A F, G : MessagesOf(F) = MessagesOf(G) /\ Out(d, heads, s, sync'[n], F)
                  => Out(d, heads, s, sync'[n], G)
  BY DEF Out
<1>2. CASE g.frames = <<>> /\ Out(d, heads, s, sync'[n], {})
  <2>1. <<D!Matched(FALSE)>> \o g.frames = <<D!Matched(FALSE)>>
    BY <1>0, <1>2, Single, ConcatEmptySeq
  <2>2. D!replies(n, <<D!Matched(FALSE)>>)
    BY <2>1
  <2>3. Given(n, m, {D!Matched(FALSE)}) /\ Taken(n) /\ D!Matched(FALSE) \in Range(wires'[m])
    BY <1>0, <2>2, RepliedOne
  <2>4. MessagesOf({}) = MessagesOf({} \cup {D!Matched(FALSE)})
    BY <1>0
  <2>5. MessagesOf({}) = MessagesOf({D!Matched(FALSE)})
    BY <2>4
  <2> QED BY <1>1, <1>2, <1>r, <2>3, <2>5
<1>3. ASSUME NEW x \in Message, g.frames = <<D!Delta(x)>>, Out(d, heads, s, sync'[n], {D!Delta(x)})
      PROVE  /\ Taken(n) /\ D!Matched(FALSE) \in Range(wires'[m])
             /\ \E F : Given(n, m, F) /\ Out(d, heads, s, sync'[n], F)
  <2>1. D!replies(n, <<D!Matched(FALSE)>> \o <<D!Delta(x)>>) /\ D!Delta(x) \in Frame
    BY <1>3, DeltaFrame
  <2>2. /\ Given(n, m, {D!Matched(FALSE), D!Delta(x)}) /\ Taken(n)
        /\ D!Matched(FALSE) \in Range(wires'[m])
    BY <1>0, <2>1, RepliedTwo
  <2>3. {D!Matched(FALSE), D!Delta(x)} = {D!Delta(x)} \cup {D!Matched(FALSE)}
    OBVIOUS
  <2>4. MessagesOf({D!Delta(x)}) = MessagesOf({D!Matched(FALSE), D!Delta(x)})
    BY <1>0, <2>3
  <2> QED BY <1>3, <1>r, <2>2, <2>4
<1>4. Uttered(d, heads, s, sync'[n], g.frames)
  BY GeneratesOut
<1>5. CASE \E x \in Message :
             g.frames = <<D!Delta(x)>> /\ Out(d, heads, s, sync'[n], {D!Delta(x)})
  BY <1>1, <1>3, <1>5
<1> QED BY <1>2, <1>4, <1>5 DEF Uttered

LEMMA Pushes ==
  ASSUME SyncTypes, NEW n, NEW m, Pair(n, m), NEW d, NEW heads, NEW q, NEW s, NEW g,
         Generates(n, d, heads, q, s, g), up, D!sends(n, g.frames), late' = late
  PROVE  /\ wires'[n] = wires[n] /\ sync' \in [Replicas -> State] /\ sync'[m] = sync[m]
         /\ \E F : Given(n, m, F) /\ Out(d, heads, s, sync'[n], F)
<1>1. sync' \in [Replicas -> State] /\ sync'[m] = sync[m]
  BY GeneratesOut
<1>2. CASE g.frames = <<>> /\ Out(d, heads, s, sync'[n], {})
  <2>1. D!sends(n, <<>>)
    BY <1>2
  <2> QED BY <1>1, <1>2, <2>1, SentNone
<1>3. ASSUME NEW x \in Message, g.frames = <<D!Delta(x)>>, Out(d, heads, s, sync'[n], {D!Delta(x)})
      PROVE  wires'[n] = wires[n] /\ \E F : Given(n, m, F) /\ Out(d, heads, s, sync'[n], F)
  <2>1. D!sends(n, <<D!Delta(x)>>) /\ D!Delta(x) \in Frame
    BY <1>3, DeltaFrame
  <2> QED BY <1>3, <2>1, SentOne
<1>4. Uttered(d, heads, s, sync'[n], g.frames)
  BY GeneratesOut
<1>5. CASE \E x \in Message :
             g.frames = <<D!Delta(x)>> /\ Out(d, heads, s, sync'[n], {D!Delta(x)})
  BY <1>1, <1>3, <1>5
<1> QED BY <1>2, <1>4, <1>5 DEF Uttered
-----------------------------------------------------------------------------
(* A step in which n may learn something and then says what generateFor()  *)
(* has for it: s is the state it says it from, F what it says.             *)
Speaks(n, m, s, F) ==
  /\ deps' \in [D!Changes -> SUBSET D!Changes] /\ Ordered'
  /\ docs' \in [Replicas -> SUBSET D!Changes] /\ docs'[m] = docs[m] /\ docs[n] \subseteq docs'[n]
  /\ Whole(docs[n])' /\ Whole(docs[m])' /\ D!Heads(docs[m])' = D!Heads(docs[m])
  /\ queue' \in [Replicas -> SUBSET D!Changes] /\ queue'[m] = queue[m] /\ queue'[n] \subseteq docs[m]
  /\ s \in State /\ s.theirHeads \subseteq docs[m] /\ s.shared \subseteq docs[m]
  /\ s.lastSent \subseteq docs'[n] /\ \A h \in s.theirHave : h.lastSync \subseteq docs'[n]
  /\ sync' \in [Replicas -> State] /\ sync'[m] = sync[m]
  /\ Given(n, m, F) /\ Out(docs'[n], D!Heads(docs[n])', s, sync'[n], F)
  /\ wires'[n] \in Seq(Frame) /\ MessagesTo(n)' \subseteq MessagesTo(n)
  /\ up' = up /\ untold' = untold /\ started' = started

LEMMA SpeaksTypes ==
  ASSUME SyncTypes, NEW n, NEW m, Pair(n, m), NEW s, NEW F, Speaks(n, m, s, F)
  PROVE  SyncTypes'
<1>1. \A k \in Replicas : wires'[k] \in Seq(Frame) /\ late'[k] \in Seq(Frame)
  BY DEF Speaks, Given, Pair, SyncTypes
<1>2. wires' \in [Replicas -> Seq(Frame)] /\ late' \in [Replicas -> Seq(Frame)]
  <2>1. wires' = [k \in Replicas |-> wires'[k]] /\ late' = [k \in Replicas |-> late'[k]]
    BY DEF Speaks, Given
  <2> QED BY <1>1, <2>1
<1> QED BY <1>2 DEF Speaks, SyncTypes

(* The state s, whatever was said from it.                                 *)
From(d, heads, s, t, F) ==
  /\ t.theirHeads = s.theirHeads /\ t.shared = s.shared /\ t.theirHave = s.theirHave
  /\ t.lastSent = s.lastSent \/ t.lastSent = heads
  /\ \A x \in MessagesOf(F) : x.heads = heads /\ x.changes \subseteq d
       /\ \A h \in x.have : h.lastSync = s.shared

LEMMA OutState ==
  ASSUME NEW d, NEW heads, NEW s \in State, NEW t, NEW F, Out(d, heads, s, t, F)
  PROVE  From(d, heads, s, t, F)
BY DEF Out, Says, From

LEMMA HeadsWithin ==
  ASSUME NEW n
  PROVE  D!Heads(docs[n]) \subseteq docs[n] /\ D!Heads(docs[n])' \subseteq docs'[n]
BY DEF D!Heads

LEMMA SpeaksGrounds ==
  ASSUME NEW n, NEW m, Pair(n, m), Grounded(n), Grounded(m),
         NEW s, NEW F, Speaks(n, m, s, F)
  PROVE  Grounded(n)' /\ Grounded(m)'
<1> DEFINE heads == D!Heads(docs[n])'
<1>1. /\ s \in State /\ Out(docs'[n], heads, s, sync'[n], F)
      /\ docs'[m] = docs[m] /\ docs[n] \subseteq docs'[n]
      /\ n = D!Other(m) /\ m = D!Other(n)
  BY DEF Speaks, Pair
<1>2. heads \subseteq docs'[n]
  BY HeadsWithin
<1> HIDE DEF heads
<1>3. /\ sync'[n].theirHeads = s.theirHeads /\ sync'[n].shared = s.shared
      /\ sync'[n].theirHave = s.theirHave
      /\ sync'[n].lastSent = s.lastSent \/ sync'[n].lastSent = heads
      /\ \A x \in MessagesOf(F) : x.heads = heads /\ x.changes \subseteq docs'[n]
           /\ \A h \in x.have : h.lastSync = s.shared
  <2>1. From(docs'[n], heads, s, sync'[n], F)
    BY <1>1, OutState
  <2> QED BY <2>1 DEF From
<1>4. MessagesTo(m)' = MessagesTo(m) \cup MessagesOf(F)
  BY GivenFrames DEF Speaks
<1>5. Grounded(n)'
  <2>1. Whole(docs[n])' /\ queue'[n] \subseteq docs'[m]
    BY DEF Speaks
  <2>2. Knows(n, sync[n])'
    BY <1>1, <1>3 DEF Speaks, Knows
  <2>3. sync'[n].lastSent \subseteq docs'[n]
    BY <1>2, <1>3 DEF Speaks
  <2>4. ASSUME NEW x \in MessagesTo(n)' PROVE Sound(n, x)'
    <3>1. x \in MessagesTo(n)
      BY DEF Speaks
    <3>2. Sound(n, x)
      BY <3>1 DEF Grounded
    <3> QED BY <1>1, <3>2 DEF Sound
  <2> QED BY <1>1, <2>1, <2>2, <2>3, <2>4 DEF Grounded
<1>6. Grounded(m)'
  <2>1. Whole(docs[m])' /\ queue'[m] \subseteq docs'[n]
    BY <1>1 DEF Speaks, Grounded
  <2>2. Knows(m, sync[m])'
    <3>1. Knows(m, sync[m]) /\ sync'[m] = sync[m]
      BY DEF Speaks, Grounded
    <3> QED BY <1>1, <3>1 DEF Knows
  <2>3. sync'[m].lastSent \subseteq docs'[m]
    BY <1>1 DEF Speaks, Grounded
  <2>4. ASSUME NEW x \in MessagesTo(m)' PROVE Sound(m, x)'
    <3>1. CASE x \in MessagesTo(m)
      <4>1. Sound(m, x)
        BY <3>1 DEF Grounded
      <4> QED BY <1>1, <4>1 DEF Sound
    <3>2. CASE x \in MessagesOf(F)
      <4>1. s.shared \subseteq docs'[m]
        BY <1>1 DEF Speaks
      <4> QED BY <1>1, <1>2, <1>3, <3>2, <4>1 DEF Sound
    <3> QED BY <1>4, <2>4, <3>1, <3>2
  <2> QED BY <1>1, <2>1, <2>2, <2>3, <2>4 DEF Grounded
<1> QED BY <1>5, <1>6

(* Who says something tells its heads.                                     *)
LEMMA SaysTells ==
  ASSUME NEW n, NEW m, Pair(n, m), NEW s, NEW F, NEW heads, NEW x,
         Given(n, m, F), Says(s, sync'[n], x, heads), MessagesOf(F) = {x}
  PROVE  ToldHeads(n)' /\ ToldHeads(m)' /\ SomeoneAnswers'
<1>1. x \in MessagesTo(m)' /\ n = D!Other(m) /\ m = D!Other(n) /\ m \in Replicas
  BY GivenFrames DEF Pair
<1>2. x.heads = sync'[n].lastSent
  BY DEF Says
<1>3. ToldHeads(n)'
  BY <1>1, <1>2 DEF ToldHeads
<1>4. ToldHeads(m)' /\ SomeoneAnswers'
  BY <1>1 DEF ToldHeads, SomeoneAnswers
<1> QED BY <1>3, <1>4

(* Nothing changes for who knows no more and says nothing.                 *)
LEMMA UnsaidTells ==
  ASSUME NEW n, NEW m, Pair(n, m), ToldHeads(n), ToldHeads(m), SomeoneAnswers,
         sync'[n] = sync[n], sync'[m] = sync[m],
         MessagesTo(n)' = MessagesTo(n), MessagesTo(m)' = MessagesTo(m),
         docs[n] \subseteq docs'[n], docs[m] \subseteq docs'[m]
  PROVE  ToldHeads(n)' /\ ToldHeads(m)' /\ SomeoneAnswers'
<1>1. n \in Replicas /\ m \in Replicas /\ n = D!Other(m) /\ m = D!Other(n)
      /\ \A x \in Replicas : x = n \/ x = m
  BY DEF Pair
<1>2. ToldHeads(n)'
  BY <1>1 DEF ToldHeads
<1>3. ToldHeads(m)'
  BY <1>1 DEF ToldHeads
<1>4. SomeoneAnswers'
  BY <1>1 DEF SomeoneAnswers
<1> QED BY <1>2, <1>3, <1>4

(* A message is read and left without an answer: its heads are those of    *)
(* the reader, so that each node has what the other told.                  *)
LEMMA HeardTells ==
  ASSUME NEW n, NEW m, Pair(n, m), ToldHeads(n), ToldHeads(m), SomeoneAnswers, NEW x,
         MessagesTo(n) = MessagesTo(n)' \cup {x}, MessagesTo(m)' = MessagesTo(m),
         sync'[n].theirHeads = x.heads, ~sync'[n].inFlight, sync'[m] = sync[m],
         Silent(sync'[n], D!Heads(docs[n])'), x.heads \subseteq docs[m],
         docs'[m] = docs[m], docs[n] \subseteq docs'[n]
  PROVE  ToldHeads(n)' /\ ToldHeads(m)' /\ SomeoneAnswers'
<1>1. n \in Replicas /\ m \in Replicas /\ n = D!Other(m) /\ m = D!Other(n)
      /\ \A y \in Replicas : y = n \/ y = m
  BY DEF Pair
<1>2. x.heads = D!Heads(docs[n])' /\ sync'[n].lastSent = x.heads
  BY DEF Silent
<1>3. ToldHeads(n)'
  BY <1>1, <1>2 DEF ToldHeads
<1>4. ToldHeads(m)'
  <2>1. x.heads \subseteq docs'[n]
    BY <1>2, HeadsWithin
  <2>2. CASE sync[m].lastSent \subseteq docs[n]
    BY <1>1, <2>2 DEF ToldHeads
  <2>3. CASE \E y \in MessagesTo(n) : y.heads = sync[m].lastSent
    BY <1>1, <2>1, <2>3 DEF ToldHeads
  <2>4. CASE MessagesTo(m) # {}
    BY <1>1, <2>4 DEF ToldHeads
  <2>5. MessagesTo(n) # {}
    OBVIOUS
  <2> QED BY <1>1, <2>2, <2>3, <2>4, <2>5 DEF ToldHeads
<1>5. SomeoneAnswers'
  BY <1>1 DEF SomeoneAnswers
<1> QED BY <1>3, <1>4, <1>5
-----------------------------------------------------------------------------
LEMMA OutCalm ==
  ASSUME NEW n, NEW s, NEW F, Out(docs'[n], D!Heads(docs[n])', s, sync'[n], F)
  PROVE  Calm(n)'
BY DEF Out, Says, Calm, Silent

(* The two are as far with the roots as before, or further, when n has     *)
(* become calm.                                                            *)
LEMMA CalmOpened ==
  ASSUME NEW n, NEW m, Pair(n, m), Opened, Calm(n)', Calm(m) => Calm(m)',
         docs[n] \subseteq docs'[n], docs'[m] = docs[m], sync'[m] = sync[m],
         NEW F, Given(n, m, F),
         \/ wires'[n] = wires[n]
         \/ Taken(n) /\ (Head(wires[n]).type = "ROOT_SYNC" => D!Matched(FALSE) \in Range(wires'[m]))
  PROVE  Opened'
<1>1. n \in Replicas /\ m \in Replicas /\ n = D!Other(m) /\ m = D!Other(n)
      /\ \A x \in Replicas : x = n \/ x = m
  BY DEF Pair
<1>2. /\ Range(wires[m]) \subseteq Range(wires'[m])
      /\ wires[m] # <<>> => wires'[m] # <<>> /\ Head(wires'[m]) = Head(wires[m])
  BY DEF Given
<1>3. ASSUME NEW r \in SUBSET D!Changes, Asked(n, m, r) PROVE Opened'
  <2>1. Asked(n, m, r)'
    BY <1>2, <1>3 DEF Asked
  <2> QED BY <1>1, <2>1 DEF Opened
<1>4. ASSUME NEW r \in SUBSET D!Changes, Asked(m, n, r) PROVE Opened'
  <2>1. CASE wires'[n] = wires[n]
    <3>1. Asked(m, n, r)'
      BY <1>4, <2>1 DEF Asked
    <3> QED BY <1>1, <3>1 DEF Opened
  <2>2. CASE D!Matched(FALSE) \in Range(wires'[m])
    <3>1. Answered(m, n)'
      BY <2>2 DEF Answered
    <3> QED BY <1>1, <3>1 DEF Opened
  <2>3. Head(wires[n]).type = "ROOT_SYNC"
    BY <1>4 DEF Asked, D!Root
  <2> QED BY <2>1, <2>2, <2>3
<1>5. CASE Answered(n, m)
  <2>1. Calm(m)'
    BY <1>5 DEF Answered
  <2>2. Settled({})'
    BY <1>1, <2>1 DEF Settled
  <2> QED BY <2>2 DEF Opened
<1>6. CASE Answered(m, n)
  <2>1. Answered(m, n)'
    BY <1>2, <1>6 DEF Answered
  <2> QED BY <1>1, <2>1 DEF Opened
<1>7. ASSUME NEW r \in SUBSET D!Changes, Settled(r) PROVE Opened'
  <2>1. Settled(r)'
    BY <1>1, <1>7 DEF Settled
  <2> QED BY <2>1 DEF Opened
<1> QED BY <1>1, <1>3, <1>4, <1>5, <1>6, <1>7 DEF Opened

(* And when nobody's document or sync state changes; if n reads a root it  *)
(* is its own.                                                             *)
LEMMA SameOpened ==
  ASSUME NEW n, NEW m, Pair(n, m), Opened, Grounded(n), Grounded(m), SyncTypes,
         deps' = deps, docs' = docs, sync' = sync,
         NEW F, Given(n, m, F),
         \/ wires'[n] = wires[n]
         \/ /\ Taken(n) /\ Head(wires[n]) # D!Matched(FALSE)
            /\ Head(wires[n]).type = "ROOT_SYNC" => Head(wires[n]).root = docs[n]
  PROVE  Opened'
<1>1. n \in Replicas /\ m \in Replicas /\ n = D!Other(m) /\ m = D!Other(n)
      /\ \A x \in Replicas : x = n \/ x = m
  BY DEF Pair
<1>2. /\ Range(wires[m]) \subseteq Range(wires'[m])
      /\ wires[m] # <<>> => wires'[m] # <<>> /\ Head(wires'[m]) = Head(wires[m])
  BY DEF Given
<1>0. \A k : Calm(k)' <=> Calm(k)
  BY DEF Calm, D!Heads, Silent
<1>3. ASSUME NEW r \in SUBSET D!Changes, Asked(n, m, r) PROVE Opened'
  <2>1. Asked(n, m, r)'
    BY <1>0, <1>2, <1>3 DEF Asked
  <2> QED BY <1>1, <2>1 DEF Opened
<1>4. ASSUME NEW r \in SUBSET D!Changes, Asked(m, n, r) PROVE Opened'
  <2>1. CASE wires'[n] = wires[n]
    <3>1. Asked(m, n, r)'
      BY <1>0, <1>4, <2>1 DEF Asked
    <3> QED BY <1>1, <3>1 DEF Opened
  <2>2. CASE Head(wires[n]).type = "ROOT_SYNC" => Head(wires[n]).root = docs[n]
    <3>1. r = docs[n]
      BY <1>4, <2>2 DEF Asked, D!Root
    <3>2. sync[m].theirHeads \subseteq r
      BY <1>1, <3>1 DEF Grounded, Knows
    <3>3. Settled(r)'
      BY <1>0, <1>1, <1>4, <3>1, <3>2 DEF Asked, Settled
    <3> QED BY <3>3 DEF Opened
  <2> QED BY <2>1, <2>2
<1>5. CASE Answered(n, m)
  <2>1. wires[n] \in Seq(Frame)
    BY <1>1 DEF SyncTypes
  <2>2. D!Matched(FALSE) \in Range(wires'[n])
    <3>1. CASE wires'[n] = wires[n]
      BY <1>5, <3>1 DEF Answered
    <3>2. CASE Taken(n) /\ Head(wires[n]) # D!Matched(FALSE)
      BY <1>5, <2>1, <3>2, Read DEF Answered, Taken
    <3> QED BY <3>1, <3>2
  <2>3. Answered(n, m)'
    BY <1>0, <1>5, <2>2 DEF Answered
  <2> QED BY <1>1, <2>3 DEF Opened
<1>6. CASE Answered(m, n)
  <2>1. Answered(m, n)'
    BY <1>0, <1>2, <1>6 DEF Answered
  <2> QED BY <1>1, <2>1 DEF Opened
<1>7. ASSUME NEW r \in SUBSET D!Changes, Settled(r) PROVE Opened'
  <2>1. Settled(r)'
    BY <1>0, <1>1, <1>7 DEF Settled
  <2> QED BY <2>1 DEF Opened
<1> QED BY <1>1, <1>3, <1>4, <1>5, <1>6, <1>7 DEF Opened
-----------------------------------------------------------------------------
(* What follows from all that for each kind of step while n and m are      *)
(* connected.  First, n says what it has without having learnt anything.   *)
LEMMA SpeaksKeeps ==
  ASSUME Lossless, up, NEW n, NEW m, Pair(n, m), NEW F, Speaks(n, m, sync[n], F),
         MessagesTo(n)' = MessagesTo(n),
         \/ wires'[n] = wires[n]
         \/ Taken(n) /\ (Head(wires[n]).type = "ROOT_SYNC" => D!Matched(FALSE) \in Range(wires'[m]))
  PROVE  Lossless'
<1> USE DEF Lossless
<1>1. n \in Replicas /\ m \in Replicas /\ \A x \in Replicas : x = n \/ x = m
  BY DEF Pair
<1>2. SyncTypes' /\ Ordered' /\ up' /\ (~untold' => ~untold)
  BY SpeaksTypes DEF Speaks
<1>3. Grounded(n)' /\ Grounded(m)'
  BY <1>1, SpeaksGrounds
<1>4. /\ Given(n, m, F) /\ Out(docs'[n], D!Heads(docs[n])', sync[n], sync'[n], F)
      /\ docs'[m] = docs[m] /\ docs[n] \subseteq docs'[n] /\ sync'[m] = sync[m]
      /\ started' = started /\ D!Heads(docs[m])' = D!Heads(docs[m])
  BY DEF Speaks
<1>5. MessagesTo(m)' = MessagesTo(m) \cup MessagesOf(F)
  BY <1>4, GivenFrames
<1>6. ToldHeads(n)' /\ ToldHeads(m)' /\ SomeoneAnswers'
  <2>1. CASE sync'[n] = sync[n] /\ MessagesOf(F) = {}
    <3>1. MessagesTo(m)' = MessagesTo(m)
      BY <1>5, <2>1
    <3> QED BY <1>1, <1>4, <2>1, <3>1, UnsaidTells
  <2>2. ASSUME NEW x, Says(sync[n], sync'[n], x, D!Heads(docs[n])'), MessagesOf(F) = {x}
        PROVE  ToldHeads(n)' /\ ToldHeads(m)' /\ SomeoneAnswers'
    BY <1>4, <2>2, SaysTells
  <2> QED BY <1>4, <2>1, <2>2 DEF Out
<1>7. Calm(n)' /\ (Calm(m) => Calm(m)')
  <2>1. Calm(n)'
    BY <1>4, OutCalm
  <2>2. Calm(m) => Calm(m)'
    BY <1>4 DEF Calm
  <2> QED BY <2>1, <2>2
<1>8. ~untold' => Opened'
  BY <1>2, <1>4, <1>7, CalmOpened
<1> QED BY <1>1, <1>2, <1>3, <1>4, <1>6, <1>8

(* Then, n has read the message x and says what it now has.                *)
LEMMA HearsKeeps ==
  ASSUME Lossless, up, NEW n, NEW m, Pair(n, m), NEW s, NEW F, Speaks(n, m, s, F), NEW x,
         MessagesTo(n) = MessagesTo(n)' \cup {x}, docs'[n] # {},
         s.theirHeads = x.heads, ~s.inFlight,
         Taken(n), Head(wires[n]).type = "SEND_DELTA"
  PROVE  Lossless'
<1> USE DEF Lossless
<1>1. n \in Replicas /\ m \in Replicas /\ \A y \in Replicas : y = n \/ y = m
  BY DEF Pair
<1>2. SyncTypes' /\ Ordered' /\ up' /\ (~untold' => ~untold)
  BY SpeaksTypes DEF Speaks
<1>3. Grounded(n)' /\ Grounded(m)'
  BY <1>1, SpeaksGrounds
<1>4. /\ Given(n, m, F) /\ Out(docs'[n], D!Heads(docs[n])', s, sync'[n], F)
      /\ docs'[m] = docs[m] /\ docs[n] \subseteq docs'[n] /\ sync'[m] = sync[m]
      /\ started' = started /\ D!Heads(docs[m])' = D!Heads(docs[m])
      /\ s.theirHeads \subseteq docs[m]
  BY DEF Speaks
<1>5. MessagesTo(m)' = MessagesTo(m) \cup MessagesOf(F)
  BY <1>4, GivenFrames
<1>6. ToldHeads(n)' /\ ToldHeads(m)' /\ SomeoneAnswers'
  <2>1. CASE sync'[n] = s /\ MessagesOf(F) = {} /\ Silent(s, D!Heads(docs[n])')
    <3>1. MessagesTo(m)' = MessagesTo(m)
      BY <1>5, <2>1
    <3> QED BY <1>1, <1>4, <2>1, <3>1, HeardTells
  <2>2. ASSUME NEW y, Says(s, sync'[n], y, D!Heads(docs[n])'), MessagesOf(F) = {y}
        PROVE  ToldHeads(n)' /\ ToldHeads(m)' /\ SomeoneAnswers'
    BY <1>4, <2>2, SaysTells
  <2> QED BY <1>4, <2>1, <2>2 DEF Out
<1>7. Calm(n)' /\ (Calm(m) => Calm(m)')
  <2>1. Calm(n)'
    BY <1>4, OutCalm
  <2>2. Calm(m) => Calm(m)'
    BY <1>4 DEF Calm
  <2> QED BY <2>1, <2>2
<1>8. ~untold' => Opened'
  BY <1>2, <1>4, <1>7, CalmOpened
<1> QED BY <1>1, <1>2, <1>3, <1>4, <1>6, <1>8

(* Then, n reads or sends what no document depends on.                     *)
LEMMA SameKeeps ==
  ASSUME Lossless, up, NEW n, NEW m, Pair(n, m), NEW F, Given(n, m, F),
         deps' = deps, docs' = docs, sync' = sync, queue' = queue, started' = started,
         up' = up, untold' = untold,
         wires'[n] \in Seq(Frame), MessagesTo(n)' = MessagesTo(n), MessagesTo(m)' = MessagesTo(m),
         \/ wires'[n] = wires[n]
         \/ /\ Taken(n) /\ Head(wires[n]) # D!Matched(FALSE)
            /\ Head(wires[n]).type = "ROOT_SYNC" => Head(wires[n]).root = docs[n]
  PROVE  Lossless'
<1> USE DEF Lossless
<1>1. n \in Replicas /\ m \in Replicas /\ \A x \in Replicas : x = n \/ x = m
  BY DEF Pair
<1>2. SyncTypes'
  <2>1. \A k \in Replicas : wires'[k] \in Seq(Frame) /\ late'[k] \in Seq(Frame)
    BY <1>1 DEF Given, SyncTypes
  <2>2. wires' = [k \in Replicas |-> wires'[k]] /\ late' = [k \in Replicas |-> late'[k]]
    BY DEF Given
  <2>3. wires' \in [Replicas -> Seq(Frame)] /\ late' \in [Replicas -> Seq(Frame)]
    BY <2>1, <2>2
  <2> QED BY <2>3 DEF SyncTypes
<1>3. Ordered'
  BY DEF Ordered, Made
<1>4. Grounded(n)' /\ Grounded(m)'
  BY <1>1 DEF Grounded, Whole, Made, Knows, Sound
<1>5. ToldHeads(n)' /\ ToldHeads(m)' /\ SomeoneAnswers'
  BY <1>1, UnsaidTells
<1>6. ~untold' => Opened'
  BY <1>1, SameOpened
<1> QED BY <1>1, <1>2, <1>3, <1>4, <1>5, <1>6
-----------------------------------------------------------------------------
(* A new change is on top of the document it was made in, and no other     *)
(* document is concerned.                                                  *)
LEMMA Extended ==
  ASSUME SyncTypes, Ordered, NEW n, NEW m, Pair(n, m), Whole(docs[n]), Whole(docs[m]),
         NEW c \in D!Changes, D!extended(n, c)
  PROVE  /\ deps' \in [D!Changes -> SUBSET D!Changes] /\ Ordered'
         /\ docs' \in [Replicas -> SUBSET D!Changes] /\ docs'[m] = docs[m]
         /\ docs'[n] = docs[n] \cup {D!Genesis, c}
         /\ Whole(docs[n])' /\ Whole(docs[m])'
         /\ D!Heads(docs[n])' = {c} /\ D!Heads(docs[m])' = D!Heads(docs[m])
<1>0. D!Genesis \in D!Changes /\ D!Changes \subseteq Nat /\ D!Genesis \in Made
  BY TwoReplicas DEF D!Changes, D!Genesis, Made
<1>1. /\ c # D!Genesis /\ c \notin Made
      /\ deps' \in [D!Changes -> SUBSET D!Changes]
      /\ deps'[c] = docs[n] \cup {D!Genesis}
      /\ \A b \in D!Changes : b # c => deps'[b] = deps[b]
      /\ \A b \in D!Changes : b < c => b \in Made
  BY <1>0 DEF D!extended, Made, SyncTypes, Pair
<1>2. /\ docs' \in [Replicas -> SUBSET D!Changes] /\ docs'[m] = docs[m]
      /\ docs'[n] = docs[n] \cup {D!Genesis, c}
  BY <1>0 DEF D!extended, SyncTypes, Pair
<1>3. Made' = Made \cup {c}
  BY <1>0, <1>1 DEF Made
<1>4. docs[n] \subseteq Made /\ docs[m] \subseteq Made
  BY DEF Whole
<1>5. \A b \in Made : b \in D!Changes /\ b # c /\ deps'[b] = deps[b]
  BY <1>1 DEF Made
<1>6. \A b \in Made : b < c
  <2>1. ASSUME NEW b \in Made, c < b PROVE FALSE
    BY <1>0, <1>1, <1>5, <2>1 DEF Ordered
  <2>2. ASSUME NEW b \in Made PROVE b < c
    <3>1. b \in Nat /\ c \in Nat /\ b # c
      BY <1>0, <1>5
    <3>2. ~(c < b)
      BY <2>1
    <3> QED BY <3>1, <3>2
  <2> QED BY <2>2
<1>7. Ordered'
  <2>1. deps'[D!Genesis] = {}
    BY <1>0, <1>5 DEF Ordered
  <2>2. ASSUME NEW d \in D!Changes, NEW b \in D!Changes, b \in deps'[d]
        PROVE  b < d /\ b \in Made' /\ deps'[b] \subseteq deps'[d]
    <3>1. CASE d = c
      <4>1. b \in Made /\ (b \in docs[n] \/ b = D!Genesis)
        BY <1>0, <1>1, <1>4, <2>2, <3>1
      <4>2. deps[b] \subseteq docs[n]
        BY <4>1 DEF Ordered, Whole
      <4> QED BY <1>1, <1>3, <1>5, <1>6, <3>1, <4>1, <4>2
    <3>2. CASE d # c
      <4>1. b \in deps[d]
        BY <1>1, <2>2, <3>2
      <4>2. b < d /\ b \in Made /\ deps[b] \subseteq deps[d]
        BY <4>1 DEF Ordered
      <4> QED BY <1>1, <1>3, <1>5, <3>2, <4>2
    <3> QED BY <3>1, <3>2
  <2>3. ASSUME NEW d \in D!Changes, NEW b \in D!Changes, b < d, d \in Made' PROVE b \in Made'
    <3>1. CASE d = c
      BY <1>1, <1>3, <2>3, <3>1
    <3>2. CASE d \in Made
      BY <1>3, <2>3, <3>2 DEF Ordered
    <3> QED BY <1>3, <2>3, <3>1, <3>2
  <2> QED BY <2>1, <2>2, <2>3 DEF Ordered
<1>8. Whole(docs[m])' /\ D!Heads(docs[m])' = D!Heads(docs[m])
  <2>1. \A b \in docs[m] : deps'[b] = deps[b]
    BY <1>4, <1>5
  <2> QED BY <1>2, <1>3, <1>4, <2>1 DEF Whole, D!Heads
<1>9. Whole(docs[n])'
  <2>1. ASSUME NEW b \in docs'[n] PROVE b \in Made' /\ deps'[b] \subseteq docs'[n]
    <3>1. CASE b \in docs[n]
      BY <1>2, <1>3, <1>4, <1>5, <3>1 DEF Whole
    <3>2. CASE b = D!Genesis
      BY <1>0, <1>3, <1>5, <3>2 DEF Ordered
    <3>3. CASE b = c
      BY <1>1, <1>2, <1>3, <3>3
    <3> QED BY <1>2, <2>1, <3>1, <3>2, <3>3
  <2> QED BY <2>1 DEF Whole
<1>10. D!Heads(docs[n])' = {c}
  <2>1. ASSUME NEW b \in docs'[n] PROVE c \notin deps'[b]
    <3>1. CASE b \in Made
      <4>1. b \in D!Changes /\ deps'[b] = deps[b] /\ \A a \in deps[b] : a \in D!Changes
        BY <1>5, <3>1 DEF SyncTypes
      <4> QED BY <1>1, <3>1, <4>1 DEF Ordered
    <3>2. CASE b = c
      BY <1>1, <1>4, <3>2
    <3> QED BY <1>0, <1>2, <1>4, <2>1, <3>1, <3>2
  <2>2. ASSUME NEW b \in docs'[n], b # c PROVE b \in deps'[c]
    BY <1>1, <1>2, <2>2
  <2>3. c \in docs'[n]
    BY <1>2
  <2> QED BY <2>1, <2>2, <2>3 DEF D!Heads
<1> QED BY <1>1, <1>2, <1>7, <1>8, <1>9, <1>10
-----------------------------------------------------------------------------
(* The actions, one by one.                                                *)
LEMMA ConnectedWhenHeard ==
  ASSUME Lossless, NEW n \in Replicas, wires[n] # <<>> \/ late[n] # <<>>
  PROVE  up
BY DEF Lossless, Idle

(* A change that the other is not told of.                                 *)
LEMMA UnpushedKeeps ==
  ASSUME Lossless, NEW n \in Replicas, NEW c \in D!Changes, D!extended(n, c),
         queue' = queue, sync' = sync, wires' = wires, late' = late, up' = up,
         started' = started, untold' \in BOOLEAN, up => untold'
  PROVE  Lossless'
<1> USE DEF Lossless
<1> DEFINE m == D!Other(n)
<1>0. Pair(n, m) /\ m \in Replicas /\ \A x \in Replicas : x = n \/ x = m
  BY APair, OneOther
<1> HIDE DEF m
<1>1. /\ queue' = queue /\ sync' = sync /\ wires' = wires /\ late' = late /\ up' = up
      /\ started' = started
  OBVIOUS
<1>2. /\ deps' \in [D!Changes -> SUBSET D!Changes] /\ Ordered'
      /\ docs' \in [Replicas -> SUBSET D!Changes] /\ docs'[m] = docs[m]
      /\ docs'[n] = docs[n] \cup {D!Genesis, c}
      /\ Whole(docs[n])' /\ Whole(docs[m])'
  BY <1>0, <1>1, Extended DEF Grounded
<1>3. SyncTypes'
  BY <1>1, <1>2 DEF SyncTypes
<1>4. n = D!Other(m) /\ m = D!Other(n)
  BY <1>0 DEF Pair
<1>5. Grounded(n)' /\ Grounded(m)'
  <2>1. /\ \A x \in MessagesTo(n) : Sound(n, x)' \/ ~Sound(n, x)
        /\ \A x \in MessagesTo(m) : Sound(m, x)' \/ ~Sound(m, x)
    BY <1>2, <1>4 DEF Sound
  <2>2. MessagesTo(n)' = MessagesTo(n) /\ MessagesTo(m)' = MessagesTo(m)
    BY <1>1 DEF MessagesTo, FramesTo, MessagesOf
  <2>3. (\A x \in MessagesTo(n) : Sound(n, x))' /\ (\A x \in MessagesTo(m) : Sound(m, x))'
    BY <1>0, <2>1, <2>2 DEF Grounded
  <2>4. Knows(n, sync[n])' /\ Knows(m, sync[m])'
    BY <1>0, <1>1, <1>2, <1>4 DEF Grounded, Knows
  <2>5. queue'[n] \subseteq docs'[m] /\ queue'[m] \subseteq docs'[n]
        /\ sync'[n].lastSent \subseteq docs'[n] /\ sync'[m].lastSent \subseteq docs'[m]
    BY <1>0, <1>1, <1>2, <1>4 DEF Grounded
  <2> QED BY <1>2, <1>4, <2>3, <2>4, <2>5 DEF Grounded
<1>6. ToldHeads(n)' /\ ToldHeads(m)' /\ SomeoneAnswers'
  <2>1. MessagesTo(n)' = MessagesTo(n) /\ MessagesTo(m)' = MessagesTo(m)
    BY <1>1 DEF MessagesTo, FramesTo, MessagesOf
  <2> QED BY <1>0, <1>1, <1>2, <2>1, UnsaidTells
<1>7. ~up' => Idle'
  BY <1>1 DEF Idle
<1> QED BY <1>0, <1>1, <1>2, <1>3, <1>5, <1>6, <1>7

LEMMA CreateChannelKeeps ==
  ASSUME Lossless, NEW n \in Replicas, NEW c \in D!Changes, D!CreateChannel(n, c)
  PROVE  Lossless'
<1>1. /\ D!extended(n, c) /\ untold' = (untold \/ up)
      /\ queue' = queue /\ sync' = sync /\ wires' = wires /\ late' = late /\ up' = up
      /\ started' = started
  BY DEF D!CreateChannel, D!links
<1>2. untold' \in BOOLEAN /\ (up => untold')
  BY <1>1
<1> QED BY <1>1, <1>2, UnpushedKeeps

LEMMA RecordKeeps ==
  ASSUME Lossless, NEW n \in Replicas, NEW c \in D!Changes, D!Record(n, c)
  PROVE  Lossless'
<1> DEFINE m == D!Other(n)
<1>0. Pair(n, m) /\ Pair(m, n) /\ m \in Replicas /\ \A x \in Replicas : x = n \/ x = m
  BY APair, OneOther
<1> HIDE DEF m
<1>1. /\ D!extended(n, c) /\ D!pushDocument(n, docs[n] \cup {D!Genesis, c}, {c})
      /\ queue' = queue /\ late' = late /\ up' = up /\ untold' = untold
      /\ started' = started
  BY DEF D!Record, D!links, D!seen
<1>2. /\ deps' \in [D!Changes -> SUBSET D!Changes] /\ Ordered'
      /\ docs' \in [Replicas -> SUBSET D!Changes] /\ docs'[m] = docs[m]
      /\ docs'[n] = docs[n] \cup {D!Genesis, c}
      /\ Whole(docs[n])' /\ Whole(docs[m])'
      /\ D!Heads(docs[n])' = {c} /\ D!Heads(docs[m])' = D!Heads(docs[m])
  BY <1>0, <1>1, Extended DEF Grounded, Lossless
<1>3. CASE up
  <2>1. PICK g : /\ g = D!generateFor(docs'[n], {c}, queue[n], sync[n])
                 /\ sync' = [sync EXCEPT ![n] = g.state] /\ D!sends(n, g.frames)
    BY <1>1, <1>2, <1>3 DEF D!pushDocument
  <2>2. Generates(n, docs'[n], {c}, queue[n], sync[n], g)
    <3>1. docs'[n] \in SUBSET D!Changes /\ queue[n] \in SUBSET D!Changes /\ sync[n] \in State
      BY <1>0, <1>2 DEF Lossless, SyncTypes
    <3>2. \A h \in sync[n].theirHave : h.lastSync \subseteq docs'[n]
      BY <1>0, <1>2 DEF Lossless, Grounded, Knows
    <3> QED BY <2>1, <3>1, <3>2 DEF Generates
  <2>3. /\ wires'[n] = wires[n] /\ sync' \in [Replicas -> State] /\ sync'[m] = sync[m]
        /\ \E F : Given(n, m, F) /\ Out(docs'[n], {c}, sync[n], sync'[n], F)
    BY <1>0, <1>1, <1>3, <2>1, <2>2, Pushes DEF Lossless
  <2>4. PICK F : Given(n, m, F) /\ Out(docs'[n], {c}, sync[n], sync'[n], F)
    BY <2>3
  <2>5. MessagesTo(n)' = MessagesTo(n)
    BY <1>0, <2>3, <2>4, KeptFrames
  <2>6. Speaks(n, m, sync[n], F)
    <3>1. /\ sync[n] \in State /\ sync[n].theirHeads \subseteq docs[m]
          /\ sync[n].shared \subseteq docs[m]
          /\ sync[n].lastSent \subseteq docs'[n]
          /\ \A h \in sync[n].theirHave : h.lastSync \subseteq docs'[n]
          /\ queue[n] \subseteq docs[m] /\ queue \in [Replicas -> SUBSET D!Changes]
          /\ wires[n] \in Seq(Frame)
      BY <1>0, <1>2 DEF Lossless, Grounded, Knows, SyncTypes, m
    <3> QED BY <1>1, <1>2, <2>3, <2>4, <2>5, <3>1 DEF Speaks
  <2> QED BY <1>0, <1>3, <2>3, <2>5, <2>6, SpeaksKeeps
<1>4. CASE ~up
  <2>1. sync' = sync /\ wires' = wires
    BY <1>1, <1>4 DEF D!pushDocument
  <2>2. untold' \in BOOLEAN
    BY <1>1 DEF Lossless, SyncTypes
  <2> QED BY <1>1, <1>4, <2>1, <2>2, UnpushedKeeps
<1> QED BY <1>3, <1>4

(* A step that changes nothing of it.                                      *)
LEMMA RestKeeps ==
  ASSUME Lossless, deps' = deps, docs' = docs, queue' = queue, sync' = sync, wires' = wires,
         late' = late, up' = up, untold' = untold, started' = started
  PROVE  Lossless'
<1>1. SyncTypes' /\ Ordered' /\ SomeoneAnswers'
  BY DEF Lossless, SyncTypes, Ordered, Made, SomeoneAnswers, MessagesTo, MessagesOf,
     FramesTo
<1>2. \A k \in Replicas : started'[k] /\ Grounded(k)' /\ ToldHeads(k)'
  BY DEF Lossless, Grounded, Whole, Made, Knows, Sound, ToldHeads, MessagesTo, MessagesOf,
     FramesTo
<1>3. ~up' => Idle'
  BY DEF Lossless, Idle
<1>4. Opened => Opened'
  <2>1. \A k : Calm(k)' <=> Calm(k)
    BY DEF Calm, Silent, D!Heads
  <2>2. \A n, m, r : Asked(n, m, r) => Asked(n, m, r)'
    BY <2>1 DEF Asked
  <2>3. \A n, m : Answered(n, m) => Answered(n, m)'
    BY <2>1 DEF Answered
  <2>4. \A r : Settled(r) => Settled(r)'
    BY <2>1 DEF Settled
  <2> QED BY <2>2, <2>3, <2>4 DEF Opened
<1> QED BY <1>1, <1>2, <1>3, <1>4 DEF Lossless

LEMMA CheckpointKeeps ==
  ASSUME Lossless, NEW n \in Replicas, D!Checkpoint(n)
  PROVE  Lossless'
BY RestKeeps DEF D!Checkpoint, D!links, D!seen

(* A step of n in which no document changes, and no change is made.        *)
LEMMA SameDocuments ==
  ASSUME Lossless, NEW n, NEW m, Pair(n, m), NEW F,
         deps' = deps, docs' = docs, queue' = queue, started' = started, up' = up,
         untold' = untold, sync' \in [Replicas -> State], sync'[m] = sync[m],
         Given(n, m, F), Out(docs[n], D!Heads(docs[n]), sync[n], sync'[n], F),
         wires'[n] \in Seq(Frame), MessagesTo(n)' = MessagesTo(n)
  PROVE  Speaks(n, m, sync[n], F)
<1> USE DEF Lossless
<1>1. n \in Replicas /\ m \in Replicas /\ m = D!Other(n)
  BY DEF Pair
<1>2. /\ D!Heads(docs[n])' = D!Heads(docs[n]) /\ D!Heads(docs[m])' = D!Heads(docs[m])
      /\ Whole(docs[n])' /\ Whole(docs[m])'
  BY <1>1 DEF D!Heads, Grounded, Whole, Made
<1>3. deps' \in [D!Changes -> SUBSET D!Changes] /\ Ordered'
  BY DEF SyncTypes, Ordered, Made
<1>4. /\ sync[n] \in State /\ sync[n].theirHeads \subseteq docs[m]
      /\ sync[n].shared \subseteq docs[m] /\ sync[n].lastSent \subseteq docs[n]
      /\ \A h \in sync[n].theirHave : h.lastSync \subseteq docs[n]
      /\ queue[n] \subseteq docs[m] /\ docs \in [Replicas -> SUBSET D!Changes]
      /\ queue \in [Replicas -> SUBSET D!Changes]
  BY <1>1 DEF SyncTypes, Grounded, Knows
<1> QED BY <1>2, <1>3, <1>4 DEF Speaks

LEMMA ConnectKeeps ==
  ASSUME Lossless, NEW n \in Replicas, D!Connect(n)
  PROVE  Lossless'
<1> USE DEF Lossless
<1> DEFINE m == D!Other(n)
<1>0. Pair(n, m) /\ m \in Replicas /\ n = D!Other(m) /\ \A x \in Replicas : x = n \/ x = m
  BY APair, OneOther
<1>p. PICK r \in SUBSET D!Changes : r = docs[n]
  BY DEF SyncTypes
<1>r. D!Root(r) \in Frame /\ MessagesOf({D!Root(r)}) = {}
  BY RootFrame
<1> HIDE DEF m
<1>1. /\ ~up /\ up' = TRUE /\ untold' = FALSE /\ started' = started
      /\ deps' = deps /\ docs' = docs /\ queue' = queue /\ sync' = sync /\ late' = late
      /\ wires' = [wires EXCEPT ![m] = <<D!Root(r)>>]
  BY <1>p DEF D!Connect, m
<1>2. /\ wires[n] = <<>> /\ wires[m] = <<>> /\ late[n] = <<>> /\ late[m] = <<>>
      /\ wires'[m] = <<D!Root(r)>> /\ wires'[n] = <<>> /\ late'[n] = <<>> /\ late'[m] = <<>>
  BY <1>0, <1>1 DEF Idle, SyncTypes, Pair
<1>3. /\ <<D!Root(r)>> \in Seq(Frame) /\ <<D!Root(r)>> # <<>> /\ Head(<<D!Root(r)>>) = D!Root(r)
      /\ Range(<<D!Root(r)>>) = {D!Root(r)}
  BY <1>r, Single
<1>4. SyncTypes' /\ Ordered'
  BY <1>1, <1>3 DEF SyncTypes, Ordered, Made
<1>5. MessagesTo(n) = {} /\ MessagesTo(m) = {} /\ MessagesTo(n)' = {} /\ MessagesTo(m)' = {}
  <2>0. n = D!Other(m) /\ m = D!Other(n) /\ Range(<<>>) = {}
    BY <1>0, NoFrames DEF Pair
  <2>1. FramesTo(n) = {} /\ FramesTo(m) = {}
    BY <1>2, <2>0 DEF FramesTo
  <2>2. FramesTo(n)' = {}
    BY <1>2, <2>0 DEF FramesTo
  <2>3. FramesTo(m)' = {D!Root(r)}
    <3>1. Range(wires'[m]) = {D!Root(r)} /\ Range(late'[n]) = {}
      BY <1>2, <1>3, <2>0
    <3> QED BY <2>0, <3>1 DEF FramesTo
  <2> QED BY <1>r, <2>1, <2>2, <2>3, NoMessages DEF MessagesTo
<1>6. Grounded(n)' /\ Grounded(m)'
  BY <1>0, <1>1, <1>5 DEF Grounded, Whole, Made, Knows
<1>7. ToldHeads(n)' /\ ToldHeads(m)' /\ SomeoneAnswers'
  BY <1>0, <1>1, <1>5, UnsaidTells
<1>8. Opened'
  <2>1. sync[m].theirHeads \subseteq r
    BY <1>0, <1>p DEF Grounded, Knows
  <2>2. Asked(n, m, r)'
    BY <1>1, <1>2, <1>3, <1>p, <2>1 DEF Asked
  <2>3. Asked(n, D!Other(n), r)'
    BY <2>2 DEF m
  <2> QED BY <2>3 DEF Opened
<1> QED BY <1>0, <1>1, <1>4, <1>6, <1>7, <1>8

LEMMA DisconnectKeeps ==
  ASSUME Lossless, ~lost', D!Disconnect
  PROVE  Lossless'
<1> USE DEF Lossless
<1>1. /\ up' = FALSE /\ started' = started /\ untold' = untold
      /\ deps' = deps /\ docs' = docs /\ queue' = queue /\ sync' = sync
      /\ wires' = [n \in Replicas |-> <<>>] /\ late' = [n \in Replicas |-> <<>>]
      /\ \A n \in Replicas : wires[n] = <<>> /\ late[n] = <<>>
  BY DEF D!Disconnect
<1>2. SyncTypes' /\ Ordered' /\ Idle'
  BY <1>1, NoFrames DEF SyncTypes, Ordered, Made, Idle
<1>3. \A n \in Replicas : MessagesTo(n) = {} /\ MessagesTo(n)' = {}
  <2>1. \A n \in Replicas : FramesTo(n) = {} /\ FramesTo(n)' = {}
    BY <1>1, OneOther, NoFrames DEF FramesTo
  <2> QED BY <2>1, NoMessages DEF MessagesTo
<1>4. ASSUME NEW n \in Replicas PROVE Grounded(n)' /\ ToldHeads(n)' /\ SomeoneAnswers'
  <2>1. Grounded(n)'
    BY <1>1, <1>3 DEF Grounded, Whole, Made, Knows
  <2>2. Pair(n, D!Other(n)) /\ D!Other(n) \in Replicas
    BY APair, OneOther
  <2> QED BY <1>1, <1>3, <2>1, <2>2, UnsaidTells
<1>5. Replicas # {}
  BY TwoReplicas
<1> QED BY <1>1, <1>2, <1>4, <1>5

LEMMA ContinueKeeps ==
  ASSUME Lossless, NEW n \in Replicas, D!Continue(n)
  PROVE  Lossless'
<1> USE DEF Lossless
<1> DEFINE m == D!Other(n)
           f == Head(late[n])
<1>0. Pair(n, m) /\ m \in Replicas /\ n = D!Other(m) /\ m # n /\ up
  BY APair, OneOther, ConnectedWhenHeard DEF D!Continue
<1> HIDE DEF m
<1>1. /\ deps' = deps /\ docs' = docs /\ sync' = sync /\ queue' = queue /\ started' = started
      /\ up' = up /\ untold' = untold /\ late[n] # <<>>
      /\ late' = [late EXCEPT ![n] = Tail(@)]
      /\ wires' = [wires EXCEPT ![m] = @ \o <<f>>]
  BY <1>0 DEF D!Continue, D!links, D!seen, D!sends, m
<1>2. wires[m] \in Seq(Frame) /\ wires[n] \in Seq(Frame) /\ late[n] \in Seq(Frame)
  BY <1>0 DEF SyncTypes
<1>3. f \in Frame /\ Tail(late[n]) \in Seq(Frame) /\ Range(late[n]) = {f} \cup Range(Tail(late[n]))
  BY <1>1, <1>2, Read, RangeOfSeq
<1> HIDE DEF f
<1>4. /\ wires'[m] = Append(wires[m], f) /\ wires'[n] = wires[n] /\ late'[n] = Tail(late[n])
      /\ late'[m] = late[m] /\ wires' = [k \in Replicas |-> wires'[k]]
      /\ late' = [k \in Replicas |-> late'[k]]
  BY <1>0, <1>1, <1>2, <1>3, AppendIsConcat DEF SyncTypes
<1>5. /\ wires'[m] \in Seq(Frame) /\ Range(wires'[m]) = Range(wires[m]) \cup {f}
      /\ wires'[m] # <<>> /\ (wires[m] # <<>> => Head(wires'[m]) = Head(wires[m]))
  BY <1>2, <1>3, <1>4, Added
<1>6. Range(wires'[m]) \cup Range(late'[n]) = Range(wires[m]) \cup Range(late[n]) \cup {}
  BY <1>3, <1>4, <1>5
<1>7. Given(n, m, {})
  BY <1>3, <1>4, <1>5, <1>6 DEF Given
<1>8. MessagesTo(m)' = MessagesTo(m) /\ MessagesTo(n)' = MessagesTo(n)
  <2>1. MessagesTo(m)' = MessagesTo(m) \cup MessagesOf({})
    BY <1>0, <1>7, GivenFrames
  <2>2. MessagesTo(n)' = MessagesTo(n)
    BY <1>0, <1>4, <1>7, KeptFrames
  <2> QED BY <2>1, <2>2, NoMessages
<1> QED BY <1>0, <1>1, <1>2, <1>4, <1>7, <1>8, SameKeeps

LEMMA HearRootKeeps ==
  ASSUME Lossless, NEW n \in Replicas, D!HearRoot(n)
  PROVE  Lossless'
<1> USE DEF Lossless
<1> DEFINE m == D!Other(n)
           root == Head(wires[n]).root
<1>0. Pair(n, m) /\ Pair(m, n) /\ m \in Replicas /\ n = D!Other(m) /\ up
  BY APair, OneOther, ConnectedWhenHeard DEF D!HearRoot, D!Receives
<1> HIDE DEF m
<1>1. /\ deps' = deps /\ docs' = docs /\ queue' = queue /\ started' = started
      /\ up' = up /\ untold' = untold /\ wires[n] # <<>> /\ Head(wires[n]).type = "ROOT_SYNC"
      /\ D!rootReply(n, root)
  BY DEF D!HearRoot, D!Receives, D!links, D!seen
<1>2. Head(wires[n]) # D!Matched(FALSE) /\ MessagesOf({Head(wires[n])}) = {}
  BY <1>1 DEF D!Matched, MessagesOf
<1>3. CASE root = docs[n]
  <2>1. D!replies(n, <<D!Matched(TRUE)>>) /\ sync' = sync
    BY <1>1, <1>3 DEF D!rootReply
  <2>2. D!Matched(TRUE) \in Frame /\ MessagesOf({} \cup {D!Matched(TRUE)}) = MessagesOf({})
    BY MatchFrame
  <2>3. Given(n, m, {D!Matched(TRUE)}) /\ Taken(n)
    BY <1>0, <1>1, <2>1, <2>2, RepliedOne
  <2>4. MessagesTo(m)' = MessagesTo(m) /\ MessagesTo(n)' = MessagesTo(n) /\ wires'[n] \in Seq(Frame)
    <3>1. MessagesOf({D!Matched(TRUE)}) = {}
      BY <2>2, NoMessages
    <3>2. MessagesTo(m)' = MessagesTo(m) \cup MessagesOf({D!Matched(TRUE)})
      BY <1>0, <2>3, GivenFrames
    <3>3. /\ MessagesTo(n) = MessagesTo(n)' \cup MessagesOf({Head(wires[n])})
          /\ wires'[n] \in Seq(Frame)
      BY <1>0, <2>3, TakenFrames
    <3> QED BY <1>2, <3>1, <3>2, <3>3
  <2> QED BY <1>0, <1>1, <1>2, <1>3, <2>1, <2>3, <2>4, SameKeeps
<1>4. CASE root # docs[n]
  <2>1. PICK g : /\ g = D!generateFor(docs[n], D!Heads(docs[n]), queue[n], sync[n])
                 /\ sync' = [sync EXCEPT ![n] = g.state]
                 /\ D!replies(n, <<D!Matched(FALSE)>> \o g.frames)
    BY <1>1, <1>4 DEF D!rootReply
  <2>2. Generates(n, docs[n], D!Heads(docs[n]), queue[n], sync[n], g)
    <3>1. docs[n] \in SUBSET D!Changes /\ queue[n] \in SUBSET D!Changes /\ sync[n] \in State
      BY DEF SyncTypes
    <3>2. D!Heads(docs[n]) \in SUBSET D!Changes
      BY <3>1, HeadsWithin
    <3>3. \A h \in sync[n].theirHave : h.lastSync \subseteq docs[n]
      BY DEF Grounded, Knows
    <3> QED BY <2>1, <3>1, <3>2, <3>3 DEF Generates
  <2>3. /\ Taken(n) /\ sync' \in [Replicas -> State] /\ sync'[m] = sync[m]
        /\ D!Matched(FALSE) \in Range(wires'[m])
        /\ \E F : Given(n, m, F) /\ Out(docs[n], D!Heads(docs[n]), sync[n], sync'[n], F)
    BY <1>0, <1>1, <2>1, <2>2, AnswersBehind
  <2>4. PICK F : Given(n, m, F) /\ Out(docs[n], D!Heads(docs[n]), sync[n], sync'[n], F)
    BY <2>3
  <2>5. MessagesTo(n)' = MessagesTo(n) /\ wires'[n] \in Seq(Frame)
    BY <1>0, <1>2, <2>3, <2>4, TakenFrames
  <2>6. Speaks(n, m, sync[n], F)
    BY <1>0, <1>1, <2>3, <2>4, <2>5, SameDocuments
  <2> QED BY <1>0, <2>3, <2>5, <2>6, SpeaksKeeps
<1> QED BY <1>3, <1>4

LEMMA HearMatchKeeps ==
  ASSUME Lossless, NEW n \in Replicas, D!HearMatch(n)
  PROVE  Lossless'
<1> USE DEF Lossless
<1> DEFINE m == D!Other(n)
<1>0. Pair(n, m) /\ Pair(m, n) /\ m \in Replicas /\ n = D!Other(m) /\ up
  BY APair, OneOther, ConnectedWhenHeard DEF D!HearMatch, D!Receives
<1> HIDE DEF m
<1>1. /\ deps' = deps /\ docs' = docs /\ queue' = queue /\ started' = started
      /\ up' = up /\ untold' = untold /\ wires[n] # <<>> /\ Head(wires[n]).type = "ROOT_MATCH"
  BY DEF D!HearMatch, D!Receives, D!links, D!seen
<1>2. Head(wires[n]).type # "ROOT_SYNC" /\ MessagesOf({Head(wires[n])}) = {}
  BY <1>1 DEF MessagesOf
<1>3. CASE Head(wires[n]).matched
  <2>1. D!replies(n, <<>>) /\ sync' = sync
    BY <1>3 DEF D!HearMatch
  <2>2. Given(n, m, {}) /\ Taken(n)
    BY <1>0, <1>1, <2>1, RepliedNone
  <2>3. MessagesTo(m)' = MessagesTo(m) /\ MessagesTo(n)' = MessagesTo(n) /\ wires'[n] \in Seq(Frame)
    <3>1. MessagesTo(m)' = MessagesTo(m) \cup MessagesOf({})
      BY <1>0, <2>2, GivenFrames
    <3>2. /\ MessagesTo(n) = MessagesTo(n)' \cup MessagesOf({Head(wires[n])})
          /\ wires'[n] \in Seq(Frame)
      BY <1>0, <2>2, TakenFrames
    <3> QED BY <1>2, <3>1, <3>2, NoMessages
  <2>4. Head(wires[n]) # D!Matched(FALSE)
    BY <1>3 DEF D!Matched
  <2> QED BY <1>0, <1>1, <1>2, <2>1, <2>2, <2>3, <2>4, SameKeeps
<1>4. CASE ~Head(wires[n]).matched
  <2>1. PICK g : /\ g = D!generateFor(docs[n], D!Heads(docs[n]), queue[n], sync[n])
                 /\ sync' = [sync EXCEPT ![n] = g.state] /\ D!replies(n, g.frames)
    BY <1>4 DEF D!HearMatch
  <2>2. Generates(n, docs[n], D!Heads(docs[n]), queue[n], sync[n], g)
    <3>1. docs[n] \in SUBSET D!Changes /\ queue[n] \in SUBSET D!Changes /\ sync[n] \in State
      BY DEF SyncTypes
    <3>2. D!Heads(docs[n]) \in SUBSET D!Changes
      BY <3>1, HeadsWithin
    <3>3. \A h \in sync[n].theirHave : h.lastSync \subseteq docs[n]
      BY DEF Grounded, Knows
    <3> QED BY <2>1, <3>1, <3>2, <3>3 DEF Generates
  <2>3. /\ Taken(n) /\ sync' \in [Replicas -> State] /\ sync'[m] = sync[m]
        /\ \E F : Given(n, m, F) /\ Out(docs[n], D!Heads(docs[n]), sync[n], sync'[n], F)
    BY <1>0, <1>1, <2>1, <2>2, Answers
  <2>4. PICK F : Given(n, m, F) /\ Out(docs[n], D!Heads(docs[n]), sync[n], sync'[n], F)
    BY <2>3
  <2>5. MessagesTo(n)' = MessagesTo(n) /\ wires'[n] \in Seq(Frame)
    BY <1>0, <1>2, <2>3, <2>4, TakenFrames
  <2>6. Speaks(n, m, sync[n], F)
    BY <1>0, <1>1, <2>3, <2>4, <2>5, SameDocuments
  <2> QED BY <1>0, <1>2, <2>3, <2>5, <2>6, SpeaksKeeps
<1> QED BY <1>3, <1>4

LEMMA HearDeltaKeeps ==
  ASSUME Lossless, NEW n \in Replicas, ~lost', D!HearDelta(n)
  PROVE  Lossless'
<1> USE DEF Lossless
<1> DEFINE m == D!Other(n)
           x == Head(wires[n]).message
<1>0. Pair(n, m) /\ Pair(m, n) /\ m \in Replicas /\ n = D!Other(m) /\ m # n /\ up
  BY APair, OneOther, ConnectedWhenHeard DEF D!HearDelta, D!Receives
<1> HIDE DEF m
<1>1. /\ deps' = deps /\ started' = started /\ up' = up /\ untold' = untold
      /\ wires[n] # <<>> /\ Head(wires[n]).type = "SEND_DELTA" /\ docs[n] # {}
  BY DEF D!HearDelta, D!Receives, D!links
<1>2. Head(wires[n]) \in Frame /\ Head(wires[n]) \in FramesTo(n)
  BY <1>1, Read, RangeOfSeq DEF SyncTypes, FramesTo
<1>3. x \in Message /\ x \in MessagesTo(n) /\ MessagesOf({Head(wires[n])}) = {x}
  BY <1>1, <1>2 DEF Frame, MessagesTo, MessagesOf
<1>4. Sound(n, x) /\ Grounded(n) /\ Grounded(m)
  BY <1>0, <1>3 DEF Grounded
<1> HIDE DEF x
<1>5. PICK r : /\ r = D!receive(docs[n], queue[n], sync[n], x)
               /\ docs' = [docs EXCEPT ![n] = r.doc] /\ queue' = [queue EXCEPT ![n] = r.queue]
               /\ D!answer(n, r)
  BY <1>1 DEF D!HearDelta, x
<1>6. PICK g : /\ g = D!generateFor(r.doc, D!Heads(r.doc), r.queue, r.state)
               /\ sync' = [sync EXCEPT ![n] = g.state] /\ D!replies(n, g.frames)
  BY <1>5 DEF D!answer
<1>7. /\ r.doc \in SUBSET D!Changes /\ Whole(r.doc) /\ docs[n] \subseteq r.doc
      /\ r.queue \in SUBSET D!Changes /\ r.queue \subseteq docs[m]
      /\ r.state \in State /\ ~r.state.inFlight /\ r.state.theirHeads = x.heads
      /\ r.state.shared \subseteq docs[m] /\ r.state.theirHave = x.have
      /\ r.state.lastSent \subseteq docs[n]
  BY <1>0, <1>3, <1>4, <1>5, Received
<1> HIDE <1>5
<1>8. /\ docs'[n] = r.doc /\ docs'[m] = docs[m] /\ docs' \in [Replicas -> SUBSET D!Changes]
      /\ queue'[n] = r.queue /\ queue'[m] = queue[m] /\ queue' \in [Replicas -> SUBSET D!Changes]
  BY <1>0, <1>5, <1>7 DEF SyncTypes
<1>9. x.heads \subseteq docs[m] /\ \A h \in r.state.theirHave : h.lastSync \subseteq docs[n]
  <2>1. x.heads \subseteq docs[D!Other(n)] /\ \A h \in x.have : h.lastSync \subseteq docs[n]
    BY <1>4 DEF Sound
  <2>2. m = D!Other(n) /\ r.state.theirHave = x.have
    BY <1>0, <1>7 DEF Pair
  <2> QED BY <2>1, <2>2
<1>10. \A d \in SUBSET D!Changes : D!Heads(d)' = D!Heads(d) /\ (Whole(d) => Whole(d)')
  BY <1>1 DEF D!Heads, Whole, Made
<1>11. Generates(n, r.doc, D!Heads(r.doc), r.queue, r.state, g)
  <2>1. D!Heads(r.doc) \in SUBSET D!Changes
    BY <1>7 DEF D!Heads
  <2> QED BY <1>6, <1>7, <1>9, <2>1 DEF Generates
<1>12. /\ Taken(n) /\ sync' \in [Replicas -> State] /\ sync'[m] = sync[m]
       /\ \E F : Given(n, m, F) /\ Out(r.doc, D!Heads(r.doc), r.state, sync'[n], F)
  BY <1>0, <1>1, <1>6, <1>11, Answers
<1>13. PICK F : Given(n, m, F) /\ Out(r.doc, D!Heads(r.doc), r.state, sync'[n], F)
  BY <1>12
<1>14. MessagesTo(n) = MessagesTo(n)' \cup {x} /\ wires'[n] \in Seq(Frame)
  BY <1>0, <1>3, <1>12, <1>13, TakenFrames
<1>15. Speaks(n, m, r.state, F)
  <2>1. Whole(docs[n])' /\ D!Heads(docs[n])' = D!Heads(r.doc)
    BY <1>1, <1>7, <1>8 DEF Whole, D!Heads, Made
  <2>2. Whole(docs[m])' /\ D!Heads(docs[m])' = D!Heads(docs[m])
    BY <1>1, <1>4, <1>8 DEF Grounded, Whole, D!Heads, Made
  <2>3. deps' \in [D!Changes -> SUBSET D!Changes] /\ Ordered'
    BY <1>1 DEF SyncTypes, Ordered, Made
  <2> QED BY <1>1, <1>7, <1>8, <1>9, <1>12, <1>13, <1>14, <2>1, <2>2, <2>3 DEF Speaks
<1>16. docs'[n] # {}
  BY <1>1, <1>7, <1>8
<1> QED BY <1>0, <1>1, <1>7, <1>12, <1>14, <1>15, <1>16, HearsKeeps
-----------------------------------------------------------------------------
LEMMA LosslessStep ==
  ASSUME Lossless, ~lost', [D!Next]_documents
  PROVE  Lossless'
<1>1. CASE D!Hear
  BY <1>1, HearRootKeeps, HearMatchKeeps, HearDeltaKeeps, ContinueKeeps DEF D!Hear
<1>2. CASE D!Disconnect
  BY <1>2, DisconnectKeeps
<1>3. ASSUME NEW n \in Replicas, D!Connect(n) PROVE Lossless'
  BY <1>3, ConnectKeeps
<1>4. ASSUME NEW n \in Replicas, D!Crash(n) PROVE FALSE
  BY <1>4 DEF D!Crash
<1>5. ASSUME NEW n \in Replicas, D!RestoreAll(n) PROVE FALSE
  BY <1>5 DEF D!RestoreAll, Lossless
<1>6. ASSUME NEW n \in Replicas, D!Checkpoint(n) PROVE Lossless'
  BY <1>6, CheckpointKeeps
<1>7. ASSUME NEW n \in Replicas, NEW c \in D!Changes, D!CreateChannel(n, c) \/ D!Record(n, c)
      PROVE  Lossless'
  BY <1>7, CreateChannelKeeps, RecordKeeps
<1>8. CASE UNCHANGED documents
  <2>1. /\ deps' = deps /\ docs' = docs /\ queue' = queue /\ sync' = sync /\ wires' = wires
        /\ late' = late /\ up' = up /\ untold' = untold /\ started' = started
    BY <1>8 DEF documents
  <2> QED BY <2>1, RestKeeps
<1> QED BY <1>1, <1>2, <1>3, <1>4, <1>5, <1>6, <1>7, <1>8 DEF D!Next

LEMMA LossLasts ==
  ASSUME [D!Next]_documents, ~lost'
  PROVE  ~lost
BY DEF D!Next, documents, D!seen, D!Hear, D!HearRoot, D!HearMatch, D!HearDelta, D!Continue,
       D!Disconnect, D!Connect, D!Crash, D!RestoreAll, D!Checkpoint, D!CreateChannel, D!Record

LEMMA LosslessInit ==
  ASSUME D!Init
  PROVE  Lossless
<1> USE DEF Lossless
<1>1. SyncTypes
  <2>1. D!Fresh \in State
    BY DEF D!Fresh, State
  <2> QED BY <2>1, NoFrames DEF D!Init, SyncTypes
<1>2. Idle /\ ~up
  BY DEF D!Init, Idle
<1>3. Ordered
  BY TwoReplicas DEF D!Init, Ordered, D!Changes, D!Genesis, Made
<1>4. \A n \in Replicas : MessagesTo(n) = {}
  BY <1>2, OneOther, NoFrames, NoMessages DEF Idle, MessagesTo, FramesTo
<1>5. ASSUME NEW n \in Replicas PROVE started[n] /\ Grounded(n) /\ ToldHeads(n)
  <2>1. D!Other(n) \in Replicas
    BY OneOther
  <2>2. /\ docs[n] = {} /\ queue[n] = {} /\ started[n] /\ sync[n] = D!Fresh /\ docs[D!Other(n)] = {}
    BY <2>1 DEF D!Init
  <2>3. /\ D!Fresh.theirHeads = {} /\ D!Fresh.shared = {} /\ D!Fresh.theirHave = {}
        /\ D!Fresh.lastSent = {} /\ ~D!Fresh.inFlight
    BY DEF D!Fresh
  <2> QED BY <1>4, <2>2, <2>3 DEF Grounded, Whole, Knows, ToldHeads
<1>6. SomeoneAnswers
  <2>1. \E n \in Replicas : ~sync[n].inFlight
    <3>1. Replicas # {}
      BY TwoReplicas
    <3> QED BY <3>1 DEF D!Init, D!Fresh
  <2> QED BY <2>1 DEF SomeoneAnswers
<1> QED BY <1>1, <1>2, <1>3, <1>5, <1>6

LEMMA DocumentsKeep ==
  ASSUME SyncIInv, [TrafficNext]_all
  PROVE  SyncIInv'
<1>1. [D!Next]_documents
  BY DEF TrafficNext, OnSlashing, OnDocuments, all
<1> QED BY <1>1, LosslessStep, LossLasts DEF SyncIInv

(* Two nodes between which nothing is under way, and no frame was lost,    *)
(* have the same document: however many changes were made on either side,  *)
(* whatever crossed, and however often they were connected (DocSync:       *)
(* sync-engine.ts handleRootSync(), handleRootMatch(), handleSendDelta()). *)
THEOREM ConvergedAlways == TrafficSpec => []Converged
<1>1. TrafficInit => SyncIInv
  BY LosslessInit DEF TrafficInit, SyncIInv
<1>2. SyncIInv /\ [TrafficNext]_all => SyncIInv'
  BY DocumentsKeep
<1>3. SyncIInv => Converged
  BY LosslessConverged DEF SyncIInv, Converged, D!Converged
<1> QED BY <1>1, <1>2, <1>3, PTL DEF TrafficSpec
=============================================================================
