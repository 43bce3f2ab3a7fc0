--------------------------- MODULE SessionsProofs ---------------------------
(***************************************************************************)
(* What two clients may learn of each other, for every pair of clients and *)
(* every set of connections: a profile is only ever sent to a client its   *)
(* author has paired (client.ts:677), and only ever read by one that has   *)
(* paired the author (session-manager.ts:452), so a client that holds one  *)
(* was paired both ways.                                                   *)
(*                                                                         *)
(* The handlers are functions of a record `s` that hand each other what    *)
(* they changed; the lemmas follow that chain once, function by function,  *)
(* and every action is then an instance of StepKeeps.                      *)
(***************************************************************************)
EXTENDS Sessions, FiniteSetTheorems, TLAPS

(* A connection connects two clients: each has one other.                  *)
LEMMA OneOther ==
  ASSUME NEW n \in Nodes
  PROVE  /\ Other(n) \in Nodes /\ Other(n) # n
         /\ \A m \in Nodes : m # n => m = Other(n) /\ Other(m) = n
<1>1. IsFiniteSet(Nodes) /\ Cardinality(Nodes) = 2
  BY SessionsAssumption
<1>2. ASSUME NEW x \in Nodes
      PROVE  \E y : Nodes \ {x} = {y}
  <2>1. IsFiniteSet(Nodes \ {x}) /\ Cardinality(Nodes \ {x}) = 2 - 1
    BY <1>1, <1>2, FS_RemoveElement
  <2>2. Cardinality(Nodes \ {x}) = 1
    BY <2>1
  <2> QED
    BY <2>1, <2>2, FS_Singleton
<1>3. ASSUME NEW x \in Nodes, NEW y \in Nodes, y # x
      PROVE  Other(x) = y
  <2>1. PICK z : Nodes \ {x} = {z}
    BY <1>2
  <2>2. \A w \in Nodes : w # x => w = y
    BY <1>3, <2>1
  <2>3. Other(x) \in Nodes /\ Other(x) # x
    BY <1>3 DEF Other
  <2> QED
    BY <2>2, <2>3
<1>4. PICK y : Nodes \ {n} = {y}
  BY <1>2
<1>5. y \in Nodes /\ y # n
  BY <1>4
<1>6. Other(n) = y
  BY <1>3, <1>5
<1> QED
  BY <1>3, <1>5, <1>6
-----------------------------------------------------------------------------
(* A frame's kind and content; profiles are numbered without a bound here. *)
Profiles == [version : Nat, at : Nat]
Frames   == [kind : {"profile", "ask", "request"}, profile : Profiles]
Tellings == {"nothing", "connected", "disconnected"}
Peers    == [known : BOOLEAN, paired : BOOLEAN, connection : Conns \cup {None}]

SessionTypes ==
  /\ open \in [Nodes -> SUBSET Conns]
  /\ peer \in [Nodes -> Peers]
  /\ offered \in [Nodes -> BOOLEAN]
  /\ told \in [Nodes -> Tellings]
  /\ mine \in [Nodes -> Profiles]
  /\ held \in [Nodes -> Profiles]
  /\ publishing \in [Nodes -> Seq(Profiles)]
  /\ resuming \in [Nodes -> SUBSET Conns]
  /\ wire \in [Conns -> [Nodes -> Seq(Frames)]]

(* Every profile in `frames` was sent by a client whose pairing is `p`.    *)
SentPaired(frames, p) ==
  \A i \in DOMAIN frames : frames[i].kind = "profile" => p

(* A profile under way was sent by a client that has paired the receiver.  *)
OnlyToPaired ==
  \A c \in Conns, n \in Nodes : SentPaired(wire[c][n], peer[Other(n)].paired)

(* StrangersLearnNothing alone is not inductive: a profile becomes held    *)
(* when it arrives, so the pairing must be known of those under way.       *)
PairedIInv == SessionTypes /\ OnlyToPaired /\ StrangersLearnNothing

Handlers == [peer : Peers, offered : BOOLEAN, held : Profiles, told : Tellings,
             sent : [Conns -> Seq(Frames)]]

(* What a handler's record may be: profiles go out only if it is paired.   *)
Honest(s) ==
  /\ s \in Handlers
  /\ \A c \in Conns : SentPaired(s.sent[c], s.peer.paired)

(* What it may change: it does not unpair, and it learns no profile.       *)
Extends(s, t) ==
  /\ Honest(t)
  /\ s.peer.paired => t.peer.paired
  /\ t.held = s.held

LEMMA NoProfileType == NoProfile \in Profiles
BY DEF NoProfile, Profiles

LEMMA FrameTypes ==
  ASSUME NEW p \in Profiles
  PROVE  Offer(p) \in Frames /\ Ask \in Frames /\ Request \in Frames
BY NoProfileType DEF Offer, Ask, Request, Frames

(* A frame added to those sent, or the frames sent joined to those under   *)
(* way: every one of them comes from one of the two.                       *)
LEMMA JoinedPaired ==
  ASSUME NEW f \in Seq(Frames), NEW g \in Seq(Frames), NEW p \in BOOLEAN,
         SentPaired(f, p), SentPaired(g, p)
  PROVE  f \o g \in Seq(Frames) /\ SentPaired(f \o g, p)
<1>1. f \o g \in Seq(Frames) /\ DOMAIN (f \o g) = 1 .. Len(f) + Len(g)
  OBVIOUS
<1>2. ASSUME NEW i \in 1 .. Len(f) + Len(g)
      PROVE  (f \o g)[i].kind = "profile" => p
  <2>1. CASE i <= Len(f)
    <3>1. (f \o g)[i] = f[i] /\ i \in DOMAIN f
      BY <1>2, <2>1
    <3> QED
      BY <3>1 DEF SentPaired
  <2>2. CASE ~(i <= Len(f))
    <3>1. (f \o g)[i] = g[i - Len(f)] /\ i - Len(f) \in DOMAIN g
      BY <1>2, <2>2
    <3> QED
      BY <3>1 DEF SentPaired
  <2> QED
    BY <2>1, <2>2
<1> QED
  BY <1>1, <1>2 DEF SentPaired

LEMMA AppendedPaired ==
  ASSUME NEW f \in Seq(Frames), NEW e \in Frames, NEW p \in BOOLEAN,
         SentPaired(f, p), e.kind = "profile" => p
  PROVE  Append(f, e) \in Seq(Frames) /\ SentPaired(Append(f, e), p)
<1>1. Append(f, e) \in Seq(Frames) /\ DOMAIN Append(f, e) = 1 .. Len(f) + 1
  OBVIOUS
<1>2. ASSUME NEW i \in 1 .. Len(f) + 1
      PROVE  Append(f, e)[i].kind = "profile" => p
  <2>1. CASE i = Len(f) + 1
    BY <2>1
  <2>2. CASE i # Len(f) + 1
    <3>1. Append(f, e)[i] = f[i] /\ i \in DOMAIN f
      BY <1>2, <2>2
    <3> QED
      BY <3>1 DEF SentPaired
  <2> QED
    BY <2>1, <2>2
<1> QED
  BY <1>1, <1>2 DEF SentPaired

LEMMA TailPaired ==
  ASSUME NEW f \in Seq(Frames), NEW p \in BOOLEAN, f # <<>>, SentPaired(f, p)
  PROVE  Tail(f) \in Seq(Frames) /\ SentPaired(Tail(f), p)
<1>1. Tail(f) \in Seq(Frames) /\ Len(Tail(f)) = Len(f) - 1
  OBVIOUS
<1>2. ASSUME NEW i \in DOMAIN Tail(f)
      PROVE  Tail(f)[i] = f[i + 1] /\ i + 1 \in DOMAIN f
  BY <1>1
<1> QED
  BY <1>1, <1>2 DEF SentPaired
-----------------------------------------------------------------------------
(* The handlers, in the order they are composed.                           *)
LEMMA SendExtends ==
  ASSUME NEW s, NEW n \in Nodes, NEW c \in Conns, NEW f \in Frames,
         Honest(s), f.kind = "profile" => s.peer.paired
  PROVE  Extends(s, send(s, n, c, f))
<1>1. CASE c \in open[n]
  <2> DEFINE sent == [s.sent EXCEPT ![c] = Append(@, f)]
             t    == [s EXCEPT !.sent = sent]
  <2>1. send(s, n, c, f) = t
    BY <1>1 DEF send, Honest, Handlers
  <2>2. s \in Handlers /\ s.peer \in Peers /\ s.peer.paired \in BOOLEAN /\ s.sent \in [Conns -> Seq(Frames)]
    BY DEF Honest, Handlers, Peers
  <2>3. ASSUME NEW d \in Conns
        PROVE  sent[d] \in Seq(Frames) /\ SentPaired(sent[d], s.peer.paired)
    <3>1. CASE d = c
      <4>1. s.sent[c] \in Seq(Frames) /\ SentPaired(s.sent[c], s.peer.paired)
        BY <2>2 DEF Honest
      <4>2. sent[d] = Append(s.sent[c], f)
        BY <3>1, <2>2
      <4> QED
        BY <4>1, <4>2, <2>2, AppendedPaired
    <3>2. CASE d # c
      BY <3>2, <2>2 DEF Honest
    <3> QED
      BY <3>1, <3>2
  <2>4. sent \in [Conns -> Seq(Frames)]
    BY <2>2, <2>3
  <2> HIDE DEF sent
  <2>5. t \in Handlers /\ t.peer = s.peer /\ t.held = s.held /\ t.sent = sent
    BY <2>2, <2>4 DEF Handlers
  <2> HIDE DEF t
  <2> QED
    BY <2>1, <2>3, <2>5 DEF Honest, Extends
<1>2. CASE c \notin open[n]
  BY <1>2 DEF send, Extends
<1> QED
  BY <1>1, <1>2

LEMMA ExtendsTransitive ==
  ASSUME NEW s, NEW t, NEW u, Extends(s, t), Extends(t, u)
  PROVE  Extends(s, u)
BY DEF Extends

LEMMA ExtendsItself ==
  ASSUME NEW s, Honest(s)
  PROVE  Extends(s, s)
BY DEF Extends

(* A profile is offered by this function to a paired peer only.            *)
LEMMA OfferExtends ==
  ASSUME SessionTypes, NEW s, NEW n \in Nodes, NEW c \in Conns, Honest(s)
  PROVE  Extends(s, offerProfile(s, n, c))
<1>1. CASE ~s.peer.paired \/ s.offered \/ mine[n] = NoProfile
  BY <1>1 DEF offerProfile, Extends
<1>2. CASE ~(~s.peer.paired \/ s.offered \/ mine[n] = NoProfile)
  <2> DEFINE t == [s EXCEPT !.offered = TRUE]
  <2>1. s \in Handlers
    BY DEF Honest
  <2>2. t \in Handlers /\ t.peer = s.peer /\ t.sent = s.sent /\ t.held = s.held
    BY <2>1 DEF Handlers
  <2>3. offerProfile(s, n, c) = send(t, n, c, Offer(mine[n]))
    BY <1>2 DEF offerProfile
  <2> HIDE DEF t
  <2>4. Honest(t) /\ Extends(s, t) /\ t.peer.paired
    BY <2>2, <1>2 DEF Honest, Extends
  <2>5. Offer(mine[n]) \in Frames
    BY FrameTypes DEF SessionTypes
  <2>6. Extends(t, send(t, n, c, Offer(mine[n])))
    BY <2>4, <2>5, SendExtends
  <2> QED
    BY <2>3, <2>4, <2>6, ExtendsTransitive
<1> QED
  BY <1>1, <1>2

LEMMA PairExtends ==
  ASSUME NEW s, Honest(s)
  PROVE  Extends(s, pair(s)) /\ pair(s).peer.paired
<1> DEFINE p == [s.peer EXCEPT !.known = TRUE, !.paired = TRUE]
           t == [s EXCEPT !.peer = p]
<1>1. s \in Handlers /\ s.peer \in Peers
  BY DEF Honest, Handlers
<1>2. p \in Peers /\ p.paired
  BY <1>1 DEF Peers
<1>3. pair(s) = t
  BY DEF pair
<1> HIDE DEF p
<1>4. t \in Handlers /\ t.peer = p /\ t.sent = s.sent /\ t.held = s.held
  BY <1>1, <1>2 DEF Handlers
<1> HIDE DEF t
<1> QED
  BY <1>2, <1>3, <1>4 DEF Honest, Extends, SentPaired

LEMMA AddPeerExtends ==
  ASSUME SessionTypes, NEW s, NEW n \in Nodes, Honest(s)
  PROVE  Extends(s, addPeer(s, n))
<1> DEFINE t == pair(s)
           c == t.peer.connection
           u == offerProfile(t, n, c)
<1>1. Extends(s, t) /\ t.peer.paired
  BY PairExtends
<1>2. CASE c = None
  BY <1>1, <1>2 DEF addPeer
<1>3. CASE c # None
  <2>1. c \in Conns /\ Honest(t)
    BY <1>1, <1>3 DEF Extends, Honest, Handlers, Peers
  <2>2. addPeer(s, n) = send(u, n, c, Ask)
    BY <1>3 DEF addPeer
  <2> HIDE DEF t, c
  <2>3. Extends(t, u)
    BY <2>1, OfferExtends
  <2> HIDE DEF u
  <2>4. Honest(u) /\ Ask \in Frames /\ Ask.kind # "profile"
    BY <2>3, FrameTypes, NoProfileType DEF Extends, Ask
  <2>5. Extends(u, send(u, n, c, Ask))
    BY <2>1, <2>4, SendExtends
  <2> QED
    BY <1>1, <2>2, <2>3, <2>5, ExtendsTransitive
<1> QED
  BY <1>2, <1>3

LEMMA RegisterExtends ==
  ASSUME NEW s, NEW c \in Conns, Honest(s)
  PROVE  Extends(s, registerConnection(s, c))
<1> DEFINE p == [s.peer EXCEPT !.known = TRUE, !.connection = c]
           t == [s EXCEPT !.peer = p]
<1>1. s \in Handlers /\ s.peer \in Peers
  BY DEF Honest, Handlers
<1>2. p \in Peers /\ p.paired = s.peer.paired
  BY <1>1 DEF Peers
<1>3. registerConnection(s, c) = t
  BY DEF registerConnection
<1> HIDE DEF p
<1>4. t \in Handlers /\ t.peer = p /\ t.sent = s.sent /\ t.held = s.held
  BY <1>1, <1>2 DEF Handlers
<1> HIDE DEF t
<1> QED
  BY <1>2, <1>3, <1>4 DEF Honest, Extends

LEMMA ClosedExtends ==
  ASSUME NEW s, Honest(s)
  PROVE  Extends(s, closed(s))
<1> DEFINE t == [s EXCEPT !.offered = FALSE, !.told = "disconnected"]
<1>1. s \in Handlers
  BY DEF Honest
<1>2. t \in Handlers /\ t.peer = s.peer /\ t.sent = s.sent /\ t.held = s.held
  BY <1>1 DEF Handlers, Tellings
<1>3. closed(s) = t
  BY DEF closed
<1> HIDE DEF t
<1> QED
  BY <1>2, <1>3 DEF Honest, Extends

LEMMA WatchExtends ==
  ASSUME NEW s, NEW n, NEW c, Honest(s)
  PROVE  Extends(s, watchForClose(s, n, c))
BY ClosedExtends, ExtendsItself DEF watchForClose

LEMMA AnnounceExtends ==
  ASSUME NEW s, Honest(s)
  PROVE  Extends(s, announcePeer(s))
<1> DEFINE t == [s EXCEPT !.told = "connected"]
<1>1. s \in Handlers
  BY DEF Honest
<1>2. t \in Handlers /\ t.peer = s.peer /\ t.sent = s.sent /\ t.held = s.held
  BY <1>1 DEF Handlers, Tellings
<1>3. announcePeer(s) = t
  BY DEF announcePeer
<1> HIDE DEF t
<1> QED
  BY <1>2, <1>3 DEF Honest, Extends

LEMMA PruneExtends ==
  ASSUME NEW s, NEW n, Honest(s)
  PROVE  Extends(s, pruneDisconnected(s, n))
<1> DEFINE p == [s.peer EXCEPT !.connection = None]
           t == [s EXCEPT !.peer = p]
<1>1. s \in Handlers /\ s.peer \in Peers
  BY DEF Honest, Handlers
<1>2. p \in Peers /\ p.paired = s.peer.paired
  BY <1>1 DEF Peers
<1>3. pruneDisconnected(s, n) = t \/ pruneDisconnected(s, n) = s
  BY DEF pruneDisconnected
<1> HIDE DEF p
<1>4. t \in Handlers /\ t.peer = p /\ t.sent = s.sent /\ t.held = s.held
  BY <1>1, <1>2 DEF Handlers
<1> HIDE DEF t
<1>5. Extends(s, t)
  BY <1>2, <1>4 DEF Honest, Extends
<1> QED
  BY <1>3, <1>5, ExtendsItself
-----------------------------------------------------------------------------
(* What a step changes besides: the frame it read, if any, is taken off,   *)
(* and the frames of its record are under way to the other client.         *)
LEMMA CarriedKeeps ==
  ASSUME PairedIInv, NEW n \in Nodes, NEW s, NEW read, Honest(s),
         peer[n].paired => s.peer.paired,
         read \in Conns => wire[read][n] # <<>>,
         Carried(n, s, read),
         \A m \in Nodes : m # n => peer'[m] = peer[m],
         peer'[n].paired = s.peer.paired
  PROVE  /\ wire' \in [Conns -> [Nodes -> Seq(Frames)]]
         /\ OnlyToPaired'
<1>0. SessionTypes /\ OnlyToPaired
  BY DEF PairedIInv
<1>1. s.sent \in [Conns -> Seq(Frames)] /\ s.peer.paired \in BOOLEAN
  BY DEF Honest, Handlers, Peers
<1>2. \A m \in Nodes : peer[m].paired \in BOOLEAN
  BY <1>0 DEF SessionTypes, Peers
<1>3. ASSUME NEW c \in Conns, NEW m \in Nodes
      PROVE  wire'[c][m] \in Seq(Frames) /\ SentPaired(wire'[c][m], peer'[Other(m)].paired)
  <2>0. wire[c][m] \in Seq(Frames) /\ SentPaired(wire[c][m], peer[Other(m)].paired)
    BY <1>0 DEF SessionTypes, OnlyToPaired
  <2>1. CASE m = n
    <3>1. Other(n) \in Nodes /\ Other(n) # n
      BY OneOther
    <3>2. peer'[Other(m)] = peer[Other(m)]
      BY <2>1, <3>1
    <3>3. wire'[c][m] = IF c = read THEN Tail(wire[c][m]) ELSE wire[c][m]
      BY <2>1 DEF Carried
    <3>4. CASE c = read
      <4>1. wire[c][m] # <<>>
        BY <2>1, <3>4
      <4>2. peer[Other(m)].paired \in BOOLEAN
        BY <1>2, <2>1, <3>1
      <4> QED
        BY <2>0, <3>2, <3>3, <3>4, <4>1, <4>2, TailPaired
    <3>5. CASE c # read
      BY <2>0, <3>2, <3>3, <3>5
    <3> QED
      BY <3>4, <3>5
  <2>2. CASE m # n
    <3>1. Other(m) = n
      BY <2>2, OneOther
    <3>2. wire'[c][m] = wire[c][m] \o s.sent[c]
      BY <2>2 DEF Carried
    <3>3. SentPaired(wire[c][m], s.peer.paired)
      BY <2>0, <3>1 DEF SentPaired
    <3>4. s.sent[c] \in Seq(Frames) /\ SentPaired(s.sent[c], s.peer.paired)
      BY <1>1 DEF Honest
    <3>5. /\ wire[c][m] \o s.sent[c] \in Seq(Frames)
          /\ SentPaired(wire[c][m] \o s.sent[c], s.peer.paired)
      BY <1>1, <2>0, <3>3, <3>4, JoinedPaired
    <3> QED
      BY <3>1, <3>2, <3>5
  <2> QED
    BY <2>1, <2>2
<1>4. wire' \in [Conns -> [Nodes -> Seq(Frames)]]
  <2>1. wire' = [c \in Conns |-> [m \in Nodes |-> wire'[c][m]]]
    BY DEF Carried
  <2> QED
    BY <1>3, <2>1
<1> QED
  BY <1>3, <1>4 DEF OnlyToPaired

(* Becoming what a handler's record says.                                  *)
LEMMA BecomeKeeps ==
  ASSUME SessionTypes, NEW n \in Nodes, NEW s, s \in Handlers, Become(n, s)
  PROVE  /\ peer' \in [Nodes -> Peers] /\ offered' \in [Nodes -> BOOLEAN]
         /\ told' \in [Nodes -> Tellings] /\ held' \in [Nodes -> Profiles]
         /\ peer'[n] = s.peer /\ held'[n] = s.held
         /\ \A m \in Nodes : m # n => peer'[m] = peer[m] /\ held'[m] = held[m]
BY DEF SessionTypes, Become, Handlers

LEMMA NowHonest ==
  ASSUME SessionTypes, NEW n \in Nodes
  PROVE  /\ Honest(Now(n))
         /\ Now(n).peer = peer[n] /\ Now(n).held = held[n]
<1>1. \A c \in Conns : [d \in Conns |-> <<>>][c] = <<>> /\ <<>> \in Seq(Frames)
  OBVIOUS
<1>2. [d \in Conns |-> <<>>] \in [Conns -> Seq(Frames)]
  OBVIOUS
<1>3. Now(n) \in Handlers
  BY <1>2 DEF Now, Handlers, SessionTypes
<1>4. Now(n).sent = [d \in Conns |-> <<>>]
  BY DEF Now
<1>5. \A c \in Conns : SentPaired(Now(n).sent[c], Now(n).peer.paired)
  BY <1>1, <1>4 DEF SentPaired
<1> QED
  BY <1>3, <1>5 DEF Honest, Now

(* A step whose record extends what the client had, and that learns        *)
(* nothing: whatever else it does, the profiles held and under way stay    *)
(* with the paired.                                                        *)
LEMMA StepKeeps ==
  ASSUME PairedIInv, NEW n \in Nodes, NEW s, NEW read,
         Extends(Now(n), s), Become(n, s), Carried(n, s, read),
         read \in Conns => wire[read][n] # <<>>
  PROVE  /\ peer' \in [Nodes -> Peers] /\ offered' \in [Nodes -> BOOLEAN]
         /\ told' \in [Nodes -> Tellings] /\ held' \in [Nodes -> Profiles]
         /\ wire' \in [Conns -> [Nodes -> Seq(Frames)]]
         /\ OnlyToPaired' /\ StrangersLearnNothing'
<1>0. SessionTypes /\ StrangersLearnNothing
  BY DEF PairedIInv
<1>1. Honest(s) /\ s \in Handlers /\ s.held = held[n] /\ (peer[n].paired => s.peer.paired)
  BY <1>0, NowHonest DEF Extends, Honest
<1>2. /\ peer' \in [Nodes -> Peers] /\ offered' \in [Nodes -> BOOLEAN]
      /\ told' \in [Nodes -> Tellings] /\ held' \in [Nodes -> Profiles]
      /\ peer'[n] = s.peer /\ held'[n] = held[n]
      /\ \A m \in Nodes : m # n => peer'[m] = peer[m] /\ held'[m] = held[m]
  BY <1>0, <1>1, BecomeKeeps
<1>3. /\ wire' \in [Conns -> [Nodes -> Seq(Frames)]]
      /\ OnlyToPaired'
  <2>1. peer'[n].paired = s.peer.paired /\ \A m \in Nodes : m # n => peer'[m] = peer[m]
    BY <1>2
  <2> QED
    BY <1>1, <2>1, CarriedKeeps
<1>4. \A m \in Nodes : held'[m] = held[m] /\ (peer[m].paired => peer'[m].paired)
  BY <1>1, <1>2
<1>5. \A m \in Nodes : Other(m) \in Nodes
  BY OneOther
<1>6. StrangersLearnNothing'
  BY <1>0, <1>4, <1>5 DEF StrangersLearnNothing
<1> QED
  BY <1>2, <1>3, <1>6

(* The same of a step that changes nothing of the client's own.            *)
LEMMA FramesKeep ==
  ASSUME PairedIInv, NEW n \in Nodes, NEW s, NEW read,
         Extends(Now(n), s), s.peer = peer[n], Carried(n, s, read),
         peer' = peer, held' = held,
         read \in Conns => wire[read][n] # <<>>
  PROVE  /\ wire' \in [Conns -> [Nodes -> Seq(Frames)]]
         /\ OnlyToPaired' /\ StrangersLearnNothing'
<1>1. Honest(s)
  BY DEF Extends
<1>2. /\ wire' \in [Conns -> [Nodes -> Seq(Frames)]]
      /\ OnlyToPaired'
  <2>1. peer'[n].paired = s.peer.paired /\ \A m \in Nodes : m # n => peer'[m] = peer[m]
    OBVIOUS
  <2> QED
    BY <1>1, <2>1, CarriedKeeps
<1> QED
  BY <1>2 DEF StrangersLearnNothing, PairedIInv
-----------------------------------------------------------------------------
LEMMA PairedInit == Init => PairedIInv
<1> SUFFICES ASSUME Init
             PROVE  PairedIInv
  OBVIOUS
<1>1. NoProfile \in Profiles /\ [version |-> 1, at |-> 1] \in Profiles
  BY DEF NoProfile, Profiles
<1>2. Stranger \in Peers
  BY DEF Stranger, Peers
<1>3. <<>> \in Seq(Frames) /\ <<>> \in Seq(Profiles) /\ "nothing" \in Tellings
  BY DEF Tellings
<1>4. mine \in [Nodes -> Profiles]
  BY <1>1 DEF Init
<1>5. SessionTypes
  BY <1>1, <1>2, <1>3, <1>4 DEF Init, SessionTypes
<1>6. OnlyToPaired
  BY DEF Init, OnlyToPaired, SentPaired
<1>7. StrangersLearnNothing
  BY DEF Init, StrangersLearnNothing
<1> QED
  BY <1>5, <1>6, <1>7 DEF PairedIInv

(* The client dials: it pairs the other, and sends nothing yet.            *)
LEMMA DialKeeps ==
  ASSUME PairedIInv, NEW n \in Nodes, NEW c \in Conns, Dial(n, c)
  PROVE  PairedIInv'
<1>0. SessionTypes /\ OnlyToPaired /\ StrangersLearnNothing
  BY DEF PairedIInv
<1> DEFINE s == IF peer[n].known THEN Now(n) ELSE pair(Now(n))
<1>1. Extends(Now(n), s)
  BY <1>0, NowHonest, PairExtends, ExtendsItself
<1> HIDE DEF s
<1>2. Become(n, s) /\ UNCHANGED <<mine, wire, publishing, resuming>>
  BY DEF Dial, s
<1>3. s \in Handlers /\ s.held = held[n] /\ (peer[n].paired => s.peer.paired)
  BY <1>0, <1>1, NowHonest DEF Extends, Honest
<1>4. /\ peer' \in [Nodes -> Peers] /\ offered' \in [Nodes -> BOOLEAN]
      /\ told' \in [Nodes -> Tellings] /\ held' \in [Nodes -> Profiles]
      /\ peer'[n] = s.peer /\ held'[n] = held[n]
      /\ \A m \in Nodes : m # n => peer'[m] = peer[m] /\ held'[m] = held[m]
  BY <1>0, <1>2, <1>3, BecomeKeeps
<1>5. \A m \in Nodes : held'[m] = held[m] /\ (peer[m].paired => peer'[m].paired)
  BY <1>3, <1>4
<1>6. \A m \in Nodes : Other(m) \in Nodes
  BY OneOther
<1>7. OnlyToPaired'
  BY <1>0, <1>2, <1>5, <1>6 DEF OnlyToPaired, SentPaired
<1>8. StrangersLearnNothing'
  BY <1>0, <1>5, <1>6 DEF StrangersLearnNothing
<1>9. open' \in [Nodes -> SUBSET Conns]
  BY <1>0 DEF Dial, SessionTypes
<1>10. SessionTypes'
  BY <1>0, <1>2, <1>4, <1>9 DEF SessionTypes
<1> QED
  BY <1>7, <1>8, <1>10 DEF PairedIInv

(* The handlers that read nothing, or a frame that carries no profile.     *)
LEMMA HandlerKeeps ==
  ASSUME PairedIInv, NEW n \in Nodes, NEW s, NEW read,
         Extends(Now(n), s), Become(n, s), Carried(n, s, read),
         read \in Conns => wire[read][n] # <<>>,
         open' = open, mine' = mine, publishing' = publishing,
         resuming' \in [Nodes -> SUBSET Conns]
  PROVE  PairedIInv'
BY StepKeeps DEF PairedIInv, SessionTypes

LEMMA ConnectedKeeps ==
  ASSUME PairedIInv, NEW n \in Nodes, NEW c \in Conns, Connected(n, c)
  PROVE  PairedIInv'
<1>0. SessionTypes /\ None \notin Conns
  BY SessionsAssumption DEF PairedIInv
<1> DEFINE a == registerConnection(Now(n), c)
           b == watchForClose(a, n, c)
           d == offerProfile(b, n, c)
           s == announcePeer(d)
           t == IF c \in open[n] \/ ~s.peer.paired THEN pruneDisconnected(s, n) ELSE s
<1>1. Become(n, t) /\ Carried(n, t, None)
  BY DEF Connected
<1>2. Extends(Now(n), a)
  BY <1>0, NowHonest, RegisterExtends
<1> HIDE DEF a
<1>3. Honest(a) /\ Extends(a, b)
  BY <1>2, WatchExtends DEF Extends
<1> HIDE DEF b
<1>4. Honest(b) /\ Extends(b, d)
  BY <1>0, <1>3, OfferExtends DEF Extends
<1> HIDE DEF d
<1>5. Honest(d) /\ Extends(d, s)
  BY <1>4, AnnounceExtends DEF Extends
<1> HIDE DEF s
<1>6. Honest(s) /\ Extends(s, t)
  BY <1>5, PruneExtends, ExtendsItself DEF Extends
<1> HIDE DEF t
<1>7. Extends(Now(n), t)
  BY <1>2, <1>3, <1>4, <1>5, <1>6, ExtendsTransitive
<1>8. open' = open /\ mine' = mine /\ publishing' = publishing /\ resuming' = resuming
  BY DEF Connected
<1>9. resuming' \in [Nodes -> SUBSET Conns]
  BY <1>0, <1>8 DEF SessionTypes
<1> QED
  BY <1>0, <1>1, <1>7, <1>8, <1>9, HandlerKeeps

LEMMA AcceptedKeeps ==
  ASSUME PairedIInv, NEW n \in Nodes, NEW c \in Conns, Accepted(n, c)
  PROVE  PairedIInv'
<1>0. SessionTypes /\ None \notin Conns
  BY SessionsAssumption DEF PairedIInv
<1> DEFINE a == registerConnection(Now(n), c)
           b == watchForClose(a, n, c)
           d == announcePeer(b)
           s == offerProfile(d, n, c)
           t == pruneDisconnected(s, n)
<1>1. Become(n, t) /\ Carried(n, t, None)
  BY DEF Accepted
<1>2. Extends(Now(n), a)
  BY <1>0, NowHonest, RegisterExtends
<1> HIDE DEF a
<1>3. Honest(a) /\ Extends(a, b)
  BY <1>2, WatchExtends DEF Extends
<1> HIDE DEF b
<1>4. Honest(b) /\ Extends(b, d)
  BY <1>3, AnnounceExtends DEF Extends
<1> HIDE DEF d
<1>5. Honest(d) /\ Extends(d, s)
  BY <1>0, <1>4, OfferExtends DEF Extends
<1> HIDE DEF s
<1>6. Honest(s) /\ Extends(s, t)
  BY <1>5, PruneExtends DEF Extends
<1> HIDE DEF t
<1>7. Extends(Now(n), t)
  BY <1>2, <1>3, <1>4, <1>5, <1>6, ExtendsTransitive
<1>8. open' = open /\ mine' = mine /\ publishing' = publishing /\ resuming' = resuming
  BY DEF Accepted
<1>9. resuming' \in [Nodes -> SUBSET Conns]
  BY <1>0, <1>8 DEF SessionTypes
<1> QED
  BY <1>0, <1>1, <1>7, <1>8, <1>9, HandlerKeeps

LEMMA AddPeerKeeps ==
  ASSUME PairedIInv, NEW n \in Nodes, AddPeer(n)
  PROVE  PairedIInv'
<1>0. SessionTypes /\ None \notin Conns
  BY SessionsAssumption DEF PairedIInv
<1> DEFINE s == addPeer(Now(n), n)
<1>1. Become(n, s) /\ Carried(n, s, None)
  BY DEF AddPeer
<1>2. Extends(Now(n), s)
  BY <1>0, NowHonest, AddPeerExtends
<1> HIDE DEF s
<1>3. open' = open /\ mine' = mine /\ publishing' = publishing /\ resuming' = resuming
  BY DEF AddPeer
<1>4. resuming' \in [Nodes -> SUBSET Conns]
  BY <1>0, <1>3 DEF SessionTypes
<1> QED
  BY <1>0, <1>1, <1>2, <1>3, <1>4, HandlerKeeps

(* An answer: the profile is offered on the registry's connection, if any. *)
LEMMA AnswerKeeps ==
  ASSUME PairedIInv, NEW n \in Nodes, NEW c \in Conns, NEW s,
         s = IF peer[n].connection = None THEN Now(n)
             ELSE offerProfile(Now(n), n, peer[n].connection),
         Become(n, s), Carried(n, s, c), wire[c][n] # <<>>,
         UNCHANGED <<open, mine, publishing, resuming>>
  PROVE  PairedIInv'
<1>0. SessionTypes
  BY DEF PairedIInv
<1>1. CASE peer[n].connection = None
  BY <1>0, <1>1, NowHonest, ExtendsItself, HandlerKeeps DEF SessionTypes
<1>2. CASE peer[n].connection # None
  <2>1. peer[n].connection \in Conns
    BY <1>0, <1>2 DEF SessionTypes, Peers
  <2>2. Extends(Now(n), s)
    BY <1>0, <1>2, <2>1, NowHonest, OfferExtends
  <2> QED
    BY <1>0, <2>2, HandlerKeeps DEF SessionTypes
<1> QED
  BY <1>1, <1>2

LEMMA HearAskKeeps ==
  ASSUME PairedIInv, NEW n \in Nodes, NEW c \in Conns, HearAsk(n, c)
  PROVE  PairedIInv'
BY AnswerKeeps DEF HearAsk, Receives

LEMMA HearOldKeeps ==
  ASSUME PairedIInv, NEW n \in Nodes, NEW c \in Conns, HearOld(n, c)
  PROVE  PairedIInv'
BY AnswerKeeps DEF HearOld, Receives

LEMMA ResumeKeeps ==
  ASSUME PairedIInv, NEW n \in Nodes, NEW c \in Conns, Resume(n, c)
  PROVE  PairedIInv'
<1>0. SessionTypes /\ None \notin Conns
  BY SessionsAssumption DEF PairedIInv
<1> DEFINE s == offerProfile(Now(n), n, c)
<1>1. Become(n, s) /\ Carried(n, s, None)
  BY DEF Resume
<1>2. Extends(Now(n), s)
  BY <1>0, NowHonest, OfferExtends
<1> HIDE DEF s
<1>3. open' = open /\ mine' = mine /\ publishing' = publishing
  BY DEF Resume
<1>4. resuming' \in [Nodes -> SUBSET Conns]
  BY <1>0 DEF Resume, SessionTypes
<1> QED
  BY <1>0, <1>1, <1>2, <1>3, <1>4, HandlerKeeps
-----------------------------------------------------------------------------
(* The steps that change nothing of the client's own but send or read.     *)
LEMMA QuietKeeps ==
  ASSUME PairedIInv, NEW n \in Nodes, NEW s, NEW read,
         Extends(Now(n), s), s.peer = peer[n], Carried(n, s, read),
         read \in Conns => wire[read][n] # <<>>,
         UNCHANGED <<open, peer, offered, held, told, mine, resuming>>,
         publishing' \in [Nodes -> Seq(Profiles)]
  PROVE  PairedIInv'
BY FramesKeep DEF PairedIInv, SessionTypes

LEMMA RequestKeeps ==
  ASSUME PairedIInv, NEW n \in Nodes, requestPairing(n)
  PROVE  PairedIInv'
<1>0. SessionTypes /\ None \notin Conns
  BY SessionsAssumption DEF PairedIInv
<1> DEFINE c == peer[n].connection
           s == send(Now(n), n, c, Request)
<1>1. c \in Conns
  BY <1>0 DEF requestPairing, isLive, SessionTypes
<1>2. Request \in Frames /\ Request.kind # "profile"
  BY FrameTypes, NoProfileType DEF Request
<1>3. Extends(Now(n), s)
  BY <1>0, <1>1, <1>2, NowHonest, SendExtends
<1>4. s.peer = peer[n]
  <2>1. c \in open[n]
    BY DEF requestPairing, isLive
  <2>2. s = [Now(n) EXCEPT !.sent[c] = Append(@, Request)]
    BY <2>1 DEF send
  <2> QED
    BY <2>2 DEF Now
<1>5. Carried(n, s, None)
  BY DEF requestPairing
<1> HIDE DEF s
<1>6. UNCHANGED <<open, peer, offered, held, told, mine, resuming, publishing>>
  BY DEF requestPairing, own
<1>7. publishing' \in [Nodes -> Seq(Profiles)]
  BY <1>0, <1>6 DEF SessionTypes
<1> QED
  BY <1>0, <1>3, <1>4, <1>5, <1>6, <1>7, QuietKeeps

LEMMA HearRequestKeeps ==
  ASSUME PairedIInv, NEW n \in Nodes, NEW c \in Conns, HearRequest(n, c)
  PROVE  PairedIInv'
<1>0. SessionTypes
  BY DEF PairedIInv
<1>1. Carried(n, Now(n), c) /\ wire[c][n] # <<>>
  BY DEF HearRequest, Receives
<1>2. UNCHANGED <<open, peer, offered, held, told, mine, resuming, publishing>>
  BY DEF HearRequest, own
<1>3. publishing' \in [Nodes -> Seq(Profiles)]
  BY <1>0, <1>2 DEF SessionTypes
<1>4. Extends(Now(n), Now(n)) /\ Now(n).peer = peer[n]
  BY <1>0, NowHonest, ExtendsItself
<1> QED
  BY <1>1, <1>2, <1>3, <1>4, QuietKeeps

LEMMA DropStrangerKeeps ==
  ASSUME PairedIInv, NEW n \in Nodes, NEW c \in Conns, DropStranger(n, c)
  PROVE  PairedIInv'
<1>0. SessionTypes
  BY DEF PairedIInv
<1>1. Carried(n, Now(n), c) /\ wire[c][n] # <<>>
  BY DEF DropStranger, Receives
<1>2. UNCHANGED <<open, peer, offered, held, told, mine, resuming, publishing>>
  BY DEF DropStranger, own
<1>3. publishing' \in [Nodes -> Seq(Profiles)]
  BY <1>0, <1>2 DEF SessionTypes
<1>4. Extends(Now(n), Now(n)) /\ Now(n).peer = peer[n]
  BY <1>0, NowHonest, ExtendsItself
<1> QED
  BY <1>1, <1>2, <1>3, <1>4, QuietKeeps

(* broadcast() of a profile whose storage is done: to a paired peer only.  *)
LEMMA PublishKeeps ==
  ASSUME PairedIInv, NEW n \in Nodes, publishProfile(n)
  PROVE  PairedIInv'
<1>0. SessionTypes /\ None \notin Conns
  BY SessionsAssumption DEF PairedIInv
<1>1. publishing[n] \in Seq(Profiles) /\ publishing[n] # <<>>
  BY <1>0 DEF publishProfile, SessionTypes
<1>2. Head(publishing[n]) \in Profiles /\ Tail(publishing[n]) \in Seq(Profiles)
  BY <1>1
<1>3. publishing' \in [Nodes -> Seq(Profiles)]
  BY <1>0, <1>2 DEF publishProfile, SessionTypes
<1>4. UNCHANGED <<open, peer, offered, held, told, mine, resuming>>
  BY DEF publishProfile
<1>5. CASE peer[n].paired /\ isLive(n)
  <2> DEFINE c == peer[n].connection
             f == Offer(Head(publishing[n]))
             s == send(Now(n), n, c, f)
  <2>1. c \in open[n] /\ c \in Conns
    BY <1>0, <1>5 DEF isLive, SessionTypes
  <2>2. f \in Frames
    BY <1>2, FrameTypes
  <2>3. Carried(n, s, None)
    BY <1>5 DEF publishProfile
  <2> HIDE DEF f
  <2>4. Now(n).peer.paired
    BY <1>0, <1>5, NowHonest
  <2>5. Extends(Now(n), s)
    BY <1>0, <2>1, <2>2, <2>4, NowHonest, SendExtends
  <2>6. s.peer = peer[n]
    <3>1. s = [Now(n) EXCEPT !.sent[c] = Append(@, f)]
      BY <2>1 DEF send
    <3> QED
      BY <3>1 DEF Now
  <2> HIDE DEF s
  <2> QED
    BY <1>0, <1>3, <1>4, <2>3, <2>5, <2>6, QuietKeeps
<1>6. CASE ~(peer[n].paired /\ isLive(n))
  <2>1. Carried(n, Now(n), None)
    BY <1>6 DEF publishProfile
  <2>2. Extends(Now(n), Now(n)) /\ Now(n).peer = peer[n]
    BY <1>0, NowHonest, ExtendsItself
  <2> QED
    BY <1>0, <1>3, <1>4, <2>1, <2>2, QuietKeeps
<1> QED
  BY <1>5, <1>6

(* A newer profile is kept: the reader is paired (the gate), and so is the *)
(* author, for the profile was under way.                                  *)
LEMMA HearNewKeeps ==
  ASSUME PairedIInv, NEW n \in Nodes, NEW c \in Conns, HearNew(n, c)
  PROVE  PairedIInv'
<1>0. SessionTypes /\ OnlyToPaired /\ StrangersLearnNothing
  BY DEF PairedIInv
<1> DEFINE f == Head(wire[c][n])
           s == [Now(n) EXCEPT !.held = f.profile]
<1>1. wire[c][n] \in Seq(Frames) /\ wire[c][n] # <<>> /\ f.kind = "profile" /\ peer[n].paired
  BY <1>0 DEF HearNew, Receives, SessionTypes
<1>2. f \in Frames /\ f = wire[c][n][1] /\ 1 \in DOMAIN wire[c][n]
  BY <1>1
<1>3. peer[Other(n)].paired
  BY <1>0, <1>1, <1>2 DEF OnlyToPaired, SentPaired
<1>4. f.profile \in Profiles
  BY <1>2 DEF Frames
<1>5. Become(n, s) /\ Carried(n, Now(n), c) /\ UNCHANGED <<open, mine, publishing>>
  BY DEF HearNew
<1> HIDE DEF f
<1>6. Honest(Now(n)) /\ Now(n).peer = peer[n] /\ Now(n) \in Handlers
  BY <1>0, NowHonest DEF Honest
<1>7. s \in Handlers /\ s.peer = peer[n]
  BY <1>4, <1>6 DEF Handlers
<1> HIDE DEF s
<1>8. /\ peer' \in [Nodes -> Peers] /\ offered' \in [Nodes -> BOOLEAN]
      /\ told' \in [Nodes -> Tellings] /\ held' \in [Nodes -> Profiles]
      /\ \A m \in Nodes : peer'[m] = peer[m]
      /\ \A m \in Nodes : m # n => held'[m] = held[m]
  BY <1>0, <1>5, <1>7, BecomeKeeps
<1>9. /\ wire' \in [Conns -> [Nodes -> Seq(Frames)]]
      /\ OnlyToPaired'
  <2>1. /\ peer[n].paired => Now(n).peer.paired
        /\ \A m \in Nodes : m # n => peer'[m] = peer[m]
        /\ peer'[n].paired = Now(n).peer.paired
    BY <1>6, <1>8
  <2> QED
    BY <1>1, <1>5, <1>6, <2>1, CarriedKeeps
<1>10. StrangersLearnNothing'
  <2>1. \A m \in Nodes : Other(m) \in Nodes
    BY OneOther
  <2> QED
    BY <1>0, <1>1, <1>3, <1>8, <2>1 DEF StrangersLearnNothing
<1>11. resuming' \in [Nodes -> SUBSET Conns]
  <2>1. peer[n].connection \in Conns \cup {None}
    BY <1>0 DEF SessionTypes, Peers
  <2> QED
    BY <1>0, <2>1 DEF HearNew, SessionTypes
<1>12. SessionTypes'
  BY <1>0, <1>5, <1>8, <1>9, <1>11 DEF SessionTypes
<1> QED
  BY <1>9, <1>10, <1>12 DEF PairedIInv

LEMMA SetProfileKeeps ==
  ASSUME PairedIInv, NEW n \in Nodes, setMyProfile(n)
  PROVE  PairedIInv'
<1>0. SessionTypes
  BY DEF PairedIInv
<1>1. PICK t \in {0, 1} :
        mine' = [mine EXCEPT ![n] = [version |-> @.version + 1,
                                     at |-> IF @.version = 0 THEN 1 ELSE @.at + t]]
  BY DEF setMyProfile
<1>2. mine[n].version \in Nat /\ mine[n].at \in Nat
  BY <1>0 DEF SessionTypes, Profiles
<1> DEFINE p == [version |-> mine[n].version + 1,
                 at |-> IF mine[n].version = 0 THEN 1 ELSE mine[n].at + t]
<1>3. p \in Profiles
  BY <1>2 DEF Profiles
<1> HIDE DEF p
<1>4. mine' = [mine EXCEPT ![n] = p]
  BY <1>1 DEF p
<1>5. mine' \in [Nodes -> Profiles] /\ mine'[n] = p
  BY <1>0, <1>3, <1>4 DEF SessionTypes
<1>6. publishing' \in [Nodes -> Seq(Profiles)]
  <2>1. Append(publishing[n], mine'[n]) \in Seq(Profiles)
    BY <1>0, <1>3, <1>5 DEF SessionTypes
  <2> QED
    BY <1>0, <2>1 DEF setMyProfile, SessionTypes
<1> QED
  BY <1>0, <1>5, <1>6
     DEF setMyProfile, PairedIInv, SessionTypes, OnlyToPaired, StrangersLearnNothing

LEMMA DeclineKeeps ==
  ASSUME PairedIInv, NEW n \in Nodes, declinePairingRequest(n)
  PROVE  PairedIInv'
BY DEF declinePairingRequest, own, PairedIInv, SessionTypes, OnlyToPaired, StrangersLearnNothing

(* The end of a connection: the frames not yet read are lost.              *)
LEMMA CloseKeeps ==
  ASSUME PairedIInv, NEW n \in Nodes, NEW c \in Conns, Close(n, c)
  PROVE  PairedIInv'
<1>0. SessionTypes /\ OnlyToPaired /\ StrangersLearnNothing
  BY DEF PairedIInv
<1> DEFINE s == IF c \in handled[n] THEN closed(Now(n)) ELSE Now(n)
<1>1. Become(n, s) /\ UNCHANGED <<mine, publishing, resuming>>
  BY DEF Close
<1>2. Honest(Now(n)) /\ Now(n).peer = peer[n] /\ Now(n).held = held[n] /\ Now(n) \in Handlers
  BY <1>0, NowHonest DEF Honest
<1>3. s \in Handlers /\ s.peer = peer[n] /\ s.held = held[n]
  BY <1>2 DEF closed, Handlers, Tellings
<1> HIDE DEF s
<1>4. /\ peer' \in [Nodes -> Peers] /\ offered' \in [Nodes -> BOOLEAN]
      /\ told' \in [Nodes -> Tellings] /\ held' \in [Nodes -> Profiles]
      /\ \A m \in Nodes : peer'[m] = peer[m] /\ held'[m] = held[m]
  BY <1>0, <1>1, <1>3, BecomeKeeps
<1>5. \A m \in Nodes : Other(m) \in Nodes
  BY OneOther
<1>6. wire' = [wire EXCEPT ![c][n] = <<>>]
  BY DEF Close
<1>7. ASSUME NEW d \in Conns, NEW m \in Nodes
      PROVE  wire'[d][m] = wire[d][m] \/ wire'[d][m] = <<>>
  BY <1>0, <1>6 DEF SessionTypes
<1>8. wire' \in [Conns -> [Nodes -> Seq(Frames)]]
  BY <1>0, <1>6 DEF SessionTypes
<1>9. OnlyToPaired'
  <2> SUFFICES ASSUME NEW d \in Conns, NEW m \in Nodes
               PROVE  SentPaired(wire'[d][m], peer'[Other(m)].paired)
    BY DEF OnlyToPaired
  <2>1. peer'[Other(m)] = peer[Other(m)]
    BY <1>4, <1>5
  <2>2. CASE wire'[d][m] = wire[d][m]
    BY <1>0, <2>1, <2>2 DEF OnlyToPaired
  <2>3. CASE wire'[d][m] = <<>>
    BY <2>3 DEF SentPaired
  <2> QED
    BY <1>7, <2>2, <2>3
<1>10. StrangersLearnNothing'
  BY <1>0, <1>4, <1>5 DEF StrangersLearnNothing
<1>11. open' \in [Nodes -> SUBSET Conns]
  BY <1>0 DEF Close, SessionTypes
<1>12. SessionTypes'
  BY <1>0, <1>1, <1>4, <1>8, <1>11 DEF SessionTypes
<1> QED
  BY <1>9, <1>10, <1>12 DEF PairedIInv
-----------------------------------------------------------------------------
LEMMA PairedStep == PairedIInv /\ [Next]_vars => PairedIInv'
<1> SUFFICES ASSUME PairedIInv, [Next]_vars
             PROVE  PairedIInv'
  OBVIOUS
<1>1. ASSUME NEW n \in Nodes,
             \/ AddPeer(n) \/ declinePairingRequest(n) \/ requestPairing(n)
             \/ setMyProfile(n) \/ publishProfile(n)
      PROVE  PairedIInv'
  BY <1>1, AddPeerKeeps, DeclineKeeps, RequestKeeps, SetProfileKeeps, PublishKeeps
<1>2. ASSUME NEW n \in Nodes, NEW c \in Conns,
             Dial(n, c) \/ Connected(n, c) \/ Accepted(n, c) \/ Resume(n, c)
      PROVE  PairedIInv'
  BY <1>2, DialKeeps, ConnectedKeeps, AcceptedKeeps, ResumeKeeps
<1>3. ASSUME NEW n \in Nodes, NEW c \in Conns, Hear(n, c)
      PROVE  PairedIInv'
  BY <1>3, HearRequestKeeps, DropStrangerKeeps, HearAskKeeps, HearOldKeeps, HearNewKeeps
     DEF Hear
<1>4. ASSUME NEW n \in Nodes, NEW c \in Conns, CloseFirst(n, c) \/ CloseSecond(n, c)
      PROVE  PairedIInv'
  BY <1>4, CloseKeeps DEF CloseFirst, CloseSecond
<1>5. CASE UNCHANGED vars
  BY <1>5 DEF vars, own, PairedIInv, SessionTypes, OnlyToPaired, StrangersLearnNothing
<1> QED
  BY <1>1, <1>2, <1>3, <1>4, <1>5 DEF Next

(* In every reachable state of two clients that dial, are dialled, pair,   *)
(* publish, ask, answer and lose connections, over any number of           *)
(* connections and in any order: whoever holds the other's profile was     *)
(* paired by it, and had paired it.                                        *)
THEOREM StrangersLearnNothingAlways == Spec => []StrangersLearnNothing
<1>1. PairedIInv => StrangersLearnNothing
  BY DEF PairedIInv
<1> QED
  BY PairedInit, PairedStep, <1>1, PTL DEF Spec
=============================================================================
