------------------------------ MODULE Sessions ------------------------------
(***************************************************************************)
(* Two clients and the connections between them, above the transport:      *)
(* HLessEnd/src/client.ts (connect, the accept callback, addPeer,          *)
(* offerProfile, watchForClose, knocks), session-manager.ts (the gate on   *)
(* inbound frames), peer-registry.ts, pairing-request.ts and               *)
(* profile-service.ts.                                                     *)
(*                                                                         *)
(* A connection has one object per end, and the ends notice its loss       *)
(* separately.  A registry keeps only the connection registered last,      *)
(* while frames of any connection still open are handled; the set of peers *)
(* the profile was offered to is kept per peer and not per connection.     *)
(***************************************************************************)
EXTENDS Naturals, Sequences, FiniteSets

CONSTANTS
  Nodes,     \* the two clients
  Conns,     \* connections that may be dialled
  None,      \* no connection
  MaxMoves   \* bound on calls of setMyProfile(), pairing requests, and
             \* connections closed or lost while both ends are open

ASSUME SessionsAssumption ==
  /\ Cardinality(Nodes) = 2 /\ IsFiniteSet(Nodes)
  /\ None \notin Conns
  /\ MaxMoves \in Nat

VARIABLES
  dialler,    \* connection -> the client that dialled it, or None
  open,       \* client -> its connection objects in state Active
  handled,    \* client -> connections it registered: handlers attached
  peer,       \* client -> its registry's record of the other
  offered,    \* client -> the other is in offeredProfileTo
  requested,  \* client -> the other is in SessionManager.requested
  knock,      \* client -> a pairing request waits for an answer
  mine, held, \* client -> its profile, and the one it holds of the other
  publishing, \* client -> profiles whose broadcast waits for storage
  resuming,   \* client -> connections read before a profile was stored
  wire,       \* connection -> client -> frames under way to it
  told,       \* client -> what its application was last told of the other
  moves

own     == <<peer, offered, held, publishing, resuming, told>>
pairing == <<requested, knock>>
vars == <<dialler, open, handled, mine, wire, moves, own, pairing>>

Other(n) == CHOOSE m \in Nodes : m # n

(* updatedAt is the author's clock, which may stand still between edits.   *)
Profile   == [version : 0 .. MaxMoves + 1, at : 0 .. MaxMoves + 1]
NoProfile == [version |-> 0, at |-> 0]

(* A PROFILE frame is empty when it asks for one.                          *)
Offer(p) == [kind |-> "profile", profile |-> p]
Ask      == [kind |-> "ask", profile |-> NoProfile]
Request  == [kind |-> "request", profile |-> NoProfile]

Stranger == [known |-> FALSE, paired |-> FALSE, connection |-> None]

Init ==
  /\ dialler = [c \in Conns |-> None]
  /\ open = [n \in Nodes |-> {}] /\ handled = [n \in Nodes |-> {}]
  /\ peer = [n \in Nodes |-> Stranger]
  /\ offered = [n \in Nodes |-> FALSE]
  /\ requested = [n \in Nodes |-> FALSE] /\ knock = [n \in Nodes |-> FALSE]
  /\ mine \in [Nodes -> {NoProfile, [version |-> 1, at |-> 1]}]
  /\ held = [n \in Nodes |-> NoProfile]
  /\ publishing = [n \in Nodes |-> <<>>] /\ resuming = [n \in Nodes |-> {}]
  /\ wire = [c \in Conns |-> [n \in Nodes |-> <<>>]]
  /\ told = [n \in Nodes |-> "nothing"]
  /\ moves = 0

(***************************************************************************)
(* What a client's handlers change, as a record `s`; each is a function    *)
(* of it.                                                                  *)
(***************************************************************************)
Now(n) == [peer |-> peer[n], offered |-> offered[n], held |-> held[n],
           told |-> told[n], sent |-> [c \in Conns |-> <<>>]]

Become(n, s) ==
  /\ peer' = [peer EXCEPT ![n] = s.peer]
  /\ offered' = [offered EXCEPT ![n] = s.offered]
  /\ held' = [held EXCEPT ![n] = s.held]
  /\ told' = [told EXCEPT ![n] = s.told]

(* What it sent joins the frames under way to the other; `read` is the     *)
(* connection whose oldest frame was handled, or None.                     *)
Carried(n, s, read) ==
  wire' = [c \in Conns |->
            [m \in Nodes |->
              IF m = n THEN IF c = read THEN Tail(wire[c][m]) ELSE wire[c][m]
              ELSE wire[c][m] \o s.sent[c]]]

(* send() on a connection that is not active throws, and every caller here *)
(* catches it.                                                             *)
send(s, n, c, f) ==
  IF c \in open[n] THEN [s EXCEPT !.sent[c] = Append(@, f)] ELSE s

Move == moves < MaxMoves /\ moves' = moves + 1

isLive(n) == peer[n].connection \in open[n]

(* Faulty variant: the profile goes to whoever is connected.               *)
offerProfileToAll(s, n, c) ==
  IF s.offered \/ mine[n] = NoProfile THEN s
  ELSE send([s EXCEPT !.offered = TRUE], n, c, Offer(mine[n]))

(* Faulty variant: the offer is not remembered.                            *)
offerProfileAgain(s, n, c) ==
  IF ~s.peer.paired \/ mine[n] = NoProfile THEN s
  ELSE send(s, n, c, Offer(mine[n]))

(* offerProfile(): remembered before it is sent, whether or not it can be. *)
offerProfile(s, n, c) ==
  IF ~s.peer.paired \/ s.offered \/ mine[n] = NoProfile THEN s
  ELSE send([s EXCEPT !.offered = TRUE], n, c, Offer(mine[n]))

(* PeerRegistry.addPeer() keeps the connection.                            *)
pair(s) == [s EXCEPT !.peer = [@ EXCEPT !.known = TRUE, !.paired = TRUE]]

(* client.addPeer(): offer ours and ask for theirs.                        *)
addPeer(s, n) ==
  LET t == pair(s)
      c == t.peer.connection
  IN IF c = None THEN t ELSE send(offerProfile(t, n, c), n, c, Ask)

(* SessionManager.registerConnection(): the connection registered last is  *)
(* the peer's connection.                                                  *)
registerConnection(s, c) == [s EXCEPT !.peer = [@ EXCEPT !.known = TRUE, !.connection = c]]

(* The close handler of watchForClose(); one attached to a connection that *)
(* is closed already runs at once.                                         *)
closed(s) == [s EXCEPT !.offered = FALSE, !.told = "disconnected"]

watchForClose(s, n, c) == IF c \in open[n] THEN s ELSE closed(s)

announcePeer(s) == [s EXCEPT !.told = "connected"]

pruneDisconnected(s, n) ==
  IF s.peer.connection \in open[n] THEN s
  ELSE [s EXCEPT !.peer = [@ EXCEPT !.connection = None]]

(* ingestRemote() keeps what is strictly newer than what it holds.         *)
Newer(p, than) == than = NoProfile \/ p.at > than.at
-----------------------------------------------------------------------------
(* connect(): the ticket carries the other's key, so a peer not yet in the *)
(* registry is paired.  The transport dials, and once the handshake is     *)
(* complete both ends have their connection object.                        *)
Dial(n, c) ==
  /\ dialler[c] = None
  /\ dialler' = [dialler EXCEPT ![c] = n]
  /\ open' = [m \in Nodes |-> open[m] \cup {c}]
  /\ Become(n, IF peer[n].known THEN Now(n) ELSE pair(Now(n)))
  /\ UNCHANGED <<handled, mine, wire, moves, publishing, resuming, pairing>>

(* connect() after `await transport.connect`; it may find the connection   *)
(* closed by then, and beginSync() then throws before anything is pruned.  *)
Connected(n, c) ==
  /\ dialler[c] = n /\ c \notin handled[n]
  /\ handled' = [handled EXCEPT ![n] = @ \cup {c}]
  /\ LET s == announcePeer(offerProfile(watchForClose(registerConnection(Now(n), c), n, c), n, c))
         t == IF c \in open[n] \/ ~s.peer.paired THEN pruneDisconnected(s, n) ELSE s
     IN Become(n, t) /\ Carried(n, t, None)
  /\ UNCHANGED <<dialler, open, mine, moves, publishing, resuming, pairing>>

(* The callback given to initTransport().                                  *)
Accepted(n, c) ==
  /\ c \in open[n] /\ dialler[c] = Other(n) /\ c \notin handled[n]
  /\ handled' = [handled EXCEPT ![n] = @ \cup {c}]
  /\ LET s == pruneDisconnected(offerProfile(
                announcePeer(watchForClose(registerConnection(Now(n), c), n, c)), n, c), n)
     IN Become(n, s) /\ Carried(n, s, None)
  /\ UNCHANGED <<dialler, open, mine, moves, publishing, resuming, pairing>>

(* The application pairs the other, by key or by accepting its request.    *)
AddPeer(n) ==
  /\ knock[n] \/ ~peer[n].paired
  /\ knock' = [knock EXCEPT ![n] = FALSE]
  /\ LET s == addPeer(Now(n), n) IN Become(n, s) /\ Carried(n, s, None)
  /\ UNCHANGED <<dialler, open, handled, mine, moves, publishing, resuming, requested>>

declinePairingRequest(n) ==
  /\ knock[n]
  /\ knock' = [knock EXCEPT ![n] = FALSE]
  /\ UNCHANGED <<dialler, open, handled, mine, wire, moves, own, requested>>

(* requestPairing() sends on the registry's connection, or throws.         *)
requestPairing(n) ==
  /\ isLive(n) /\ Move
  /\ Carried(n, send(Now(n), n, peer[n].connection, Request), None)
  /\ UNCHANGED <<dialler, open, handled, mine, own, requested, knock>>

(* setMyProfile() up to its await; its clock may not have moved on.        *)
setMyProfile(n) ==
  /\ Move
  /\ \E t \in {0, 1} :
       mine' = [mine EXCEPT ![n] = [version |-> @.version + 1,
                                    at |-> IF @.version = 0 THEN 1 ELSE @.at + t]]
  /\ publishing' = [publishing EXCEPT ![n] = Append(@, mine'[n])]
  /\ UNCHANGED <<dialler, open, handled, peer, offered, held, resuming, told,
                 wire, pairing>>

(* publishProfile() to the peers paired and connected at that time.        *)
publishProfile(n) ==
  /\ publishing[n] # <<>>
  /\ publishing' = [publishing EXCEPT ![n] = Tail(@)]
  /\ Carried(n, IF peer[n].paired /\ isLive(n)
                THEN send(Now(n), n, peer[n].connection, Offer(Head(publishing[n])))
                ELSE Now(n), None)
  /\ UNCHANGED <<dialler, open, handled, mine, moves, peer, offered, held,
                 resuming, told, pairing>>
-----------------------------------------------------------------------------
(* Faulty variant: only frames of the registry's connection are handled.   *)
ReceivesCurrent(n, c, kind) ==
  /\ c \in open[n] \cap handled[n] /\ c = peer[n].connection
  /\ wire[c][n] # <<>> /\ Head(wire[c][n]).kind = kind

(* Frames of a connection reach its handlers in order.                     *)
Receives(n, c, kind) ==
  /\ c \in open[n] \cap handled[n]
  /\ wire[c][n] # <<>> /\ Head(wire[c][n]).kind = kind

(* handleFrame(): a pairing request is heard once, from anyone.            *)
HearRequest(n, c) ==
  /\ Receives(n, c, "request")
  /\ knock' = [knock EXCEPT ![n] = @ \/ ~requested[n]]
  /\ requested' = [requested EXCEPT ![n] = TRUE]
  /\ Carried(n, Now(n), c)
  /\ UNCHANGED <<dialler, open, handled, mine, moves, own>>

(* The gate: anything else of a peer not paired is dropped.                *)
DropStranger(n, c) ==
  /\ Receives(n, c, "ask") \/ Receives(n, c, "profile")
  /\ ~peer[n].paired
  /\ Carried(n, Now(n), c)
  /\ UNCHANGED <<dialler, open, handled, mine, moves, own, pairing>>

(* onProfile() of an empty frame.                                          *)
HearAsk(n, c) ==
  /\ Receives(n, c, "ask") /\ peer[n].paired
  /\ LET s == IF peer[n].connection = None THEN Now(n)
              ELSE offerProfile(Now(n), n, peer[n].connection)
     IN Become(n, s) /\ Carried(n, s, c)
  /\ UNCHANGED <<dialler, open, handled, mine, moves, publishing, resuming, pairing>>

(* onProfile(): one that is not newer is ignored, and answered at once.    *)
HearOld(n, c) ==
  /\ Receives(n, c, "profile") /\ peer[n].paired
  /\ ~Newer(Head(wire[c][n]).profile, held[n])
  /\ LET s == IF peer[n].connection = None THEN Now(n)
              ELSE offerProfile(Now(n), n, peer[n].connection)
     IN Become(n, s) /\ Carried(n, s, c)
  /\ UNCHANGED <<dialler, open, handled, mine, moves, publishing, resuming, pairing>>

(* A newer one is kept; the answer waits for storage, on the connection    *)
(* read before.                                                            *)
HearNew(n, c) ==
  /\ Receives(n, c, "profile") /\ peer[n].paired
  /\ Newer(Head(wire[c][n]).profile, held[n])
  /\ Become(n, [Now(n) EXCEPT !.held = Head(wire[c][n]).profile])
  /\ Carried(n, Now(n), c)
  /\ resuming' = [resuming EXCEPT ![n] = @ \cup ({peer[n].connection} \ {None})]
  /\ UNCHANGED <<dialler, open, handled, mine, moves, publishing, pairing>>

Resume(n, c) ==
  /\ c \in resuming[n]
  /\ resuming' = [resuming EXCEPT ![n] = @ \ {c}]
  /\ LET s == offerProfile(Now(n), n, c) IN Become(n, s) /\ Carried(n, s, None)
  /\ UNCHANGED <<dialler, open, handled, mine, moves, publishing, pairing>>

(* An end's object goes from Active to Disconnected, once: close() by the  *)
(* application, or the transport found the link gone.  Frames not yet      *)
(* delivered to it are lost.                                               *)
Close(n, c) ==
  /\ c \in open[n]
  /\ open' = [open EXCEPT ![n] = @ \ {c}]
  /\ wire' = [wire EXCEPT ![c][n] = <<>>]
  /\ Become(n, IF c \in handled[n] THEN closed(Now(n)) ELSE Now(n))
  /\ UNCHANGED <<dialler, handled, mine, publishing, resuming, pairing>>

CloseFirst(n, c) ==
  /\ c \in open[Other(n)] /\ Move
  /\ Close(n, c)

(* The other end is gone: what it sent may still arrive before it is       *)
(* noticed.                                                                *)
CloseSecond(n, c) == c \notin open[Other(n)] /\ Close(n, c) /\ UNCHANGED moves

Hear(n, c) ==
  \/ HearRequest(n, c) \/ DropStranger(n, c)
  \/ HearAsk(n, c) \/ HearOld(n, c) \/ HearNew(n, c)

Next ==
  \/ \E n \in Nodes :
       \/ AddPeer(n) \/ declinePairingRequest(n) \/ requestPairing(n)
       \/ setMyProfile(n) \/ publishProfile(n)
  \/ \E n \in Nodes, c \in Conns :
       \/ Dial(n, c) \/ Connected(n, c) \/ Accepted(n, c)
       \/ Hear(n, c) \/ Resume(n, c)
       \/ CloseFirst(n, c) \/ CloseSecond(n, c)

Spec == Init /\ [][Next]_vars

(* Frames under way arrive, storage answers, and the end of a connection   *)
(* whose other end is gone notices it.                                     *)
Progress ==
  \E n \in Nodes :
    \/ publishProfile(n)
    \/ \E c \in Conns : Hear(n, c) \/ Resume(n, c) \/ CloseSecond(n, c)

Fairness == WF_vars(Progress)

FairSpec == Spec /\ Fairness
-----------------------------------------------------------------------------
(* A ticket is shareable: a client that holds the other's profile was      *)
(* paired by it, and had paired it (client.ts:677, session-manager.ts:452),*)
(* whichever connection and whichever handler sent it.                     *)
StrangersLearnNothing ==
  \A n \in Nodes : held[n] # NoProfile => peer[n].paired /\ peer[Other(n)].paired

Underway(n, c, t) ==
  \E i \in DOMAIN wire[c][n] : wire[c][n][i].kind = "profile" /\ wire[c][n][i].profile.at = t

(* A profile under way to a client that has paired its author arrives, and *)
(* is kept unless one as new is held, or its connection ends first: a      *)
(* connection replaced in the registry still counts                        *)
(* (peer-registry.ts:101-109).                                             *)
PublishedArrives ==
  \A n \in Nodes, c \in Conns, t \in 1 .. MaxMoves + 1 :
    (Underway(n, c, t) /\ c \in handled[n] /\ peer[n].paired)
      ~> (held[n].at >= t \/ c \notin open[n])

(* Receiving a profile is answered with one; the two sides do not answer   *)
(* each other forever (client.ts:683-686).                                 *)
ExchangeEnds ==
  <>[][\A n \in Nodes, c \in Conns : Len(wire'[c][n]) <= Len(wire[c][n])]_vars

(* "A ticket that carries an encryption key is self-pairing"               *)
(* (client.ts:707): a client has paired whoever it dialled.                *)
DiallingPairs ==
  \A n \in Nodes, c \in Conns : dialler[c] = n /\ c \in handled[n] => peer[n].paired

(* A client that pairs a connected peer asks for its profile; the answer   *)
(* is what keeps an accepted peer from staying nameless (client.ts:310-316)*)
AskIsAnswered ==
  \A n \in Nodes, c \in Conns :
    (Ask \in {wire[c][n][i] : i \in DOMAIN wire[c][n]} /\ c \in handled[n] /\ peer[n].paired
       /\ mine[n] # NoProfile)
      ~> (held[Other(n)] # NoProfile \/ open[n] = {} \/ open[Other(n)] = {})
=============================================================================
