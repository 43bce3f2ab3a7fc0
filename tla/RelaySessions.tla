--------------------------- MODULE RelaySessions ----------------------------
(***************************************************************************)
(* Sessions over a WebSocket relay (core/src/transport/websocket-          *)
(* transport.ts with relay-protocol.ts and handshake.ts): the relay        *)
(* socket, dialling, the three-message handshake that runs through the     *)
(* relay, timeouts, and what the end of a session or of a socket leaves    *)
(* behind.                                                                 *)
(*                                                                         *)
(* Everything of a peer arrives on one stream named only by its did:key.   *)
(* A dial, an accept, a waiting reader and queued handshake bytes each     *)
(* have one place per peer, and several handshakes with one peer share it. *)
(***************************************************************************)
EXTENDS Naturals, Sequences, SequencesExt, FiniteSets

CONSTANTS
  Nodes,    \* the two peers
  MaxTasks, \* handshakes a peer may take part in
  MaxCalls, \* bound on calls of connect()
  MaxMoves  \* bound on sockets that time out or are lost, connections and
            \* transports closed, and frames sent

ASSUME RelayAssumption ==
  /\ IsFiniteSet(Nodes) /\ Cardinality(Nodes) = 2
  /\ {MaxTasks, MaxCalls, MaxMoves} \subseteq Nat

VARIABLES
  node,  \* peer -> its transport
  relay, \* peers registered with the relay
  down,  \* peer -> envelopes under way to it from the relay, oldest first
  calls, moves

vars == <<node, relay, down, calls, moves>>

Other(n) == CHOOSE m \in Nodes : m # n

Tasks == 1 .. MaxTasks
NoTask == 0
NoKey == <<>>

(* A handshake uses one fresh nonce at each side, named here by the peer   *)
(* and the handshake; the session key is derived from both.                *)
Nonces == Nodes \X Tasks
Keys   == Nonces \X Nonces

Envelope(type, payload) == [type |-> type, payload |-> payload]
Control(type) == Envelope(type, NoKey)

(* Payloads: the three handshake messages and a protocol frame.  The       *)
(* challenge and the acknowledgement are signatures over both nonces.      *)
Payload(kind, key) == [kind |-> kind, key |-> key]

(* A handshake this node takes part in: where its function is, and the key *)
(* it has so far.                                                          *)
IdleTask == [at |-> "idle", key |-> NoKey]

Waiting == {"starting", "dialling", "challenge", "init", "ack"}

Transport == [
  ready  |-> "none",    \* the memoised start(): none, pending, ok or failed
  socket |-> "none",    \* none, connecting or open
  closed |-> FALSE,     \* close() was called
  conn   |-> NoKey,     \* connections: the key of the peer's connection
  active |-> {},        \* connection objects in state Active
  dial   |-> NoTask,    \* pendingDials
  waiter |-> NoTask,    \* controlWaiters
  queue  |-> <<>>,      \* inboundControl
  tasks  |-> [t \in Tasks |-> IdleTask],
  heard  |-> {},        \* frames delivered: the key of the connection, and its own
  out    |-> <<>>]      \* envelopes sent in the step under way

Init ==
  /\ node = [n \in Nodes |-> Transport]
  /\ relay = {} /\ down = [n \in Nodes |-> <<>>]
  /\ calls = 0 /\ moves = 0

-----------------------------------------------------------------------------
(* The relay, as the transport's tests implement it: it forwards by did.   *)
Forwarded(r, n, envelope) ==
  LET m == Other(n)
      to(p, e) == IF p \in r.relay THEN [r EXCEPT !.down[p] = Append(@, e)] ELSE r
  IN CASE envelope.type = "REGISTER" -> [r EXCEPT !.relay = @ \cup {n}]
       [] envelope.type = "DIAL" ->
            IF m \in r.relay
            THEN [r EXCEPT !.down = [p \in Nodes |-> Append(@[p], Control("OPENED"))]]
            ELSE to(n, Control("CLOSED"))
       [] OTHER -> to(m, envelope)

(* Node n's handlers have made it `s`; what they sent reaches the relay.   *)
Become(n, s) ==
  LET r == FoldLeft(LAMBDA acc, e : Forwarded(acc, n, e),
                    [relay |-> relay, down |-> down], s.out)
  IN /\ node' = [node EXCEPT ![n] = [s EXCEPT !.out = <<>>]]
     /\ relay' = r.relay /\ down' = r.down

(* As Become, for a handler that took the oldest envelope.                 *)
BecomeAfter(n, s) ==
  LET r == FoldLeft(LAMBDA acc, e : Forwarded(acc, n, e),
                    [relay |-> relay, down |-> [down EXCEPT ![n] = Tail(@)]], s.out)
  IN /\ node' = [node EXCEPT ![n] = [s EXCEPT !.out = <<>>]]
     /\ relay' = r.relay /\ down' = r.down

-----------------------------------------------------------------------------
(* sendEnvelope(): nothing is sent without a socket that is open.          *)
sendEnvelope(s, e) == IF s.socket = "open" /\ ~s.closed THEN [s EXCEPT !.out = Append(@, e)] ELSE s
sendControl(s, kind, key) == sendEnvelope(s, Envelope("DATA", Payload(kind, key)))

goes(s, t, at) == [s EXCEPT !.tasks[t].at = at]
fails(s, t) == goes(s, t, "failed")
refuses(s, t) == fails(sendEnvelope(s, Control("CLOSED")), t)

(* establish(): the new connection takes the peer's place.                 *)
establish(s, t, key) ==
  [goes(s, t, "done") EXCEPT !.conn = key, !.active = @ \cup {key},
                             !.tasks[t].key = key]

(* readControl(): what is queued is read at once, or a reader waits; the   *)
(* latest reader takes the place of the one before.                        *)
reads(s, t, at) == [goes(s, t, at) EXCEPT !.waiter = t]
takes(s) == [s EXCEPT !.queue = Tail(@)]

(* accept() with what it read for the acknowledgement.                     *)
gotAck(s, t, p) ==
  IF p.kind = "ack" /\ p.key = s.tasks[t].key
  THEN establish(s, t, p.key)
  ELSE refuses(s, t)

(* accept() with what it read for the initiator's message.  A nonce is     *)
(* admitted once, and honest initiators never use one again.               *)
gotInit(s, n, t, p) ==
  IF p.kind # "init" THEN refuses(s, t)
  ELSE LET key == <<p.key[1], <<n, t>>>>
           u == sendControl([s EXCEPT !.tasks[t].key = key], "challenge", key)
       IN IF u.queue = <<>> THEN reads(u, t, "ack")
          ELSE gotAck(takes(u), t, Head(u.queue))

(* connect() with what it read for the challenge.  A challenge that is not *)
(* an answer to this initiator fails verification and ends the session;    *)
(* anything else is no challenge at all, and throws.                       *)
gotChallenge(s, n, t, p) ==
  IF p.kind # "challenge" THEN fails(s, t)
  ELSE IF p.key[1] # <<n, t>> THEN refuses(s, t)
  ELSE establish(sendControl(s, "ack", p.key), t, p.key)

(* connect() once the relay has opened the session.                        *)
shakes(s, n, t) ==
  LET u == sendControl(s, "init", <<<<n, t>>>>)
  IN IF u.queue = <<>> THEN reads(u, t, "challenge")
     ELSE gotChallenge(takes(u), n, t, Head(u.queue))

accept(s, n) ==
  LET t == CHOOSE u \in Tasks : /\ s.tasks[u].at = "idle"
                                /\ \A v \in Tasks : s.tasks[v].at = "idle" => u <= v
  IN IF s.queue = <<>> THEN reads(s, t, "init")
     ELSE gotInit(takes(s), n, t, Head(s.queue))

(* connect() after start(): an active connection is used again, or the     *)
(* peer is dialled; a later dial takes the place of an earlier one.        *)
dials(s, t) ==
  IF s.conn \in s.active THEN [goes(s, t, "done") EXCEPT !.tasks[t].key = s.conn]
  ELSE sendEnvelope([goes(s, t, "dialling") EXCEPT !.dial = t], Control("DIAL"))

Starting(s) == SelectSeq([i \in Tasks |-> i], LAMBDA t : s.tasks[t].at = "starting")
startFails(s) ==
  [s EXCEPT !.tasks = [t \in Tasks |-> IF @[t].at = "starting"
                                       THEN [@[t] EXCEPT !.at = "failed"] ELSE @[t]]]

(* markClosed() on the peer's connection, and its entry removed.           *)
dropped(s) == [s EXCEPT !.conn = NoKey, !.active = @ \ {s.conn}]

(* The pending dial, if there is one, is rejected.                         *)
dialRejected(s) ==
  IF s.dial = NoTask THEN s ELSE [fails(s, s.dial) EXCEPT !.dial = NoTask]

(* Faulty variant: the calls that wait for start() are left waiting.       *)
socketClosedSilent(s) ==
  [dialRejected(dropped(s)) EXCEPT !.ready = "none", !.socket = "none"]

(* handleSocketClosed(): readers and queued handshake bytes stay.  A socket*)
(* that never opened has reported an error first, which rejects start().   *)
socketClosed(s) ==
  [startFails(dialRejected(dropped(s))) EXCEPT !.ready = "none", !.socket = "none"]

(* A protocol frame reaches the connection; handshake bytes do not decode  *)
(* as a frame, and are dropped.                                            *)
ingest(s, p) ==
  IF p.kind = "frame" THEN [s EXCEPT !.heard = @ \cup {<<s.conn, p.key>>}] ELSE s

(* The reader that waits gets the bytes.                                   *)
woken(s, n, p) ==
  LET t == s.waiter
      u == [s EXCEPT !.waiter = NoTask]
  IN CASE s.tasks[t].at = "challenge" -> gotChallenge(u, n, t, p)
       [] s.tasks[t].at = "init" -> gotInit(u, n, t, p)
       [] OTHER -> gotAck(u, t, p)

(* Faulty variant: a waiting reader goes before the connection.            *)
routeWaiterFirst(s, n, p) ==
  IF s.waiter # NoTask THEN woken(s, n, p)
  ELSE IF s.conn \in s.active THEN ingest(s, p)
  ELSE [s EXCEPT !.queue = Append(@, p)]

route(s, n, p) ==
  IF s.conn \in s.active THEN ingest(s, p)
  ELSE IF s.waiter # NoTask THEN woken(s, n, p)
  ELSE [s EXCEPT !.queue = Append(@, p)]

opened(s, n) ==
  IF s.dial # NoTask THEN shakes([s EXCEPT !.dial = NoTask], n, s.dial) ELSE accept(s, n)
-----------------------------------------------------------------------------
Move == moves < MaxMoves /\ moves' = moves + 1

(* connect(): start() is memoised, with its failure.                       *)
Connect(n) ==
  /\ calls < MaxCalls /\ calls' = calls + 1
  /\ LET s == node[n]
         t == CHOOSE u \in Tasks : /\ s.tasks[u].at = "idle"
                                   /\ \A v \in Tasks : s.tasks[v].at = "idle" => u <= v
     IN Become(n, CASE s.ready = "none" ->
                         [goes(s, t, "starting") EXCEPT !.ready = "pending", !.socket = "connecting"]
                    [] s.ready = "pending" -> goes(s, t, "starting")
                    [] s.ready = "failed" -> fails(s, t)
                    [] OTHER -> dials(s, t))
  /\ UNCHANGED moves

(* start() alone: a peer that only waits to be dialled.                    *)
Start(n) ==
  /\ node[n].ready = "none"
  /\ Become(n, [node[n] EXCEPT !.ready = "pending", !.socket = "connecting"])
  /\ UNCHANGED <<calls, moves>>

(* onopen: the node registers, unless the transport was closed meanwhile,  *)
(* and the calls that waited go on.                                        *)
SocketOpens(n) ==
  /\ node[n].socket = "connecting"
  /\ LET s == sendEnvelope([node[n] EXCEPT !.socket = "open"], Control("REGISTER"))
     IN Become(n, IF s.ready = "pending"
                  THEN FoldLeft(dials, [s EXCEPT !.ready = "ok"], Starting(s))
                  ELSE s)
  /\ UNCHANGED <<calls, moves>>

(* The timer of start(): the promise is rejected, the socket left alone.   *)
StartTimesOut(n) ==
  /\ node[n].ready = "pending" /\ Move
  /\ Become(n, startFails([node[n] EXCEPT !.ready = "failed"]))
  /\ UNCHANGED calls

(* What the relay does when a socket has gone: it may or may not tell the  *)
(* other peer that their session has ended.                                *)
Unregistered(n) ==
  /\ relay' = relay \ {n}
  /\ LET cut == [down EXCEPT ![n] = <<>>]
     IN down' \in {cut} \cup
          IF {n, Other(n)} \subseteq relay
          THEN {[cut EXCEPT ![Other(n)] = Append(@, Control("CLOSED"))]} ELSE {}

(* The socket is refused, or an open one lost.                             *)
SocketCloses(n) ==
  /\ node[n].socket # "none" /\ Move
  /\ node' = [node EXCEPT ![n] = socketClosed(node[n])]
  /\ Unregistered(n)
  /\ UNCHANGED calls

(* close() of the transport: also the waiting readers and what is queued   *)
(* are forgotten; their handshakes end by their timers.                    *)
Shutdown(n) ==
  /\ ~node[n].closed /\ Move
  /\ node' = [node EXCEPT ![n] = [socketClosed(node[n]) EXCEPT
                !.closed = TRUE, !.waiter = NoTask, !.queue = <<>>]]
  /\ Unregistered(n)
  /\ UNCHANGED calls

Receives(n, type) == down[n] # <<>> /\ Head(down[n]).type = type

(* handleMessage().                                                        *)
HearOpened(n) ==
  /\ Receives(n, "OPENED")
  /\ BecomeAfter(n, opened(node[n], n))
  /\ UNCHANGED <<calls, moves>>

HearData(n) ==
  /\ Receives(n, "DATA")
  /\ BecomeAfter(n, route(node[n], n, Head(down[n]).payload))
  /\ UNCHANGED <<calls, moves>>

HearClosed(n) ==
  /\ Receives(n, "CLOSED")
  /\ BecomeAfter(n, dialRejected(dropped(node[n])))
  /\ UNCHANGED <<calls, moves>>

(* A handshake's timer clears the peer's place, whoever holds it, and ends *)
(* the handshake; an accepter then closes the session.                     *)
expired(s, t) ==
  CASE s.tasks[t].at = "dialling" -> [fails(s, t) EXCEPT !.dial = NoTask]
    [] s.tasks[t].at = "challenge" -> [fails(s, t) EXCEPT !.waiter = NoTask]
    [] OTHER -> [refuses(s, t) EXCEPT !.waiter = NoTask]

Expires(n, t) ==
  /\ node[n].tasks[t].at \in Waiting \ {"starting"}
  /\ Become(n, expired(node[n], t))
  /\ UNCHANGED <<calls, moves>>

(* send() and the microtask that flushes it.                               *)
SendFrame(n) ==
  /\ node[n].conn \in node[n].active /\ Move
  /\ Become(n, sendControl(node[n], "frame", node[n].conn))
  /\ UNCHANGED calls

(* close() of one connection object: the peer's entry is removed, whichever*)
(* connection it is of.                                                    *)
CloseConnection(n) ==
  /\ Move
  /\ \E k \in node[n].active :
       Become(n, sendEnvelope([node[n] EXCEPT !.active = @ \ {k}, !.conn = NoKey],
                              Control("CLOSED")))
  /\ UNCHANGED calls

Next == \E n \in Nodes :
  \/ Connect(n) \/ Start(n) \/ SocketOpens(n) \/ StartTimesOut(n) \/ SocketCloses(n) \/ Shutdown(n)
  \/ HearOpened(n) \/ HearData(n) \/ HearClosed(n)
  \/ \E t \in Tasks : Expires(n, t)
  \/ SendFrame(n) \/ CloseConnection(n)

Spec == Init /\ [][Next]_vars

(* Timers run and sockets deliver; nobody has to call, close or lose       *)
(* anything.                                                               *)
Progress == \E n \in Nodes :
  \/ SocketOpens(n) \/ HearOpened(n) \/ HearData(n) \/ HearClosed(n)
  \/ \E t \in Tasks : Expires(n, t)

FairSpec == Spec /\ WF_vars(Progress)
-----------------------------------------------------------------------------
(* A live connection is one the transport can find: no connection object   *)
(* is left Active after another has taken the peer's place, whatever       *)
(* handshakes overlap.  Nobody would ever close it, and a client holding   *)
(* it would send into a session that is not the peer's.                    *)
NoneOrphaned == \A n \in Nodes : node[n].active \subseteq {node[n].conn}

(* When two peers both hold a connection with each other and nothing is    *)
(* under way to one of them, they hold the same session key: messages of a *)
(* handshake that was given up are never taken for those of another.       *)
SameKey ==
  \A n \in Nodes :
    \/ down[n] # <<>>
    \/ NoKey \in {node[n].conn, node[Other(n)].conn}
    \/ node[n].conn = node[Other(n)].conn

(* A frame is delivered on the session it was sent on: nothing left of an  *)
(* earlier session surfaces in a later one.                                *)
FrameOfItsSession == \A n \in Nodes : \A h \in node[n].heard : h[1] = h[2]

(* However many handshakes with one peer overlap, time out or cross, there *)
(* is one session with it at a time: no connection object stays behind     *)
(* live and unowned, both ends hold the same key, and a frame surfaces on  *)
(* the session it was sent on (establish(), route(), nextControl()).       *)
OneSession == NoneOrphaned /\ SameKey /\ FrameOfItsSession

Settled ==
  \A n \in Nodes : down[n] = <<>> /\ \A t \in Tasks : node[n].tasks[t].at \notin Waiting

(* Every handshake ends, well or badly, also one whose place another has   *)
(* taken and one whose socket was lost: nobody awaits connect() for ever,  *)
(* and what the peers still had to tell each other has been heard.         *)
EveryoneSettles == <>[]Settled

(* What the code does not keep.  relay-protocol.ts:33 says of CLOSED that  *)
(* "the session with the named peer has ended": once everything has        *)
(* settled, a session that has ended for one peer has ended for the other. *)
EndsForBoth == Settled => \A n \in Nodes : node[n].conn = node[Other(n)].conn
=============================================================================
