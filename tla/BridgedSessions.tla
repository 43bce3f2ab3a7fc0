--------------------------- MODULE BridgedSessions ---------------------------
(***************************************************************************)
(* Sessions over byte pipes that the host application owns                 *)
(* (core/src/transport/bridged-transport.ts with pipe-reader.ts,           *)
(* frame-reader.ts and priority-queue.ts), between two nodes that dial     *)
(* each other.                                                             *)
(*                                                                         *)
(* A dial makes a pipe, numbered here in the order of the dials; the host  *)
(* names it by an id, and may use the id again when the pipe is finished   *)
(* and that was reported.  What a host reports of a pipe waits in line for *)
(* JavaScript, which handles one event with all it resumes before the      *)
(* next; awaits on the host end in their own time.  Bytes come in chunks   *)
(* of whole messages: a part of one waits in the reader.                   *)
(***************************************************************************)
EXTENDS Naturals, Sequences, FiniteSets, Functions

CONSTANTS
  Nodes,      \* two of them
  Dialers,    \* those of them that dial
  Ids,        \* what hosts name pipes by
  None,       \* no id
  MaxPipes,   \* bound on dials
  MaxFrames,  \* bound on turns in which a node sends
  MaxLosses   \* bound on pipes that are lost

ASSUME BridgedSessionsAssumption ==
  /\ IsFiniteSet(Nodes) /\ Cardinality(Nodes) = 2 /\ Dialers \subseteq Nodes /\ None \notin Ids
  /\ MaxPipes \in Nat /\ MaxFrames \in Nat /\ MaxLosses \in Nat

VARIABLES
  pipe,     \* number -> id, dialler, and whether the host has it open
  dials,    \* pipes dialled so far
  events,   \* node -> pipe -> what its host has to report of it, oldest first
  asks,     \* node -> pipes whose id its host is asked to disconnect
  channels, \* node -> id -> the reader and session held against it
  task,     \* node -> pipe -> where its handshake is
  session,  \* node -> pipe -> state of the connection
  byPeer,   \* node -> id of the session with the other
  sent,     \* node -> pipe -> turns in which frames were sent
  heard,    \* node -> pipe -> frames that reached a listener
  unheard,  \* node -> frames that were emitted to nobody
  stray,    \* history: a session was established on a channel that is not its own
  losses

host  == <<pipe, dials, losses>>
local == <<channels, task, session, byPeer>>
seen  == <<heard, unheard, stray>>
vars  == <<host, events, asks, local, sent, seen>>

Other(n) == CHOOSE m \in Nodes : m # n
Pipes    == 1 .. MaxPipes
Waiting  == {"challenge", "init", "ack"}
Writing  == {"writeInit", "writeChallenge", "writeAck"}

(* A handshake message, or the pipe's beginning or end.                    *)
Message(type) == [type |-> type, session |-> 0, index |-> 0, urgent |-> FALSE]

(* A frame of session p, the i-th of its band.                             *)
Frame(p, i, urgent) == [type |-> "frame", session |-> p, index |-> i, urgent |-> urgent]

(* A channel, its reader still at control messages.                        *)
NoChannel  == [reader |-> 0, mode |-> "none", buffer |-> <<>>, connection |-> 0]
Channel(p) == [NoChannel EXCEPT !.reader = p, !.mode = "control"]

Init ==
  /\ pipe = [p \in Pipes |-> [id |-> None, from |-> None, open |-> FALSE]]
  /\ dials = 0 /\ losses = 0
  /\ events = [n \in Nodes |-> [p \in Pipes |-> <<>>]]
  /\ asks = [n \in Nodes |-> {}]
  /\ channels = [n \in Nodes |-> [i \in Ids |-> NoChannel]]
  /\ task = [n \in Nodes |-> [p \in Pipes |-> "none"]]
  /\ session = [n \in Nodes |-> [p \in Pipes |-> "none"]]
  /\ byPeer = [n \in Nodes |-> None]
  /\ sent = [n \in Nodes |-> [p \in Pipes |-> 0]]
  /\ heard = [n \in Nodes |-> [p \in Pipes |-> <<>>]]
  /\ unheard = [n \in Nodes |-> {}] /\ stray = FALSE
-----------------------------------------------------------------------------
Id(p)       == pipe[p].id
Open(i)     == {p \in Pipes : pipe[p].open /\ pipe[p].id = i}
Held(n, i)  == channels[n][i].mode # "none"
Connected(n, i) == channels[n][i].connection # 0
Live(n)     == byPeer[n] # None /\ Connected(n, byPeer[n])
               /\ session[n][channels[n][byPeer[n]].connection] = "active"

(* pipe.send(): to the pipe that is open under the id.                     *)
put(n, i, messages) ==
  events' = [events EXCEPT ![Other(n)] = [q \in Pipes |->
               IF q \in Open(i) THEN events[Other(n)][q] \o messages
               ELSE events[Other(n)][q]]]

(* The handshake of p that waits for the message at hand resumes.          *)
Resumes(n, p) ==
  /\ task[n][p] \in Waiting /\ channels[n][Id(p)].reader = p
  /\ channels[n][Id(p)].mode = "control" /\ channels[n][Id(p)].buffer # <<>>

Rests(n) == \A p \in Pipes : ~Resumes(n, p)

(* teardown(): the channel goes, a handshake that waits on it fails, its   *)
(* connection is closed.  A failed accept() then drops the id again.       *)
Failed(n, i) ==
  {p \in Pipes : Held(n, i) /\ channels[n][i].reader = p /\ task[n][p] \in Waiting}

Sessions(n, i) == IF Connected(n, i) THEN {channels[n][i].connection} ELSE {}

(* Faulty variant: what has a session is kept.                             *)
teardownIdle(n, i, replaced, closes) ==
  IF Connected(n, i) THEN UNCHANGED <<channels, session, byPeer>>
  ELSE /\ channels' = [channels EXCEPT ![n][i] = replaced]
       /\ UNCHANGED <<session, byPeer>>

teardown(n, i, replaced, closes) ==
  /\ channels' = [channels EXCEPT ![n][i] = replaced]
  /\ session' = [session EXCEPT ![n] = [p \in Pipes |->
                   IF p \in closes \cup Sessions(n, i) THEN "closed" ELSE session[n][p]]]
  /\ byPeer' = [byPeer EXCEPT ![n] =
                  IF Sessions(n, i) # {} /\ @ = i THEN None ELSE @]

ended(n, i)   == [p \in Pipes |-> IF p \in Failed(n, i) THEN "over" ELSE task[n][p]]
dropped(n, i) == {p \in Failed(n, i) : task[n][p] # "challenge"}
-----------------------------------------------------------------------------
(* connect(), when no session is there: the host has dialled, the channel  *)
(* starts afresh and the first message is written.                         *)
Dial(n, i) ==
  /\ dials < MaxPipes /\ Open(i) = {} /\ ~Live(n) /\ Rests(n)
  /\ \A m \in Nodes, q \in Pipes : Id(q) = i => events[m][q] = <<>>
  /\ LET p == dials + 1 IN
     /\ dials' = p /\ pipe' = [pipe EXCEPT ![p] = [id |-> i, from |-> n, open |-> TRUE]]
     /\ events' = [events EXCEPT ![Other(n)][p] = <<Message("inbound"), Message("init")>>]
     /\ teardown(n, i, Channel(p), {})
     /\ task' = [task EXCEPT ![n] = [ended(n, i) EXCEPT ![p] = "writeInit"]]
     /\ asks' = [asks EXCEPT ![n] = @ \cup dropped(n, i)]
  /\ UNCHANGED <<losses, sent, seen>>

(* establish(): a session on the channel, or on a new one.  What its       *)
(* reader holds is emitted at once.                                        *)
establish(n, p) ==
  LET c == channels[n][Id(p)] IN
  /\ channels' = [channels EXCEPT ![n][Id(p)] =
       [reader |-> IF c.mode = "none" THEN p ELSE c.reader, mode |-> "frames",
        buffer |-> <<>>, connection |-> p]]
  /\ byPeer' = [byPeer EXCEPT ![n] = Id(p)]
  /\ session' = [session EXCEPT ![n][p] = "active"]
  /\ task' = [task EXCEPT ![n][p] = "over"]
  /\ unheard' = [unheard EXCEPT ![n] = @ \cup {c.buffer[k] : k \in DOMAIN c.buffer}]
  /\ stray' = (stray \/ c.reader # p)

(* A write to the host is over; the next read begins, or the dialler's     *)
(* handshake is done.                                                      *)
Written(n, p) ==
  /\ task[n][p] \in Writing /\ Rests(n)
  /\ IF task[n][p] = "writeAck" THEN establish(n, p) /\ UNCHANGED heard
     ELSE /\ task' = [task EXCEPT ![n][p] =
               IF @ = "writeInit" THEN "challenge" ELSE "ack"]
          /\ UNCHANGED <<channels, session, byPeer, seen>>
  /\ UNCHANGED <<host, events, asks, sent>>

(* Faulty variant: accept() gives up without dropping the id.              *)
failSilent(n, p) ==
  task' = [task EXCEPT ![n][p] = "over"] /\ UNCHANGED <<asks, channels, session, byPeer>>

(* connect() rejects; accept() drops the id.                               *)
fail(n, p) ==
  IF task[n][p] \in {"writeInit", "challenge", "writeAck"}
  THEN task' = [task EXCEPT ![n][p] = "over"] /\ UNCHANGED <<asks, channels, session, byPeer>>
  ELSE /\ teardown(n, Id(p), NoChannel, {})
       /\ task' = [task EXCEPT ![n] = [ended(n, Id(p)) EXCEPT ![p] = "over"]]
       /\ asks' = [asks EXCEPT ![n] = @ \cup ({p} \cup dropped(n, Id(p)))]

(* pipe.send() rejects when the pipe is gone.                              *)
WriteFails(n, p) ==
  /\ task[n][p] \in Writing /\ ~pipe[p].open /\ Rests(n) /\ fail(n, p)
  /\ UNCHANGED <<host, events, sent, seen>>

(* readControl(): the timer of a read that nothing answered.               *)
Timeout(n, p) ==
  /\ task[n][p] \in Waiting /\ Rests(n) /\ fail(n, p)
  /\ UNCHANGED <<host, events, sent, seen>>

(* readControl(): the first message in the buffer.                         *)
taken(n, p) == [channels EXCEPT ![n][Id(p)].buffer = Tail(@)]

(* The message that was waited for, and what is written then; an ack ends  *)
(* the handshake of the accepter.                                          *)
Resume(n, p) ==
  /\ Resumes(n, p)
  /\ LET m == Head(channels[n][Id(p)].buffer) IN
     \/ /\ m.type # task[n][p] /\ fail(n, p)
        /\ UNCHANGED <<events, seen>>
     \/ /\ m.type = task[n][p] /\ m.type # "ack"
        /\ channels' = taken(n, p)
        /\ put(n, Id(p), <<Message(IF m.type = "init" THEN "challenge" ELSE "ack")>>)
        /\ task' = [task EXCEPT ![n][p] = IF @ = "init" THEN "writeChallenge" ELSE "writeAck"]
        /\ UNCHANGED <<asks, session, byPeer, seen>>
     \/ /\ m.type = task[n][p] /\ m.type = "ack"
        /\ LET rest == Tail(channels[n][Id(p)].buffer) IN
           /\ channels' = [channels EXCEPT ![n][Id(p)] =
                [@ EXCEPT !.mode = "frames", !.buffer = <<>>, !.connection = p]]
           /\ unheard' = [unheard EXCEPT ![n] = @ \cup {rest[k] : k \in DOMAIN rest}]
        /\ byPeer' = [byPeer EXCEPT ![n] = Id(p)]
        /\ session' = [session EXCEPT ![n][p] = "active"]
        /\ task' = [task EXCEPT ![n][p] = "over"]
        /\ UNCHANGED <<events, asks, heard, stray>>
  /\ UNCHANGED <<host, sent>>
-----------------------------------------------------------------------------
Reports(n, p, types) ==
  events[n][p] # <<>> /\ Head(events[n][p]).type \in types /\ Rests(n)

accept(n, p) ==
  /\ teardown(n, Id(p), Channel(p), {})
  /\ task' = [task EXCEPT ![n] = [ended(n, Id(p)) EXCEPT ![p] = "init"]]
  /\ asks' = [asks EXCEPT ![n] = @ \cup dropped(n, Id(p))]

(* onInbound.                                                              *)
Inbound(n, p) ==
  /\ Reports(n, p, {"inbound"}) /\ accept(n, p)
  /\ events' = [events EXCEPT ![n][p] = Tail(@)]
  /\ UNCHANGED <<host, sent, seen>>

(* PipeReader.push() while control messages are read.                      *)
pushed(n, i, chunk) ==
  LET c == channels[n][i] IN
  [channels EXCEPT ![n][i] =
     IF c.mode = "none" THEN [Channel(0) EXCEPT !.buffer = chunk]
     ELSE [c EXCEPT !.buffer = @ \o chunk]]

(* onData: a chunk of one message or more.  Frames go to whoever listens   *)
(* to the session.                                                         *)
Data(n, p, k) ==
  /\ Reports(n, p, {"init", "challenge", "ack", "frame"}) /\ k <= Len(events[n][p])
  /\ LET c == channels[n][Id(p)]
         chunk == SubSeq(events[n][p], 1, k)
     IN /\ \A j \in 1 .. k : chunk[j].type # "closed"
        /\ IF c.mode = "frames"
           THEN /\ heard' = [heard EXCEPT ![n][c.connection] =
                     IF session[n][c.connection] = "active" THEN @ \o chunk ELSE @]
                /\ UNCHANGED channels
           ELSE channels' = pushed(n, Id(p), chunk) /\ UNCHANGED heard
  /\ events' = [events EXCEPT ![n][p] = SubSeq(@, k + 1, Len(@))]
  /\ UNCHANGED <<host, asks, task, session, byPeer, sent, unheard, stray>>

(* onClosed.                                                               *)
Closed(n, p) ==
  /\ Reports(n, p, {"closed"})
  /\ teardown(n, Id(p), NoChannel, {})
  /\ task' = [task EXCEPT ![n] = ended(n, Id(p))]
  /\ asks' = [asks EXCEPT ![n] = @ \cup dropped(n, Id(p))]
  /\ events' = [events EXCEPT ![n][p] = Tail(@)]
  /\ UNCHANGED <<host, sent, seen>>
-----------------------------------------------------------------------------
(* The host disconnects whatever is open under the id, and tells both ends.*)
Disconnect(n, p) ==
  /\ p \in asks[n] /\ asks' = [asks EXCEPT ![n] = @ \ {p}]
  /\ pipe' = [q \in Pipes |-> [pipe[q] EXCEPT !.open = @ /\ q \notin Open(Id(p))]]
  /\ events' = [m \in Nodes |-> [q \in Pipes |->
       IF q \in Open(Id(p)) THEN Append(events[m][q], Message("closed")) ELSE events[m][q]]]
  /\ UNCHANGED <<dials, losses, local, sent, seen>>

(* What is left of a line when the network loses the pipe: its beginning   *)
(* is still reported, the bytes that were on it are not.                   *)
cut(line) ==
  Append(IF line # <<>> /\ Head(line).type = "inbound" THEN <<Head(line)>> ELSE <<>>,
         Message("closed"))

Lose(p) ==
  /\ pipe[p].open /\ losses < MaxLosses /\ losses' = losses + 1
  /\ pipe' = [pipe EXCEPT ![p].open = FALSE]
  /\ events' = [n \in Nodes |-> [events[n] EXCEPT ![p] = cut(@)]]
  /\ UNCHANGED <<dials, asks, local, sent, seen>>

(* PriorityFrameQueue: two bands; frames are dequeued from the urgent one  *)
(* until it is empty, then from the other.                                 *)
NoFrames      == [urgent |-> <<>>, normal |-> <<>>]
enqueue(q, f) == IF f.urgent THEN [q EXCEPT !.urgent = Append(@, f)]
                 ELSE [q EXCEPT !.normal = Append(@, f)]
dequeued(q)   == q.urgent \o q.normal

(* What a turn writes in which three frames are sent, one of them urgently.*)
flushed(p, turn) ==
  LET q == enqueue(NoFrames, Frame(p, 2 * turn, FALSE))
      r == enqueue(q, Frame(p, turn, TRUE))
  IN  dequeued(enqueue(r, Frame(p, 2 * turn + 1, FALSE)))

(* BridgedConnection.send() three times in one turn, and the flush: the    *)
(* bytes go to whatever pipe is open under the id.                         *)
Send(n, p) ==
  /\ session[n][p] = "active" /\ FoldFunction(+, 0, sent[n]) < MaxFrames /\ Rests(n)
  /\ sent' = [sent EXCEPT ![n][p] = @ + 1]
  /\ put(n, Id(p), flushed(p, sent[n][p]))
  /\ UNCHANGED <<host, asks, local, seen>>

(* BridgedConnection.close().                                              *)
Close(n, p) ==
  /\ session[n][p] = "active" /\ Rests(n)
  /\ teardown(n, Id(p), NoChannel, {p})
  /\ task' = [task EXCEPT ![n] = ended(n, Id(p))]
  /\ asks' = [asks EXCEPT ![n] = @ \cup ({p} \cup dropped(n, Id(p)))]
  /\ UNCHANGED <<host, events, sent, seen>>

Handshake == \E n \in Nodes, p \in Pipes :
  Written(n, p) \/ WriteFails(n, p) \/ Timeout(n, p) \/ Resume(n, p) \/ Disconnect(n, p)

Event == \E n \in Nodes, p \in Pipes :
  Inbound(n, p) \/ Closed(n, p) \/ \E k \in 1 .. (2 + 3 * MaxFrames) : Data(n, p, k)

Next ==
  \/ Handshake \/ Event
  \/ \E n \in Dialers, i \in Ids : Dial(n, i)
  \/ \E n \in Nodes, p \in Pipes : Send(n, p) \/ Close(n, p)
  \/ \E p \in Pipes : Lose(p)

Spec == Init /\ [][Next]_vars
-----------------------------------------------------------------------------
(* Frame k of a session is the next of its band after frame j.             *)
Following(frames, j, k) ==
  /\ j < k /\ frames[k].urgent = frames[j].urgent
  /\ \A l \in j + 1 .. k - 1 : frames[l].urgent # frames[j].urgent

(* Frames of a session reach the listeners of that session and of no       *)
(* other, also when ids are used again (accept(), connect()), and those of *)
(* a band in the order they were sent, none twice and none left out after  *)
(* the first that is heard: as long as no session was established on a     *)
(* channel that is gone.                                                   *)
HeardAsSent ==
  ~stray => \A n \in Nodes, p \in Pipes :
    LET frames == heard[n][p] IN
    /\ \A k \in DOMAIN frames : frames[k].type = "frame" /\ frames[k].session = p
    /\ \A j, k \in DOMAIN frames :
         Following(frames, j, k) => frames[k].index = frames[j].index + 1

Settled ==
  \A n \in Nodes :
    asks[n] = {} /\ \A p \in Pipes : events[n][p] = <<>> /\ task[n][p] \in {"none", "over"}

(* Once nothing is under way and nothing waits, a session is there at both *)
(* ends or at none: a handshake that failed at one end is taken back at    *)
(* the other (accept(), drop(), teardown()).  As long as no session was    *)
(* established on a channel that is gone: of such a session an end may     *)
(* keep what the other has lost (NoZombie).                                *)
EndsAgree ==
  Settled /\ ~stray =>
    \A p \in Pipes, n, m \in Nodes : session[n][p] = "active" => session[m][p] = "active"

(* pipe-reader.ts says that the frames right behind the last control       *)
(* message are not lost.                                                   *)
FirstFramesHeard == \A n \in Nodes : unheard[n] = {}

(* A disconnect ends the pipe it was asked for.                            *)
EndsItsOwn ==
  [][\A n \in Nodes, p \in Pipes : p \in asks[n] \ asks'[n] =>
       \A q \in Pipes \ {p} : pipe[q].open => pipe'[q].open]_vars

(* A session that is active has its pipe, or is about to hear of its end.  *)
NoZombie ==
  \A n \in Nodes, p \in Pipes :
    session[n][p] = "active" /\ events[n][p] = <<>> => pipe[p].open
=============================================================================
