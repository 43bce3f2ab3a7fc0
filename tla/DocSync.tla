------------------------------- MODULE DocSync -------------------------------
(***************************************************************************)
(* Two replicas of one channel document brought together over Stream 0x01  *)
(* (core/src/crdt/sync-engine.ts, sync-protocol.ts, state-root.ts, with    *)
(* document-manager.ts, session-manager.ts and the checkpoints of          *)
(* document-store.ts around them), between two paired nodes that are on    *)
(* each other's guest list once they have the channel.                     *)
(*                                                                         *)
(* A document is its set of changes; deps gives the changes each was made  *)
(* on.  What Automerge does with a sync state is external and follows the  *)
(* protocol of the library; its Bloom filter is taken to be exact.         *)
(***************************************************************************)
EXTENDS Naturals, Sequences

CONSTANTS
  Nodes,       \* two of them
  MaxChanges,  \* bound on changes, besides the one every document starts with
  MaxConnects, \* bound on connections
  MaxMoves     \* bound on lost connections and crashes, and with them on
               \* the checkpoints that matter

DocSyncAssumption ==
  /\ \E n, m \in Nodes : n # m /\ Nodes = {n, m}
  /\ MaxChanges \in Nat /\ MaxConnects \in Nat /\ MaxMoves \in Nat

VARIABLES
  deps,     \* change -> every change below it
  doc,      \* node -> changes of its document; none: it has no document
  queue,    \* node -> changes that wait for others, inside Automerge
  saved,    \* node -> the document at its last checkpoint
  sync,     \* node -> Automerge's sync state for the other node
  wire,     \* node -> frames under way to it
  late,     \* node -> replies it still has to send
  up,       \* whether the two are connected
  started,  \* node -> whether its documents are restored
  lost,     \* history: a frame was lost or left unread
  untold,   \* history: a document was made that this connection is not told of
  connects, moves

links == <<up, connects>>
seen  == <<lost, untold>>
vars == <<deps, doc, queue, saved, sync, wire, late, links, started, seen, moves>>

Other(n) == CHOOSE m \in Nodes : m # n
Changes  == 0 .. MaxChanges
Genesis  == 0

Heads(s)  == {c \in s : \A d \in s : c \notin deps[d]}
Below(s)  == s \cup UNION {deps[c] : c \in s}

(* initSyncState().                                                        *)
Fresh == [shared |-> {}, lastSent |-> {}, theirHeads |-> {}, theirNeed |-> {},
          theirHave |-> {}, heard |-> FALSE, sent |-> {}, inFlight |-> FALSE,
          responded |-> FALSE]

Root(s)       == [type |-> "ROOT_SYNC", root |-> s]
Matched(ok)   == [type |-> "ROOT_MATCH", matched |-> ok]
Delta(m)      == [type |-> "SEND_DELTA", message |-> m]

Init ==
  /\ deps = [c \in Changes |-> {}]
  /\ doc = [n \in Nodes |-> {}] /\ queue = [n \in Nodes |-> {}]
  /\ saved = [n \in Nodes |-> {}] /\ sync = [n \in Nodes |-> Fresh]
  /\ wire = [n \in Nodes |-> <<>>] /\ late = [n \in Nodes |-> <<>>]
  /\ up = FALSE /\ started = [n \in Nodes |-> TRUE] /\ lost = FALSE /\ untold = FALSE
  /\ connects = 0 /\ moves = 0

Move == moves < MaxMoves /\ moves' = moves + 1
-----------------------------------------------------------------------------
(* getMissingDeps(): of these heads and of what waits.                     *)
missing(d, q, heads) == ((heads \cup UNION {deps[c] : c \in q}) \ q) \ d

(* What of d the last message of the peer leaves to be sent.               *)
toSend(d, s) ==
  LET covered == UNION {Below(h.lastSync) \cup h.bloom : h \in s.theirHave} IN
  (s.theirNeed \cap d) \cup IF s.theirHave = {} THEN {} ELSE d \ covered

(* generateSyncMessage() of a document with these heads: the next state,   *)
(* and no message or one.                                                  *)
generate(d, heads, q, s) ==
  LET need   == missing(d, q, s.theirHeads)
      have   == IF need \subseteq s.theirHeads
                THEN {[lastSync |-> s.shared, bloom |-> d \ Below(s.shared)]} ELSE {}
      unsent == IF s.heard THEN toSend(d, s) \ s.sent ELSE {}
      silent == s.lastSent = heads /\ s.responded
  IN IF \E h \in s.theirHave : ~(h.lastSync \subseteq d)
     THEN [state |-> s, message |->
             {[heads |-> heads, need |-> {}, changes |-> {},
               have |-> {[lastSync |-> {}, bloom |-> {}]}]}]
     ELSE IF silent /\ ((s.heard /\ s.theirHeads = heads /\ unsent = {}) \/ s.inFlight)
     THEN [state |-> s, message |-> {}]
     ELSE [state |-> [s EXCEPT !.responded = TRUE, !.lastSent = heads, !.inFlight = TRUE,
                               !.sent = @ \cup unsent],
           message |-> {[heads |-> heads, need |-> need, have |-> have, changes |-> unsent]}]

(* applyChanges(): what can be applied of s on top of d.                   *)
applied(d, s) ==
  LET ready == {c \in s : deps[c] \subseteq d \cup s} IN
  d \cup {c \in ready : \A b \in deps[c] : b \in d \/ b \in ready}

(* receiveSyncMessage().                                                   *)
receive(d, q, s, m) ==
  LET all    == q \cup (m.changes \ d)
      new    == applied(d, all)
      shared == IF m.changes = {} THEN s.shared
                ELSE (Heads(new) \ Heads(d)) \cup (s.shared \cap Heads(new))
      known  == m.heads \cap new
      whole  == known = m.heads
      forget == whole /\ m.heads = {}
  IN [doc |-> new, queue |-> all \ new,
      state |-> [s EXCEPT
        !.inFlight = FALSE, !.heard = TRUE,
        !.theirHave = m.have, !.theirHeads = m.heads, !.theirNeed = m.need,
        !.shared = IF whole THEN m.heads ELSE shared \cup known,
        !.lastSent = IF forget THEN {}
                     ELSE IF m.changes = {} /\ m.heads = Heads(d) THEN m.heads ELSE @,
        !.sent = IF forget THEN {} ELSE @ \ Below(known)]]
-----------------------------------------------------------------------------
(* generateFor(): nothing without the document.                            *)
generateFor(d, heads, q, s) ==
  IF d = {} THEN [state |-> s, frames |-> <<>>]
  ELSE LET g == generate(d, heads, q, s)
       IN [state |-> g.state,
           frames |-> IF g.message = {} THEN <<>>
                      ELSE <<Delta(CHOOSE m \in g.message : TRUE)>>]

(* A frame that cannot be sent is gone.                                    *)
sends(n, frames) ==
  IF up THEN wire' = [wire EXCEPT ![Other(n)] = @ \o frames] ELSE UNCHANGED wire

(* pushDocument(), to a peer on the guest list that is connected.          *)
pushDocument(n, d, heads) ==
  IF up THEN \E g \in {generateFor(d, heads, queue[n], sync[n])} :
               sync' = [sync EXCEPT ![n] = g.state] /\ sends(n, g.frames)
  ELSE UNCHANGED <<sync, wire>>

(* A new change on top of n's document, which is created if it must be: it *)
(* is the one head.                                                        *)
extended(n, c) ==
  /\ deps[c] = {} /\ c # Genesis /\ \A b \in Changes : (b < c /\ b # Genesis) => deps[b] # {}
  /\ deps' = [deps EXCEPT ![c] = doc[n] \cup {Genesis}]
  /\ doc' = [doc EXCEPT ![n] = @ \cup {Genesis, c}]

(* createChannel(): nothing is pushed.                                     *)
CreateChannel(n, c) ==
  /\ started[n] /\ doc[n] = {} /\ extended(n, c) /\ untold' = (untold \/ up)
  /\ UNCHANGED <<queue, saved, sync, wire, late, links, started, lost, moves>>

(* recordLocally() with a message that was sent here, or arrived in an     *)
(* envelope; scheduleSync() pushes once the change is made.                *)
Record(n, c) ==
  /\ started[n] \/ up
  /\ extended(n, c) /\ pushDocument(n, doc[n] \cup {Genesis, c}, {c})
  /\ UNCHANGED <<queue, saved, late, links, started, seen, moves>>

(* checkpoint(), written before the process ends.  Only a later crash can  *)
(* tell: there is none once moves are used up.                             *)
Checkpoint(n) ==
  /\ started[n] /\ saved[n] # doc[n] /\ moves < MaxMoves
  /\ saved' = [saved EXCEPT ![n] = doc[n]]
  /\ UNCHANGED <<deps, doc, queue, sync, wire, late, links, started, seen, moves>>

(* connect(): the dialler opens with its root.                             *)
Connect(n) ==
  /\ started[n] /\ ~up /\ connects < MaxConnects
  /\ up' = TRUE /\ connects' = connects + 1 /\ untold' = FALSE
  /\ wire' = [wire EXCEPT ![Other(n)] = <<Root(doc[n])>>]
  /\ UNCHANGED <<deps, doc, queue, saved, sync, late, started, lost, moves>>
-----------------------------------------------------------------------------
Receives(n, type) == wire[n] # <<>> /\ Head(wire[n]).type = type

(* Replies are sent one after the other, and other frames may be handled   *)
(* before the second.                                                      *)
replies(n, frames) ==
  /\ wire' = [wire EXCEPT ![n] = Tail(@),
                          ![Other(n)] = IF frames = <<>> THEN @ ELSE Append(@, Head(frames))]
  /\ late' = [late EXCEPT ![n] = IF frames = <<>> THEN @ ELSE @ \o Tail(frames)]

Continue(n) ==
  /\ late[n] # <<>>
  /\ sends(n, <<Head(late[n])>>) /\ late' = [late EXCEPT ![n] = Tail(@)]
  /\ UNCHANGED <<deps, doc, queue, saved, sync, links, started, seen, moves>>

(* Faulty variant: a root is answered with a root.                         *)
rootReplyRoot(n, root) ==
  \E g \in {generateFor(doc[n], Heads(doc[n]), queue[n], sync[n])} :
  /\ sync' = [sync EXCEPT ![n] = g.state]
  /\ replies(n, <<Root(doc[n])>> \o g.frames)

rootReply(n, root) ==
  IF root = doc[n] THEN replies(n, <<Matched(TRUE)>>) /\ UNCHANGED sync
  ELSE \E g \in {generateFor(doc[n], Heads(doc[n]), queue[n], sync[n])} :
       /\ sync' = [sync EXCEPT ![n] = g.state]
       /\ replies(n, <<Matched(FALSE)>> \o g.frames)

(* handleRootSync().                                                       *)
HearRoot(n) ==
  /\ Receives(n, "ROOT_SYNC") /\ rootReply(n, Head(wire[n]).root)
  /\ UNCHANGED <<deps, doc, queue, saved, links, started, seen, moves>>

(* handleRootMatch().                                                      *)
HearMatch(n) ==
  /\ Receives(n, "ROOT_MATCH")
  /\ IF Head(wire[n]).matched THEN replies(n, <<>>) /\ UNCHANGED sync
     ELSE \E g \in {generateFor(doc[n], Heads(doc[n]), queue[n], sync[n])} :
            sync' = [sync EXCEPT ![n] = g.state] /\ replies(n, g.frames)
  /\ UNCHANGED <<deps, doc, queue, saved, links, started, seen, moves>>

(* Faulty variant: changes are taken in and nothing is said back.          *)
answerNone(n, r) == sync' = [sync EXCEPT ![n] = r.state] /\ replies(n, <<>>)

answer(n, r) ==
  \E g \in {generateFor(r.doc, Heads(r.doc), r.queue, r.state)} :
    sync' = [sync EXCEPT ![n] = g.state] /\ replies(n, g.frames)

(* handleSendDelta(): left unread while nobody is on the guest list here.  *)
HearDelta(n) ==
  /\ Receives(n, "SEND_DELTA")
  /\ IF doc[n] = {}
     THEN replies(n, <<>>) /\ lost' = TRUE /\ UNCHANGED <<doc, queue, sync>>
     ELSE \E r \in {receive(doc[n], queue[n], sync[n], Head(wire[n]).message)} :
          /\ doc' = [doc EXCEPT ![n] = r.doc] /\ queue' = [queue EXCEPT ![n] = r.queue]
          /\ answer(n, r) /\ UNCHANGED lost
  /\ UNCHANGED <<deps, saved, links, started, untold, moves>>
-----------------------------------------------------------------------------
(* The connection ends with what was on it; sync states stay.              *)
Disconnect ==
  /\ up /\ Move
  /\ up' = FALSE /\ lost' = (lost \/ \E n \in Nodes : wire[n] # <<>> \/ late[n] # <<>>)
  /\ wire' = [n \in Nodes |-> <<>>] /\ late' = [n \in Nodes |-> <<>>]
  /\ UNCHANGED <<deps, doc, queue, saved, sync, connects, started, untold>>

(* The process stops; the next one accepts connections before it has read  *)
(* its documents.                                                          *)
Crash(n) ==
  /\ Move
  /\ up' = FALSE /\ lost' = TRUE
  /\ wire' = [m \in Nodes |-> <<>>] /\ late' = [m \in Nodes |-> <<>>]
  /\ doc' = [doc EXCEPT ![n] = {}] /\ queue' = [queue EXCEPT ![n] = {}]
  /\ sync' = [sync EXCEPT ![n] = Fresh] /\ started' = [started EXCEPT ![n] = FALSE]
  /\ UNCHANGED <<deps, saved, connects, untold>>

(* restoreAll(): a stored document takes the place of any there is.        *)
RestoreAll(n) ==
  /\ ~started[n] /\ started' = [started EXCEPT ![n] = TRUE]
  /\ IF saved[n] = {} THEN UNCHANGED <<doc, queue>>
     ELSE doc' = [doc EXCEPT ![n] = saved[n]] /\ queue' = [queue EXCEPT ![n] = {}]
  /\ UNCHANGED <<deps, saved, sync, wire, late, links, seen, moves>>

Hear == \E n \in Nodes : HearRoot(n) \/ HearMatch(n) \/ HearDelta(n) \/ Continue(n)

Next ==
  \/ Hear \/ Disconnect
  \/ \E n \in Nodes : Connect(n) \/ Crash(n) \/ RestoreAll(n) \/ Checkpoint(n)
  \/ \E n \in Nodes, c \in Changes : CreateChannel(n, c) \/ Record(n, c)

Spec     == Init /\ [][Next]_vars
FairSpec == Spec /\ WF_vars(Hear)
-----------------------------------------------------------------------------
Quiet == up /\ \A n \in Nodes : wire[n] = <<>> /\ late[n] = <<>> /\ doc[n] # {}

(* When nothing is under way between two nodes that have the channel, and  *)
(* no frame was lost, the documents are the same, whatever was written     *)
(* while they spoke, in whatever order their frames crossed, and however   *)
(* often they reconnected (handleRootSync(), handleSendDelta()).           *)
Converged == Quiet /\ ~lost /\ ~untold => \A n, m \in Nodes : doc[n] = doc[m]

(* The two stop talking once nobody writes, unless a frame was lost        *)
(* (handleRootMatch(), generateFor()).                                     *)
ConversationEnds == <>[](lost \/ \A n \in Nodes : wire[n] = <<>> /\ late[n] = <<>>)

(* What a node has taken in stays in its document while it runs: only the  *)
(* end of the process takes away what no checkpoint kept.                  *)
NeverForgets ==
  [][\A n \in Nodes : doc[n] \subseteq doc'[n] \/ (started[n] /\ ~started'[n])]_vars

(* Documents come together again after a connection that ended early: the  *)
(* README of the repository says of what was done offline that it syncs    *)
(* seamlessly on reconnecting.                                             *)
Resumes ==
  Quiet /\ ~untold /\ (\A n \in Nodes : started[n]) => \A n, m \in Nodes : doc[n] = doc[m]
=============================================================================
