---------------------------- MODULE BlobTransfer ----------------------------
(***************************************************************************)
(* The transfer of one content-addressed blob (HLessEnd/src/               *)
(* blob-service.ts): get() with its callers, the peers asked in turn, the  *)
(* stall timer, the chunks, the check against the hash, and the rows that  *)
(* make a failed transfer resumable.  Blobs share no state but the storage *)
(* driver, so one is enough.                                               *)
(*                                                                         *)
(* Frames find the transfer by the blob's hash and not by the request they *)
(* answer: a chunk, a refusal or a timer that belongs to an earlier fetch, *)
(* or to a peer given up on, acts on whichever fetch is pending.           *)
(*                                                                         *)
(* Storage requests are served in order.  SQLite serves one before         *)
(* anything else can run; IndexedDB serves it some time later, and timers  *)
(* and frames run in between.                                              *)
(***************************************************************************)
EXTENDS Naturals, Sequences, FiniteSets

CONSTANTS
  Peers,       \* peers that may be connected
  Calls,       \* calls of get(); the fetch a call starts bears its name
  None,        \* not a call
  Size,        \* the blob's size, in chunks
  Drivers,     \* "sqlite", "indexeddb" or both
  MaxEvents,   \* bound on connections lost, sends that fail, storage requests
               \* rejected, and put() and delete() by the application
  MaxStorage   \* bound on storage requests in flight

ASSUME BlobAssumption ==
  /\ None \notin Calls
  /\ Drivers \subseteq {"sqlite", "indexeddb"}
  /\ Size \in Nat \ {0}
  /\ {MaxEvents, MaxStorage} \subseteq Nat

VARIABLES
  driver,   \* the storage driver in use
  holds,    \* peer -> what its own row of the blob contains
  online,   \* reachablePeers()
  calls,    \* call of get() -> how far it has come
  fetches,  \* PendingFetch, by the call that started it
  pending,  \* the one in `this.pending`, or None
  wire,     \* answers under way to this node
  requests, \* requests to the storage driver, oldest first
  row,      \* the row of the BLOBS collection
  disposed, moves, errors,
  apps      \* what the application did: "put", "delete"

service == <<calls, fetches, pending, disposed>>
vars == <<driver, holds, online, wire, requests, row, moves, errors, apps, service>>

Chunks == 0 .. Size - 1

(* A stored prefix: how much, and which chunks of it have the right bytes. *)
(* No row is a prefix of nothing.                                          *)
Row    == [received : 0 .. Size, good : SUBSET Chunks]
NoRow  == [received |-> 0, good |-> {}]
Whole  == [received |-> Size, good |-> Chunks]

Prefix(f) == [received |-> f.received, good |-> f.good]

(* toHex(sha256(entry.buffer)) === entry.ref.hash                          *)
Verified(f) == f.good = Chunks

Request(op, of, r) == [op |-> op, of |-> of, row |-> r]

(* A driver that serves requests at once moves nobody else a turn.        *)
Turn == driver = "sqlite" => requests = <<>>

NoFetch == [received |-> 0, good |-> {}, asked |-> {}, armed |-> FALSE]

Init ==
  /\ driver \in Drivers
  /\ holds \in [Peers -> {"whole", "part", "wrong"}]
  /\ online = Peers
  /\ calls = [c \in Calls |-> [at |-> "idle", on |-> None]]
  /\ fetches = [c \in Calls |-> NoFetch]
  /\ pending = None
  /\ wire = {} /\ requests = <<>>
  /\ row = NoRow
  /\ disposed = FALSE /\ moves = 0 /\ errors = 0 /\ apps = {}

(***************************************************************************)
(* What the handlers of the service work on: a record of the variables     *)
(* below.  Each handler is a function on it, or the set of its outcomes.   *)
(***************************************************************************)
Now == [calls |-> calls, fetches |-> fetches, pending |-> pending,
        requests |-> requests, wire |-> wire, moves |-> moves]

Become(s) ==
  /\ calls' = s.calls /\ fetches' = s.fetches /\ pending' = s.pending
  /\ requests' = s.requests /\ wire' = s.wire /\ moves' = s.moves

(* The callers waiting for fetch f get their answer; a promise settles     *)
(* once, so those answered before keep what they got.                      *)
Settled(cs, f, answer) ==
  [c \in Calls |-> IF cs[c].at = "waiting" /\ cs[c].on = f
                   THEN [at |-> answer, on |-> None] ELSE cs[c]]

(* An answer of peer p to the request of fetch f.  Only the hash travels:  *)
(* `to` tells apart what was asked for, and no handler reads it.           *)
Frame(kind, p, f, offset) == [kind |-> kind, from |-> p, to |-> f, offset |-> offset]

(* serve(): a peer with the whole blob sends it from the offset on, chunk  *)
(* by chunk; any other answers UNAVAILABLE.  With nothing left to send it  *)
(* sends nothing.                                                          *)
serve(p, f, offset) ==
  IF holds[p] = "part" THEN {Frame("unavailable", p, f, 0)}
  ELSE {Frame("chunk", p, f, o) : o \in {offset} \cap Chunks}

(* sendTo() resolved false, or rejected.                                   *)
Refused(p, f) == {Frame("refused", p, f, 0)}

(* The fetch is over and its timer cleared: nobody reads the rest again.   *)
Over(F, f) == [F EXCEPT ![f] = NoFetch]

(* Faulty variant: a fetch that failed is dropped without a word to its    *)
(* callers when something of it had arrived.                               *)
settleFailedSilent(s, f, keepPartial, answer) ==
  [calls    |-> IF s.fetches[f].received > 0 THEN s.calls ELSE Settled(s.calls, f, answer),
   fetches  |-> Over(s.fetches, f),
   pending  |-> None,
   requests |-> s.requests,
   wire     |-> s.wire,
   moves    |-> s.moves]

(* settleFailed(): the fetch is forgotten first; what arrived is written   *)
(* before the callers hear of it, unless it is known to be wrong.          *)
settleFailed(s, f, keepPartial, answer) ==
  LET keeps == keepPartial /\ s.fetches[f].received > 0 IN
  [calls    |-> IF keeps THEN s.calls ELSE Settled(s.calls, f, answer),
   fetches  |-> Over(s.fetches, f),
   pending  |-> None,
   requests |-> IF keeps THEN Append(s.requests, Request("keep", f, Prefix(s.fetches[f])))
                         ELSE s.requests,
   wire     |-> s.wire,
   moves    |-> s.moves]

(* Peer p is asked for the rest of the pending fetch; `sent` is what will  *)
(* come of it.                                                             *)
ask(s, p, sent, cost) ==
  [calls    |-> s.calls,
   fetches  |-> [s.fetches EXCEPT ![s.pending] =
                   [received |-> @.received, good |-> @.good,
                    asked |-> @.asked \cup {p}, armed |-> TRUE]],
   pending  |-> s.pending,
   requests |-> s.requests,
   wire     |-> s.wire \cup sent,
   moves    |-> s.moves + cost]

(* tryNextPeer(): the outcomes of moving on to a peer not yet asked.  It   *)
(* acts on the pending fetch, whatever fetch its caller had in mind.       *)
tryNextPeer(s) ==
  LET f == s.pending
      unasked == online \ s.fetches[f].asked
  IN IF f = None THEN {s}
     ELSE IF unasked = {} THEN {settleFailed(s, f, TRUE, "unavailable")}
     ELSE {ask(s, p, serve(p, f, s.fetches[f].received), 0) : p \in unasked}
            \cup {ask(s, p, Refused(p, f), 1) :
                     p \in {q \in unasked : s.moves + errors + Cardinality(apps) < MaxEvents}}

(* Faulty variant: the fetch starts from nothing.                          *)
fetchAfresh(s, c) ==
  tryNextPeer(
    [s EXCEPT
       !.calls = [@ EXCEPT ![c] = [at |-> "waiting", on |-> c]],
       !.fetches = [@ EXCEPT ![c] = NoFetch],
       !.pending = c])

(* fetch(): registers the fetch of call c, which starts from the row.      *)
fetch(s, c) ==
  tryNextPeer(
    [s EXCEPT
       !.calls = [@ EXCEPT ![c] = [at |-> "waiting", on |-> c]],
       !.fetches = [@ EXCEPT ![c] = [received |-> row.received, good |-> row.good,
                                      asked |-> {}, armed |-> FALSE]],
       !.pending = c])

(* The rest of get() after its read: the blob is held, or a fetch of it is *)
(* under way, or one is started.                                           *)
getAfterRead(s, c) ==
  IF row.received = Size THEN {[s EXCEPT !.calls = [@ EXCEPT ![c] = [at |-> "held", on |-> None]]]}
  ELSE IF s.pending # None
  THEN {[s EXCEPT !.calls = [@ EXCEPT ![c] = [at |-> "waiting", on |-> s.pending]]]}
  ELSE fetch(s, c)

(* Faulty variant: any chunk that fits is taken.                           *)
absorbAny(s, m) ==
  LET f == s.pending
      got == [s.fetches[f] EXCEPT !.received = @ + 1, !.armed = TRUE,
                !.good = IF holds[m.from] = "wrong" THEN @ \ {m.offset} ELSE @ \cup {m.offset}]
      taken == [s EXCEPT !.fetches = [@ EXCEPT ![f] = got]]
  IN IF f = None \/ s.fetches[f].received = Size THEN s
     ELSE IF got.received < Size THEN taken
     ELSE [taken EXCEPT !.requests = Append(@,
             IF Verified(got) THEN Request("store", f, Prefix(got)) ELSE Request("discard", f, NoRow))]

(* absorb(): only the next chunk of the pending fetch is taken.  The last  *)
(* one has the hash checked, and the blob written or its row deleted; the  *)
(* fetch stays pending, its timer armed, while that is awaited.            *)
absorb(s, m) ==
  LET f == s.pending
      old == s.fetches[f]
      last == m.offset + 1 = Size
      got == [received |-> m.offset + 1,
              good |-> IF holds[m.from] = "wrong" THEN old.good \ {m.offset}
                                                  ELSE old.good \cup {m.offset},
              asked |-> old.asked, armed |-> last => old.armed]
      taken == [s EXCEPT !.fetches = [@ EXCEPT ![f] = got]]
  IN IF f = None THEN s
     ELSE IF m.offset # old.received THEN s
     ELSE IF ~last THEN taken
     ELSE [taken EXCEPT !.requests = Append(@,
             IF Verified(got) THEN Request("store", f, Prefix(got)) ELSE Request("discard", f, NoRow))]

(* The end of absorb(): whatever is pending by then is forgotten.          *)
stored(s, f) ==
  [calls    |-> Settled(s.calls, f, "bytes"),
   fetches  |-> Over(s.fetches, f),
   pending  |-> None,
   requests |-> s.requests,
   wire     |-> s.wire,
   moves    |-> s.moves]

(* What follows the storage request r once it is served: the end of get(), *)
(* of absorb(), of settleFailed().                                         *)
Continue(s, r) ==
  CASE r.op = "read"    -> getAfterRead(s, r.of)
    [] r.op = "store"   -> {stored(s, r.of)}
    [] r.op = "discard" -> {settleFailed(s, r.of, FALSE, "corrupt")}
    [] r.op = "keep"    -> {[s EXCEPT !.calls = Settled(@, r.of, "unavailable")]}
    [] OTHER            -> {s}

(* The row after the request r.                                            *)
Applied(r) ==
  CASE r.op \in {"store", "keep", "put"} -> r.row
    [] r.op \in {"discard", "delete"}    -> NoRow
    [] OTHER                             -> row

(* get() up to its `await this.read()`.                                    *)
Get(c) ==
  /\ Turn /\ ~disposed
  /\ calls[c].at = "idle"
  /\ Len(requests) < MaxStorage
  /\ calls' = [calls EXCEPT ![c] = [@ EXCEPT !.at = "reading"]]
  /\ requests' = Append(requests, Request("read", c, NoRow))
  /\ UNCHANGED <<driver, holds, online, fetches, pending, wire, row,
                 disposed, moves, errors, apps>>

(* The driver serves the oldest request, and its caller goes on.           *)
StorageServes ==
  /\ requests # <<>>
  /\ row' = Applied(Head(requests))
  /\ \E s \in Continue([Now EXCEPT !.requests = Tail(requests)], Head(requests)) : Become(s)
  /\ UNCHANGED <<driver, holds, online, disposed, errors, apps>>

(* The driver rejects it.  settleFailed() goes on all the same, absorb()   *)
(* ends there and moves its fetch pending.                                *)
StorageRejects ==
  /\ requests # <<>> /\ moves + errors + Cardinality(apps) < MaxEvents
  /\ Head(requests).op \in {"store", "discard", "keep"}
  /\ requests' = Tail(requests)
  /\ calls' = IF Head(requests).op = "keep"
              THEN Settled(calls, Head(requests).of, "unavailable") ELSE calls
  /\ errors' = errors + 1
  /\ UNCHANGED <<driver, holds, online, fetches, pending, wire, row, disposed, moves, apps>>

(* A chunk arrives; the peer that sent it sends the next.                  *)
Chunk(m) ==
  /\ Turn /\ m \in wire /\ m.kind = "chunk"
  /\ Len(requests) < MaxStorage
  /\ Become(absorb([Now EXCEPT !.wire = (@ \ {m}) \cup serve(m.from, m.to, m.offset + 1)], m))
  /\ UNCHANGED <<driver, holds, online, row, disposed, errors, apps>>

(* A refusal arrives, or the failure of a send becomes known.              *)
Unavailable(m) ==
  /\ Turn /\ m \in wire /\ m.kind \in {"unavailable", "refused"}
  /\ Len(requests) < MaxStorage
  /\ \E s \in tryNextPeer([Now EXCEPT !.wire = @ \ {m}]) : Become(s)
  /\ UNCHANGED <<driver, holds, online, row, disposed, errors, apps>>

(* A timer that has fired.                                                 *)
Fired(F, f) == [F EXCEPT ![f] = [@ EXCEPT !.armed = FALSE]]

(* The stall timer of fetch f fires.                                       *)
Stall(f) ==
  /\ Turn /\ fetches[f].armed
  /\ Len(requests) < MaxStorage
  /\ \E s \in tryNextPeer(
         [Now EXCEPT !.fetches = Fired(@, f)]) : Become(s)
  /\ UNCHANGED <<driver, holds, online, row, disposed, errors, apps>>

(* A connection ends, and with it what its peer was sending.               *)
PeerLeaves(p) ==
  /\ Turn /\ p \in online /\ moves + errors + Cardinality(apps) < MaxEvents
  /\ online' = online \ {p}
  /\ wire' = {m \in wire : m.from # p \/ m.kind = "refused"}
  /\ moves' = moves + 1
  /\ UNCHANGED <<driver, holds, requests, row, errors, apps, service>>

(* Its peer is connected again.                                            *)
PeerJoins(p) ==
  /\ Turn /\ ~disposed /\ p \notin online
  /\ online' = online \cup {p}
  /\ UNCHANGED <<driver, holds, wire, requests, row, moves, errors, apps, service>>

(* put() and delete() of this blob by the application.                     *)
Application(op) ==
  /\ Turn /\ ~disposed /\ op \notin apps /\ moves + errors + Cardinality(apps) < MaxEvents
  /\ Len(requests) < MaxStorage
  /\ requests' = Append(requests, Request(op, None, IF op = "put" THEN Whole ELSE NoRow))
  /\ apps' = apps \cup {op}
  /\ UNCHANGED <<driver, holds, online, wire, row, moves, errors, service>>

(* dispose(), the end of Client.disconnect(): the connections are closed   *)
(* before it, the fetch under way is given up and nothing of it written.   *)
Dispose ==
  /\ Turn /\ ~disposed
  /\ disposed' = TRUE
  /\ online' = {} /\ wire' = {}
  /\ pending' = None
  /\ fetches' = IF pending = None THEN fetches ELSE Over(fetches, pending)
  /\ calls' = IF pending = None THEN calls ELSE Settled(calls, pending, "unavailable")
  /\ UNCHANGED <<driver, holds, requests, row, moves, errors, apps>>

Next ==
  \/ \E c \in Calls : Get(c) \/ Stall(c)
  \/ StorageServes \/ StorageRejects
  \/ \E m \in wire : Chunk(m) \/ Unavailable(m)
  \/ \E p \in Peers : PeerLeaves(p) \/ PeerJoins(p)
  \/ \E op \in {"put", "delete"} : Application(op)
  \/ Dispose

Spec == Init /\ [][Next]_vars

(* Timers fire and the driver serves its requests.  Peers owe nothing.     *)
Fairness == (\A f \in Calls : WF_vars(Stall(f))) /\ WF_vars(StorageServes \/ StorageRejects)

FairSpec == Spec /\ Fairness
-----------------------------------------------------------------------------
(* How a call of get() may end.                                            *)
Answers == {"held", "bytes", "unavailable", "corrupt"}

CallType    == [at : {"idle", "reading", "waiting"} \cup Answers, on : Calls \cup {None}]
FetchType   == [received : 0 .. Size, good : SUBSET Chunks,
                asked : SUBSET Peers, armed : BOOLEAN]
FrameType   == [kind : {"chunk", "unavailable", "refused"}, from : Peers, to : Calls,
                offset : Chunks]
RequestType == [op : {"read", "store", "discard", "keep", "put", "delete"},
                of : Calls \cup {None}, row : Row]

(* Types of the service, of what is under way to it, and of the storage.   *)
TypeOK ==
  /\ driver \in Drivers /\ online \subseteq Peers
  /\ holds \in [Peers -> {"whole", "part", "wrong"}]
  /\ calls \in [Calls -> CallType] /\ fetches \in [Calls -> FetchType]
  /\ pending \in Calls \cup {None}
  /\ wire \subseteq FrameType
  /\ requests \in Seq(RequestType)
  /\ row \in Row
  /\ disposed \in BOOLEAN /\ moves \in Nat /\ errors \in Nat
  /\ apps \subseteq {"put", "delete"}

(* Chunks of several peers, late chunks of earlier fetches and prefixes    *)
(* resumed from disk never mix into something that is not the blob: while  *)
(* no peer's bytes are wrong, what is held has no hole, no bytes are ever  *)
(* discarded and nobody is told the blob is corrupt.                       *)
HonestNeverCorrupt ==
  (\A p \in Peers : holds[p] # "wrong") =>
    /\ row.good = 0 .. row.received - 1
    /\ \A c \in Calls : calls[c].at # "corrupt"

(* "discarded" (BlobCorruptError): bytes that failed the check are not     *)
(* kept as the blob, from where get() would return them and serve() hand   *)
(* them on unverified.                                                     *)
WrongNeverStored == row.received = Size => row.good = Chunks

(* "resumes from whatever arrived": a row loses ground only to delete() or *)
(* to a failed check, never to a fetch that failed behind another.  (put() *)
(* of a blob being fetched may lose to that fetch's failure.)              *)
KeepsWhatArrived ==
  [][driver = "sqlite" /\ "put" \notin apps /\ row'.received < row.received =>
       Head(requests).op \in {"discard", "delete"}]_vars

(* "fails with BlobUnavailableError rather than hanging": every get()      *)
(* settles.                                                                *)
NeverHangs ==
  \A c \in Calls : calls[c].at \in {"reading", "waiting"} ~> calls[c].at \in Answers

(* The same where storage is done before the stall timer can fire.         *)
NeverHangsAtOnce ==
  \A c \in Calls :
    driver = "sqlite" /\ calls[c].at \in {"reading", "waiting"} ~> calls[c].at \in Answers
=============================================================================
