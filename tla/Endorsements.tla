---------------------------- MODULE Endorsements ----------------------------
(***************************************************************************)
(* Endorsement vouchers and the counters they move (HLessEnd/src/wot:      *)
(* voucher-handshake.ts, voucher-service.ts, voucher-store.ts,             *)
(* trust-store.ts; trust-service.ts, client.ts and identity-service.ts     *)
(* drive them).  A node asks a peer to sign a voucher, redeems the voucher *)
(* and credits the peer; the peer makes its signing key when first asked,  *)
(* keeps a quota and debits itself.                                        *)
(*                                                                         *)
(* A voucher is named by its request; a signature by the request it signs  *)
(* and the key it was made with.  A counter changes in two steps, a read   *)
(* and a write of the whole row.                                           *)
(***************************************************************************)
EXTENDS Naturals, Sequences, FiniteSets

CONSTANTS
  Nodes,
  Asks,        \* pairs <<requester, issuer>> the applications may use
  MaxRequests, \* bound on voucher requests
  MaxKeyCalls, \* bound on calls of getEndorsementKey()
  MaxEpoch,    \* bound on the RLN epoch
  Quota,       \* issuanceQuota
  MaxMoves     \* bound on lost links, crashes, repeated redemptions and blacklistings

ASSUME EndorsementsAssumption ==
  /\ Asks \subseteq {p \in Nodes \X Nodes : p[1] # p[2]}
  /\ {MaxRequests, MaxKeyCalls, MaxEpoch, Quota, MaxMoves} \subseteq Nat

VARIABLES
  epoch,
  identity, \* node -> its blind-signing key: in the identity, with the
            \* voucher service, and in storage
  handed,   \* node -> keys it has given to its application, for peers
  request,  \* request -> who asks whom, with which key, and how it goes
  inFlight, \* requester -> issuer -> the request that holds the peer's place
  wire,     \* sender -> receiver -> frames under way
  task,     \* an asynchronous function that needs the key: where it is
  issued,   \* node -> epoch -> vouchers issued (in memory)
  signed,   \* signatures made, over the whole behaviour
  change,   \* a change of a counter: where it is
  row,      \* node -> did -> the stored counters
  spent,    \* node -> redeemed vouchers: in memory
  writes,   \* node -> nullifiers queued for storage, oldest first
  saved,    \* node -> nullifiers stored
  credited, \* request -> times its voucher was credited
  lost,     \* vouchers whose nullifier a crash took from the queue
  moves

keys      == <<identity, handed, task>>
asking    == <<request, inFlight, wire>>
issuing   == <<issued, signed>>
counters  == <<change, row>>
redeeming == <<spent, writes, saved, credited, lost>>
vars == <<epoch, keys, asking, issuing, counters, redeeming, moves>>

Requests == 1 .. MaxRequests
Calls    == MaxRequests + 1 .. MaxRequests + MaxKeyCalls
Tasks    == Requests \cup Calls  \* a request's handler at the issuer, or a call
None     == 0                    \* no key, or no request
Epochs   == 0 .. MaxEpoch

(* The changes of counters: what credits or debits whom.                   *)
Debits      == {"debit"} \X Requests
Redemptions == {"redeem"} \X Requests
Verdicts    == {"blacklist"} \X Nodes  \* a node's verdict on its peers
Changes     == Debits \cup Redemptions \cup Verdicts

ZeroCounters == [redeemed |-> 0, issued |-> 0, blacklisted |-> FALSE]
NoChange == [at |-> "idle", node |-> None, did |-> None, seen |-> ZeroCounters]
NoTask   == [at |-> "idle", node |-> None, epoch |-> 0, key |-> None]

Frame(type, id, key) == [type |-> type, id |-> id, key |-> key]

Init ==
  /\ epoch = 0
  /\ identity = [n \in Nodes |-> [kept |-> None, served |-> None, stored |-> None]]
  /\ handed = [n \in Nodes |-> {}]
  /\ request = [r \in Requests |-> [at |-> "unused", ask |-> None, key |-> None, why |-> "none"]]
  /\ inFlight = [n \in Nodes |-> [m \in Nodes |-> None]]
  /\ wire = [n \in Nodes |-> [m \in Nodes |-> <<>>]]
  /\ task = [t \in Tasks |-> NoTask]
  /\ issued = [n \in Nodes |-> [e \in Epochs |-> 0]] /\ signed = {}
  /\ change = [c \in Changes |-> NoChange]
  /\ row = [n \in Nodes |-> [m \in Nodes |-> ZeroCounters]]
  /\ spent = [n \in Nodes |-> {}] /\ writes = [n \in Nodes |-> <<>>]
  /\ saved = [n \in Nodes |-> {}]
  /\ credited = [r \in Requests |-> 0] /\ lost = {} /\ moves = 0

Move == moves < MaxMoves /\ moves' = moves + 1

sent(n, m, frame) == [wire EXCEPT ![n][m] = Append(@, frame)]

-----------------------------------------------------------------------------
(* ensureBlindKeypair(): the key there is, or one this call generates;     *)
(* the identity is read before the wait and replaced after it.             *)
ensureBlindKeypair(t, n) ==
  [NoTask EXCEPT !.node = n, !.epoch = epoch,
                 !.at = IF identity[n].kept # None THEN "ready" ELSE "generate",
                 !.key = identity[n].kept]

Generated(t) ==
  /\ task[t].at = "generate"
  /\ identity' = [identity EXCEPT ![task[t].node].kept = t]
  /\ task' = [task EXCEPT ![t].at = "persist", ![t].key = t]
  /\ UNCHANGED <<epoch, handed, asking, issuing, counters, redeeming, moves>>

Persisted(t) ==
  /\ task[t].at = "persist"
  /\ identity' = [identity EXCEPT ![task[t].node].stored = t]
  /\ task' = [task EXCEPT ![t].at = "ready"]
  /\ UNCHANGED <<epoch, handed, asking, issuing, counters, redeeming, moves>>

(* getEndorsementKey().                                                    *)
GetEndorsementKey(t, n) ==
  /\ t \in Calls /\ task[t] = NoTask
  /\ \A u \in Calls : u < t => task[u] # NoTask
  /\ task' = [task EXCEPT ![t] = ensureBlindKeypair(t, n)]
  /\ UNCHANGED <<epoch, identity, handed, asking, issuing, counters, redeeming, moves>>

GotEndorsementKey(t) ==
  /\ t \in Calls /\ task[t].at = "ready"
  /\ LET n == task[t].node IN
       /\ identity' = [identity EXCEPT ![n].served = task[t].key]
       /\ handed' = [handed EXCEPT ![n] = @ \cup {task[t].key}]
  /\ task' = [task EXCEPT ![t].at = "done"]
  /\ UNCHANGED <<epoch, asking, issuing, counters, redeeming, moves>>
-----------------------------------------------------------------------------
(* VoucherHandshake.request(): one request to a peer at a time.  When the  *)
(* send fails the caller is told at once, and the place is kept until the  *)
(* timer.                                                                  *)
Request(r, ask, sends) ==
  LET n == ask[1]  m == ask[2] IN
  /\ request[r].at = "unused" /\ \A q \in Requests : q < r => request[q].at # "unused"
  /\ inFlight[n][m] = None
  /\ \E k \in handed[m] :
       request' = [request EXCEPT ![r] =
         [at |-> "waiting", ask |-> ask, key |-> k, why |-> IF sends THEN "none" ELSE "send"]]
  /\ inFlight' = [inFlight EXCEPT ![n][m] = r]
  /\ wire' = IF sends THEN sent(n, m, Frame("request", r, None)) ELSE wire
  /\ UNCHANGED <<epoch, keys, issuing, counters, redeeming, moves>>

ended(r, why) == [request EXCEPT ![r].at = "failed", ![r].why = why]

freed(r) == [inFlight EXCEPT ![request[r].ask[1]][request[r].ask[2]] = None]

(* The timer, which is stopped when the request leaves its place.          *)
TimesOut(r) ==
  /\ request[r].at = "waiting" /\ inFlight[request[r].ask[1]][request[r].ask[2]] = r
  /\ request' = ended(r, IF request[r].why = "send" THEN "send" ELSE "timeout")
  /\ inFlight' = freed(r)
  /\ UNCHANGED <<epoch, keys, wire, issuing, counters, redeeming, moves>>

(* Faulty variant: the issuer's answer is not verified.                    *)
completeVoucherAny(r, frame) == TRUE

(* completeVoucher(): the signature has to verify for the serial that was  *)
(* blinded, under the key it was blinded with.                             *)
completeVoucher(r, frame) == frame.id = r /\ frame.key = request[r].key

(* Faulty variant: an answer that does not verify settles nothing.         *)
settledSilent(r, frame) ==
  IF frame.type = "response" /\ completeVoucher(r, frame)
  THEN [request EXCEPT ![r].at = "token"]
  ELSE request

settled(r, frame) ==
  IF frame.type = "response" /\ completeVoucher(r, frame)
  THEN [request EXCEPT ![r].at = "token"]
  ELSE ended(r, IF frame.id = r THEN "answer" ELSE "other")

(* handleResponse() and handleReject(): the frame is taken for the answer  *)
(* to whatever request holds the place.                                    *)
HearAnswer(n, m) ==
  /\ wire[m][n] # <<>>
  /\ LET frame == Head(wire[m][n])
         r == inFlight[n][m] IN
       /\ frame.type \in {"response", "reject"}
       /\ wire' = [wire EXCEPT ![m][n] = Tail(@)]
       /\ IF r = None THEN UNCHANGED <<request, inFlight, counters, redeeming>>
          ELSE /\ request' = settled(r, frame)
               /\ inFlight' = [inFlight EXCEPT ![n][m] = None]
               /\ UNCHANGED <<counters, redeeming>>
  /\ UNCHANGED <<epoch, keys, issuing, moves>>

(* redeemVoucher(): the nullifier is spent and its row queued, and the     *)
(* credit started, in one go.  requestEndorsement() redeems the token it   *)
(* was given; the application may redeem a token again.                    *)
redeemVoucher(r, n, m) ==
  IF r \in spent[n]
  THEN UNCHANGED <<counters, redeeming>>
  ELSE /\ spent' = [spent EXCEPT ![n] = @ \cup {r}]
       /\ writes' = [writes EXCEPT ![n] = Append(@, r)]
       /\ change' = [change EXCEPT ![<<"redeem", r>>] =
            [at |-> "read", node |-> n, did |-> m, seen |-> ZeroCounters]]
       /\ UNCHANGED <<row, saved, credited, lost>>

Redeem(r) ==
  /\ request[r].at = "token"
  /\ request' = [request EXCEPT ![r].at = "redeemed"]
  /\ redeemVoucher(r, request[r].ask[1], request[r].ask[2])
  /\ UNCHANGED <<epoch, keys, inFlight, wire, issuing, moves>>

RedeemAgain(r) ==
  /\ request[r].at = "redeemed" /\ change[<<"redeem", r>>].at = "idle" /\ Move
  /\ redeemVoucher(r, request[r].ask[1], request[r].ask[2])
  /\ UNCHANGED <<epoch, keys, asking, issuing>>
-----------------------------------------------------------------------------
(* handleRequest() up to its first wait: the epoch is read, and the key    *)
(* made unless the voucher service has one.                                *)
HearRequest(n, m) ==
  /\ wire[n][m] # <<>> /\ Head(wire[n][m]).type = "request"
  /\ wire' = [wire EXCEPT ![n][m] = Tail(@)]
  /\ LET r == Head(wire[n][m]).id IN
       task' = [task EXCEPT ![r] =
         IF identity[m].served # None
         THEN [at |-> "ready", node |-> m, epoch |-> epoch, key |-> identity[m].served]
         ELSE ensureBlindKeypair(r, m)]
  /\ UNCHANGED <<epoch, identity, handed, request, inFlight, issuing, counters,
                 redeeming, moves>>

hasIssuanceQuota(n, e) == issued[n][e] < Quota

(* handleRequest() once the key is there: the voucher is signed and        *)
(* counted, or refused.                                                    *)
Issue(r) ==
  LET n == task[r].node  e == task[r].epoch IN
  /\ r \in Requests /\ task[r].at = "ready"
  /\ identity' = [identity EXCEPT ![n].served = task[r].key]
  /\ IF hasIssuanceQuota(n, e)
     THEN /\ issued' = [issued EXCEPT ![n][e] = @ + 1]
          /\ signed' = signed \cup {[by |-> n, id |-> r, key |-> task[r].key]}
          /\ change' = [change EXCEPT ![<<"debit", r>>] =
               [at |-> "read", node |-> n, did |-> n, seen |-> ZeroCounters]]
          /\ task' = [task EXCEPT ![r].at = "debit"]
          /\ UNCHANGED wire
     ELSE /\ wire' = sent(n, request[r].ask[1], Frame("reject", r, None))
          /\ task' = [task EXCEPT ![r].at = "done"]
          /\ UNCHANGED <<issuing, change>>
  /\ UNCHANGED <<epoch, handed, request, inFlight, row, redeeming, moves>>

(* The answer goes out once the debit is stored.                           *)
Answer(r) ==
  LET n == task[r].node IN
  /\ r \in Requests /\ task[r].at = "answer"
  /\ wire' = sent(n, request[r].ask[1], Frame("response", r, task[r].key))
  /\ task' = [task EXCEPT ![r].at = "done"]
  /\ UNCHANGED <<epoch, identity, handed, request, inFlight, issuing, counters,
                 redeeming, moves>>
-----------------------------------------------------------------------------
(* TrustStore.mutate(): the row is read, and later written whole.          *)
Read(c) ==
  /\ change[c].at = "read"
  /\ change' = [change EXCEPT ![c].at = "write",
                              ![c].seen = row[change[c].node][change[c].did]]
  /\ UNCHANGED <<epoch, keys, asking, issuing, row, redeeming, moves>>

updated(c, counters0) ==
  CASE c[1] = "debit"  -> [counters0 EXCEPT !.issued = @ + 1]
    [] c[1] = "redeem" -> [counters0 EXCEPT !.redeemed = @ + 1]
    [] OTHER           -> [counters0 EXCEPT !.blacklisted = TRUE]

Write(c) ==
  /\ change[c].at = "write"
  /\ row' = [row EXCEPT ![change[c].node][change[c].did] = updated(c, change[c].seen)]
  /\ change' = [change EXCEPT ![c] = NoChange]
  /\ credited' = IF c[1] = "redeem" THEN [credited EXCEPT ![c[2]] = @ + 1] ELSE credited
  /\ task' = IF c[1] = "debit" THEN [task EXCEPT ![c[2]].at = "answer"] ELSE task
  /\ UNCHANGED <<epoch, identity, handed, asking, issuing, spent, writes, saved, lost, moves>>

(* TrustService.blacklist().                                               *)
Blacklist(n, m) ==
  /\ change[<<"blacklist", n>>].at = "idle" /\ n # m /\ Move
  /\ change' = [change EXCEPT ![<<"blacklist", n>>] =
       [at |-> "read", node |-> n, did |-> m, seen |-> ZeroCounters]]
  /\ UNCHANGED <<epoch, keys, asking, issuing, row, redeeming>>

(* The write queue stores the oldest nullifier.                            *)
Store(n) ==
  /\ writes[n] # <<>>
  /\ saved' = [saved EXCEPT ![n] = @ \cup {Head(writes[n])}]
  /\ writes' = [writes EXCEPT ![n] = Tail(@)]
  /\ UNCHANGED <<epoch, keys, asking, issuing, counters, spent, credited, lost, moves>>
-----------------------------------------------------------------------------
Tick ==
  /\ epoch < MaxEpoch /\ epoch' = epoch + 1
  /\ UNCHANGED <<keys, asking, issuing, counters, redeeming, moves>>

(* A connection is lost with the frames on it; the places stay.            *)
LoseLink(n, m) ==
  /\ <<>> # wire[n][m] \o wire[m][n] /\ Move
  /\ wire' = [wire EXCEPT ![n][m] = <<>>, ![m][n] = <<>>]
  /\ UNCHANGED <<epoch, keys, request, inFlight, issuing, counters, redeeming>>

(* Faulty variant: a restarted node has spent nothing.                     *)
hydrateNothing(n) == {}

(* hydrate(): what storage has is what has been spent.                     *)
hydrate(n) == saved[n]

(* The process stops and starts again: what was in memory is gone.         *)
Crash(n) ==
  /\ Move
  /\ identity' = [identity EXCEPT ![n] =
       [kept |-> @.stored, served |-> @.stored, stored |-> @.stored]]
  /\ task' = [t \in Tasks |-> IF task[t].node = n THEN [task[t] EXCEPT !.at = "done"] ELSE task[t]]
  /\ request' = [r \in Requests |->
       IF request[r].at \in {"waiting", "token"} /\ request[r].ask[1] = n
       THEN [request[r] EXCEPT !.at = "failed", !.why = "crash"] ELSE request[r]]
  /\ inFlight' = [inFlight EXCEPT ![n] = [m \in Nodes |-> None]]
  /\ wire' = [p \in Nodes |-> [q \in Nodes |-> IF n \in {p, q} THEN <<>> ELSE wire[p][q]]]
  /\ issued' = [issued EXCEPT ![n] = [e \in Epochs |-> 0]]
  /\ change' = [c \in Changes |-> IF change[c].node = n THEN NoChange ELSE change[c]]
  /\ spent' = [spent EXCEPT ![n] = hydrate(n)]
  /\ lost' = lost \cup {r \in Requests : \E i \in DOMAIN writes[n] : writes[n][i] = r}
  /\ writes' = [writes EXCEPT ![n] = <<>>]
  /\ UNCHANGED <<epoch, handed, signed, row, saved, credited>>

Progress ==
  \/ \E t \in Tasks : Generated(t) \/ Persisted(t) \/ GotEndorsementKey(t)
  \/ \E r \in Requests : TimesOut(r) \/ Issue(r) \/ Answer(r) \/ Redeem(r)
  \/ \E n, m \in Nodes : HearAnswer(n, m) \/ HearRequest(n, m)
  \/ \E c \in Changes : Read(c) \/ Write(c)
  \/ \E n \in Nodes : Store(n)

Next ==
  \/ Progress \/ Tick
  \/ \E t \in Calls, n \in {ask[2] : ask \in Asks} : GetEndorsementKey(t, n)
  \/ \E r \in Requests, ask \in Asks, sends \in BOOLEAN : Request(r, ask, sends)
  \/ \E r \in Requests : RedeemAgain(r)
  \/ \E n, m \in Nodes : Blacklist(n, m) \/ LoseLink(n, m)
  \/ \E n \in Nodes : Crash(n)

Spec == Init /\ [][Next]_vars

(* Timers, storage and the connections go on.                              *)
FairSpec == Spec /\ WF_vars(Progress)
-----------------------------------------------------------------------------
(* A voucher that was handed to a requester is one its issuer signed, with *)
(* the key the requester had: late and lost answers, retries and restarts  *)
(* never make a voucher out of the answer to another request.              *)
VouchersAreSigned ==
  \A r \in Requests : request[r].at \in {"token", "redeemed"} =>
    [by |-> request[r].ask[2], id |-> r, key |-> request[r].key] \in signed

(* One voucher raises a score once, however often it is redeemed and       *)
(* however often the node restarts, unless a crash took its nullifier from *)
(* the queue of writes.                                                    *)
CreditedOnce == \A r \in Requests : credited[r] > 1 => r \in lost

(* Whoever asked is told in the end.                                       *)
AskersAreTold ==
  \A r \in Requests : request[r].at = "waiting" ~> request[r].at # "waiting"

(* voucher-handshake.ts:10-12: at most one request per peer is in flight   *)
(* because two responses could not be told apart.  A request ends by its   *)
(* own answer, not by that of an earlier one.                              *)
EndsByItsOwnAnswer == \A r \in Requests : request[r].why # "other"

(* "A half-updated copy is how a key gets generated twice"                 *)
(* (identity-service.ts:212-213): the keys a node gives away are one.      *)
OneKey == \A n \in Nodes : Cardinality(handed[n]) <= 1

(* "Redemption nullifiers MUST survive a restart" (voucher-store.ts:4): a  *)
(* voucher that was credited is never credited again.                      *)
NeverCreditedTwice == \A r \in Requests : credited[r] <= 1

(* "Record that a peer issued a voucher (-2 POC)" (trust-store.ts:95): once*)
(* nothing is under way, every voucher issued has been debited.            *)
EveryIssueDebited ==
  (\A c \in Changes : change[c].at = "idle") =>
    \A n \in Nodes : row[n][n].issued = Cardinality({s \in signed : s.by = n})

(* A verdict stands: a peer that was blacklisted stays so.                 *)
BlacklistedStays ==
  [][\A n, m \in Nodes : row[n][m].blacklisted => row'[n][m].blacklisted]_vars
=============================================================================
