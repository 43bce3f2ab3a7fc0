------------------------- MODULE BlobTransferProofs -------------------------
(***************************************************************************)
(* Proofs about BlobTransfer: its types, that honest peers never make a    *)
(* transfer corrupt, and that nothing that arrived is lost, for any number *)
(* of peers, callers and chunks.  Each handler maps a good state of the    *)
(* service to good states; the steps then follow handler by handler.       *)
(***************************************************************************)
EXTENDS BlobTransfer, SequenceTheorems, TLAPS

(* The states a handler works on, with their types.                        *)
StateType ==
  [calls : [Calls -> CallType], fetches : [Calls -> FetchType],
   pending : Calls \cup {None}, requests : Seq(RequestType),
   wire : SUBSET FrameType, moves : Nat]

AllHonest == \A p \in Peers : holds[p] # "wrong"

(* A prefix without holes.                                                 *)
Solid(r) == r.good = 0 .. r.received - 1

(* A request a caller acts on names that caller; what it writes is solid.  *)
Sound(r) ==
  /\ r.op \in {"read", "store", "discard", "keep"} => r.of \in Calls
  /\ AllHonest => r.op # "discard" /\ Solid(r.row)

(* What the handlers keep: every fetch and every write is solid, and       *)
(* nobody is told of corruption, while all peers are honest.               *)
Good(s) ==
  /\ \A i \in 1 .. Len(s.requests) : Sound(s.requests[i])
  /\ AllHonest => \A c \in Calls : Solid(s.fetches[c]) /\ s.calls[c].at # "corrupt"

(* The inductive invariant.                                                *)
IInv == TypeOK /\ Good(Now) /\ (AllHonest => Solid(row))

(* Settling changes the answers of waiting calls only.                     *)
LEMMA SettledOK ==
  ASSUME NEW cs \in [Calls -> CallType], NEW f \in Calls, NEW answer \in Answers
  PROVE  /\ Settled(cs, f, answer) \in [Calls -> CallType]
         /\ \A c \in Calls : Settled(cs, f, answer)[c].at \in {cs[c].at, answer}
BY DEF Settled, CallType

(* The request of a prefix is well-typed.                                  *)
LEMMA AppendOK ==
  ASSUME NEW q \in Seq(RequestType), NEW r \in RequestType, Sound(r),
         \A i \in 1 .. Len(q) : Sound(q[i])
  PROVE  /\ Append(q, r) \in Seq(RequestType)
         /\ \A i \in 1 .. Len(Append(q, r)) : Sound(Append(q, r)[i])
<1>1. Append(q, r) \in Seq(RequestType) /\ Len(Append(q, r)) = Len(q) + 1
  OBVIOUS
<1>2. ASSUME NEW i \in 1 .. Len(q) + 1
      PROVE  Sound(Append(q, r)[i])
  <2>1. CASE i = Len(q) + 1
    <3>1. Append(q, r)[i] = r
      BY <2>1
    <3> QED BY <3>1
  <2>2. CASE i # Len(q) + 1
    <3>1. i \in 1 .. Len(q) /\ Append(q, r)[i] = q[i]
      BY <2>2
    <3> QED BY <3>1
  <2> QED BY <2>1, <2>2
<1> QED BY <1>1, <1>2

(* Fetches with one of them replaced.                                      *)
LEMMA FetchesOK ==
  ASSUME NEW F \in [Calls -> FetchType], NEW f \in Calls, NEW g \in FetchType,
         AllHonest => \A c \in Calls : Solid(F[c]), AllHonest => Solid(g)
  PROVE  /\ [F EXCEPT ![f] = g] \in [Calls -> FetchType]
         /\ AllHonest => \A c \in Calls : Solid([F EXCEPT ![f] = g][c])
OBVIOUS

(* A fetch that is over holds nothing.                                     *)
LEMMA NoFetchOK == NoFetch \in FetchType /\ Solid(NoFetch)
BY BlobAssumption DEF NoFetch, FetchType, Solid

(* Failing a fetch keeps the state good, unless honest peers are declared  *)
(* corrupt.                                                                *)
LEMMA SettleFailedOK ==
  ASSUME NEW s \in StateType, Good(s), NEW f \in Calls, NEW keepPartial \in BOOLEAN,
         NEW answer \in Answers, AllHonest => answer # "corrupt"
  PROVE  settleFailed(s, f, keepPartial, answer) \in StateType
         /\ Good(settleFailed(s, f, keepPartial, answer))
<1> DEFINE t == settleFailed(s, f, keepPartial, answer)
           g == NoFetch
           r == Request("keep", f, Prefix(s.fetches[f]))
<1>0. /\ s.calls \in [Calls -> CallType] /\ s.fetches \in [Calls -> FetchType]
      /\ s.requests \in Seq(RequestType) /\ s.wire \in SUBSET FrameType /\ s.moves \in Nat
  BY DEF StateType
<1>1. s.fetches[f] \in FetchType
  BY <1>0
<1>2. g \in FetchType /\ (AllHonest => Solid(g))
  BY NoFetchOK
<1>3. /\ [s.fetches EXCEPT ![f] = g] \in [Calls -> FetchType]
      /\ AllHonest => \A c \in Calls : Solid([s.fetches EXCEPT ![f] = g][c])
  <2> HIDE DEF g
  <2> QED BY <1>0, <1>2, FetchesOK DEF Good
<1>4. r \in RequestType /\ Sound(r)
  BY <1>1 DEF FetchType, RequestType, Request, Prefix, Row, Sound, Solid, Good
<1>5. /\ Append(s.requests, r) \in Seq(RequestType)
      /\ \A i \in 1 .. Len(Append(s.requests, r)) : Sound(Append(s.requests, r)[i])
  <2> HIDE DEF r
  <2> QED BY <1>0, <1>4, AppendOK DEF Good
<1>6. /\ Settled(s.calls, f, answer) \in [Calls -> CallType]
      /\ \A c \in Calls : Settled(s.calls, f, answer)[c].at \in {s.calls[c].at, answer}
  BY <1>0, SettledOK
<1>7. \E cs \in {s.calls, Settled(s.calls, f, answer)}, q \in {s.requests, Append(s.requests, r)} :
        t = [calls |-> cs, fetches |-> [s.fetches EXCEPT ![f] = g], pending |-> None,
             requests |-> q, wire |-> s.wire, moves |-> s.moves]
  BY DEF settleFailed, Over
<1> HIDE DEF t, g, r
<1>8. PICK cs \in {s.calls, Settled(s.calls, f, answer)}, q \in {s.requests, Append(s.requests, r)} :
        t = [calls |-> cs, fetches |-> [s.fetches EXCEPT ![f] = g], pending |-> None,
             requests |-> q, wire |-> s.wire, moves |-> s.moves]
  BY <1>7
<1>9. cs \in [Calls -> CallType] /\ q \in Seq(RequestType)
  BY <1>0, <1>5, <1>6
<1>10. t \in StateType
  BY <1>0, <1>3, <1>8, <1>9 DEF StateType
<1>11. Good(t)
  <2>1. t.fetches = [s.fetches EXCEPT ![f] = g] /\ t.requests = q /\ t.calls = cs
    BY <1>8
  <2>2. \A i \in 1 .. Len(q) : Sound(q[i])
    BY <1>5 DEF Good
  <2>3. AllHonest => \A c \in Calls : cs[c].at # "corrupt"
    BY <1>6 DEF Good
  <2> QED BY <1>3, <2>1, <2>2, <2>3 DEF Good
<1> QED BY <1>10, <1>11 DEF t

(* What a peer is asked for, and answers, are frames.                      *)
LEMMA FramesOK ==
  ASSUME TypeOK, NEW p \in Peers, NEW f \in Calls, NEW offset \in Nat
  PROVE  serve(p, f, offset) \subseteq FrameType /\ Refused(p, f) \subseteq FrameType
BY BlobAssumption DEF serve, Refused, Frame, FrameType, Chunks

(* Moving on to the next peer.                                             *)
LEMMA TryNextPeerOK ==
  ASSUME TypeOK, NEW s \in StateType, Good(s), NEW t \in tryNextPeer(s)
  PROVE  t \in StateType /\ Good(t)
<1> DEFINE f == s.pending
           unasked == online \ s.fetches[f].asked
<1>1. CASE f = None
  <2>1. t = s
    BY <1>1 DEF tryNextPeer
  <2> QED BY <2>1
<1>2. CASE f # None /\ unasked = {}
  <2>1. f \in Calls
    BY <1>2 DEF StateType
  <2>2. t = settleFailed(s, f, TRUE, "unavailable")
    BY <1>2 DEF tryNextPeer
  <2>3. "unavailable" \in Answers /\ "unavailable" # "corrupt"
    BY DEF Answers
  <2> HIDE DEF f
  <2> QED BY <2>1, <2>2, <2>3, SettleFailedOK
<1>3. CASE f # None /\ unasked # {}
  <2>0. /\ s.calls \in [Calls -> CallType] /\ s.fetches \in [Calls -> FetchType]
        /\ s.requests \in Seq(RequestType) /\ s.wire \in SUBSET FrameType /\ s.moves \in Nat
        /\ s.pending \in Calls \cup {None}
    BY DEF StateType
  <2>1. f \in Calls /\ s.fetches[f] \in FetchType
    BY <1>3, <2>0
  <2> DEFINE g(p) == [received |-> s.fetches[f].received, good |-> s.fetches[f].good,
                      asked |-> s.fetches[f].asked \cup {p}, armed |-> TRUE]
             fs(p) == [s.fetches EXCEPT ![f] = g(p)]
  <2>a. PICK p \in unasked :
          \/ t = ask(s, p, serve(p, f, s.fetches[f].received), 0)
          \/ t = ask(s, p, Refused(p, f), 1)
    BY <1>3 DEF tryNextPeer
  <2>2. PICK cost \in {0, 1}, sent \in {serve(p, f, s.fetches[f].received), Refused(p, f)} :
          t = ask(s, p, sent, cost)
    BY <2>a
  <2>3. p \in Peers
    BY <2>a DEF TypeOK
  <2>4. sent \subseteq FrameType
    <3>1. s.fetches[f].received \in Nat
      BY <2>1 DEF FetchType
    <3>2. sent = serve(p, f, s.fetches[f].received) \/ sent = Refused(p, f)
      BY <2>2
    <3> HIDE DEF f
    <3> QED BY <2>1, <2>3, <3>1, <3>2, FramesOK
  <2>5. g(p) \in FetchType /\ (AllHonest => Solid(g(p)))
    <3>1. /\ g(p).received = s.fetches[f].received /\ g(p).good = s.fetches[f].good
          /\ g(p) \in FetchType
      BY <2>1, <2>3 DEF FetchType
    <3>2. AllHonest => Solid(s.fetches[f])
      BY <2>1 DEF Good
    <3> QED BY <3>1, <3>2 DEF Solid
  <2>6. /\ fs(p) \in [Calls -> FetchType]
        /\ AllHonest => \A c \in Calls : Solid(fs(p)[c])
    <3> HIDE DEF f, g
    <3> QED BY <2>0, <2>1, <2>5, FetchesOK DEF Good
  <2>7. t = [calls |-> s.calls, fetches |-> fs(p), pending |-> s.pending,
             requests |-> s.requests, wire |-> s.wire \cup sent, moves |-> s.moves + cost]
    BY <2>2 DEF ask
  <2> HIDE DEF fs, g, f
  <2>8. t \in StateType
    BY <2>0, <2>2, <2>4, <2>6, <2>7 DEF StateType
  <2>9. Good(t)
    <3>1. t.calls = s.calls /\ t.requests = s.requests /\ t.fetches = fs(p)
      BY <2>7
    <3> QED BY <2>6, <3>1 DEF Good
  <2> QED BY <2>8, <2>9
<1> QED BY <1>1, <1>2, <1>3

(* A call's entry replaced.                                                *)
LEMMA CallsOK ==
  ASSUME NEW s \in StateType, Good(s), NEW c \in Calls, NEW e \in CallType, e.at # "corrupt"
  PROVE  /\ [s EXCEPT !.calls = [@ EXCEPT ![c] = e]] \in StateType
         /\ Good([s EXCEPT !.calls = [@ EXCEPT ![c] = e]])
<1> DEFINE cs == [s.calls EXCEPT ![c] = e]
           t == [s EXCEPT !.calls = cs]
<1>1. s.calls \in [Calls -> CallType]
  BY DEF StateType
<1>2. cs \in [Calls -> CallType]
  BY <1>1
<1>3. AllHonest => \A d \in Calls : cs[d].at # "corrupt"
  BY <1>1 DEF Good
<1> HIDE DEF cs
<1>4. t \in StateType /\ t.calls = cs /\ t.fetches = s.fetches /\ t.requests = s.requests
  BY <1>2 DEF StateType
<1>5. Good(t)
  BY <1>3, <1>4 DEF Good
<1> QED BY <1>4, <1>5 DEF cs

(* Starting a fetch from a solid row.                                      *)
LEMMA FetchOK ==
  ASSUME TypeOK, AllHonest => Solid(row), NEW s \in StateType, Good(s), NEW c \in Calls,
         NEW t \in fetch(s, c)
  PROVE  t \in StateType /\ Good(t)
<1> DEFINE e == [at |-> "waiting", on |-> c]
           g == [received |-> row.received, good |-> row.good, asked |-> {}, armed |-> FALSE]
           cs == [s.calls EXCEPT ![c] = e]
           fs == [s.fetches EXCEPT ![c] = g]
           u == [s EXCEPT !.calls = cs, !.fetches = fs, !.pending = c]
<1>0. s.calls \in [Calls -> CallType] /\ s.fetches \in [Calls -> FetchType]
  BY DEF StateType
<1>1. e \in CallType /\ e.at # "corrupt"
  BY DEF CallType
<1>2. g \in FetchType /\ (AllHonest => Solid(g))
  BY DEF TypeOK, Row, FetchType, Solid
<1>3. cs \in [Calls -> CallType] /\ (AllHonest => \A d \in Calls : cs[d].at # "corrupt")
  BY <1>0, <1>1 DEF Good
<1>4. /\ fs \in [Calls -> FetchType]
      /\ AllHonest => \A d \in Calls : Solid(fs[d])
  <2> HIDE DEF g
  <2> QED BY <1>0, <1>2, FetchesOK DEF Good
<1>5. t \in tryNextPeer(u)
  BY DEF fetch
<1> HIDE DEF cs, fs
<1>6. u \in StateType /\ u.calls = cs /\ u.fetches = fs /\ u.requests = s.requests
  BY <1>3, <1>4 DEF StateType
<1>7. Good(u)
  BY <1>3, <1>4, <1>6 DEF Good
<1> HIDE DEF u
<1> QED BY <1>5, <1>6, <1>7, TryNextPeerOK

(* The end of get().                                                       *)
LEMMA GetAfterReadOK ==
  ASSUME TypeOK, AllHonest => Solid(row), NEW s \in StateType, Good(s), NEW c \in Calls,
         NEW t \in getAfterRead(s, c)
  PROVE  t \in StateType /\ Good(t)
<1>1. CASE row.received = Size
  <2> DEFINE e == [at |-> "held", on |-> None]
  <2>1. t = [s EXCEPT !.calls = [@ EXCEPT ![c] = e]]
    BY <1>1 DEF getAfterRead
  <2>2. e \in CallType /\ e.at # "corrupt"
    BY DEF CallType, Answers
  <2> HIDE DEF e
  <2> QED BY <2>1, <2>2, CallsOK
<1>2. CASE row.received # Size /\ s.pending # None
  <2> DEFINE e == [at |-> "waiting", on |-> s.pending]
  <2>1. t = [s EXCEPT !.calls = [@ EXCEPT ![c] = e]]
    BY <1>2 DEF getAfterRead
  <2>2. e \in CallType /\ e.at # "corrupt"
    BY DEF CallType, StateType
  <2> HIDE DEF e
  <2> QED BY <2>1, <2>2, CallsOK
<1>3. CASE row.received # Size /\ s.pending = None
  <2>1. t \in fetch(s, c)
    BY <1>3 DEF getAfterRead
  <2> QED BY <2>1, FetchOK
<1> QED BY <1>1, <1>2, <1>3

(* Taking a chunk.  With honest peers the last one completes the blob, so  *)
(* nothing is discarded.                                                   *)
LEMMA AbsorbOK ==
  ASSUME TypeOK, NEW s \in StateType, Good(s), NEW m \in FrameType
  PROVE  absorb(s, m) \in StateType /\ Good(absorb(s, m))
<1> DEFINE f == s.pending
           old == s.fetches[f]
           last == m.offset + 1 = Size
           got == [received |-> m.offset + 1,
                   good |-> IF holds[m.from] = "wrong" THEN old.good \ {m.offset}
                                                       ELSE old.good \cup {m.offset},
                   asked |-> old.asked, armed |-> last => old.armed]
           fs == [s.fetches EXCEPT ![f] = got]
           taken == [s EXCEPT !.fetches = fs]
           r == IF Verified(got) THEN Request("store", f, Prefix(got)) ELSE Request("discard", f, NoRow)
           q == Append(s.requests, r)
<1>1. CASE f = None \/ m.offset # old.received
  <2>1. absorb(s, m) = s
    BY <1>1 DEF absorb
  <2> QED BY <2>1
<1>2. CASE f # None /\ m.offset = old.received
  <2>0. /\ s.calls \in [Calls -> CallType] /\ s.fetches \in [Calls -> FetchType]
        /\ s.requests \in Seq(RequestType) /\ s.wire \in SUBSET FrameType /\ s.moves \in Nat
        /\ s.pending \in Calls \cup {None}
    BY DEF StateType
  <2>1. f \in Calls /\ old \in FetchType
    BY <1>2, <2>0
  <2>2. m.offset \in Chunks /\ m.from \in Peers
    BY DEF FrameType
  <2>3. got \in FetchType
    <3>1. m.offset + 1 \in 0 .. Size /\ m.offset \in Chunks
      BY <2>2, BlobAssumption DEF Chunks
    <3>2. got.good \subseteq Chunks
      BY <2>1, <3>1 DEF FetchType
    <3>3. got.armed \in BOOLEAN /\ got.asked \subseteq Peers
      BY <2>1 DEF FetchType
    <3> QED BY <3>1, <3>2, <3>3 DEF FetchType
  <2>4. AllHonest => Solid(got)
    <3>1. SUFFICES ASSUME AllHonest
                   PROVE  Solid(got)
      OBVIOUS
    <3>3. holds[m.from] # "wrong"
      BY <2>2, <3>1 DEF AllHonest
    <3>4. old.good = 0 .. m.offset - 1
      BY <1>2, <2>1, <3>1 DEF Good, Solid
    <3>5. (0 .. m.offset - 1) \cup {m.offset} = 0 .. m.offset
      BY <2>2, BlobAssumption DEF Chunks
    <3>6. m.offset \in Nat
      BY <2>2, BlobAssumption DEF Chunks
    <3>7. got.good = 0 .. m.offset /\ got.received = m.offset + 1
      BY <3>3, <3>4, <3>5
    <3> HIDE DEF got
    <3>8. got.received - 1 = m.offset
      BY <3>6, <3>7
    <3> QED BY <3>7, <3>8 DEF Solid
  <2>5. fs \in [Calls -> FetchType] /\ (AllHonest => \A d \in Calls : Solid(fs[d]))
    <3> HIDE DEF got
    <3> QED BY <2>0, <2>1, <2>3, <2>4, FetchesOK DEF Good
  <2>6. ASSUME last
        PROVE  r \in RequestType /\ Sound(r)
    <3>1. Prefix(got) \in Row /\ NoRow \in Row /\ (AllHonest => Solid(Prefix(got)))
      BY <2>3, <2>4, BlobAssumption DEF Prefix, Row, NoRow, FetchType, Solid
    <3>2. AllHonest => Verified(got)
      BY <2>4, <2>6, BlobAssumption DEF Verified, Solid, Chunks
    <3>3. CASE Verified(got)
      <4>1. r = [op |-> "store", of |-> f, row |-> Prefix(got)]
        BY <3>3 DEF Request
      <4> HIDE DEF r, got
      <4> QED BY <2>1, <3>1, <4>1 DEF RequestType, Sound
    <3>4. CASE ~Verified(got)
      <4>1. r = [op |-> "discard", of |-> f, row |-> NoRow]
        BY <3>4 DEF Request
      <4> HIDE DEF r, got
      <4> QED BY <2>1, <3>1, <3>2, <3>4, <4>1 DEF RequestType, Sound
    <3> QED BY <3>3, <3>4
  <2>7. ASSUME last
        PROVE  q \in Seq(RequestType) /\ \A i \in 1 .. Len(q) : Sound(q[i])
    <3> HIDE DEF r
    <3> QED BY <2>0, <2>6, <2>7, AppendOK DEF Good
  <2>8. absorb(s, m) = IF last THEN [taken EXCEPT !.requests = q] ELSE taken
    BY <1>2 DEF absorb
  <2> HIDE DEF fs, q, last
  <2>a. taken = [calls |-> s.calls, fetches |-> fs, pending |-> s.pending,
                 requests |-> s.requests, wire |-> s.wire, moves |-> s.moves]
    BY DEF StateType
  <2>b. [taken EXCEPT !.requests = q] =
          [calls |-> s.calls, fetches |-> fs, pending |-> s.pending,
           requests |-> q, wire |-> s.wire, moves |-> s.moves]
    <3> HIDE DEF taken
    <3> QED BY <2>a
  <2>10. taken \in StateType /\ Good(taken)
    BY <2>0, <2>5, <2>a DEF StateType, Good
  <2>11. ASSUME last
         PROVE  [taken EXCEPT !.requests = q] \in StateType /\ Good([taken EXCEPT !.requests = q])
    <3>1. q \in Seq(RequestType) /\ \A i \in 1 .. Len(q) : Sound(q[i])
      BY <2>7, <2>11
    <3> HIDE DEF taken
    <3>2. [taken EXCEPT !.requests = q] \in StateType
      BY <2>0, <2>5, <2>b, <3>1 DEF StateType
    <3>3. Good([taken EXCEPT !.requests = q])
      BY <2>5, <2>b, <3>1 DEF Good
    <3> QED BY <3>2, <3>3
  <2> QED BY <2>8, <2>10, <2>11
<1> QED BY <1>1, <1>2

(* Going on after a storage request.                                       *)
LEMMA ContinueOK ==
  ASSUME TypeOK, AllHonest => Solid(row), NEW s \in StateType, Good(s),
         NEW r \in RequestType, Sound(r), NEW t \in Continue(s, r)
  PROVE  t \in StateType /\ Good(t)
<1>0. /\ s.calls \in [Calls -> CallType] /\ s.fetches \in [Calls -> FetchType]
      /\ s.requests \in Seq(RequestType) /\ s.wire \in SUBSET FrameType /\ s.moves \in Nat
      /\ s.pending \in Calls \cup {None}
  BY DEF StateType
<1>1. CASE r.op = "read"
  <2>1. r.of \in Calls /\ t \in getAfterRead(s, r.of)
    BY <1>1 DEF Continue, Sound
  <2> QED BY <2>1, GetAfterReadOK
<1>2. CASE r.op = "store"
  <2> DEFINE cs == Settled(s.calls, r.of, "bytes")
             g == NoFetch
             fs == [s.fetches EXCEPT ![r.of] = g]
  <2>1. r.of \in Calls /\ "bytes" \in Answers
    BY <1>2 DEF Sound, Answers
  <2>2. cs \in [Calls -> CallType] /\ \A c \in Calls : cs[c].at \in {s.calls[c].at, "bytes"}
    BY <1>0, <2>1, SettledOK
  <2>3. g \in FetchType /\ (AllHonest => Solid(g))
    BY NoFetchOK
  <2>4. fs \in [Calls -> FetchType] /\ (AllHonest => \A d \in Calls : Solid(fs[d]))
    <3> HIDE DEF g
    <3> QED BY <1>0, <2>1, <2>3, FetchesOK DEF Good
  <2>5. t = stored(s, r.of)
    BY <1>2 DEF Continue
  <2>6. t = [calls |-> cs, fetches |-> fs, pending |-> None,
             requests |-> s.requests, wire |-> s.wire, moves |-> s.moves]
    BY <2>5 DEF stored, Over
  <2> HIDE DEF cs, fs
  <2>7. t \in StateType
    BY <1>0, <2>2, <2>4, <2>6 DEF StateType
  <2>8. Good(t)
    BY <2>2, <2>4, <2>6 DEF Good
  <2> QED BY <2>7, <2>8
<1>3. CASE r.op = "discard"
  <2>1. r.of \in Calls /\ t = settleFailed(s, r.of, FALSE, "corrupt") /\ ~AllHonest
    BY <1>3 DEF Continue, Sound
  <2>2. "corrupt" \in Answers
    BY DEF Answers
  <2> QED BY <2>1, <2>2, SettleFailedOK
<1>4. CASE r.op = "keep"
  <2> DEFINE cs == Settled(s.calls, r.of, "unavailable")
  <2>1. r.of \in Calls /\ "unavailable" \in Answers
    BY <1>4 DEF Sound, Answers
  <2>2. cs \in [Calls -> CallType] /\ \A c \in Calls : cs[c].at \in {s.calls[c].at, "unavailable"}
    BY <1>0, <2>1, SettledOK
  <2>3. t = [s EXCEPT !.calls = cs]
    BY <1>4 DEF Continue
  <2> HIDE DEF cs
  <2>4. t = [calls |-> cs, fetches |-> s.fetches, pending |-> s.pending,
             requests |-> s.requests, wire |-> s.wire, moves |-> s.moves]
    BY <2>3 DEF StateType
  <2>5. t \in StateType
    BY <1>0, <2>2, <2>4 DEF StateType
  <2>6. Good(t)
    BY <2>2, <2>4 DEF Good
  <2> QED BY <2>5, <2>6
<1>5. CASE r.op \in {"put", "delete"}
  <2>1. t = s
    BY <1>5 DEF Continue
  <2> QED BY <2>1
<1> QED BY <1>1, <1>2, <1>3, <1>4, <1>5 DEF RequestType

(* The state of the service as the handlers see it, and what they return.  *)
LEMMA NowOK == IInv => Now \in StateType /\ Good(Now)
BY DEF IInv, TypeOK, Now, StateType

LEMMA BecomeOK ==
  ASSUME IInv, NEW s \in StateType, Good(s), Become(s),
         UNCHANGED <<driver, holds>>, online' \subseteq Peers,
         disposed' \in BOOLEAN, apps' \subseteq {"put", "delete"},
         row' \in Row, errors' \in Nat, AllHonest => Solid(row')
  PROVE  IInv'
<1>1. /\ s.calls \in [Calls -> CallType] /\ s.fetches \in [Calls -> FetchType]
      /\ s.requests \in Seq(RequestType) /\ s.wire \in SUBSET FrameType /\ s.moves \in Nat
      /\ s.pending \in Calls \cup {None}
  BY DEF StateType
<1>2. TypeOK'
  BY <1>1 DEF Become, IInv, TypeOK
<1>3. AllHonest' = AllHonest
  BY DEF AllHonest
<1>4. Good(Now)'
  <2>1. \A i \in 1 .. Len(requests') : Sound(requests'[i])
    BY DEF Become, Good
  <2>2. AllHonest => \A c \in Calls : Solid(fetches'[c]) /\ calls'[c].at # "corrupt"
    BY DEF Become, Good
  <2>3. \A r : Sound(r)' = Sound(r)
    BY <1>3 DEF Sound
  <2> QED BY <1>3, <2>1, <2>2 DEF Good, Now, Sound, Solid
<1> QED BY <1>2, <1>3, <1>4 DEF IInv, Solid

(* A request the driver was given is sound, and so are the ones after it.  *)
LEMMA RequestsOK ==
  ASSUME IInv, requests # <<>>
  PROVE  /\ Head(requests) \in RequestType /\ Sound(Head(requests))
         /\ Tail(requests) \in Seq(RequestType)
         /\ \A i \in 1 .. Len(Tail(requests)) : Sound(Tail(requests)[i])
<1>1. requests \in Seq(RequestType) /\ \A i \in 1 .. Len(requests) : Sound(requests[i])
  BY DEF IInv, TypeOK, Good, Now
<1>2. Head(requests) = requests[1] /\ 1 \in 1 .. Len(requests)
  BY <1>1
<1>3. ASSUME NEW i \in 1 .. Len(Tail(requests))
      PROVE  Sound(Tail(requests)[i])
  <2>1. Tail(requests)[i] = requests[i + 1] /\ i + 1 \in 1 .. Len(requests)
    BY <1>1
  <2> QED BY <1>1, <2>1
<1>4. Head(requests) \in RequestType /\ Tail(requests) \in Seq(RequestType)
  BY <1>1
<1> QED BY <1>1, <1>2, <1>3, <1>4

(* The invariant holds at the start.                                       *)
LEMMA InitOK == Init => IInv
<1> SUFFICES ASSUME Init PROVE IInv
  OBVIOUS
<1>1. NoRow \in Row /\ Solid(NoRow)
  BY BlobAssumption DEF NoRow, Row, Solid
<1>2. NoFetch \in FetchType /\ Solid(NoFetch)
  BY NoFetchOK
<1>3. TypeOK
  <2>1. calls \in [Calls -> CallType] /\ fetches \in [Calls -> FetchType]
    BY <1>2 DEF Init, CallType
  <2>2. requests \in Seq(RequestType) /\ wire \subseteq FrameType /\ row \in Row
    BY <1>1 DEF Init
  <2> QED BY <2>1, <2>2 DEF Init, TypeOK
<1>4. Good(Now)
  BY <1>2 DEF Init, Good, Now
<1> QED BY <1>1, <1>3, <1>4 DEF IInv, Init

(* Every step keeps it.                                                    *)
LEMMA StepOK == IInv /\ [Next]_vars => IInv'
<1> SUFFICES ASSUME IInv, [Next]_vars PROVE IInv'
  OBVIOUS
<1>0. /\ Now \in StateType /\ Good(Now) /\ TypeOK /\ (AllHonest => Solid(row))
      /\ calls \in [Calls -> CallType] /\ fetches \in [Calls -> FetchType]
      /\ pending \in Calls \cup {None} /\ requests \in Seq(RequestType)
      /\ wire \subseteq FrameType /\ moves \in Nat
      /\ \A i \in 1 .. Len(requests) : Sound(requests[i])
      /\ AllHonest => \A c \in Calls : Solid(fetches[c]) /\ calls[c].at # "corrupt"
  BY NowOK DEF IInv, TypeOK, Good, Now
<1>r. NoRow \in Row /\ Solid(NoRow) /\ Whole \in Row /\ Solid(Whole)
  BY BlobAssumption DEF NoRow, Whole, Row, Solid, Chunks
<1>1. ASSUME NEW c \in Calls, Get(c)
      PROVE  IInv'
  <2> DEFINE r == Request("read", c, NoRow)
             cs == [calls EXCEPT ![c] = [@ EXCEPT !.at = "reading"]]
             q == Append(requests, r)
             s == [calls |-> cs, fetches |-> fetches, pending |-> pending,
                   requests |-> q, wire |-> wire, moves |-> moves]
  <2>1. r \in RequestType /\ Sound(r)
    BY <1>r DEF Request, RequestType, Sound
  <2>2. q \in Seq(RequestType) /\ \A i \in 1 .. Len(q) : Sound(q[i])
    <3> HIDE DEF r
    <3> QED BY <1>0, <2>1, AppendOK
  <2>3. cs \in [Calls -> CallType] /\ (AllHonest => \A d \in Calls : cs[d].at # "corrupt")
    BY <1>0 DEF CallType
  <2>4. Become(s)
    BY <1>1 DEF Get, Become
  <2>5. UNCHANGED <<driver, holds, online, disposed, apps, row, errors>>
    BY <1>1 DEF Get
  <2> HIDE DEF cs, q
  <2>6. s \in StateType /\ Good(s)
    BY <1>0, <2>2, <2>3 DEF StateType, Good
  <2> HIDE DEF s
  <2> QED BY <1>0, <2>4, <2>5, <2>6, BecomeOK DEF TypeOK
<1>2. ASSUME NEW f \in Calls, Stall(f)
      PROVE  IInv'
  <2> DEFINE g == [fetches[f] EXCEPT !.armed = FALSE]
             fs == [fetches EXCEPT ![f] = g]
             s == [Now EXCEPT !.fetches = fs]
  <2>1. PICK t \in tryNextPeer(s) : Become(t)
    <3>1. s = [Now EXCEPT !.fetches = Fired(@, f)]
      BY DEF Now, Fired
    <3> QED BY <1>2, <3>1 DEF Stall
  <2>2. g \in FetchType /\ (AllHonest => Solid(g))
    BY <1>0 DEF FetchType, Solid
  <2>3. fs \in [Calls -> FetchType] /\ (AllHonest => \A d \in Calls : Solid(fs[d]))
    <3> HIDE DEF g
    <3> QED BY <1>0, <2>2, FetchesOK
  <2> HIDE DEF fs
  <2>4. s = [calls |-> calls, fetches |-> fs, pending |-> pending,
             requests |-> requests, wire |-> wire, moves |-> moves]
    BY DEF Now
  <2> HIDE DEF s
  <2>5. s \in StateType /\ Good(s)
    BY <1>0, <2>3, <2>4 DEF StateType, Good
  <2>6. t \in StateType /\ Good(t)
    BY <1>0, <2>1, <2>5, TryNextPeerOK
  <2>7. UNCHANGED <<driver, holds, online, disposed, apps, row, errors>>
    BY <1>2 DEF Stall
  <2> QED BY <1>0, <2>1, <2>6, <2>7, BecomeOK DEF TypeOK
<1>3. CASE StorageServes
  <2> DEFINE r == Head(requests)
             q == Tail(requests)
             s == [Now EXCEPT !.requests = q]
  <2>0. requests # <<>>
    BY <1>3 DEF StorageServes
  <2>1. /\ r \in RequestType /\ Sound(r) /\ q \in Seq(RequestType)
        /\ \A i \in 1 .. Len(q) : Sound(q[i])
    BY <2>0, RequestsOK
  <2>2. PICK t \in Continue(s, r) : Become(t)
    BY <1>3 DEF StorageServes
  <2>4. row' = Applied(r) /\ UNCHANGED <<driver, holds, online, disposed, apps, errors>>
    BY <1>3 DEF StorageServes
  <2> HIDE DEF q, r
  <2>3. s = [calls |-> calls, fetches |-> fetches, pending |-> pending,
             requests |-> q, wire |-> wire, moves |-> moves]
    BY DEF Now
  <2> HIDE DEF s
  <2>5. s \in StateType /\ Good(s)
    BY <1>0, <2>1, <2>3 DEF StateType, Good
  <2>6. t \in StateType /\ Good(t)
    BY <1>0, <2>1, <2>2, <2>5, ContinueOK
  <2>7. row' \in Row /\ (AllHonest => Solid(row'))
    <3>1. r.row \in Row /\ (AllHonest => Solid(r.row)) /\ row \in Row
      BY <1>0, <2>1 DEF RequestType, Sound, TypeOK
    <3> QED BY <1>0, <1>r, <2>4, <3>1 DEF Applied
  <2> QED BY <1>0, <2>2, <2>4, <2>6, <2>7, BecomeOK DEF TypeOK
<1>4. CASE StorageRejects
  <2> DEFINE r == Head(requests)
             cs == IF r.op = "keep" THEN Settled(calls, r.of, "unavailable") ELSE calls
             q == Tail(requests)
             s == [calls |-> cs, fetches |-> fetches, pending |-> pending,
                   requests |-> q, wire |-> wire, moves |-> moves]
  <2>0. requests # <<>>
    BY <1>4 DEF StorageRejects
  <2>1. /\ r \in RequestType /\ Sound(r) /\ q \in Seq(RequestType)
        /\ \A i \in 1 .. Len(q) : Sound(q[i])
    BY <2>0, RequestsOK
  <2>2. Become(s)
    BY <1>4 DEF StorageRejects, Become
  <2>3. UNCHANGED <<driver, holds, online, disposed, apps, row>> /\ errors' = errors + 1
    BY <1>4 DEF StorageRejects
  <2>4. cs \in [Calls -> CallType] /\ (AllHonest => \A d \in Calls : cs[d].at # "corrupt")
    <3>1. CASE r.op = "keep"
      <4>1. r.of \in Calls /\ "unavailable" \in Answers
        BY <2>1, <3>1 DEF Sound, Answers
      <4> HIDE DEF r
      <4>2. /\ Settled(calls, r.of, "unavailable") \in [Calls -> CallType]
            /\ \A d \in Calls : Settled(calls, r.of, "unavailable")[d].at
                                   \in {calls[d].at, "unavailable"}
        BY <1>0, <4>1, SettledOK
      <4> QED BY <1>0, <3>1, <4>2
    <3>2. CASE r.op # "keep"
      BY <1>0, <3>2
    <3> QED BY <3>1, <3>2
  <2> HIDE DEF cs, q
  <2>5. s \in StateType /\ Good(s)
    BY <1>0, <2>1, <2>4 DEF StateType, Good
  <2>6. errors' \in Nat
    BY <1>0, <2>3 DEF TypeOK
  <2> HIDE DEF s
  <2> QED BY <1>0, <2>2, <2>3, <2>5, <2>6, BecomeOK DEF TypeOK
<1>5. ASSUME NEW m \in wire, Chunk(m)
      PROVE  IInv'
  <2> DEFINE w == (wire \ {m}) \cup serve(m.from, m.to, m.offset + 1)
             s == [Now EXCEPT !.wire = (@ \ {m}) \cup serve(m.from, m.to, m.offset + 1)]
  <2>1. m \in FrameType /\ m.from \in Peers /\ m.to \in Calls /\ m.offset + 1 \in Nat
    BY <1>0 DEF FrameType, Chunks
  <2>2. w \subseteq FrameType
    BY <1>0, <2>1, FramesOK
  <2>3. Become(absorb(s, m)) /\ UNCHANGED <<driver, holds, online, disposed, apps, row, errors>>
    BY <1>5 DEF Chunk
  <2>4. s = [calls |-> calls, fetches |-> fetches, pending |-> pending,
             requests |-> requests, wire |-> w, moves |-> moves]
    BY DEF Now
  <2> HIDE DEF s, w
  <2>5. s \in StateType /\ Good(s)
    BY <1>0, <2>2, <2>4 DEF StateType, Good
  <2>6. absorb(s, m) \in StateType /\ Good(absorb(s, m))
    BY <1>0, <2>1, <2>5, AbsorbOK
  <2> QED BY <1>0, <2>3, <2>6, BecomeOK DEF TypeOK
<1>6. ASSUME NEW m \in wire, Unavailable(m)
      PROVE  IInv'
  <2> DEFINE w == wire \ {m}
             s == [Now EXCEPT !.wire = @ \ {m}]
  <2>1. PICK t \in tryNextPeer(s) : Become(t)
    BY <1>6 DEF Unavailable
  <2>2. s = [calls |-> calls, fetches |-> fetches, pending |-> pending,
             requests |-> requests, wire |-> w, moves |-> moves]
    BY DEF Now
  <2> HIDE DEF s
  <2>3. s \in StateType /\ Good(s)
    BY <1>0, <2>2 DEF StateType, Good
  <2>4. t \in StateType /\ Good(t)
    BY <1>0, <2>1, <2>3, TryNextPeerOK
  <2>5. UNCHANGED <<driver, holds, online, disposed, apps, row, errors>>
    BY <1>6 DEF Unavailable
  <2> QED BY <1>0, <2>1, <2>4, <2>5, BecomeOK DEF TypeOK
<1>7. ASSUME NEW p \in Peers, PeerLeaves(p) \/ PeerJoins(p)
      PROVE  IInv'
  <2> DEFINE s == [calls |-> calls, fetches |-> fetches, pending |-> pending,
                   requests |-> requests, wire |-> wire', moves |-> moves']
  <2>1. /\ wire' \subseteq FrameType /\ moves' \in Nat /\ online' \subseteq Peers
        /\ UNCHANGED <<driver, holds, disposed, apps, row, errors, service, requests>>
    BY <1>0, <1>7 DEF PeerLeaves, PeerJoins, TypeOK, service
  <2>2. Become(s)
    BY <2>1 DEF Become, service
  <2>3. s \in StateType /\ Good(s)
    BY <1>0, <2>1 DEF StateType, Good
  <2> HIDE DEF s
  <2> QED BY <1>0, <2>1, <2>2, <2>3, BecomeOK DEF TypeOK
<1>8. ASSUME NEW op \in {"put", "delete"}, Application(op)
      PROVE  IInv'
  <2> DEFINE r == Request(op, None, IF op = "put" THEN Whole ELSE NoRow)
             q == Append(requests, r)
             s == [calls |-> calls, fetches |-> fetches, pending |-> pending,
                   requests |-> q, wire |-> wire, moves |-> moves]
  <2>1. r \in RequestType /\ Sound(r)
    BY <1>r DEF Request, RequestType, Sound
  <2>2. q \in Seq(RequestType) /\ \A i \in 1 .. Len(q) : Sound(q[i])
    <3> HIDE DEF r
    <3> QED BY <1>0, <2>1, AppendOK
  <2>3. Become(s) /\ UNCHANGED <<driver, holds, online, disposed, row, errors>>
    BY <1>8 DEF Application, Become, service
  <2>4. apps' \subseteq {"put", "delete"}
    BY <1>0, <1>8 DEF Application, TypeOK
  <2> HIDE DEF q
  <2>5. s \in StateType /\ Good(s)
    BY <1>0, <2>2 DEF StateType, Good
  <2> HIDE DEF s
  <2> QED BY <1>0, <2>3, <2>4, <2>5, BecomeOK DEF TypeOK
<1>9. CASE Dispose
  <2> DEFINE cs == IF pending = None THEN calls ELSE Settled(calls, pending, "unavailable")
             fs == IF pending = None THEN fetches ELSE [fetches EXCEPT ![pending] = NoFetch]
             s == [calls |-> cs, fetches |-> fs, pending |-> None,
                   requests |-> requests, wire |-> {}, moves |-> moves]
  <2>1. cs \in [Calls -> CallType] /\ (AllHonest => \A d \in Calls : cs[d].at # "corrupt")
    <3>1. CASE pending = None
      BY <1>0, <3>1
    <3>2. CASE pending # None
      <4>1. pending \in Calls /\ "unavailable" \in Answers
        BY <1>0, <3>2 DEF Answers
      <4>2. /\ Settled(calls, pending, "unavailable") \in [Calls -> CallType]
            /\ \A d \in Calls : Settled(calls, pending, "unavailable")[d].at
                                   \in {calls[d].at, "unavailable"}
        BY <1>0, <4>1, SettledOK
      <4> QED BY <1>0, <3>2, <4>2
    <3> QED BY <3>1, <3>2
  <2>2. fs \in [Calls -> FetchType] /\ (AllHonest => \A d \in Calls : Solid(fs[d]))
    BY <1>0, NoFetchOK
  <2>3. Become(s) /\ UNCHANGED <<driver, holds, apps, row, errors>>
    BY <1>9 DEF Dispose, Become, Over
  <2>4. disposed' \in BOOLEAN /\ online' \subseteq Peers
    BY <1>9 DEF Dispose
  <2> HIDE DEF cs, fs
  <2>5. s \in StateType /\ Good(s)
    BY <1>0, <2>1, <2>2 DEF StateType, Good
  <2> HIDE DEF s
  <2> QED BY <1>0, <2>3, <2>4, <2>5, BecomeOK DEF TypeOK
<1>10. CASE UNCHANGED vars
  <2>1. Become(Now)
    BY <1>10 DEF vars, service, Become, Now
  <2>2. UNCHANGED <<driver, holds, online, disposed, apps, row, errors>>
    BY <1>10 DEF vars, service
  <2> QED BY <1>0, <2>1, <2>2, BecomeOK DEF TypeOK
<1> QED BY <1>1, <1>2, <1>3, <1>4, <1>5, <1>6, <1>7, <1>8, <1>9, <1>10 DEF Next

(* The inductive invariant holds throughout.                               *)
THEOREM Invariant == Spec => []IInv
<1> QED BY InitOK, StepOK, PTL DEF Spec

(* Types, for any number of peers, calls and chunks.                       *)
THEOREM TypeCorrect == Spec => []TypeOK
<1>1. IInv => TypeOK
  BY DEF IInv
<1> QED BY <1>1, Invariant, PTL

(* While no peer's bytes are wrong, whatever mixture of peers, retries and *)
(* late chunks a blob is put together from has no hole, and is never       *)
(* declared corrupt.                                                       *)
THEOREM NeverCorrupt == Spec => []HonestNeverCorrupt
<1>1. IInv => HonestNeverCorrupt
  BY DEF IInv, Good, Now, AllHonest, Solid, HonestNeverCorrupt
<1> QED BY <1>1, Invariant, PTL
-----------------------------------------------------------------------------
(* What arrived.  With a driver that serves requests at once there is one  *)
(* request at most, and neither it nor the pending fetch is behind a row   *)
(* of b chunks; what a failed fetch keeps is written with none pending.    *)
Behind(r, b) == r.op # "put" /\ (r.op \in {"store", "keep"} => b <= r.row.received)

Ahead(s, b) ==
  /\ s.requests # <<>> => /\ Len(s.requests) = 1 /\ Behind(Head(s.requests), b)
                          /\ Head(s.requests).op = "keep" => s.pending = None
  /\ s.pending # None => b <= s.fetches[s.pending].received

AtOnce == driver = "sqlite" /\ "put" \notin apps

KInv == IInv /\ (AtOnce => Ahead(Now, row.received))

LEMMA SettleFailedAhead ==
  ASSUME NEW s \in StateType, NEW b \in Nat, s.requests = <<>>, NEW f \in Calls,
         b <= s.fetches[f].received, NEW keepPartial \in BOOLEAN, NEW answer
  PROVE  Ahead(settleFailed(s, f, keepPartial, answer), b)
<1> DEFINE t == settleFailed(s, f, keepPartial, answer)
           r == Request("keep", f, Prefix(s.fetches[f]))
<1>1. t.pending = None /\ t.requests \in {<<>>, <<r>>}
  BY DEF settleFailed
<1>2. r.op = "keep" /\ b <= r.row.received
  BY DEF Request, Prefix
<1>3. Head(<<r>>) = r /\ Len(<<r>>) = 1
  OBVIOUS
<1> HIDE DEF t, r
<1>4. Behind(r, b)
  BY <1>2 DEF Behind
<1> QED
  BY <1>1, <1>3, <1>4 DEF Ahead, t

LEMMA TryNextPeerAhead ==
  ASSUME TypeOK, NEW s \in StateType, NEW b \in Nat, s.requests = <<>>, Ahead(s, b),
         NEW t \in tryNextPeer(s)
  PROVE  Ahead(t, b)
<1> DEFINE f == s.pending
           unasked == online \ s.fetches[f].asked
<1>1. CASE f = None
  BY <1>1 DEF tryNextPeer
<1>2. CASE f # None /\ unasked = {}
  <2>1. t = settleFailed(s, f, TRUE, "unavailable")
    BY <1>2 DEF tryNextPeer
  <2>2. f \in Calls /\ b <= s.fetches[f].received
    BY <1>2 DEF StateType, Ahead
  <2> QED
    BY <2>1, <2>2, SettleFailedAhead
<1>3. CASE f # None /\ unasked # {}
  <2>1. PICK p \in unasked :
          \/ t = ask(s, p, serve(p, f, s.fetches[f].received), 0)
          \/ t = ask(s, p, Refused(p, f), 1)
    BY <1>3 DEF tryNextPeer
  <2>2. f \in Calls /\ s.fetches \in [Calls -> FetchType]
    BY <1>3 DEF StateType
  <2>3. t.pending = f /\ t.requests = s.requests /\ t.fetches[f].received = s.fetches[f].received
    BY <2>1, <2>2 DEF ask
  <2> QED
    BY <2>3 DEF Ahead
<1> QED
  BY <1>1, <1>2, <1>3

LEMMA FetchAhead ==
  ASSUME TypeOK, NEW s \in StateType, s.requests = <<>>, NEW c \in Calls, NEW t \in fetch(s, c)
  PROVE  Ahead(t, row.received)
<1> DEFINE g == [received |-> row.received, good |-> row.good, asked |-> {}, armed |-> FALSE]
           u == [s EXCEPT !.calls = [@ EXCEPT ![c] = [at |-> "waiting", on |-> c]],
                          !.fetches = [@ EXCEPT ![c] = g], !.pending = c]
<1>1. t \in tryNextPeer(u)
  BY DEF fetch
<1>2. s.calls \in [Calls -> CallType] /\ s.fetches \in [Calls -> FetchType]
  BY DEF StateType
<1>3. g \in FetchType /\ g.received = row.received /\ row.received \in Nat
  BY BlobAssumption DEF TypeOK, Row, FetchType
<1>4. [s.calls EXCEPT ![c] = [at |-> "waiting", on |-> c]] \in [Calls -> CallType]
  BY <1>2 DEF CallType
<1> HIDE DEF g
<1>5. u \in StateType /\ u.requests = <<>> /\ u.pending = c /\ u.fetches[c] = g
  BY <1>2, <1>3, <1>4 DEF StateType
<1> HIDE DEF u
<1>6. Ahead(u, row.received)
  BY <1>3, <1>5 DEF Ahead
<1> QED
  BY <1>1, <1>3, <1>5, <1>6, TryNextPeerAhead

LEMMA AbsorbAhead ==
  ASSUME NEW s \in StateType, NEW b \in Nat, s.requests = <<>>, Ahead(s, b), NEW m \in FrameType
  PROVE  Ahead(absorb(s, m), b)
<1> DEFINE f == s.pending
           old == s.fetches[f]
           last == m.offset + 1 = Size
           got == [received |-> m.offset + 1,
                   good |-> IF holds[m.from] = "wrong" THEN old.good \ {m.offset}
                                                       ELSE old.good \cup {m.offset},
                   asked |-> old.asked, armed |-> last => old.armed]
           taken == [s EXCEPT !.fetches = [@ EXCEPT ![f] = got]]
           r == IF Verified(got) THEN Request("store", f, Prefix(got)) ELSE Request("discard", f, NoRow)
<1>1. CASE f = None \/ m.offset # old.received
  BY <1>1 DEF absorb
<1>2. CASE f # None /\ m.offset = old.received
  <2>1. f \in Calls /\ s.fetches \in [Calls -> FetchType] /\ b <= old.received
    BY <1>2 DEF StateType, Ahead
  <2>2. m.offset \in Nat
    BY BlobAssumption DEF FrameType, Chunks
  <2>3. b <= got.received
    BY <1>2, <2>1, <2>2
  <2>4. Behind(r, b)
    BY <2>3 DEF Behind, Request, Prefix
  <2>5. r.op # "keep" /\ Head(<<r>>) = r /\ Len(<<r>>) = 1 /\ Append(<<>>, r) = <<r>>
    BY DEF Request
  <2> DEFINE t == [taken EXCEPT !.requests = Append(@, r)]
  <2>6. absorb(s, m) \in {taken, t}
    BY <1>2 DEF absorb
  <2> HIDE DEF r, got
  <2>7. /\ taken.requests = <<>> /\ taken.pending = f /\ taken.fetches[f] = got
        /\ t.requests = <<r>> /\ t.pending = f /\ t.fetches[f] = got
    BY <2>1, <2>5 DEF StateType
  <2> HIDE DEF taken, t
  <2> QED
    BY <2>3, <2>4, <2>5, <2>6, <2>7 DEF Ahead
<1> QED
  BY <1>1, <1>2

(* What follows a request is not behind the row that the request leaves.   *)
LEMMA ContinueAhead ==
  ASSUME TypeOK, NEW s \in StateType, NEW r \in RequestType, Sound(r), Behind(r, row.received),
         s.requests = <<>>, r.op = "keep" => s.pending = None,
         s.pending # None => row.received <= s.fetches[s.pending].received,
         NEW t \in Continue(s, r)
  PROVE  Ahead(t, Applied(r).received)
<1>1. row.received \in Nat /\ 0 \in Nat
  BY BlobAssumption DEF TypeOK, Row
<1>2. CASE r.op = "read"
  <2>1. t \in getAfterRead(s, r.of) /\ Applied(r) = row /\ r.of \in Calls
    BY <1>2 DEF Continue, Applied, Sound
  <2>2. CASE t \in fetch(s, r.of)
    BY <2>1, <2>2, FetchAhead
  <2>3. CASE t.pending = s.pending /\ t.requests = s.requests /\ t.fetches = s.fetches
    BY <2>1, <2>3 DEF Ahead
  <2> QED
    BY <2>1, <2>2, <2>3 DEF getAfterRead, StateType
<1>3. CASE r.op = "store"
  <2>1. t.pending = None /\ t.requests = <<>>
    BY <1>3 DEF Continue, stored
  <2> QED
    BY <2>1 DEF Ahead
<1>4. CASE r.op = "discard"
  <2>1. t.pending = None /\ t.requests = <<>>
    BY <1>4 DEF Continue, settleFailed
  <2> QED
    BY <2>1 DEF Ahead
<1>5. CASE r.op = "keep"
  <2>1. t.pending = None /\ t.requests = <<>>
    BY <1>5 DEF Continue, StateType
  <2> QED
    BY <2>1 DEF Ahead
<1>6. CASE r.op \in {"put", "delete"}
  <2>1. r.op = "delete" /\ t = s /\ Applied(r).received = 0
    BY <1>6 DEF Continue, Applied, Behind, NoRow
  <2>2. s.pending # None => 0 <= s.fetches[s.pending].received
    BY BlobAssumption DEF StateType, FetchType
  <2> QED
    BY <2>1, <2>2 DEF Ahead
<1> QED
  BY <1>2, <1>3, <1>4, <1>5, <1>6 DEF RequestType

(* Of one request nothing is left when it is served.                       *)
LEMMA OneRequest ==
  ASSUME NEW q \in Seq(RequestType), q # <<>>, Len(q) = 1
  PROVE  Tail(q) = <<>>
<1>1. Tail(q) \in Seq(RequestType) /\ Len(Tail(q)) = 0
  BY HeadTailProperties
<1> QED
  BY <1>1, EmptySeq

LEMMA AheadStep == KInv /\ [Next]_vars => KInv'
<1> SUFFICES ASSUME KInv, [Next]_vars PROVE KInv'
  OBVIOUS
<1>0. IInv /\ IInv' /\ TypeOK /\ Now \in StateType /\ row.received \in Nat /\ row'.received \in Nat
  <2>1. IInv /\ IInv'
    BY StepOK DEF KInv
  <2>2. TypeOK /\ TypeOK' /\ Now \in StateType
    BY <2>1, NowOK DEF IInv
  <2>3. row.received \in 0 .. Size /\ row'.received \in 0 .. Size
    BY <2>2 DEF TypeOK, Row
  <2> QED
    BY <2>1, <2>2, <2>3, BlobAssumption
<1> SUFFICES ASSUME AtOnce'
             PROVE  Ahead(Now', row'.received)
  BY <1>0 DEF KInv, Ahead, Behind, Now
<1>1. driver = "sqlite" /\ driver' = "sqlite" /\ AtOnce
  <2>1. driver' = driver /\ apps \subseteq apps'
    BY DEF Next, vars, service, Get, Stall, StorageServes, StorageRejects, Chunk, Unavailable, PeerLeaves,
           PeerJoins, Application, Dispose
  <2> QED
    BY <2>1 DEF AtOnce
<1>2. Ahead(Now, row.received)
  BY <1>1 DEF KInv
<1>3. /\ requests # <<>> => /\ Len(requests) = 1 /\ Behind(Head(requests), row.received)
                            /\ Head(requests).op = "keep" => pending = None
      /\ pending # None => row.received <= fetches[pending].received
  BY <1>2 DEF Ahead, Now
<1>3a. requests # <<>> => Len(requests) = 1
  BY <1>3
<1>4. ASSUME NEW s \in StateType, Become(s), Ahead(s, row'.received)
      PROVE  Ahead(Now', row'.received)
  BY <1>4 DEF Become, Ahead, Now
<1>5. /\ calls \in [Calls -> CallType] /\ fetches \in [Calls -> FetchType]
      /\ pending \in Calls \cup {None} /\ requests \in Seq(RequestType)
      /\ wire \subseteq FrameType /\ moves \in Nat
  BY <1>0 DEF TypeOK
<1>6. Turn => requests = <<>>
  BY <1>1 DEF Turn
<1>11. ASSUME NEW c \in Calls, Get(c)
       PROVE  Ahead(Now', row'.received)
  <2> DEFINE r == Request("read", c, NoRow)
  <2>1. requests' = Append(<<>>, r) /\ UNCHANGED <<fetches, pending, row>>
    BY <1>6, <1>11 DEF Get
  <2>2. Behind(r, row.received) /\ r.op # "keep" /\ Append(<<>>, r) = <<r>> /\ Head(<<r>>) = r /\ Len(<<r>>) = 1
    BY DEF Behind, Request
  <2> HIDE DEF r
  <2> QED
    BY <1>3, <2>1, <2>2 DEF Ahead, Now
<1>12. ASSUME NEW f \in Calls, Stall(f)
       PROVE  Ahead(Now', row'.received)
  <2> DEFINE g == [fetches[f] EXCEPT !.armed = FALSE]
             fs == [fetches EXCEPT ![f] = g]
             s == [Now EXCEPT !.fetches = fs]
  <2>1. PICK t \in tryNextPeer(s) : Become(t)
    <3>1. s = [Now EXCEPT !.fetches = Fired(@, f)]
      BY DEF Now, Fired
    <3> QED BY <1>12, <3>1 DEF Stall
  <2>2. g \in FetchType /\ g.received = fetches[f].received
    BY <1>5 DEF FetchType
  <2>3. fs \in [Calls -> FetchType] /\ \A d \in Calls : fs[d].received = fetches[d].received
    <3> HIDE DEF g
    <3> QED BY <1>5, <2>2
  <2> HIDE DEF fs
  <2>4. requests = <<>> /\ row' = row
    BY <1>6, <1>12 DEF Stall
  <2>5. s.requests = <<>> /\ s.pending = pending /\ s.fetches = fs /\ s \in StateType
    BY <1>5, <2>3, <2>4 DEF Now, StateType
  <2>6. Ahead(s, row.received)
    BY <1>3, <1>5, <2>3, <2>5 DEF Ahead
  <2>7. Ahead(t, row.received)
    BY <1>0, <2>1, <2>5, <2>6, TryNextPeerAhead
  <2> QED BY <2>1, <2>4, <2>7 DEF Become, Ahead, Now
<1>13. CASE StorageServes
  <2> DEFINE r == Head(requests)
             q == Tail(requests)
             s == [Now EXCEPT !.requests = q]
  <2>1. requests # <<>> /\ row' = Applied(r)
    BY <1>13 DEF StorageServes
  <2>2. PICK t \in Continue(s, r) : Become(t)
    BY <1>13 DEF StorageServes
  <2>3. r \in RequestType /\ Sound(r)
    BY <1>0, <2>1, RequestsOK
  <2>4. q = <<>>
    <3>1. Len(requests) = 1
      BY <1>3a, <2>1
    <3> QED BY <1>5, <2>1, <3>1, OneRequest
  <2>5. s \in StateType /\ s.requests = <<>> /\ s.pending = pending /\ s.fetches = fetches
    <3> HIDE DEF q
    <3>0. s = [calls |-> calls, fetches |-> fetches, pending |-> pending,
               requests |-> q, wire |-> wire, moves |-> moves]
      BY DEF Now
    <3>1. s = [calls |-> calls, fetches |-> fetches, pending |-> pending,
               requests |-> <<>>, wire |-> wire, moves |-> moves]
      BY <2>4, <3>0
    <3>2. <<>> \in Seq(RequestType)
      OBVIOUS
    <3> HIDE DEF s
    <3> QED BY <1>5, <3>1, <3>2 DEF StateType
  <2>6. Behind(r, row.received) /\ (r.op = "keep" => pending = None)
    BY <1>3, <2>1
  <2> HIDE DEF r, s
  <2>7. Ahead(t, Applied(r).received)
    BY <1>0, <1>3, <2>2, <2>3, <2>5, <2>6, ContinueAhead
  <2> QED BY <2>1, <2>2, <2>7 DEF Become, Ahead, Now
<1>14. CASE StorageRejects
  <2>1. requests' = Tail(requests) /\ requests # <<>> /\ UNCHANGED <<fetches, pending, row>>
    BY <1>14 DEF StorageRejects
  <2>2. requests' = <<>>
    <3>1. Len(requests) = 1
      BY <1>3a, <2>1
    <3> QED BY <1>5, <2>1, <3>1
  <2> QED BY <1>3, <2>1, <2>2 DEF Ahead, Now
<1>15. ASSUME NEW m \in wire, Chunk(m)
       PROVE  Ahead(Now', row'.received)
  <2> DEFINE w == (wire \ {m}) \cup serve(m.from, m.to, m.offset + 1)
             s == [Now EXCEPT !.wire = (@ \ {m}) \cup serve(m.from, m.to, m.offset + 1)]
  <2>1. m \in FrameType /\ m.from \in Peers /\ m.to \in Calls /\ m.offset + 1 \in Nat
    BY <1>5 DEF FrameType, Chunks
  <2>2. w \subseteq FrameType
    BY <1>0, <1>5, <2>1, FramesOK
  <2>3. Become(absorb(s, m)) /\ row' = row /\ requests = <<>>
    BY <1>6, <1>15 DEF Chunk
  <2>4. s = [calls |-> calls, fetches |-> fetches, pending |-> pending,
             requests |-> requests, wire |-> w, moves |-> moves]
    BY DEF Now
  <2> HIDE DEF s, w
  <2>5. s \in StateType /\ s.requests = <<>> /\ s.pending = pending /\ s.fetches = fetches
    BY <1>5, <2>2, <2>3, <2>4 DEF StateType
  <2>6. Ahead(s, row.received)
    BY <1>3, <2>5 DEF Ahead
  <2>7. Ahead(absorb(s, m), row.received)
    BY <1>0, <2>1, <2>5, <2>6, AbsorbAhead
  <2> QED BY <2>3, <2>7 DEF Become, Ahead, Now
<1>16. ASSUME NEW m \in wire, Unavailable(m)
       PROVE  Ahead(Now', row'.received)
  <2> DEFINE s == [Now EXCEPT !.wire = @ \ {m}]
  <2>1. PICK t \in tryNextPeer(s) : Become(t)
    BY <1>16 DEF Unavailable
  <2>2. row' = row /\ requests = <<>>
    BY <1>6, <1>16 DEF Unavailable
  <2>3. s \in StateType /\ s.requests = <<>> /\ s.pending = pending /\ s.fetches = fetches
    BY <1>5, <2>2 DEF Now, StateType
  <2> HIDE DEF s
  <2>4. Ahead(s, row.received)
    BY <1>3, <2>3 DEF Ahead
  <2>5. Ahead(t, row.received)
    BY <1>0, <2>1, <2>3, <2>4, TryNextPeerAhead
  <2> QED BY <2>1, <2>2, <2>5 DEF Become, Ahead, Now
<1>17. ASSUME NEW p \in Peers, PeerLeaves(p) \/ PeerJoins(p)
       PROVE  Ahead(Now', row'.received)
  <2>1. UNCHANGED <<requests, fetches, pending, row>>
    BY <1>17 DEF PeerLeaves, PeerJoins, service
  <2> QED BY <1>3, <2>1 DEF Ahead, Now
<1>18. ASSUME NEW op \in {"put", "delete"}, Application(op)
       PROVE  Ahead(Now', row'.received)
  <2> DEFINE r == Request(op, None, IF op = "put" THEN Whole ELSE NoRow)
  <2>1. requests' = Append(<<>>, r) /\ UNCHANGED <<fetches, pending, row>> /\ op # "put"
    BY <1>6, <1>18 DEF Application, service, AtOnce
  <2>2. Behind(r, row.received) /\ r.op # "keep" /\ Append(<<>>, r) = <<r>> /\ Head(<<r>>) = r /\ Len(<<r>>) = 1
    BY <2>1 DEF Behind, Request
  <2> HIDE DEF r
  <2> QED BY <1>3, <2>1, <2>2 DEF Ahead, Now
<1>19. CASE Dispose
  <2>1. pending' = None /\ UNCHANGED <<requests, row>>
    BY <1>19 DEF Dispose
  <2> QED BY <1>3, <2>1 DEF Ahead, Now
<1>20. CASE UNCHANGED vars
  <2>1. UNCHANGED <<requests, fetches, pending, row>>
    BY <1>20 DEF vars, service
  <2> QED BY <1>3, <2>1 DEF Ahead, Now
<1> QED
  BY <1>11, <1>12, <1>13, <1>14, <1>15, <1>16, <1>17, <1>18, <1>19, <1>20 DEF Next

(* Where storage is done before anything else can run, a row loses ground  *)
(* only to delete() or to a failed check: a fetch that failed never keeps  *)
(* less than an earlier one did.  (blob-service.ts settleFailed, fetch)    *)
THEOREM NothingArrivedIsLost == Spec => KeepsWhatArrived
<1>1. Init => KInv
  BY InitOK DEF Init, KInv, Ahead, Now
<1>2. KInv /\ [Next]_vars => [driver = "sqlite" /\ "put" \notin apps /\ row'.received < row.received =>
                                Head(requests).op \in {"discard", "delete"}]_vars
  <2> SUFFICES ASSUME KInv, [Next]_vars, driver = "sqlite", "put" \notin apps,
                      row'.received < row.received
               PROVE  Head(requests).op \in {"discard", "delete"}
    OBVIOUS
  <2>1. row' # row
    <3>1. row.received \in Nat
      BY BlobAssumption DEF KInv, IInv, TypeOK, Row
    <3> QED BY <3>1
  <2>2. StorageServes
    BY <2>1 DEF Next, vars, Get, Stall, StorageRejects, Chunk, Unavailable, PeerLeaves,
                PeerJoins, Application, Dispose
  <2>3. Behind(Head(requests), row.received) /\ requests # <<>> /\ row' = Applied(Head(requests))
    BY <2>2 DEF StorageServes, KInv, AtOnce, Ahead, Now
  <2>4. Head(requests) \in RequestType
    BY <2>3, RequestsOK DEF KInv
  <2>5. CASE Head(requests).op \in {"store", "keep"}
    <3>1. row' = Head(requests).row /\ row.received <= Head(requests).row.received
      BY <2>3, <2>5 DEF Applied, Behind
    <3>2. row.received \in Nat /\ row'.received \in Nat
      BY <2>4, <3>1, BlobAssumption DEF KInv, IInv, TypeOK, RequestType, Row
    <3> QED BY <3>1, <3>2
  <2>6. CASE Head(requests).op = "read"
    BY <2>1, <2>3, <2>6 DEF Applied
  <2> QED
    BY <2>3, <2>4, <2>5, <2>6 DEF RequestType, Behind
<1> QED
  BY <1>1, <1>2, AheadStep, PTL DEF Spec, KeepsWhatArrived
=============================================================================
