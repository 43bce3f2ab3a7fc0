-------------------------- MODULE TransportsProofs --------------------------
(***************************************************************************)
(* Proofs about the transports of Transports, for any builds, relays, ids  *)
(* of pipes and bounds: the ladder of relays, the sub-streams of a QUIC    *)
(* session, and sessions over a host's pipes, where what is due at each    *)
(* end of a pipe, buffered or still to be reported, is one sequence.       *)
(***************************************************************************)
EXTENDS Transports, FiniteSetTheorems, SequenceTheorems, WellFoundedInduction, TLAPS

-----------------------------------------------------------------------------
(* The choice of a relay                                                   *)

Rungs == 1 .. Relays
Calling == [at : {"idle", "direct", "relay", "sleep"}, relay : 0 .. Relays, attempt : Nat]

FailoverTypeOK ==
  /\ call \in [Calls -> Calling] /\ direct \in [Calls -> {"none", "open", "made", "failed"}]
  /\ made \in [Calls -> SUBSET Rungs] /\ refusals \in [Calls -> [Rungs -> Nat]]
  /\ outcome = [c \in Calls |-> outcome[c]]

AllTries == maxRetriesPerRelay + 1

(* A call k whose direct attempt is d, which made connections through the  *)
(* relays m, with f refusals of each relay and the outcome o: it has       *)
(* worn out every relay above the one it is at, and tried none below.      *)
Climbs(k, d, m, f, o) ==
  /\ d = "none" => k.at = "idle"
  /\ d = "none" \/ k.at = "direct" => m = {} /\ o = <<"none">> /\ \A q \in Rungs : f[q] = 0
  /\ k.at \in {"idle", "direct"} => k.relay = 0
  /\ k.at \in {"relay", "sleep"} =>
       /\ m = {} /\ o = <<"none">> /\ k.relay \in Rungs
       /\ f[k.relay] = IF k.at = "sleep" THEN k.attempt + 1 ELSE k.attempt
       /\ k.attempt <= maxRetriesPerRelay
       /\ k.at = "sleep" => k.attempt < maxRetriesPerRelay
       /\ \A q \in Rungs : /\ q < k.relay => f[q] = AllTries
                           /\ k.relay < q => f[q] = 0
  /\ o = <<"failed">> => m = {} /\ \A q \in Rungs : f[q] = AllTries
  /\ \A r \in m : o = <<"relay", r>> /\ \A q \in Rungs : q < r => f[q] = AllTries
  /\ o = <<"direct">> => d = "made" /\ m = {}

FailoverIInv ==
  /\ FailoverTypeOK
  /\ \A c \in Calls : Climbs(call[c], direct[c], made[c], refusals[c], outcome[c])

LEMMA FailoverConstants ==
  /\ Relays \in Nat /\ maxRetriesPerRelay \in Nat /\ AllTries \in Nat
  /\ Failover!Idle = [at |-> "idle", relay |-> 0, attempt |-> 0] /\ Failover!Idle \in Calling
BY FailoverAssumption DEF Failover!RelayFailoverAssumption, Failover!Idle, AllTries, Calling

LEMMA FailoverInit == Failover!Init => FailoverIInv
<1> SUFFICES ASSUME Failover!Init PROVE FailoverIInv
  OBVIOUS
<1>1. FailoverTypeOK
  BY FailoverConstants DEF Failover!Init, FailoverTypeOK, Rungs
<1>2. ASSUME NEW c \in Calls
      PROVE  Climbs(call[c], direct[c], made[c], refusals[c], outcome[c])
  <2>1. /\ call[c].at = "idle" /\ call[c].relay = 0 /\ direct[c] = "none"
        /\ made[c] = {} /\ outcome[c] = <<"none">>
        /\ \A q \in Rungs : refusals[c][q] = 0
    BY FailoverConstants DEF Failover!Init, Rungs
  <2> QED BY <2>1 DEF Climbs
<1> QED BY <1>1, <1>2 DEF FailoverIInv

(* A step of one call leaves the others where they are.                    *)
LEMMA OneCall ==
  ASSUME FailoverIInv, FailoverTypeOK', NEW c \in Calls,
         \A x \in Calls : x # c =>
           /\ call'[x] = call[x] /\ direct'[x] = direct[x] /\ made'[x] = made[x]
           /\ refusals'[x] = refusals[x] /\ outcome'[x] = outcome[x],
         Climbs(call'[c], direct'[c], made'[c], refusals'[c], outcome'[c])
  PROVE  FailoverIInv'
<1>1. ASSUME NEW x \in Calls
      PROVE  Climbs(call'[x], direct'[x], made'[x], refusals'[x], outcome'[x])
  BY DEF FailoverIInv
<1> QED BY <1>1 DEF FailoverIInv

(* A call goes on to the next relay, or is at its end.                     *)
LEMMA Advances ==
  ASSUME FailoverIInv, NEW c \in Calls, Failover!advance(c), made' = made,
         direct' \in [Calls -> {"none", "open", "made", "failed"}],
         refusals' \in [Calls -> [Rungs -> Nat]],
         \A x \in Calls : x # c => direct'[x] = direct[x] /\ refusals'[x] = refusals[x],
         call[c].at # "idle", direct'[c] # "none", call[c].relay \in 0 .. Relays,
         \A q \in Rungs : /\ q <= call[c].relay => refusals'[c][q] = AllTries
                          /\ call[c].relay < q => refusals'[c][q] = 0
  PROVE  FailoverIInv'
<1>t. FailoverTypeOK
  BY DEF FailoverIInv
<1>0. made[c] = {} /\ outcome[c] = <<"none">>
  <2>1. call[c].at \in {"direct", "relay", "sleep"}
    BY <1>t DEF FailoverTypeOK, Calling
  <2> QED BY <2>1 DEF FailoverIInv, Climbs
<1>1. CASE call[c].relay = Relays
  <2>1. call' = [call EXCEPT ![c] = Failover!Idle] /\ outcome' = [outcome EXCEPT ![c] = <<"failed">>]
    BY <1>1 DEF Failover!advance, Failover!reject
  <2>2. FailoverTypeOK'
    BY <1>t, <2>1, FailoverConstants DEF FailoverTypeOK
  <2>3. \A x \in Calls : x # c => call'[x] = call[x] /\ outcome'[x] = outcome[x]
    BY <1>t, <2>1 DEF FailoverTypeOK
  <2>4. call'[c].at = "idle" /\ call'[c].relay = 0 /\ outcome'[c] = <<"failed">> /\ made'[c] = {}
    BY <1>t, <1>0, <2>1, FailoverConstants DEF FailoverTypeOK
  <2>5. \A q \in Rungs : refusals'[c][q] = AllTries
    BY <1>1, FailoverConstants DEF Rungs
  <2>6. Climbs(call'[c], direct'[c], made'[c], refusals'[c], outcome'[c])
    BY <2>4, <2>5 DEF Climbs
  <2> QED BY <2>2, <2>3, <2>6, OneCall
<1>2. CASE call[c].relay # Relays
  <2> DEFINE k == [at |-> "relay", relay |-> call[c].relay + 1, attempt |-> 0]
  <2>1. call' = [call EXCEPT ![c] = k] /\ outcome' = outcome
    BY <1>2 DEF Failover!advance
  <2>2. k \in Calling /\ k.at = "relay" /\ k.relay \in Rungs /\ k.relay = call[c].relay + 1 /\ k.attempt = 0
    BY <1>2, FailoverConstants DEF Calling, Rungs
  <2> HIDE DEF k
  <2>3. FailoverTypeOK'
    BY <1>t, <2>1, <2>2 DEF FailoverTypeOK
  <2>4. \A x \in Calls : x # c => call'[x] = call[x] /\ outcome'[x] = outcome[x]
    BY <1>t, <2>1 DEF FailoverTypeOK
  <2>5. call'[c] = k /\ outcome'[c] = <<"none">> /\ made'[c] = {}
    BY <1>t, <1>0, <2>1 DEF FailoverTypeOK
  <2>6. /\ \A q \in Rungs : /\ q < k.relay => refusals'[c][q] = AllTries
                            /\ k.relay <= q => refusals'[c][q] = 0
    BY <1>2, <2>2, FailoverConstants DEF Rungs
  <2>7. Climbs(k, direct'[c], {}, refusals'[c], <<"none">>)
    <3>1. refusals'[c][k.relay] = 0
      BY <2>2, <2>6 DEF Rungs
    <3> QED BY <2>2, <2>6, <3>1, FailoverConstants DEF Climbs, Rungs
  <2> QED BY <2>3, <2>4, <2>5, <2>7, OneCall
<1> QED BY <1>1, <1>2

LEMMA FailoverSteps ==
  ASSUME FailoverIInv, NEW c \in Calls,
         \/ Failover!Establish(c) \/ Failover!DirectMade(c) \/ Failover!DirectRefused(c)
         \/ Failover!DirectTimesOut(c) \/ Failover!RelayMade(c) \/ Failover!RelayRefused(c)
         \/ Failover!Slept(c)
  PROVE  FailoverIInv'
<1>t. FailoverTypeOK /\ call[c] \in Calling
  BY DEF FailoverIInv, FailoverTypeOK
<1>c. Climbs(call[c], direct[c], made[c], refusals[c], outcome[c])
  BY DEF FailoverIInv
<1>1. CASE Failover!Establish(c)
  <2>1. /\ call[c].at = "idle" /\ direct[c] = "none"
        /\ call' = [call EXCEPT ![c].at = "direct"] /\ direct' = [direct EXCEPT ![c] = "open"]
        /\ UNCHANGED <<made, refusals, outcome>>
    BY <1>1 DEF Failover!Establish
  <2> DEFINE k == [call[c] EXCEPT !.at = "direct"]
  <2>2. k \in Calling /\ k.at = "direct" /\ k.relay = call[c].relay
    BY <1>t DEF Calling
  <2>3. call' = [call EXCEPT ![c] = k]
    BY <2>1
  <2> HIDE DEF k
  <2>4. FailoverTypeOK' /\ call'[c] = k /\ direct'[c] = "open"
    BY <1>t, <2>1, <2>2, <2>3 DEF FailoverTypeOK
  <2>5. \A x \in Calls : x # c => call'[x] = call[x] /\ direct'[x] = direct[x]
    BY <1>t, <2>1, <2>3 DEF FailoverTypeOK
  <2>6. call[c].relay = 0
    BY <1>c, <2>1 DEF Climbs
  <2>7. Climbs(k, "open", made[c], refusals[c], outcome[c])
    BY <1>c, <2>1, <2>2, <2>6 DEF Climbs
  <2> QED BY <2>1, <2>4, <2>5, <2>7, OneCall
<1>2. CASE Failover!DirectMade(c)
  <2>1. /\ direct[c] = "open" /\ direct' = [direct EXCEPT ![c] = "made"]
        /\ UNCHANGED <<made, refusals>>
    BY <1>2 DEF Failover!DirectMade
  <2>2. /\ direct' \in [Calls -> {"none", "open", "made", "failed"}] /\ direct'[c] = "made"
        /\ \A x \in Calls : x # c => direct'[x] = direct[x]
    BY <1>t, <2>1 DEF FailoverTypeOK
  <2>3. CASE call[c].at = "direct"
    <3>1. call' = [call EXCEPT ![c] = Failover!Idle] /\ outcome' = [outcome EXCEPT ![c] = <<"direct">>]
      BY <1>2, <2>3 DEF Failover!DirectMade, Failover!resolve
    <3>2. FailoverTypeOK'
      BY <1>t, <2>1, <2>2, <3>1, FailoverConstants DEF FailoverTypeOK
    <3>3. /\ \A x \in Calls : x # c => call'[x] = call[x] /\ outcome'[x] = outcome[x]
          /\ call'[c].at = "idle" /\ call'[c].relay = 0 /\ outcome'[c] = <<"direct">>
      BY <1>t, <3>1, FailoverConstants DEF FailoverTypeOK
    <3>4. made[c] = {}
      BY <1>c, <2>3 DEF Climbs
    <3>5. Climbs(call'[c], direct'[c], made'[c], refusals'[c], outcome'[c])
      BY <2>1, <2>2, <3>3, <3>4 DEF Climbs
    <3> QED BY <2>1, <2>2, <3>2, <3>3, <3>5, OneCall
  <2>4. CASE call[c].at # "direct"
    <3>1. UNCHANGED <<call, outcome>>
      BY <1>2, <2>4 DEF Failover!DirectMade
    <3>2. FailoverTypeOK'
      BY <1>t, <2>1, <2>2, <3>1 DEF FailoverTypeOK
    <3>3. Climbs(call'[c], direct'[c], made'[c], refusals'[c], outcome'[c])
      BY <1>c, <2>1, <2>2, <2>4, <3>1 DEF Climbs
    <3> QED BY <2>1, <2>2, <3>1, <3>2, <3>3, OneCall
  <2> QED BY <2>3, <2>4
<1>3. CASE Failover!DirectRefused(c)
  <2>1. /\ direct[c] = "open" /\ direct' = [direct EXCEPT ![c] = "failed"]
        /\ UNCHANGED <<made, refusals>>
    BY <1>3 DEF Failover!DirectRefused
  <2>2. /\ direct' \in [Calls -> {"none", "open", "made", "failed"}] /\ direct'[c] = "failed"
        /\ \A x \in Calls : x # c => direct'[x] = direct[x]
    BY <1>t, <2>1 DEF FailoverTypeOK
  <2>3. CASE call[c].at = "direct"
    <3>1. Failover!advance(c)
      BY <1>3, <2>3 DEF Failover!DirectRefused
    <3>2. call[c].relay = 0 /\ \A q \in Rungs : refusals[c][q] = 0
      BY <1>c, <2>3 DEF Climbs
    <3>3. /\ refusals' = refusals /\ refusals \in [Calls -> [Rungs -> Nat]]
          /\ \A q \in Rungs : 0 < q /\ ~(q <= 0) /\ refusals'[c][q] = 0
      BY <1>t, <2>1, <3>2, FailoverConstants DEF FailoverTypeOK, Rungs
    <3> QED BY <2>1, <2>2, <2>3, <3>1, <3>2, <3>3, FailoverConstants, Advances
  <2>4. CASE call[c].at # "direct"
    <3>1. UNCHANGED <<call, outcome>>
      BY <1>3, <2>4 DEF Failover!DirectRefused
    <3>2. FailoverTypeOK'
      BY <1>t, <2>1, <2>2, <3>1 DEF FailoverTypeOK
    <3>3. Climbs(call'[c], direct'[c], made'[c], refusals'[c], outcome'[c])
      BY <1>c, <2>1, <2>2, <2>4, <3>1 DEF Climbs
    <3> QED BY <2>1, <2>2, <3>1, <3>2, <3>3, OneCall
  <2> QED BY <2>3, <2>4
<1>4. CASE Failover!DirectTimesOut(c)
  <2>1. call[c].at = "direct" /\ Failover!advance(c) /\ UNCHANGED <<direct, made, refusals>>
    BY <1>4 DEF Failover!DirectTimesOut
  <2>2. call[c].relay = 0 /\ direct[c] # "none" /\ \A q \in Rungs : refusals[c][q] = 0
    BY <1>c, <2>1 DEF Climbs
  <2>3. /\ refusals' \in [Calls -> [Rungs -> Nat]]
        /\ direct' \in [Calls -> {"none", "open", "made", "failed"}]
        /\ \A q \in Rungs : 0 < q /\ ~(q <= 0) /\ refusals'[c][q] = 0
    BY <1>t, <2>1, <2>2, FailoverConstants DEF FailoverTypeOK, Rungs
  <2> QED BY <2>1, <2>2, <2>3, FailoverConstants, Advances
<1>5. CASE Failover!RelayMade(c)
  <2> DEFINE r == call[c].relay
             o == <<"relay", r>>
  <2>1. /\ call[c].at = "relay" /\ call' = [call EXCEPT ![c] = Failover!Idle]
        /\ outcome' = [outcome EXCEPT ![c] = o] /\ made' = [made EXCEPT ![c] = @ \cup {r}]
        /\ UNCHANGED <<direct, refusals>>
    BY <1>5 DEF Failover!RelayMade, Failover!resolve
  <2>2. made[c] = {} /\ r \in Rungs /\ \A q \in Rungs : q < r => refusals[c][q] = AllTries
    BY <1>c, <2>1 DEF Climbs
  <2>3. direct[c] # "none"
    BY <1>c, <2>1 DEF Climbs
  <2> HIDE DEF r
  <2>4. made' = [made EXCEPT ![c] = {r}]
    BY <2>1, <2>2
  <2>5. FailoverTypeOK'
    <3>1. made' \in [Calls -> SUBSET Rungs]
      BY <1>t, <2>2, <2>4 DEF FailoverTypeOK
    <3>2. call' \in [Calls -> Calling]
      BY <1>t, <2>1, FailoverConstants DEF FailoverTypeOK
    <3> QED BY <1>t, <2>1, <3>1, <3>2 DEF FailoverTypeOK
  <2>6. /\ \A x \in Calls : x # c => call'[x] = call[x] /\ outcome'[x] = outcome[x] /\ made'[x] = made[x]
        /\ call'[c].at = "idle" /\ call'[c].relay = 0 /\ outcome'[c] = o /\ made'[c] = {r}
    BY <1>t, <2>1, <2>4, FailoverConstants DEF FailoverTypeOK
  <2>7. Climbs(call'[c], direct'[c], made'[c], refusals'[c], outcome'[c])
    <3>1. o # <<"failed">> /\ o # <<"direct">>
      OBVIOUS
    <3> HIDE DEF o
    <3>2. \A x \in {r} : o = <<"relay", x>>
      BY DEF o
    <3> QED BY <2>1, <2>2, <2>3, <2>6, <3>1, <3>2 DEF Climbs
  <2> QED BY <2>1, <2>5, <2>6, <2>7, OneCall
<1>6. CASE Failover!RelayRefused(c)
  <2> DEFINE r == call[c].relay
             f == [refusals[c] EXCEPT ![r] = @ + 1]
  <2>1. /\ call[c].at = "relay" /\ refusals' = [refusals EXCEPT ![c] = f]
        /\ UNCHANGED <<direct, made>>
    BY <1>6 DEF Failover!RelayRefused
  <2>2. /\ r \in Rungs /\ refusals[c][r] = call[c].attempt /\ call[c].attempt <= maxRetriesPerRelay
        /\ made[c] = {} /\ outcome[c] = <<"none">> /\ direct[c] # "none"
        /\ \A q \in Rungs : /\ q < r => refusals[c][q] = AllTries
                            /\ r < q => refusals[c][q] = 0
    BY <1>c, <2>1 DEF Climbs
  <2>3. refusals[c] \in [Rungs -> Nat] /\ call[c].attempt \in Nat
    BY <1>t DEF FailoverTypeOK, Calling
  <2>4. /\ f \in [Rungs -> Nat] /\ f[r] = call[c].attempt + 1
        /\ \A q \in Rungs : q # r => f[q] = refusals[c][q]
    BY <2>2, <2>3
  <2> HIDE DEF f
  <2>5. /\ refusals' \in [Calls -> [Rungs -> Nat]] /\ refusals'[c] = f
        /\ \A x \in Calls : x # c => refusals'[x] = refusals[x]
    BY <1>t, <2>1, <2>4 DEF FailoverTypeOK
  <2>8. /\ \A q \in Rungs : q < r => f[q] = AllTries
        /\ \A q \in Rungs : r < q => f[q] = 0
    <3>1. \A q \in Rungs : q < r => refusals[c][q] = AllTries /\ q # r
      BY <2>2, FailoverConstants DEF Rungs
    <3>2. \A q \in Rungs : r < q => refusals[c][q] = 0 /\ q # r
      BY <2>2, FailoverConstants DEF Rungs
    <3> QED BY <2>4, <3>1, <3>2
  <2>6. CASE call[c].attempt < maxRetriesPerRelay
    <3> DEFINE k == [call[c] EXCEPT !.at = "sleep"]
    <3>1. call' = [call EXCEPT ![c] = k] /\ outcome' = outcome
      BY <1>6, <2>6 DEF Failover!RelayRefused, Failover!mayRetry
    <3>2. k \in Calling /\ k.at = "sleep" /\ k.relay = r /\ k.attempt = call[c].attempt
      BY <1>t DEF Calling
    <3> HIDE DEF k, r
    <3>3. FailoverTypeOK' /\ call'[c] = k /\ \A x \in Calls : x # c => call'[x] = call[x]
      BY <1>t, <2>1, <2>5, <3>1, <3>2 DEF FailoverTypeOK
    <3>5. Climbs(k, direct[c], {}, f, <<"none">>)
      BY <2>2, <2>4, <2>6, <2>8, <3>2 DEF Climbs
    <3> QED BY <2>1, <2>2, <2>5, <3>1, <3>3, <3>5, OneCall
  <2>7. CASE ~(call[c].attempt < maxRetriesPerRelay)
    <3>1. Failover!advance(c)
      BY <1>6, <2>7 DEF Failover!RelayRefused, Failover!mayRetry
    <3>2. call[c].attempt + 1 = AllTries
      BY <2>2, <2>3, <2>7, FailoverConstants DEF AllTries
    <3>3. \A q \in Rungs : q <= r => f[q] = AllTries
      BY <2>2, <2>4, <2>8, <3>2, FailoverConstants DEF Rungs
    <3>4. call[c].relay \in 0 .. Relays
      BY <2>2, FailoverConstants DEF Rungs, r
    <3>6. \A q \in Rungs : /\ q <= call[c].relay => f[q] = AllTries
                           /\ call[c].relay < q => f[q] = 0
      BY <2>8, <3>3 DEF r
    <3>5. direct' \in [Calls -> {"none", "open", "made", "failed"}]
      BY <1>t, <2>1 DEF FailoverTypeOK
    <3> QED BY <2>1, <2>2, <2>5, <3>1, <3>4, <3>5, <3>6, Advances
  <2> QED BY <2>6, <2>7
<1>7. CASE Failover!Slept(c)
  <2> DEFINE k == [at |-> "relay", relay |-> call[c].relay, attempt |-> call[c].attempt + 1]
  <2>1. /\ call[c].at = "sleep" /\ call' = [call EXCEPT ![c] = k]
        /\ UNCHANGED <<direct, made, refusals, outcome>>
    <3>1. /\ call[c].at = "sleep" /\ UNCHANGED <<direct, made, refusals, outcome>>
          /\ call' = [call EXCEPT ![c].at = "relay", ![c].attempt = @ + 1]
      BY <1>7 DEF Failover!Slept
    <3>2. call \in [Calls -> Calling]
      BY <1>t DEF FailoverTypeOK
    <3> QED BY <3>1, <3>2 DEF Calling
  <2>2. k \in Calling /\ k.at = "relay" /\ k.relay = call[c].relay /\ k.attempt = call[c].attempt + 1
    <3>2. call[c].relay \in 0 .. Relays /\ call[c].attempt + 1 \in Nat
      BY <1>t DEF Calling
    <3> QED BY <3>2 DEF Calling
  <2>3. FailoverTypeOK' /\ call'[c] = k /\ \A x \in Calls : x # c => call'[x] = call[x]
    BY <1>t, <2>1, <2>2 DEF FailoverTypeOK
  <2>4. call[c].attempt \in Nat
    BY <1>t DEF Calling
  <2>5. Climbs(k, direct[c], made[c], refusals[c], outcome[c])
    BY <1>c, <2>1, <2>2, <2>4, FailoverConstants DEF Climbs
  <2> QED BY <2>1, <2>3, <2>5, OneCall
<1> QED BY <1>1, <1>2, <1>3, <1>4, <1>5, <1>6, <1>7

LEMMA FailoverStep == FailoverIInv /\ [Failover!Next]_ladder => FailoverIInv'
<1> SUFFICES ASSUME FailoverIInv, [Failover!Next]_ladder PROVE FailoverIInv'
  OBVIOUS
<1>1. CASE \E c \in Calls :
        \/ Failover!Establish(c) \/ Failover!DirectMade(c) \/ Failover!DirectRefused(c)
        \/ Failover!DirectTimesOut(c) \/ Failover!RelayMade(c) \/ Failover!RelayRefused(c)
        \/ Failover!Slept(c)
  BY <1>1, FailoverSteps
<1>2. CASE Failover!Reset \/ UNCHANGED ladder
  <2>1. UNCHANGED <<call, direct, made, refusals, outcome>>
    BY <1>2 DEF Failover!Reset, ladder
  <2> QED BY <2>1 DEF FailoverIInv, FailoverTypeOK
<1> QED BY <1>1, <1>2 DEF Failover!Next

LEMMA FailoverClimbs == FailoverIInv => Ladder
<1> SUFFICES ASSUME FailoverIInv, NEW c \in Calls
             PROVE  /\ outcome[c] = <<"failed">> =>
                         made[c] = {} /\ \A r \in 1 .. Relays : Failover!Exhausted(c, r)
                    /\ \A r \in made[c] :
                         outcome[c] = <<"relay", r>> /\ \A q \in 1 .. r - 1 : Failover!Exhausted(c, q)
                    /\ outcome[c] = <<"direct">> => direct[c] = "made" /\ made[c] = {}
                    /\ call[c].at # "idle" => made[c] = {}
  BY DEF Ladder, Failover!Ladder
<1>1. call[c].at \in {"idle", "direct", "relay", "sleep"} /\ made[c] \subseteq Rungs
  BY DEF FailoverIInv, FailoverTypeOK, Calling
<1>2. Climbs(call[c], direct[c], made[c], refusals[c], outcome[c])
  BY DEF FailoverIInv
<1>3. \A q \in Rungs : refusals[c][q] = AllTries => Failover!Exhausted(c, q)
  BY FailoverConstants DEF Failover!Exhausted, AllTries
<1>4. ASSUME NEW r \in made[c], NEW q \in 1 .. r - 1 PROVE q \in Rungs /\ q < r
  BY <1>1, FailoverConstants DEF Rungs
<1>5. \A r \in made[c] :
        outcome[c] = <<"relay", r>> /\ \A q \in 1 .. r - 1 : Failover!Exhausted(c, q)
  BY <1>2, <1>3, <1>4 DEF Climbs
<1>6. outcome[c] = <<"failed">> => made[c] = {} /\ \A r \in 1 .. Relays : Failover!Exhausted(c, r)
  BY <1>2, <1>3 DEF Climbs, Rungs
<1>7. call[c].at # "idle" => made[c] = {}
  BY <1>1, <1>2 DEF Climbs
<1>8. outcome[c] = <<"direct">> => direct[c] = "made" /\ made[c] = {}
  BY <1>2 DEF Climbs
<1> QED BY <1>5, <1>6, <1>7, <1>8

-----------------------------------------------------------------------------
(* A session over QUIC                                                     *)

Ends == {"dialer", "accepter"}
Numbers == 1 .. 4
Places == {"hello", "challenge", "init", "ack", "streams", "done", "over"}
Tags == {Iroh!NoType} \cup UNION {{d.opens[k] : k \in DOMAIN d.opens} : d \in Builds}
QuicFrames == [type : Tags, index : Nat, oversized : BOOLEAN]

QuicTypeOK ==
  /\ build \in Builds /\ up \in BOOLEAN
  /\ at \in [Ends -> Places] /\ opened \in Nat /\ adopted \in SUBSET Nat
  /\ pending \in [Ends -> Nat]
  /\ state \in [Ends -> {"none", "active", "disconnected"}]
  /\ streams \in [Ends -> [Numbers -> Tags]] /\ readers \in [Ends -> SUBSET Numbers]
  /\ listens \in [Ends -> BOOLEAN] /\ told \in [Ends -> BOOLEAN]
  /\ wire \in [Ends -> [Numbers -> Seq(QuicFrames)]] /\ quicSent \in [Ends -> [Numbers -> Nat]]
  /\ quicHeard \in [Ends -> [Numbers -> Seq(QuicFrames)]]

(* The sub-streams that an end has taken up so far, and those of them that *)
(* are registered; the accepter registers only the types it knows.         *)
Taken(e) == IF e = "dialer" THEN 1 .. opened ELSE adopted
Serves(e, k) == e = "dialer" \/ build.opens[k] \in Iroh!Known
Registered(e) == {k \in Taken(e) : k # pending[e] /\ Serves(e, k)}

(* How far the handshake of an end is, and what its connection is then.    *)
Shaken(e) ==
  /\ opened <= Iroh!Count /\ adopted \subseteq 1 .. opened
  /\ pending[e] # 0 => pending[e] \in Taken(e) /\ Serves(e, pending[e]) /\ at[e] = "streams"
  /\ at[e] = "done" => Taken(e) = 1 .. Iroh!Count
  /\ at[e] \notin {"streams", "done", "over"} => Taken(e) = {} /\ state[e] = "none"
  /\ at[e] \in {"streams", "done"} => state[e] # "none"
  /\ listens[e] => at[e] = "done"
  /\ state[e] = "none" => readers[e] = {}
  /\ readers[e] \subseteq Registered(e)

(* An active connection reads what it has registered, and one that is not  *)
(* has told whoever listened.                                              *)
Reads(e) ==
  /\ state[e] = "active" /\ at[e] \in {"streams", "done"} =>
       /\ \A k \in Registered(e) : streams[e][k] = build.opens[k]
       /\ Registered(e) # {} => readers[e] # {}
  /\ listens[e] /\ state[e] = "disconnected" => told[e]

(* What is on a sub-stream are the last frames sent, and a loop that has   *)
(* emitted frames has emitted those right before.                          *)
Counting(e, k) ==
  /\ Len(wire[e][k]) <= quicSent[Iroh!Far(e)][k]
  /\ \A i \in DOMAIN wire[e][k] :
       wire[e][k][i].index = (quicSent[Iroh!Far(e)][k] - Len(wire[e][k])) + i
  /\ quicHeard[e][k] # <<>> => listens[e]
  /\ k \in readers[e] /\ quicHeard[e][k] # <<>> =>
       quicHeard[e][k][Len(quicHeard[e][k])].index = quicSent[Iroh!Far(e)][k] - Len(wire[e][k])
  /\ \A i \in 1 .. Len(quicHeard[e][k]) - 1 :
       quicHeard[e][k][i + 1].index = quicHeard[e][k][i].index + 1

QuicIInv ==
  /\ QuicTypeOK /\ \A e \in Ends : Shaken(e) /\ Reads(e) /\ \A k \in Numbers : Counting(e, k)

LEMMA QuicConstants ==
  ASSUME QuicTypeOK
  PROVE  /\ Iroh!Count \in Numbers /\ DOMAIN build.opens = 1 .. Iroh!Count
         /\ 1 .. Iroh!Count \subseteq Numbers /\ Iroh!expected = Iroh!Count
         /\ \A k \in 1 .. Iroh!Count : build.opens[k] \in Tags
         /\ \E k \in 1 .. Iroh!Count : build.opens[k] \in Iroh!Known
<1>1. build \in Builds
  BY DEF QuicTypeOK
<1>2. /\ build.opens \in Seq(Iroh!Range(build.opens)) /\ Len(build.opens) <= 4
      /\ build.announces \/ Len(build.opens) = LegacyCount
      /\ \E k \in DOMAIN build.opens : build.opens[k] \in Iroh!Known
  BY <1>1, IrohAssumption DEF Iroh!IrohSessionsAssumption, Iroh!Known
<1>3. DOMAIN build.opens = 1 .. Len(build.opens) /\ Len(build.opens) \in Nat
  BY <1>2
<1>4. Iroh!Count = Len(build.opens)
  BY DEF Iroh!Count
<1>5. Iroh!expected = Iroh!Count
  BY <1>2, <1>4 DEF Iroh!expected
<1>6. Iroh!Count \in Numbers
  <2>1. PICK k \in 1 .. Len(build.opens) : TRUE
    BY <1>2, <1>3
  <2> DEFINE n == Len(build.opens)
  <2>2. n \in Nat /\ n <= 4 /\ k \in 1 .. n /\ Iroh!Count = n
    BY <1>2, <1>3, <1>4
  <2> HIDE DEF n
  <2> QED BY <2>2 DEF Numbers
<1>7. \A k \in 1 .. Iroh!Count : build.opens[k] \in Tags
  BY <1>1, <1>3, <1>4 DEF Tags
<1> QED BY <1>2, <1>3, <1>4, <1>5, <1>6, <1>7 DEF Numbers

LEMMA TwoEnds ==
  /\ Iroh!Ends = Ends /\ Iroh!Numbers = Numbers /\ Iroh!NoType = "none" /\ Iroh!NoType \in Tags
  /\ \A e \in Ends : Iroh!Far(e) \in Ends /\ Iroh!Far(e) # e /\ Iroh!Far(Iroh!Far(e)) = e
BY DEF Iroh!Ends, Ends, Iroh!Numbers, Numbers, Iroh!NoType, Tags, Iroh!Far

LEMMA SameCardinality == \A S : Iroh!Cardinality(S) = Cardinality(S)
BY DEF Iroh!Cardinality, Cardinality

(* The sub-streams that an end has taken are some of those of the build,   *)
(* and all of them when they are as many.                                  *)
LEMMA TakenOfBuild ==
  ASSUME QuicTypeOK, NEW e \in Ends, Shaken(e)
  PROVE  /\ Taken(e) \subseteq 1 .. Iroh!Count /\ Taken(e) \subseteq Numbers /\ 0 \notin Taken(e)
         /\ IsFiniteSet(adopted) /\ Cardinality(adopted) \in Nat
         /\ Cardinality(adopted) = Iroh!Count <=> adopted = 1 .. Iroh!Count
<1>1. Iroh!Count \in Numbers /\ opened \in Nat /\ opened <= Iroh!Count /\ adopted \subseteq 1 .. opened
  BY QuicConstants DEF Shaken, QuicTypeOK
<1>2. 1 .. opened \subseteq 1 .. Iroh!Count /\ 1 .. Iroh!Count \subseteq Numbers /\ Iroh!Count \in Nat
  BY <1>1 DEF Numbers
<1>3. adopted \in SUBSET (1 .. Iroh!Count) /\ Taken(e) \subseteq 1 .. Iroh!Count
  BY <1>1, <1>2 DEF Taken
<1>4. IsFiniteSet(1 .. Iroh!Count) /\ Cardinality(1 .. Iroh!Count) = Iroh!Count
  <2>1. 1 \in Int /\ Iroh!Count \in Int /\ ~(1 > Iroh!Count)
    BY <1>1 DEF Numbers
  <2>2. Iroh!Count - 1 + 1 = Iroh!Count
    BY <2>1
  <2> QED BY <2>1, <2>2, FS_Interval
<1>5. IsFiniteSet(adopted) /\ (Cardinality(1 .. Iroh!Count) = Cardinality(adopted) => 1 .. Iroh!Count = adopted)
  BY <1>3, <1>4, FS_Subset
<1>6. Cardinality(adopted) \in Nat
  BY <1>5, FS_CardinalityType
<1>7. 0 \notin Taken(e)
  BY <1>2, <1>3
<1> QED BY <1>2, <1>3, <1>4, <1>5, <1>6, <1>7

LEMMA QuicInit == Iroh!Init => QuicIInv
<1> SUFFICES ASSUME Iroh!Init PROVE QuicIInv
  OBVIOUS
<1>1. QuicTypeOK
  <2>1. <<>> \in Seq(QuicFrames)
    OBVIOUS
  <2>2. at \in [Ends -> Places]
    BY TwoEnds DEF Iroh!Init, Places
  <2>3. /\ streams \in [Ends -> [Numbers -> Tags]] /\ wire \in [Ends -> [Numbers -> Seq(QuicFrames)]]
        /\ quicHeard \in [Ends -> [Numbers -> Seq(QuicFrames)]]
        /\ quicSent \in [Ends -> [Numbers -> Nat]]
    BY <2>1, TwoEnds DEF Iroh!Init
  <2> QED BY <2>2, <2>3, TwoEnds DEF Iroh!Init, QuicTypeOK
<1>2. ASSUME NEW e \in Ends PROVE Shaken(e) /\ Reads(e)
  <2>1. /\ Taken(e) = {} /\ pending[e] = 0 /\ state[e] = "none" /\ readers[e] = {} /\ listens[e] = FALSE
        /\ at[e] \in {"hello", "init"} /\ adopted = {} /\ opened = 0
    BY TwoEnds DEF Iroh!Init, Taken
  <2>2. Iroh!Count \in Nat
    BY <1>1, QuicConstants DEF Numbers
  <2> QED BY <2>1, <2>2 DEF Shaken, Reads
<1>3. ASSUME NEW e \in Ends, NEW k \in Numbers PROVE Counting(e, k)
  <2>1. wire[e][k] = <<>> /\ quicHeard[e][k] = <<>> /\ quicSent[Iroh!Far(e)][k] = 0
    BY TwoEnds DEF Iroh!Init
  <2> QED BY <2>1 DEF Counting
<1> QED BY <1>1, <1>2, <1>3 DEF QuicIInv

(* A step that moves no frame.                                             *)
LEMMA FlowKept ==
  ASSUME QuicIInv, UNCHANGED <<wire, quicSent, quicHeard>>,
         NEW e \in Ends, listens[e] => listens'[e],
         \A k \in readers'[e] : k \in readers[e] \/ quicHeard[e][k] = <<>>,
         NEW k \in Numbers
  PROVE  Counting(e, k)'
BY DEF QuicIInv, Counting

(* An end where nothing happens.                                           *)
LEMMA EndKept ==
  ASSUME QuicIInv, NEW e \in Ends,
         opened' = opened \/ (e = "accepter" /\ opened <= opened' /\ opened' <= Iroh!Count),
         adopted' = adopted \/ (e = "dialer" /\ adopted' \subseteq 1 .. opened'),
         build' = build, at'[e] = at[e], pending'[e] = pending[e], state'[e] = state[e],
         streams'[e] = streams[e], readers'[e] = readers[e], listens'[e] = listens[e],
         told'[e] = told[e], opened' \in Nat
  PROVE  Shaken(e)' /\ Reads(e)'
<1>1. Shaken(e) /\ Reads(e) /\ opened \in Nat /\ adopted \in SUBSET Nat
  BY DEF QuicIInv, QuicTypeOK
<1>2. Taken(e)' = Taken(e) /\ Iroh!Count' = Iroh!Count
  BY DEF Taken, Iroh!Count, Ends
<1>3. Registered(e)' = Registered(e) /\ \A k : Serves(e, k)' = Serves(e, k)
  BY <1>2 DEF Registered, Serves
<1>4. Shaken(e)'
  <2>1. opened <= opened' /\ opened' <= Iroh!Count /\ adopted \subseteq 1 .. opened
    BY <1>1 DEF Shaken
  <2>2. 1 .. opened \subseteq 1 .. opened'
    BY <1>1, <2>1
  <2>3. adopted' \subseteq 1 .. opened'
    BY <2>1, <2>2
  <2> QED BY <1>1, <1>2, <1>3, <2>1, <2>3 DEF Shaken
<1>5. Reads(e)'
  BY <1>1, <1>3 DEF Reads
<1> QED BY <1>4, <1>5

(* The two ends, one by one.                                               *)
LEMMA BothEnds ==
  ASSUME QuicTypeOK', NEW e \in Ends, Shaken(e)', Reads(e)',
         \A f \in Ends : f # e => Shaken(f)' /\ Reads(f)',
         \A f \in Ends, k \in Numbers : Counting(f, k)'
  PROVE  QuicIInv'
BY DEF QuicIInv

(* The messages of the control stream, and a connection that is lost.      *)
LEMMA ControlSteps ==
  ASSUME QuicIInv, Iroh!Hello \/ Iroh!Greeted \/ Iroh!Lose
  PROVE  QuicIInv'
<1>t. QuicTypeOK
  BY DEF QuicIInv
<1>1. /\ at' = at \/ (\E e \in Ends, w \in {"challenge", "ack", "over"} :
                        at[e] \in {"hello", "init"} /\ at' = [at EXCEPT ![e] = w])
      /\ up' \in BOOLEAN
      /\ UNCHANGED <<build, opened, adopted, pending, state, streams, readers, listens, told>>
      /\ UNCHANGED <<wire, quicSent, quicHeard>>
  <2>1. CASE Iroh!Hello
    BY <1>t, <2>1 DEF Iroh!Hello, Iroh!goto, Iroh!conn, Iroh!flow, Ends, QuicTypeOK
  <2>2. CASE Iroh!Greeted
    BY <1>t, <2>2 DEF Iroh!Greeted, Iroh!goto, Iroh!conn, Iroh!flow, Ends, QuicTypeOK
  <2>3. CASE Iroh!Lose
    BY <2>3 DEF Iroh!Lose, Iroh!conn, Iroh!flow
  <2> QED BY <2>1, <2>2, <2>3
<1>2. /\ at' \in [Ends -> Places]
      /\ \A f \in Ends : at'[f] = at[f] \/ (at[f] \in {"hello", "init"} /\ at'[f] \in {"challenge", "ack", "over"})
  BY <1>t, <1>1 DEF QuicTypeOK, Places
<1>3. QuicTypeOK'
  BY <1>t, <1>1, <1>2 DEF QuicTypeOK
<1>4. ASSUME NEW f \in Ends, NEW k \in Numbers PROVE Counting(f, k)'
  BY <1>1, FlowKept
<1>5. ASSUME NEW f \in Ends PROVE Shaken(f)' /\ Reads(f)'
  <2>1. CASE at'[f] = at[f]
    BY <1>1, <2>1, EndKept, <1>t DEF QuicTypeOK
  <2>2. CASE at[f] \in {"hello", "init"} /\ at'[f] \in {"challenge", "ack", "over"}
    <3>1. Shaken(f) /\ Reads(f)
      BY DEF QuicIInv
    <3>2. Taken(f)' = Taken(f) /\ Iroh!Count' = Iroh!Count
      BY <1>1 DEF Taken, Iroh!Count
    <3>3. Registered(f)' = Registered(f) /\ \A k : Serves(f, k)' = Serves(f, k)
      BY <1>1, <3>2 DEF Registered, Serves
    <3>4. Shaken(f)'
      BY <1>1, <2>2, <3>1, <3>2, <3>3 DEF Shaken
    <3>5. Reads(f)'
      BY <1>1, <2>2, <3>1 DEF Reads
    <3> QED BY <3>4, <3>5
  <2> QED BY <1>2, <2>1, <2>2
<1> QED BY <1>3, <1>4, <1>5 DEF QuicIInv

(* The handshake of an end is over, well or not, and its connection is     *)
(* made if it went well.                                                   *)
LEMMA ConnectSteps ==
  ASSUME QuicIInv, Iroh!Challenged \/ Iroh!Acknowledged
  PROVE  QuicIInv'
<1>t. QuicTypeOK
  BY DEF QuicIInv
<1>1. \E e \in Ends : /\ at[e] \in {"challenge", "ack"}
                      /\ \/ at' = [at EXCEPT ![e] = "streams"] /\ state' = [state EXCEPT ![e] = "active"]
                         \/ at' = [at EXCEPT ![e] = "over"] /\ state' = state
  BY DEF Iroh!Challenged, Iroh!Acknowledged, Iroh!goto, Ends
<1>2. /\ up' \in BOOLEAN
      /\ UNCHANGED <<build, opened, adopted, pending, streams, readers, listens, told>>
      /\ UNCHANGED <<wire, quicSent, quicHeard>>
  BY <1>t DEF Iroh!Challenged, Iroh!Acknowledged, Iroh!flow, QuicTypeOK
<1>3. PICK e \in Ends : /\ at[e] \in {"challenge", "ack"}
                        /\ \/ at' = [at EXCEPT ![e] = "streams"] /\ state' = [state EXCEPT ![e] = "active"]
                           \/ at' = [at EXCEPT ![e] = "over"] /\ state' = state
  BY <1>1
<1>4. /\ at' \in [Ends -> Places] /\ state' \in [Ends -> {"none", "active", "disconnected"}]
      /\ \A f \in Ends : f # e => at'[f] = at[f] /\ state'[f] = state[f]
      /\ \/ at'[e] = "streams" /\ state'[e] = "active"
         \/ at'[e] = "over" /\ state'[e] = state[e]
  BY <1>t, <1>3 DEF QuicTypeOK, Places
<1>5. QuicTypeOK'
  BY <1>t, <1>2, <1>4 DEF QuicTypeOK
<1>6. ASSUME NEW f \in Ends, NEW k \in Numbers PROVE Counting(f, k)'
  BY <1>2, FlowKept
<1>7. ASSUME NEW f \in Ends, f # e PROVE Shaken(f)' /\ Reads(f)'
  BY <1>2, <1>4, <1>7, EndKept, <1>t DEF QuicTypeOK
<1>8. Shaken(e)' /\ Reads(e)'
  <2>1. Shaken(e) /\ Reads(e)
    BY DEF QuicIInv
  <2>2. Taken(e) = {} /\ state[e] = "none" /\ readers[e] = {} /\ listens[e] = FALSE /\ pending[e] = 0
    BY <1>3, <1>t, <2>1 DEF Shaken, QuicTypeOK
  <2>3. Taken(e)' = {} /\ Iroh!Count' = Iroh!Count
    BY <1>2, <2>2 DEF Taken, Iroh!Count
  <2>4. Registered(e)' = {}
    BY <2>3 DEF Registered
  <2>5. Shaken(e)'
    BY <1>2, <1>4, <2>1, <2>2, <2>3, <2>4 DEF Shaken
  <2>6. Reads(e)'
    BY <1>2, <2>2, <2>4 DEF Reads
  <2> QED BY <2>5, <2>6
<1> QED BY <1>5, <1>6, <1>7, <1>8, BothEnds

(* A sub-stream is opened, or adopted.                                     *)
LEMMA TakeSteps ==
  ASSUME QuicIInv, Iroh!Open \/ Iroh!Adopt
  PROVE  QuicIInv'
<1>t. QuicTypeOK
  BY DEF QuicIInv
<1>c. /\ Iroh!Count \in Numbers /\ opened <= Iroh!Count /\ adopted \subseteq 1 .. opened /\ opened \in Nat
      /\ \A e \in Ends : 0 \notin Taken(e)
  <2>1. Shaken("dialer") /\ \A e \in Ends : Shaken(e)
    BY DEF Ends, QuicIInv
  <2> QED BY <1>t, <2>1, QuicConstants, TakenOfBuild DEF Shaken, QuicTypeOK
<1>u. UNCHANGED <<build, up, control, at>> /\ UNCHANGED <<state, streams, readers, listens, told>>
      /\ UNCHANGED <<wire, quicSent, quicHeard>>
  BY DEF Iroh!Open, Iroh!Adopt, Iroh!conn, Iroh!flow
<1>1. PICK e \in Ends, k \in Nat, p \in Nat :
        /\ p \in {0, k} /\ at[e] = "streams" /\ pending[e] = 0
        /\ k # 0 /\ k \notin Taken(e) /\ Taken(e)' = Taken(e) \cup {k}
        /\ pending' = [pending EXCEPT ![e] = p] /\ (p # 0 <=> Serves(e, k))
        /\ opened <= opened' /\ opened' <= Iroh!Count /\ opened' \in Nat
        /\ adopted' \subseteq 1 .. opened' /\ adopted' \in SUBSET Nat
        /\ e = "dialer" => adopted' = adopted
        /\ e = "accepter" => opened' = opened
  <2>1. CASE Iroh!Open
    <3>1. /\ at["dialer"] = "streams" /\ pending["dialer"] = 0 /\ opened < Iroh!Count
          /\ opened' = opened + 1 /\ pending' = [pending EXCEPT !["dialer"] = opened'] /\ adopted' = adopted
      BY <2>1 DEF Iroh!Open
    <3>2. Taken("dialer") = 1 .. opened /\ Taken("dialer")' = 1 .. opened' /\ Serves("dialer", opened')
      BY DEF Taken, Serves
    <3>3. /\ opened' # 0 /\ opened' \notin 1 .. opened /\ 1 .. opened' = (1 .. opened) \cup {opened'}
          /\ opened <= opened' /\ opened' <= Iroh!Count /\ opened' \in Nat
          /\ adopted' \subseteq 1 .. opened' /\ adopted' \in SUBSET Nat
      <4>1. opened \in Nat /\ Iroh!Count \in Nat /\ opened < Iroh!Count /\ opened' = opened + 1
        BY <1>c, <3>1 DEF Numbers
      <4>2. 1 .. opened \subseteq 1 .. opened' /\ 1 .. opened' = (1 .. opened) \cup {opened'}
        BY <4>1
      <4> QED BY <1>c, <3>1, <4>1, <4>2
    <3>4. "dialer" \in Ends /\ "dialer" # "accepter"
      BY DEF Ends
    <3> QED BY <3>1, <3>2, <3>3, <3>4
  <2>2. CASE Iroh!Adopt
    <3>1. PICK k \in (1 .. opened) \ adopted :
            /\ adopted' = adopted \cup {k}
            /\ pending' = [pending EXCEPT !["accepter"] = IF build.opens[k] \in Iroh!Known THEN k ELSE 0]
      BY <2>2 DEF Iroh!Adopt
    <3>2. at["accepter"] = "streams" /\ pending["accepter"] = 0 /\ opened' = opened
      BY <2>2 DEF Iroh!Adopt
    <3>3. /\ Taken("accepter") = adopted /\ Taken("accepter")' = adopted'
          /\ Serves("accepter", k) <=> build.opens[k] \in Iroh!Known
      BY DEF Taken, Serves
    <3>4. k \in Nat /\ k # 0 /\ opened <= opened' /\ adopted' \subseteq 1 .. opened' /\ adopted' \in SUBSET Nat
      BY <1>c, <3>1, <3>2
    <3>5. "accepter" \in Ends /\ "dialer" # "accepter"
      BY DEF Ends
    <3>6. CASE build.opens[k] \in Iroh!Known
      BY <1>c, <3>1, <3>2, <3>3, <3>4, <3>5, <3>6
    <3>7. CASE build.opens[k] \notin Iroh!Known
      <4>1. pending' = [pending EXCEPT !["accepter"] = 0] /\ ~Serves("accepter", k)
        BY <3>1, <3>3, <3>7
      <4> USE <3>4, <3>5
      <4> WITNESS "accepter" \in Ends, k \in Nat, 0 \in Nat
      <4> QED BY <1>c, <3>1, <3>2, <3>3, <3>4, <3>5, <4>1
    <3> QED BY <3>6, <3>7
  <2> QED BY <2>1, <2>2
<1>4. /\ pending' \in [Ends -> Nat] /\ pending'[e] = p
      /\ \A f \in Ends : f # e => pending'[f] = pending[f]
  BY <1>t, <1>1 DEF QuicTypeOK
<1>5. QuicTypeOK'
  BY <1>t, <1>u, <1>1, <1>4 DEF QuicTypeOK
<1>6. ASSUME NEW f \in Ends, NEW j \in Numbers PROVE Counting(f, j)'
  BY <1>u, FlowKept
<1>7. ASSUME NEW f \in Ends, f # e PROVE Shaken(f)' /\ Reads(f)'
  <2>1. /\ opened' = opened \/ (f = "accepter" /\ opened <= opened' /\ opened' <= Iroh!Count)
        /\ adopted' = adopted \/ (f = "dialer" /\ adopted' \subseteq 1 .. opened')
    BY <1>1, <1>7 DEF Ends
  <2> QED BY <1>u, <1>1, <1>4, <1>7, <2>1, EndKept
<1>8. Shaken(e)' /\ Reads(e)'
  <2>1. Shaken(e) /\ Reads(e) /\ 0 \notin Taken(e)
    BY <1>c DEF QuicIInv
  <2>2. Iroh!Count' = Iroh!Count /\ \A j : Serves(e, j)' = Serves(e, j)
    BY <1>u DEF Iroh!Count, Serves
  <2>3. Registered(e)' = Registered(e)
    <3>1. Registered(e) = {j \in Taken(e) : j # 0 /\ Serves(e, j)}
      BY <1>1 DEF Registered
    <3>2. Registered(e)' = {j \in Taken(e)' : j # p /\ Serves(e, j)}
      BY <1>4, <2>2 DEF Registered
    <3>3. ASSUME NEW j
          PROVE  (j \in Taken(e)' /\ j # p /\ Serves(e, j)) <=> (j \in Taken(e) /\ j # 0 /\ Serves(e, j))
      BY <1>1, <2>1
    <3> QED BY <3>1, <3>2, <3>3
  <2>4. Shaken(e)'
    <3>1. pending'[e] # 0 => pending'[e] \in Taken(e)' /\ Serves(e, pending[e])'
      BY <1>u, <1>1, <1>4 DEF Serves
    <3> QED BY <1>u, <1>1, <2>1, <2>2, <2>3, <3>1 DEF Shaken
  <2>5. Reads(e)'
    BY <1>u, <2>1, <2>3 DEF Reads
  <2> QED BY <2>4, <2>5
<1> QED BY <1>5, <1>6, <1>7, <1>8, BothEnds

(* A sub-stream is registered, and its loop starts.                        *)
LEMMA RegisterStep ==
  ASSUME QuicIInv, NEW e \in Ends, Iroh!Register(e)
  PROVE  QuicIInv'
<1> DEFINE k == pending[e]
           rs == IF state[e] = "active" THEN readers[e] \cup {k} ELSE readers[e]
           ss == [streams[e] EXCEPT ![k] = build.opens[k]]
<1>t. QuicTypeOK /\ Shaken(e) /\ Reads(e)
  BY DEF QuicIInv
<1>1. /\ k # 0 /\ pending' = [pending EXCEPT ![e] = 0]
      /\ streams' = [streams EXCEPT ![e] = ss] /\ readers' = [readers EXCEPT ![e] = rs]
      /\ UNCHANGED <<build, up, opened, adopted, at, state, listens, told>>
      /\ UNCHANGED <<wire, quicSent, quicHeard>>
  BY DEF Iroh!Register, Iroh!tag, Iroh!flow
<1>2. k \in Taken(e) /\ Serves(e, k) /\ at[e] = "streams" /\ listens[e] = FALSE
  BY <1>t, <1>1 DEF Shaken, QuicTypeOK
<1>3. k \in 1 .. Iroh!Count /\ k \in Numbers /\ build.opens[k] \in Tags
  BY <1>t, <1>2, QuicConstants, TakenOfBuild
<1>s. /\ ss \in [Numbers -> Tags] /\ ss[k] = build.opens[k]
      /\ \A j \in Numbers : j # k => ss[j] = streams[e][j]
  BY <1>t, <1>3 DEF QuicTypeOK
<1>r. rs \in SUBSET Numbers /\ rs \subseteq readers[e] \cup {k} /\ readers[e] \subseteq rs
      /\ (state[e] = "active" => k \in rs) /\ (state[e] = "none" => rs = readers[e])
  BY <1>t, <1>3 DEF QuicTypeOK
<1> HIDE DEF rs, ss
<1>4. /\ pending' \in [Ends -> Nat] /\ pending'[e] = 0 /\ streams'[e] = ss /\ readers'[e] = rs
      /\ streams' \in [Ends -> [Numbers -> Tags]] /\ readers' \in [Ends -> SUBSET Numbers]
      /\ \A f \in Ends : f # e =>
           pending'[f] = pending[f] /\ streams'[f] = streams[f] /\ readers'[f] = readers[f]
  BY <1>t, <1>1, <1>s, <1>r DEF QuicTypeOK
<1>5. QuicTypeOK'
  BY <1>t, <1>1, <1>4 DEF QuicTypeOK
<1>6. ASSUME NEW f \in Ends, NEW j \in Numbers PROVE Counting(f, j)'
  <2>1. Counting(e, k)
    BY <1>3 DEF QuicIInv
  <2>2. quicHeard[e][k] = <<>>
    BY <1>2, <2>1 DEF Counting
  <2>3. \A i \in readers'[f] : i \in readers[f] \/ quicHeard[f][i] = <<>>
    BY <1>4, <1>r, <2>2
  <2> QED BY <1>1, <2>3, FlowKept
<1>7. ASSUME NEW f \in Ends, f # e PROVE Shaken(f)' /\ Reads(f)'
  BY <1>1, <1>4, <1>7, <1>t, EndKept DEF QuicTypeOK
<1>8. Shaken(e)' /\ Reads(e)'
  <2>2. /\ Iroh!Count' = Iroh!Count /\ \A j : Serves(e, j)' = Serves(e, j)
        /\ Taken(e)' = Taken(e)
    BY <1>1 DEF Iroh!Count, Serves, Taken
  <2>3. Registered(e)' = Registered(e) \cup {k}
    <3>1. Registered(e) = {j \in Taken(e) : j # k /\ Serves(e, j)}
      BY DEF Registered
    <3>2. Registered(e)' = {j \in Taken(e) : j # 0 /\ Serves(e, j)}
      BY <1>4, <2>2 DEF Registered
    <3>3. k \in Taken(e) /\ \A j \in Taken(e) : j # 0
      BY <1>t, <1>2, TakenOfBuild
    <3> HIDE DEF k
    <3> QED BY <1>2, <3>1, <3>2, <3>3
  <2>4. Shaken(e)'
    BY <1>1, <1>4, <1>t, <1>r, <1>2, <2>2, <2>3 DEF Shaken
  <2>5. Reads(e)'
    <3>1. ASSUME state[e] = "active", NEW j \in Registered(e) \cup {k}
          PROVE  streams'[e][j] = build.opens[j]
      <4>1. CASE j = k
        BY <1>4, <1>s, <4>1
      <4>2. CASE j \in Registered(e)
        <5>1. j \in Numbers /\ j # k
          <6>1. j \in Taken(e) /\ j # k
            BY <4>2 DEF Registered
          <6> QED BY <1>t, <6>1, TakenOfBuild
        <5>2. streams[e][j] = build.opens[j]
          BY <1>t, <1>2, <3>1, <4>2 DEF Reads
        <5> QED BY <1>4, <1>s, <5>1, <5>2
      <4> QED BY <4>1, <4>2
    <3>2. state[e] = "active" => readers'[e] # {}
      BY <1>4, <1>r
    <3> HIDE DEF k
    <3> QED BY <1>1, <1>2, <1>t, <2>3, <3>1, <3>2 DEF Reads
  <2> QED BY <2>4, <2>5
<1> QED BY <1>5, <1>6, <1>7, <1>8, BothEnds

(* The connection goes to the client.                                      *)
LEMMA HandStep ==
  ASSUME QuicIInv, NEW e \in Ends, Iroh!Hand(e)
  PROVE  QuicIInv'
<1>t. QuicTypeOK /\ Shaken(e) /\ Reads(e)
  BY DEF QuicIInv
<1>1. /\ at[e] = "streams" /\ pending[e] = 0 /\ Taken(e) = 1 .. Iroh!Count
      /\ at' = [at EXCEPT ![e] = "done"] /\ listens' = [listens EXCEPT ![e] = TRUE]
      /\ told' = [told EXCEPT ![e] = (state[e] = "disconnected")]
      /\ UNCHANGED <<build, up, opened, adopted, pending, state, streams, readers>>
      /\ UNCHANGED <<wire, quicSent, quicHeard>>
  <2>1. Iroh!expected = Iroh!Count
    BY <1>t, QuicConstants
  <2>2. IF e = "dialer" THEN opened = Iroh!Count ELSE Cardinality(adopted) = Iroh!Count
    BY <2>1, SameCardinality DEF Iroh!Hand
  <2>3. Taken(e) = 1 .. Iroh!Count
    BY <1>t, <2>2, TakenOfBuild DEF Taken
  <2> QED BY <2>3 DEF Iroh!Hand, Iroh!goto, Iroh!late, Iroh!flow
<1>2. /\ at' \in [Ends -> Places] /\ listens' \in [Ends -> BOOLEAN] /\ told' \in [Ends -> BOOLEAN]
      /\ at'[e] = "done" /\ listens'[e] = TRUE /\ told'[e] = (state[e] = "disconnected")
      /\ \A f \in Ends : f # e => at'[f] = at[f] /\ listens'[f] = listens[f] /\ told'[f] = told[f]
  BY <1>t, <1>1 DEF QuicTypeOK, Places
<1>3. QuicTypeOK'
  BY <1>t, <1>1, <1>2 DEF QuicTypeOK
<1>4. ASSUME NEW f \in Ends, NEW k \in Numbers PROVE Counting(f, k)'
  <2>1. listens[f] => listens'[f]
    BY <1>2
  <2> QED BY <1>1, <2>1, FlowKept
<1>5. ASSUME NEW f \in Ends, f # e PROVE Shaken(f)' /\ Reads(f)'
  <2>1. opened' = opened /\ opened <= opened' /\ opened' \in Nat /\ adopted' = adopted
    BY <1>1, <1>t DEF QuicTypeOK
  <2>2. at'[f] = at[f] /\ listens'[f] = listens[f] /\ told'[f] = told[f]
    BY <1>2, <1>5
  <2> QED BY <1>1, <2>1, <2>2, EndKept
<1>6. Shaken(e)' /\ Reads(e)'
  <2>1. /\ Iroh!Count' = Iroh!Count /\ Taken(e)' = Taken(e) /\ Registered(e)' = Registered(e)
        /\ \A k : Serves(e, k)' = Serves(e, k)
    BY <1>1 DEF Iroh!Count, Taken, Registered, Serves
  <2>2. Shaken(e)'
    BY <1>1, <1>2, <1>t, <2>1 DEF Shaken
  <2>3. Reads(e)'
    BY <1>1, <1>2, <1>t, <2>1 DEF Reads
  <2> QED BY <2>2, <2>3
<1> QED BY <1>3, <1>4, <1>5, <1>6, BothEnds

LEMMA AbandonStep ==
  ASSUME QuicIInv, NEW e \in Ends, Iroh!Abandon(e)
  PROVE  QuicIInv'
<1>t. QuicTypeOK /\ Shaken(e) /\ Reads(e)
  BY DEF QuicIInv
<1>1. /\ at[e] \notin {"done", "over"} /\ at' = [at EXCEPT ![e] = "over"]
      /\ pending' = [pending EXCEPT ![e] = 0]
      /\ UNCHANGED <<build, up, opened, adopted, state, streams, readers, listens, told>>
      /\ UNCHANGED <<wire, quicSent, quicHeard>>
  BY DEF Iroh!Abandon, Iroh!goto, Iroh!conn, Iroh!flow, Iroh!Settled
<1>2. /\ at' \in [Ends -> Places] /\ pending' \in [Ends -> Nat] /\ at'[e] = "over" /\ pending'[e] = 0
      /\ \A f \in Ends : f # e => at'[f] = at[f] /\ pending'[f] = pending[f]
  BY <1>t, <1>1 DEF QuicTypeOK, Places
<1>3. QuicTypeOK'
  BY <1>t, <1>1, <1>2 DEF QuicTypeOK
<1>4. ASSUME NEW f \in Ends, NEW k \in Numbers PROVE Counting(f, k)'
  BY <1>1, FlowKept
<1>5. ASSUME NEW f \in Ends, f # e PROVE Shaken(f)' /\ Reads(f)'
  BY <1>1, <1>2, <1>5, <1>t, EndKept DEF QuicTypeOK
<1>6. Shaken(e)' /\ Reads(e)'
  <2>1. /\ Iroh!Count' = Iroh!Count /\ Taken(e)' = Taken(e)
        /\ \A k : Serves(e, k)' = Serves(e, k)
    BY <1>1 DEF Iroh!Count, Taken, Serves
  <2>2. Registered(e) \subseteq Registered(e)'
    <3>1. \A k \in Taken(e) : k # 0
      BY <1>t, TakenOfBuild
    <3> QED BY <1>2, <2>1, <3>1 DEF Registered
  <2>3. Shaken(e)'
    BY <1>1, <1>2, <1>t, <2>1, <2>2 DEF Shaken
  <2>4. Reads(e)'
    BY <1>1, <1>2, <1>t DEF Reads, Shaken
  <2> QED BY <2>3, <2>4
<1> QED BY <1>3, <1>4, <1>5, <1>6, BothEnds

(* A frame is sent.                                                        *)
LEMMA SendStep ==
  ASSUME QuicIInv, NEW e \in Ends, NEW k \in Numbers, NEW o \in BOOLEAN, Iroh!Send(e, k, o)
  PROVE  QuicIInv'
<1> DEFINE d == Iroh!Far(e)
           s == quicSent[e][k] + 1
           frame == [type |-> streams[e][k], index |-> s, oversized |-> o]
           w == Append(wire[d][k], frame)
<1>t. QuicTypeOK
  BY DEF QuicIInv
<1>d. d \in Ends /\ d # e /\ Iroh!Far(d) = e /\ \A f \in Ends : f # d => Iroh!Far(f) = d
  BY TwoEnds DEF Ends, Iroh!Far
<1>1. /\ quicSent' = [quicSent EXCEPT ![e][k] = s]
      /\ wire' = [wire EXCEPT ![d][k] = Append(@, [type |-> streams[e][k], index |-> quicSent'[e][k], oversized |-> o])]
      /\ UNCHANGED <<build, up, control, at, opened, adopted, pending>>
      /\ UNCHANGED <<state, streams, readers, listens, told, quicHeard>>
  BY DEF Iroh!Send, Iroh!link, Iroh!conn
<1>2. /\ quicSent' \in [Ends -> [Numbers -> Nat]] /\ quicSent'[e][k] = s /\ s \in Nat
      /\ \A f \in Ends, j \in Numbers : <<f, j>> # <<e, k>> => quicSent'[f][j] = quicSent[f][j]
  BY <1>t, <1>1 DEF QuicTypeOK
<1>3. wire' = [wire EXCEPT ![d][k] = w]
  BY <1>1, <1>2
<1>4. wire[d][k] \in Seq(QuicFrames) /\ frame \in QuicFrames /\ frame.index = s
  BY <1>t, <1>d, <1>2 DEF QuicTypeOK, QuicFrames
<1> HIDE DEF frame
<1>5. /\ w \in Seq(QuicFrames) /\ Len(w) = Len(wire[d][k]) + 1 /\ w[Len(w)] = frame
      /\ \A i \in DOMAIN wire[d][k] : w[i] = wire[d][k][i]
      /\ DOMAIN w = 1 .. Len(w) /\ DOMAIN wire[d][k] = 1 .. Len(wire[d][k]) /\ Len(wire[d][k]) \in Nat
  BY <1>4
<1> HIDE DEF w
<1>6. /\ wire' \in [Ends -> [Numbers -> Seq(QuicFrames)]] /\ wire'[d][k] = w
      /\ \A f \in Ends, j \in Numbers : <<f, j>> # <<d, k>> => wire'[f][j] = wire[f][j]
  BY <1>t, <1>d, <1>3, <1>5 DEF QuicTypeOK
<1> HIDE DEF d, s
<1>7. QuicTypeOK'
  BY <1>t, <1>1, <1>2, <1>6 DEF QuicTypeOK
<1>8. ASSUME NEW f \in Ends PROVE Shaken(f)' /\ Reads(f)'
  BY <1>1, <1>t, EndKept DEF QuicTypeOK
<1>9. ASSUME NEW f \in Ends, NEW j \in Numbers PROVE Counting(f, j)'
  <2>1. Counting(f, j)
    BY DEF QuicIInv
  <2>2. CASE <<f, j>> # <<d, k>>
    <3>1. <<Iroh!Far(f), j>> # <<e, k>>
      BY <1>d, <2>2
    <3>2. wire'[f][j] = wire[f][j] /\ quicSent'[Iroh!Far(f)][j] = quicSent[Iroh!Far(f)][j]
      BY <1>2, <1>6, <2>2, <3>1, TwoEnds
    <3> QED BY <1>1, <2>1, <3>2 DEF Counting
  <2>3. CASE <<f, j>> = <<d, k>>
    <3>1. f = d /\ j = k /\ Iroh!Far(f) = e /\ wire'[f][j] = w /\ quicSent'[Iroh!Far(f)][j] = s
      BY <1>d, <1>2, <1>6, <2>3
    <3>2. s = quicSent[e][k] + 1 /\ quicSent[e][k] \in Nat
      BY <1>t DEF s, QuicTypeOK
    <3>3. s - Len(w) = quicSent[e][k] - Len(wire[d][k]) /\ Len(w) <= s
      BY <1>5, <2>1, <3>1, <3>2 DEF Counting
    <3>4. ASSUME NEW i \in DOMAIN w PROVE w[i].index = (s - Len(w)) + i
      <4>1. CASE i = Len(w)
        BY <1>4, <1>5, <3>2, <4>1
      <4>2. CASE i # Len(w)
        <5>1. i \in DOMAIN wire[d][k] /\ w[i] = wire[d][k][i]
          BY <1>5, <4>2
        <5> QED BY <2>1, <3>1, <3>3, <5>1 DEF Counting
      <4> QED BY <4>1, <4>2
    <3> QED BY <1>1, <2>1, <3>1, <3>3, <3>4 DEF Counting
  <2> QED BY <2>2, <2>3
<1> QED BY <1>7, <1>8, <1>9 DEF QuicIInv

(* A loop ends, and with the last one the connection.                      *)
LEMMA StopKeeps ==
  ASSUME QuicIInv, NEW e \in Ends, NEW k \in Numbers, Iroh!stop(e, k),
         UNCHANGED <<build, opened, adopted, at, pending, listens>>
  PROVE  /\ up' \in BOOLEAN /\ state' \in [Ends -> {"none", "active", "disconnected"}]
         /\ streams' \in [Ends -> [Numbers -> Tags]] /\ readers' \in [Ends -> SUBSET Numbers]
         /\ told' \in [Ends -> BOOLEAN]
         /\ readers'[e] = readers[e] \ {k} /\ \A f \in Ends : readers'[f] \subseteq readers[f]
         /\ \A f \in Ends : Shaken(f)' /\ Reads(f)'
<1> DEFINE running == readers[e] \ {k}
           none == [j \in Numbers |-> Iroh!NoType]
<1>t. QuicTypeOK /\ Shaken(e) /\ Reads(e)
  BY DEF QuicIInv
<1>1. /\ readers' = [readers EXCEPT ![e] = running]
      /\ \/ /\ running = {} /\ state[e] = "active" /\ state' = [state EXCEPT ![e] = "disconnected"]
            /\ up' = FALSE /\ told' = [told EXCEPT ![e] = listens[e]]
            /\ streams' = [streams EXCEPT ![e] = none]
         \/ ~(running = {} /\ state[e] = "active") /\ UNCHANGED <<state, up, told, streams>>
  BY TwoEnds DEF Iroh!stop, Iroh!gone
<1>2. none \in [Numbers -> Tags]
  BY TwoEnds
<1> HIDE DEF none
<1>3. running \in SUBSET Numbers /\ running \subseteq readers[e]
  BY <1>t DEF QuicTypeOK
<1>4. /\ readers' \in [Ends -> SUBSET Numbers] /\ readers'[e] = running
      /\ \A f \in Ends : f # e => readers'[f] = readers[f]
  BY <1>t, <1>1, <1>3 DEF QuicTypeOK
<1>5. /\ up' \in BOOLEAN /\ state' \in [Ends -> {"none", "active", "disconnected"}]
      /\ streams' \in [Ends -> [Numbers -> Tags]] /\ told' \in [Ends -> BOOLEAN]
      /\ \A f \in Ends : f # e => state'[f] = state[f] /\ streams'[f] = streams[f] /\ told'[f] = told[f]
  <2>1. CASE UNCHANGED <<state, up, told, streams>>
    BY <1>t, <2>1 DEF QuicTypeOK
  <2>2. CASE ~UNCHANGED <<state, up, told, streams>>
    <3>1. /\ state' = [state EXCEPT ![e] = "disconnected"] /\ up' = FALSE
          /\ told' = [told EXCEPT ![e] = listens[e]] /\ streams' = [streams EXCEPT ![e] = none]
      BY <1>1, <2>2
    <3>2. listens[e] \in BOOLEAN
      BY <1>t DEF QuicTypeOK
    <3>3. /\ told' \in [Ends -> BOOLEAN] /\ \A f \in Ends : f # e => told'[f] = told[f]
      BY <1>t, <3>1, <3>2 DEF QuicTypeOK
    <3>4. /\ streams' \in [Ends -> [Numbers -> Tags]]
          /\ \A f \in Ends : f # e => streams'[f] = streams[f]
      BY <1>t, <1>2, <3>1 DEF QuicTypeOK
    <3>5. /\ state' \in [Ends -> {"none", "active", "disconnected"}]
          /\ \A f \in Ends : f # e => state'[f] = state[f]
      BY <1>t, <3>1 DEF QuicTypeOK
    <3> QED BY <3>1, <3>3, <3>4, <3>5
  <2> QED BY <2>1, <2>2
<1>6. \/ state[e] = "active" /\ state'[e] = "disconnected" /\ told'[e] = listens[e]
      \/ /\ ~(running = {} /\ state[e] = "active")
         /\ state'[e] = state[e] /\ told'[e] = told[e] /\ streams'[e] = streams[e]
  BY <1>t, <1>1 DEF QuicTypeOK
<1>7. ASSUME NEW f \in Ends, f # e PROVE Shaken(f)' /\ Reads(f)'
  <2>1. opened' = opened /\ opened <= opened' /\ opened' \in Nat /\ adopted' = adopted
    BY <1>t DEF QuicTypeOK
  <2> QED BY <1>4, <1>5, <1>7, <2>1, EndKept
<1>8. Shaken(e)' /\ Reads(e)'
  <2>1. /\ Iroh!Count' = Iroh!Count /\ Taken(e)' = Taken(e) /\ Registered(e)' = Registered(e)
        /\ \A j : Serves(e, j)' = Serves(e, j)
    BY DEF Iroh!Count, Taken, Registered, Serves
  <2>2. Shaken(e)'
    <3>1. state'[e] = "none" => readers'[e] = {}
      BY <1>3, <1>4, <1>6, <1>t DEF Shaken
    <3>2. readers'[e] \subseteq Registered(e)
      BY <1>3, <1>4, <1>t DEF Shaken
    <3>3. /\ at[e] \in {"streams", "done"} => state'[e] # "none"
          /\ at[e] \notin {"streams", "done", "over"} => Taken(e) = {} /\ state'[e] = "none"
      BY <1>6, <1>t DEF Shaken
    <3> QED BY <1>t, <2>1, <3>1, <3>2, <3>3 DEF Shaken
  <2>3. Reads(e)'
    <3> HIDE DEF running
    <3>1. CASE state[e] = "active" /\ state'[e] = "disconnected" /\ told'[e] = listens[e]
      BY <3>1 DEF Reads
    <3>2. CASE /\ ~(running = {} /\ state[e] = "active")
               /\ state'[e] = state[e] /\ told'[e] = told[e] /\ streams'[e] = streams[e]
      BY <1>4, <1>t, <2>1, <3>2 DEF Reads
    <3> QED BY <1>6, <3>1, <3>2
  <2> QED BY <2>2, <2>3
<1>9. \A f \in Ends : readers'[f] \subseteq readers[f]
  BY <1>3, <1>4
<1> QED BY <1>4, <1>5, <1>7, <1>8, <1>9

LEMMA ReadFailsStep ==
  ASSUME QuicIInv, NEW e \in Ends, NEW k \in Numbers, Iroh!ReadFails(e, k)
  PROVE  QuicIInv'
<1>1. /\ Iroh!stop(e, k) /\ UNCHANGED <<build, opened, adopted, at, pending, listens>>
      /\ UNCHANGED <<wire, quicSent, quicHeard>>
  BY DEF Iroh!ReadFails, Iroh!flow
<1>2. /\ up' \in BOOLEAN /\ state' \in [Ends -> {"none", "active", "disconnected"}]
      /\ streams' \in [Ends -> [Numbers -> Tags]] /\ readers' \in [Ends -> SUBSET Numbers]
      /\ told' \in [Ends -> BOOLEAN] /\ \A f \in Ends : readers'[f] \subseteq readers[f]
      /\ \A f \in Ends : Shaken(f)' /\ Reads(f)'
  BY <1>1, StopKeeps
<1>3. QuicTypeOK'
  BY <1>1, <1>2 DEF QuicIInv, QuicTypeOK
<1>4. ASSUME NEW f \in Ends, NEW j \in Numbers PROVE Counting(f, j)'
  BY <1>1, <1>2, FlowKept
<1> QED BY <1>2, <1>3, <1>4 DEF QuicIInv

LEMMA CloseStep ==
  ASSUME QuicIInv, NEW e \in Ends, Iroh!Close(e)
  PROVE  QuicIInv'
<1> DEFINE none == [j \in Numbers |-> Iroh!NoType]
<1>t. QuicTypeOK /\ Shaken(e)
  BY DEF QuicIInv
<1>1. /\ state[e] = "active" /\ state' = [state EXCEPT ![e] = "disconnected"]
      /\ told' = [told EXCEPT ![e] = TRUE] /\ streams' = [streams EXCEPT ![e] = none] /\ up' = FALSE
      /\ UNCHANGED <<build, opened, adopted, at, pending, readers, listens>>
      /\ UNCHANGED <<wire, quicSent, quicHeard>>
  BY TwoEnds DEF Iroh!Close, Iroh!flow
<1>2. none \in [Numbers -> Tags]
  BY TwoEnds
<1> HIDE DEF none
<1>3. /\ state' \in [Ends -> {"none", "active", "disconnected"}] /\ state'[e] = "disconnected"
      /\ told' \in [Ends -> BOOLEAN] /\ told'[e] = TRUE /\ streams' \in [Ends -> [Numbers -> Tags]]
      /\ \A f \in Ends : f # e => state'[f] = state[f] /\ streams'[f] = streams[f] /\ told'[f] = told[f]
  BY <1>t, <1>1, <1>2 DEF QuicTypeOK
<1>4. QuicTypeOK'
  BY <1>t, <1>1, <1>3 DEF QuicTypeOK
<1>5. ASSUME NEW f \in Ends, NEW k \in Numbers PROVE Counting(f, k)'
  BY <1>1, FlowKept
<1>6. ASSUME NEW f \in Ends, f # e PROVE Shaken(f)' /\ Reads(f)'
  <2>1. opened' = opened /\ opened <= opened' /\ opened' \in Nat /\ adopted' = adopted
    BY <1>1, <1>t DEF QuicTypeOK
  <2> QED BY <1>1, <1>3, <1>6, <2>1, EndKept
<1>7. Shaken(e)' /\ Reads(e)'
  <2>1. /\ Iroh!Count' = Iroh!Count /\ Taken(e)' = Taken(e) /\ Registered(e)' = Registered(e)
        /\ \A j : Serves(e, j)' = Serves(e, j)
    BY <1>1 DEF Iroh!Count, Taken, Registered, Serves
  <2>2. Shaken(e)'
    BY <1>1, <1>3, <1>t, <2>1 DEF Shaken
  <2>3. Reads(e)'
    BY <1>3 DEF Reads
  <2> QED BY <2>2, <2>3
<1> QED BY <1>4, <1>5, <1>6, <1>7, BothEnds

(* The natural numbers have least elements: they are well-founded by the   *)
(* initial segments they span.                                             *)
LEMMA Least ==
  ASSUME NEW T \in SUBSET Nat, T # {}
  PROVE  \E x \in T : \A y \in T : x <= y
<1> DEFINE Below == {0 .. x : x \in T}
<1>1. Below \subseteq FiniteSubsetsOf(Nat) /\ Below # {}
  <2>1. ASSUME NEW x \in T PROVE (0 .. x) \in FiniteSubsetsOf(Nat)
    BY FS_Interval DEF FiniteSubsetsOf
  <2> QED BY <2>1
<1>2. PICK B \in Below : \A C \in Below : <<C, B>> \notin StrictSubsetOrdering(Nat)
  <2> HIDE DEF Below
  <2> QED BY <1>1, FS_StrictSubsetOrderingWellFounded, WFMin
<1>3. PICK x \in T : B = 0 .. x
  OBVIOUS
<1>4. ASSUME NEW y \in T PROVE x <= y
  <2>1. (0 .. y) \in Below
    OBVIOUS
  <2>2. <<0 .. y, 0 .. x>> \notin StrictSubsetOrdering(Nat)
    BY <1>2, <1>3, <2>1
  <2>3. CASE y < x
    <3>1. (0 .. y) \subseteq 0 .. x /\ x \in 0 .. x /\ x \notin 0 .. y
      BY <2>3
    <3>2. (0 .. y) \in SUBSET Nat /\ (0 .. x) \in SUBSET Nat
      OBVIOUS
    <3> QED BY <2>2, <3>1, <3>2 DEF StrictSubsetOrdering
  <2> QED BY <2>3
<1> QED BY <1>4

(* What is emitted of a chunk is its beginning.                            *)
LEMMA Prefix ==
  ASSUME NEW chunk \in Seq(QuicFrames)
  PROVE  /\ Iroh!Inflated(chunk) \in Seq(QuicFrames)
         /\ Len(Iroh!Inflated(chunk)) <= Len(chunk)
         /\ \A i \in DOMAIN Iroh!Inflated(chunk) : Iroh!Inflated(chunk)[i] = chunk[i]
<1> DEFINE bad == {i \in DOMAIN chunk : chunk[i].oversized}
           first == CHOOSE i \in bad : \A j \in bad : i <= j
<1>1. Iroh!Inflated(chunk) = IF bad = {} THEN chunk ELSE SubSeq(chunk, 1, first - 1)
  BY DEF Iroh!Inflated
<1>2. CASE bad = {}
  BY <1>1, <1>2
<1>3. CASE bad # {}
  <2>1. \E i \in bad : \A j \in bad : i <= j
    <3>1. bad \in SUBSET Nat
      OBVIOUS
    <3> HIDE DEF bad
    <3> QED BY <1>3, <3>1, Least
  <2>2. first \in bad
    <3> HIDE DEF bad
    <3> QED BY <2>1
  <2>3. first \in 1 .. Len(chunk)
    BY <2>2
  <2> HIDE DEF first
  <2>4. /\ SubSeq(chunk, 1, first - 1) \in Seq(QuicFrames)
        /\ Len(SubSeq(chunk, 1, first - 1)) = first - 1
        /\ \A i \in 1 .. first - 1 : SubSeq(chunk, 1, first - 1)[i] = chunk[i]
    BY <2>3
  <2> QED BY <1>1, <1>3, <2>3, <2>4
<1> QED BY <1>2, <1>3

(* A chunk is read.                                                        *)
LEMMA ReadStep ==
  ASSUME QuicIInv, NEW e \in Ends, NEW k \in Numbers, NEW n \in Nat, Iroh!Read(e, k, n)
  PROVE  QuicIInv'
<1> DEFINE w == wire[e][k]
           h == quicHeard[e][k]
           chunk == SubSeq(w, 1, n)
           fit == Iroh!Inflated(chunk)
           rest == SubSeq(w, n + 1, Len(w))
           s == quicSent[Iroh!Far(e)][k]
<1>t. QuicTypeOK /\ w \in Seq(QuicFrames) /\ h \in Seq(QuicFrames) /\ s \in Nat
  BY TwoEnds DEF QuicIInv, QuicTypeOK
<1>1. /\ k \in readers[e] /\ n \in 1 .. Len(w) /\ wire' = [wire EXCEPT ![e][k] = rest]
      /\ \/ listens[e] /\ quicHeard' = [quicHeard EXCEPT ![e][k] = h \o fit]
         \/ ~(listens[e] /\ state[e] = "active") /\ quicHeard' = quicHeard
      /\ \/ fit = chunk /\ state[e] = "active" /\ UNCHANGED <<up, state, streams, readers, told>>
         \/ Iroh!stop(e, k) /\ ~(fit = chunk /\ state[e] = "active")
      /\ UNCHANGED <<build, opened, adopted, at, pending, listens>> /\ UNCHANGED <<quicSent>>
  BY DEF Iroh!Read, Iroh!left, Iroh!conn
<1>2. /\ chunk \in Seq(QuicFrames) /\ Len(chunk) = n /\ \A i \in 1 .. n : chunk[i] = w[i]
      /\ rest \in Seq(QuicFrames) /\ Len(rest) = Len(w) - n
      /\ \A i \in 1 .. Len(w) - n : rest[i] = w[n + i]
  <2>1. n \in 1 .. Len(w) /\ Len(w) \in Nat
    BY <1>t, <1>1
  <2> HIDE DEF w
  <2>2. chunk \in Seq(QuicFrames) /\ Len(chunk) = n /\ \A i \in 1 .. n : chunk[i] = w[i]
    BY <1>t, <2>1
  <2>3. rest \in Seq(QuicFrames) /\ Len(rest) = Len(w) - n
    BY <1>t, <2>1
  <2>4. ASSUME NEW i \in 1 .. Len(w) - n PROVE rest[i] = w[n + i]
    BY <1>t, <2>1
  <2> QED BY <2>2, <2>3, <2>4
<1>3. /\ fit \in Seq(QuicFrames) /\ Len(fit) <= n /\ \A i \in DOMAIN fit : fit[i] = w[i]
      /\ fit = chunk => Len(fit) = n
  <2> HIDE DEF chunk
  <2>1. /\ fit \in Seq(QuicFrames) /\ Len(fit) <= Len(chunk)
        /\ \A i \in DOMAIN fit : fit[i] = chunk[i]
    BY <1>2, Prefix
  <2> HIDE DEF fit
  <2>2. \A i \in DOMAIN fit : i \in 1 .. n
    BY <1>2, <2>1
  <2> QED BY <1>2, <2>1, <2>2
<1> HIDE DEF chunk, fit, rest
<1>4. /\ wire' \in [Ends -> [Numbers -> Seq(QuicFrames)]] /\ wire'[e][k] = rest
      /\ \A f \in Ends, j \in Numbers : <<f, j>> # <<e, k>> => wire'[f][j] = wire[f][j]
  BY <1>t, <1>1, <1>2 DEF QuicTypeOK
<1>5. /\ quicHeard' \in [Ends -> [Numbers -> Seq(QuicFrames)]]
      /\ \A f \in Ends, j \in Numbers : <<f, j>> # <<e, k>> => quicHeard'[f][j] = quicHeard[f][j]
      /\ \/ listens[e] /\ quicHeard'[e][k] = h \o fit
         \/ ~(listens[e] /\ state[e] = "active") /\ quicHeard'[e][k] = h
  <2> DEFINE g == h \o fit
  <2>1. g \in Seq(QuicFrames)
    BY <1>t, <1>3
  <2>2. \/ listens[e] /\ quicHeard' = [quicHeard EXCEPT ![e][k] = g]
        \/ ~(listens[e] /\ state[e] = "active") /\ quicHeard' = quicHeard
    BY <1>1
  <2> HIDE DEF g
  <2>3. /\ quicHeard' \in [Ends -> [Numbers -> Seq(QuicFrames)]]
        /\ \A f \in Ends, j \in Numbers : <<f, j>> # <<e, k>> => quicHeard'[f][j] = quicHeard[f][j]
        /\ \/ listens[e] /\ quicHeard'[e][k] = g
           \/ ~(listens[e] /\ state[e] = "active") /\ quicHeard'[e][k] = h
    <3>1. CASE listens[e] /\ quicHeard' = [quicHeard EXCEPT ![e][k] = g]
      <4>1. quicHeard' \in [Ends -> [Numbers -> Seq(QuicFrames)]] /\ quicHeard'[e][k] = g
        BY <1>t, <2>1, <3>1 DEF QuicTypeOK
      <4>2. \A f \in Ends, j \in Numbers : <<f, j>> # <<e, k>> => quicHeard'[f][j] = quicHeard[f][j]
        BY <1>t, <3>1 DEF QuicTypeOK
      <4> QED BY <3>1, <4>1, <4>2
    <3>2. CASE ~(listens[e] /\ state[e] = "active") /\ quicHeard' = quicHeard
      BY <1>t, <3>2 DEF QuicTypeOK
    <3> QED BY <2>2, <3>1, <3>2
  <2> QED BY <2>3 DEF g
<1>6. /\ up' \in BOOLEAN /\ state' \in [Ends -> {"none", "active", "disconnected"}]
      /\ streams' \in [Ends -> [Numbers -> Tags]] /\ readers' \in [Ends -> SUBSET Numbers]
      /\ told' \in [Ends -> BOOLEAN] /\ \A f \in Ends : readers'[f] \subseteq readers[f]
      /\ \A f \in Ends : Shaken(f)' /\ Reads(f)'
      /\ k \in readers'[e] => fit = chunk /\ state[e] = "active"
  <2>1. CASE fit = chunk /\ state[e] = "active" /\ UNCHANGED <<up, state, streams, readers, told>>
    <3>1. \A f \in Ends : Shaken(f)' /\ Reads(f)'
      BY <1>1, <1>t, <2>1, EndKept DEF QuicTypeOK
    <3> QED BY <1>t, <2>1, <3>1 DEF QuicTypeOK
  <2>2. CASE Iroh!stop(e, k)
    <3>1. /\ up' \in BOOLEAN /\ state' \in [Ends -> {"none", "active", "disconnected"}]
          /\ streams' \in [Ends -> [Numbers -> Tags]] /\ readers' \in [Ends -> SUBSET Numbers]
          /\ told' \in [Ends -> BOOLEAN] /\ readers'[e] = readers[e] \ {k}
          /\ \A f \in Ends : readers'[f] \subseteq readers[f]
          /\ \A f \in Ends : Shaken(f)' /\ Reads(f)'
      BY <1>1, <2>2, StopKeeps
    <3> QED BY <3>1
  <2> QED BY <1>1, <2>1, <2>2
<1>7. QuicTypeOK'
  BY <1>t, <1>1, <1>4, <1>5, <1>6 DEF QuicTypeOK
<1>8. ASSUME NEW f \in Ends, NEW j \in Numbers PROVE Counting(f, j)'
  <2>0. Counting(f, j)
    BY DEF QuicIInv
  <2>1. CASE <<f, j>> # <<e, k>>
    <3>1. /\ wire'[f][j] = wire[f][j] /\ quicHeard'[f][j] = quicHeard[f][j]
          /\ j \in readers'[f] => j \in readers[f]
      BY <1>4, <1>5, <1>6, <2>1
    <3> QED BY <1>1, <2>0, <3>1 DEF Counting
  <2>2. CASE <<f, j>> = <<e, k>>
    <3> DEFINE g == quicHeard'[e][k]
    <3>0. f = e /\ j = k
      BY <2>2
    <3>c. /\ Len(w) <= s /\ \A i \in DOMAIN w : w[i].index = (s - Len(w)) + i
          /\ h # <<>> => listens[e] /\ h[Len(h)].index = s - Len(w)
          /\ \A i \in 1 .. Len(h) - 1 : h[i + 1].index = h[i].index + 1
      BY <1>1, <2>0, <3>0 DEF Counting
    <3>1. Len(rest) <= s /\ \A i \in DOMAIN rest : rest[i].index = (s - Len(rest)) + i
      <4>1. n \in 1 .. Len(w) /\ Len(w) \in Nat /\ DOMAIN w = 1 .. Len(w)
        BY <1>t, <1>1
      <4>2. DOMAIN rest = 1 .. Len(w) - n /\ Len(rest) = Len(w) - n
        BY <1>2, <4>1
      <4> HIDE DEF w, s
      <4>3. ASSUME NEW i \in DOMAIN rest PROVE rest[i].index = (s - Len(rest)) + i
        <5>1. n + i \in DOMAIN w /\ rest[i] = w[n + i]
          BY <1>2, <4>1, <4>2
        <5>2. w[n + i].index = (s - Len(w)) + (n + i)
          BY <3>c, <5>1
        <5> QED BY <1>t, <4>1, <4>2, <5>1, <5>2
      <4> QED BY <1>t, <3>c, <4>1, <4>2, <4>3
    <3>2. CASE g = h /\ ~(listens[e] /\ state[e] = "active")
      <4>1. k \in readers'[e] => g = <<>>
        BY <1>6, <3>2, <3>c
      <4> QED BY <1>1, <1>4, <3>0, <3>1, <3>2, <3>c, <4>1 DEF Counting
    <3>3. CASE g = h \o fit /\ listens[e]
      <4> HIDE DEF h, w, s
      <4>1. /\ g \in Seq(QuicFrames) /\ Len(g) = Len(h) + Len(fit) /\ Len(h) \in Nat /\ Len(fit) \in Nat
            /\ \A i \in 1 .. Len(h) : g[i] = h[i]
            /\ \A i \in 1 .. Len(fit) : g[Len(h) + i] = fit[i]
        BY <1>t, <1>3, <3>3
      <4>2. \A i \in 1 .. Len(fit) : fit[i].index = (s - Len(w)) + i
        <5>1. Len(fit) <= n /\ n <= Len(w) /\ Len(w) \in Nat /\ DOMAIN fit = 1 .. Len(fit) /\ DOMAIN w = 1 .. Len(w)
          BY <1>t, <1>1, <1>3 DEF w
        <5>2. \A i \in 1 .. Len(fit) : i \in DOMAIN w /\ fit[i] = w[i]
          <6>1. \A i \in 1 .. Len(fit) : i \in 1 .. Len(w)
            BY <4>1, <5>1
          <6> QED BY <1>3, <5>1, <6>1
        <5> QED BY <3>c, <5>2
      <4> HIDE DEF g
      <4>3. ASSUME NEW i \in 1 .. Len(g) - 1 PROVE g[i + 1].index = g[i].index + 1
        <5>0. i \in Nat /\ i + 1 <= Len(h) + Len(fit) /\ s \in Int /\ Len(w) \in Int
          BY <1>t, <4>1 DEF w
        <5>1. CASE i < Len(h)
          <6>1. g[i] = h[i] /\ g[i + 1] = h[i + 1] /\ i \in 1 .. Len(h) - 1
            <7>1. i \in 1 .. Len(h) /\ i + 1 \in 1 .. Len(h) /\ i \in 1 .. Len(h) - 1
              BY <4>1, <5>0, <5>1
            <7> QED BY <4>1, <7>1
          <6> QED BY <3>c, <6>1
        <5>2. CASE i = Len(h)
          <6>1. h # <<>> /\ g[i] = h[Len(h)] /\ 1 \in 1 .. Len(fit) /\ g[i + 1] = fit[1]
            BY <4>1, <5>0, <5>2
          <6>2. h[Len(h)].index = s - Len(w) /\ fit[1].index = (s - Len(w)) + 1
            BY <3>c, <4>2, <6>1
          <6> QED BY <6>1, <6>2
        <5>3. CASE i > Len(h)
          <6> DEFINE x == i - Len(h)
          <6>1. x \in 1 .. Len(fit) /\ x + 1 \in 1 .. Len(fit) /\ i = Len(h) + x /\ i + 1 = Len(h) + (x + 1)
            BY <4>1, <5>0, <5>3
          <6> HIDE DEF x
          <6>2. g[i] = fit[x] /\ g[i + 1] = fit[x + 1]
            BY <4>1, <6>1
          <6>3. fit[x].index = (s - Len(w)) + x /\ fit[x + 1].index = (s - Len(w)) + (x + 1)
            BY <4>2, <6>1
          <6> QED BY <5>0, <6>1, <6>2, <6>3
        <5> QED BY <4>1, <5>0, <5>1, <5>2, <5>3
      <4>4. k \in readers'[e] => g[Len(g)].index = s - Len(rest)
        <5> SUFFICES ASSUME k \in readers'[e] PROVE g[Len(g)].index = s - Len(rest)
          OBVIOUS
        <5>1. Len(fit) = n /\ n \in Nat /\ n >= 1 /\ Len(w) \in Nat
          BY <1>t, <1>1, <1>3, <1>6 DEF w
        <5>2. g[Len(g)] = fit[n] /\ fit[n].index = (s - Len(w)) + n
          BY <4>1, <4>2, <5>1
        <5> QED BY <1>t, <1>2, <5>1, <5>2 DEF w
      <4>5. /\ quicHeard'[e][k] = g /\ wire'[e][k] = rest /\ quicSent'[Iroh!Far(e)][k] = s /\ listens'[e]
        BY <1>1, <1>4, <3>3 DEF g, s
      <4> QED BY <3>0, <3>1, <4>3, <4>4, <4>5 DEF Counting
    <3> QED BY <1>5, <3>2, <3>3
  <2> QED BY <2>1, <2>2
<1> QED BY <1>6, <1>7, <1>8 DEF QuicIInv

LEMMA QuicStep == QuicIInv /\ [Iroh!Next]_quic => QuicIInv'
<1> SUFFICES ASSUME QuicIInv, [Iroh!Next]_quic PROVE QuicIInv'
  OBVIOUS
<1>1. CASE Iroh!Handshake
  <2>1. CASE Iroh!Hello \/ Iroh!Greeted
    BY <2>1, ControlSteps
  <2>2. CASE Iroh!Challenged \/ Iroh!Acknowledged
    BY <2>2, ConnectSteps
  <2>3. CASE Iroh!Open \/ Iroh!Adopt
    BY <2>3, TakeSteps
  <2>4. ASSUME NEW e \in Ends, Iroh!Register(e) \/ Iroh!Hand(e) \/ Iroh!Abandon(e) PROVE QuicIInv'
    BY <2>4, RegisterStep, HandStep, AbandonStep
  <2> QED BY <1>1, <2>1, <2>2, <2>3, <2>4, TwoEnds DEF Iroh!Handshake
<1>2. CASE Iroh!Reading
  <2>1. PICK e \in Ends, k \in Numbers :
          Iroh!ReadFails(e, k) \/ \E n \in 1 .. MaxQuicFrames : Iroh!Read(e, k, n)
    BY <1>2, TwoEnds DEF Iroh!Reading
  <2>2. CASE Iroh!ReadFails(e, k)
    BY <2>2, ReadFailsStep
  <2>3. ASSUME NEW n \in 1 .. MaxQuicFrames, Iroh!Read(e, k, n) PROVE QuicIInv'
    <3>1. n \in Nat
      OBVIOUS
    <3> QED BY <2>3, <3>1, ReadStep
  <2> QED BY <2>1, <2>2, <2>3
<1>3. CASE Iroh!Lose
  BY <1>3, ControlSteps
<1>4. ASSUME NEW e \in Ends, Iroh!Close(e) PROVE QuicIInv'
  BY <1>4, CloseStep
<1>5. ASSUME NEW e \in Ends, NEW k \in Numbers, NEW o \in BOOLEAN, Iroh!Send(e, k, o) PROVE QuicIInv'
  BY <1>5, SendStep
<1>6. CASE UNCHANGED quic
  <2>1. /\ UNCHANGED <<build, up, at, opened, adopted, pending, state, streams, readers>>
        /\ UNCHANGED <<listens, told>> /\ UNCHANGED <<wire, quicSent, quicHeard>>
    BY <1>6 DEF quic
  <2>2. QuicTypeOK /\ opened \in Nat
    BY DEF QuicIInv, QuicTypeOK
  <2>3. QuicTypeOK'
    BY <2>1, <2>2 DEF QuicTypeOK
  <2>4. ASSUME NEW e \in Ends PROVE Shaken(e)' /\ Reads(e)'
    BY <2>1, <2>2, EndKept
  <2>5. ASSUME NEW e \in Ends, NEW k \in Numbers PROVE Counting(e, k)'
    BY <2>1, FlowKept
  <2> QED BY <2>3, <2>4, <2>5 DEF QuicIInv
<1>7. \/ Iroh!Handshake \/ Iroh!Reading \/ Iroh!Lose \/ UNCHANGED quic
      \/ \E e \in Ends : Iroh!Close(e) \/ \E k \in Numbers, o \in BOOLEAN : Iroh!Send(e, k, o)
  BY TwoEnds DEF Iroh!Next
<1> QED BY <1>1, <1>2, <1>3, <1>4, <1>5, <1>6, <1>7

(* An end whose connection the client has is at the end of its handshake,  *)
(* and reads or has read sub-streams of it.                                *)
LEMMA Listening ==
  ASSUME QuicIInv, NEW e \in Ends, listens[e]
  PROVE  /\ Registered(e) = {k \in 1 .. Iroh!Count : Serves(e, k)} /\ Registered(e) # {}
         /\ at[e] = "done" /\ state[e] \in {"active", "disconnected"}
<1>1. QuicTypeOK /\ Shaken(e)
  BY DEF QuicIInv
<1>2. /\ at[e] = "done" /\ Taken(e) = 1 .. Iroh!Count /\ pending[e] = 0 /\ state[e] # "none"
  BY <1>1 DEF Shaken
<1>3. state[e] \in {"active", "disconnected"}
  BY <1>1, <1>2 DEF QuicTypeOK
<1>4. Registered(e) = {k \in 1 .. Iroh!Count : Serves(e, k)}
  <2>1. \A k \in 1 .. Iroh!Count : k # pending[e]
    BY <1>2
  <2> QED BY <1>2, <2>1 DEF Registered
<1>5. Registered(e) # {}
  BY <1>1, <1>4, QuicConstants DEF Serves
<1> QED BY <1>2, <1>3, <1>4, <1>5

LEMMA QuicSameStreams == QuicIInv => SameStreams
<1> SUFFICES ASSUME QuicIInv PROVE SameStreams
  OBVIOUS
<1>1. QuicTypeOK /\ "dialer" \in Ends /\ Shaken("dialer")
  BY DEF QuicIInv, Ends
<1>2. ASSUME at["dialer"] = "done", Cardinality(adopted) < Iroh!expected
      PROVE  (1 .. opened) \ adopted # {}
  <2>1. 1 .. opened = 1 .. Iroh!Count /\ Iroh!expected = Iroh!Count /\ Iroh!Count \in Nat
    BY <1>1, <1>2, QuicConstants DEF Shaken, Taken, Numbers
  <2>2. adopted # 1 .. Iroh!Count /\ adopted \subseteq 1 .. opened
    <3>1. Cardinality(adopted) \in Nat /\ (adopted = 1 .. Iroh!Count => Cardinality(adopted) = Iroh!Count)
      BY <1>1, TakenOfBuild
    <3> QED BY <1>1, <1>2, <2>1, <3>1 DEF Shaken
  <2> QED BY <2>1, <2>2
<1>3. ASSUME \A e \in Ends : listens[e] /\ state[e] = "active",
             NEW k \in 1 .. Iroh!Count, build.opens[k] \in Iroh!Known
      PROVE  streams["accepter"][k] = streams["dialer"][k]
  <2>1. ASSUME NEW e \in Ends PROVE streams[e][k] = build.opens[k]
    <3>1. listens[e] /\ state[e] = "active" /\ Reads(e)
      BY <1>3 DEF QuicIInv
    <3>2. k \in Registered(e)
      BY <1>3, <3>1, Listening DEF Serves
    <3>3. at[e] = "done"
      BY <3>1, Listening
    <3> QED BY <3>1, <3>2, <3>3 DEF Reads
  <2> QED BY <2>1 DEF Ends
<1> QED BY <1>2, <1>3, TwoEnds, SameCardinality DEF SameStreams, Iroh!SameStreams

LEMMA QuicGoneIsNoticed == QuicIInv => GoneIsNoticed
<1> SUFFICES ASSUME QuicIInv, NEW e \in Ends, listens[e], readers[e] = {} PROVE told[e]
  BY TwoEnds DEF GoneIsNoticed, Iroh!GoneIsNoticed
<1>1. Reads(e)
  BY DEF QuicIInv
<1>2. Registered(e) # {} /\ at[e] = "done" /\ state[e] \in {"active", "disconnected"}
  BY Listening
<1> QED BY <1>1, <1>2 DEF Reads

LEMMA QuicInOrder == QuicIInv => Iroh!FramesInOrder
BY TwoEnds DEF QuicIInv, Counting, Iroh!FramesInOrder

-----------------------------------------------------------------------------
(* Sessions over pipes                                                     *)

Kinds == {"inbound", "init", "challenge", "ack", "frame", "closed"}
Events == [type : Kinds, session : 0 .. MaxPipes, index : Nat, urgent : BOOLEAN]
Readers == [reader : 0 .. MaxPipes, mode : {"none", "control", "frames"},
            buffer : Seq(Events), connection : 0 .. MaxPipes]
DialTasks   == {"writeInit", "challenge", "writeAck", "over"}
AcceptTasks == {"none", "init", "writeChallenge", "ack", "over"}
AllTasks    == DialTasks \cup AcceptTasks
Sessional   == {"none", "active", "closed"}
PipeStates  == [id : Ids \cup {None}, from : Nodes \cup {None}, open : BOOLEAN]

PipesTypeOK ==
  /\ pipe \in [Pipes -> PipeStates]
  /\ dials \in 0 .. MaxPipes
  /\ events \in [Nodes -> [Pipes -> Seq(Events)]]
  /\ asks \in [Nodes -> SUBSET Pipes]
  /\ channels \in [Nodes -> [Ids -> Readers]]
  /\ task \in [Nodes -> [Pipes -> AllTasks]]
  /\ session \in [Nodes -> [Pipes -> Sessional]]
  /\ sent \in [Nodes -> [Pipes -> Nat]]
  /\ heard \in [Nodes -> [Pipes -> Seq(Events)]]
  /\ stray \in BOOLEAN

Only(s, T)    == \A k \in DOMAIN s : s[k].type \in T
Carries(s, t) == \E k \in DOMAIN s : s[k].type = t

(* The order on a pipe: what a report of each kind may follow.             *)
Earlier(t) ==
  CASE t \in {"inbound", "challenge"} -> {}
    [] t = "init" -> {"inbound"}
    [] t = "ack" -> {"inbound", "init"}
    [] OTHER -> Kinds \ {"closed"}

Lined(s) == \A j, k \in DOMAIN s : j < k => s[j].type \in Earlier(s[k].type)

(* A frame's place among all that are sent on its session.                 *)
Place(f) == IF f.urgent THEN 3 * f.index ELSE 3 * (f.index \div 2) + (f.index % 2) + 1

IsFrame(e) == e.type = "frame"

(* The frames of s are of session p, and as far apart as when they were    *)
(* sent.  UpTo: the last of all that was sent would be at its end.         *)
Steady(s, p) ==
  /\ \A k \in DOMAIN s : IsFrame(s[k]) => s[k].session = p
  /\ \A j, k \in DOMAIN s : IsFrame(s[j]) /\ IsFrame(s[k]) => Place(s[k]) = Place(s[j]) + k - j

UpTo(s, last) == \A k \in DOMAIN s : IsFrame(s[k]) => Place(s[k]) + Len(s) - k = last

-----------------------------------------------------------------------------
(* One end of a pipe: the reader of its channel, what is still to come to  *)
(* its handshake or session, and how far these are.                        *)
Due(n, p) ==
  IF channels[n][Id(p)].reader = p THEN channels[n][Id(p)].buffer \o events[n][p]
  ELSE events[n][p]

End(n, p) == [reader |-> channels[n][Id(p)].reader, due |-> Due(n, p), task |-> task[n][p],
              session |-> session[n][p], heard |-> heard[n][p], sent |-> sent[n][p]]

EndType == [reader : 0 .. MaxPipes, due : Seq(Events), task : AllTasks,
            session : Sessional, heard : Seq(Events), sent : Nat]

Asked(p) == \E n \in Nodes : \E q \in asks[n] : Id(q) = Id(p)

(* The invariant of one end e, at n, of the pipe p in state g, given the   *)
(* other end f.  The end of the pipe is the last thing reported of it, and *)
(* who reads it has yet to hear of it.                                     *)
Ending(g, p, e) ==
  /\ g.open => ~Carries(e.due, "closed")
  /\ ~g.open => /\ e.reader = p => e.due # <<>>
                /\ e.due # <<>> => e.due[Len(e.due)].type = "closed"

DialHears   == {"challenge", "frame", "closed"}
AcceptHears == {"inbound", "init", "ack", "frame", "closed"}

Role(g, n, e) ==
  /\ g.from = n => e.task \in DialTasks /\ Only(e.due, DialHears)
  /\ g.from # n => e.task \in AcceptTasks /\ Only(e.due, AcceptHears)

SessionOf(e) ==
  /\ e.session # "none" => e.task = "over"
  /\ e.session = "none" => e.heard = <<>>

(* An accepter has the beginning of the pipe before it until it takes it.  *)
Beginning(g, n, p, e) ==
  g.from # n => /\ e.task = "none" => e.reader # p
                /\ e.task = "none" <=> Carries(e.due, "inbound")

(* How far one end's handshake can be, given the other's.                  *)
Meeting(g, n, e, f) ==
  /\ g.from # n /\ e.task \in {"none", "init"} =>
       Only(f.due, {"closed"}) /\ f.task # "writeAck" /\ f.session # "active"
  /\ g.from = n /\ e.task \in {"writeInit", "challenge"} =>
       Only(f.due, {"inbound", "init", "closed"}) /\ f.session # "active"
  /\ e.task = "writeAck" \/ e.session = "active" => Only(e.due, {"frame", "closed"})

(* On an open pipe a handshake of an accepter that is over has made a      *)
(* session, or the pipe is to be disconnected; and so has that of a        *)
(* dialler who has acknowledged.                                           *)
Agreement(g, n, e, f, asked) ==
  g.open /\ g.from # n =>
    /\ e.task = "over" => e.session = "active" \/ asked
    /\ e.session = "active" \/ Carries(e.due, "ack") =>
         f.task = "writeAck" \/ f.session = "active" \/ asked

(* What a session has heard and what is still to come.                     *)
Stream(e) == IF e.session = "active" THEN e.heard \o e.due ELSE e.due

Streaming(g, p, e, f) ==
  /\ \A k \in DOMAIN e.heard : IsFrame(e.heard[k])
  /\ Steady(e.heard, p) /\ Steady(Stream(e), p)
  /\ g.open => UpTo(Stream(e), 3 * f.sent - 1)

EndOK(g, n, p, e, f, asked) ==
  /\ Ending(g, p, e) /\ Role(g, n, e) /\ Lined(e.due) /\ SessionOf(e) /\ Beginning(g, n, p, e)
  /\ Meeting(g, n, e, f) /\ Agreement(g, n, e, f, asked) /\ Streaming(g, p, e, f)

PipeOK(p) == \A n \in Nodes : EndOK(pipe[p], n, p, End(n, p), End(Other(n), p), Asked(p))

Dialled == {p \in Pipes : p <= dials}

(* A pipe that is yet to be dialled has left no trace.                     *)
Fresh ==
  /\ \A p \in Dialled : Id(p) \in Ids /\ pipe[p].from \in Nodes
  /\ \A p \in Pipes \ Dialled :
       /\ ~pipe[p].open /\ Id(p) = None
       /\ \A n \in Nodes : /\ events[n][p] = <<>> /\ p \notin asks[n]
                           /\ task[n][p] = "none" /\ session[n][p] = "none"
                           /\ heard[n][p] = <<>>

(* The reader of a channel is one of its id; in frames it is that of its   *)
(* connection, and keeps nothing.                                          *)
Shape(c) ==
  /\ c.mode = "none" => c.reader = 0
  /\ c.mode # "frames" => c.connection = 0
  /\ c.mode = "frames" => c.reader # 0 /\ c.connection = c.reader /\ c.buffer = <<>>
  /\ Only(c.buffer, {"init", "challenge", "ack", "frame"})

Shapes == \A n \in Nodes, i \in Ids :
  /\ Shape(channels[n][i])
  /\ \A p \in Pipes : channels[n][i].reader = p => p \in Dialled /\ Id(p) = i

(* A pipe that is still in use is the latest with its id.                  *)
InUse(p) == pipe[p].open \/ \E n \in Nodes : events[n][p] # <<>> \/ channels[n][Id(p)].reader = p

Currents == \A p \in Dialled : InUse(p) => \A q \in Pipes : q > p => Id(q) # Id(p)

(* A session is that of its channel.                                       *)
Ties == \A n \in Nodes, p \in Dialled :
  session[n][p] = "active" <=> channels[n][Id(p)].connection = p

Regular == Fresh /\ Shapes /\ Currents /\ Ties /\ \A p \in Dialled : PipeOK(p)

PipesIInv == PipesTypeOK /\ (~stray => Regular)
-----------------------------------------------------------------------------
(* What holds of a sequence holds of its parts.                            *)
LEMMA JoinedAt ==
  ASSUME NEW S, NEW s \in Seq(S), NEW t \in Seq(S)
  PROVE  /\ s \o t \in Seq(S) /\ Len(s \o t) = Len(s) + Len(t) /\ Len(s) \in Nat /\ Len(t) \in Nat
         /\ DOMAIN s = 1 .. Len(s) /\ DOMAIN t = 1 .. Len(t)
         /\ DOMAIN (s \o t) = 1 .. Len(s) + Len(t)
         /\ \A k \in 1 .. Len(s) : (s \o t)[k] = s[k]
         /\ \A k \in 1 .. Len(t) : (s \o t)[Len(s) + k] = t[k]
         /\ \A k \in 1 .. Len(s) + Len(t) : k \in 1 .. Len(s) \/ k - Len(s) \in 1 .. Len(t)
OBVIOUS

LEMMA JoinedOnly ==
  ASSUME NEW S, NEW s \in Seq(S), NEW t \in Seq(S), NEW T
  PROVE  Only(s \o t, T) <=> Only(s, T) /\ Only(t, T)
<1> DEFINE u == s \o t
<1>1. ASSUME Only(u, T) PROVE Only(s, T) /\ Only(t, T)
  <2>1. ASSUME NEW k \in DOMAIN s PROVE s[k].type \in T
    BY <1>1, JoinedAt DEF Only
  <2>2. ASSUME NEW k \in DOMAIN t PROVE t[k].type \in T
    <3>1. Len(s) + k \in DOMAIN u /\ u[Len(s) + k] = t[k]
      BY JoinedAt
    <3> QED BY <1>1, <3>1 DEF Only
  <2> QED BY <2>1, <2>2 DEF Only
<1>2. ASSUME Only(s, T), Only(t, T) PROVE Only(u, T)
  <2>1. ASSUME NEW k \in DOMAIN u PROVE u[k].type \in T
    <3>1. CASE k \in 1 .. Len(s)
      BY <1>2, <3>1, JoinedAt DEF Only
    <3>2. CASE k - Len(s) \in 1 .. Len(t)
      <4>1. u[k] = t[k - Len(s)]
        BY <3>2, JoinedAt
      <4> QED BY <1>2, <3>2, <4>1, JoinedAt DEF Only
    <3> QED BY <3>1, <3>2, JoinedAt
  <2> QED BY <2>1 DEF Only
<1> QED BY <1>1, <1>2

LEMMA JoinedCarries ==
  ASSUME NEW S, NEW s \in Seq(S), NEW t \in Seq(S), NEW x
  PROVE  Carries(s \o t, x) <=> Carries(s, x) \/ Carries(t, x)
<1> DEFINE u == s \o t
<1>1. ASSUME Carries(u, x) PROVE Carries(s, x) \/ Carries(t, x)
  <2>1. PICK k \in DOMAIN u : u[k].type = x
    BY <1>1 DEF Carries
  <2>2. CASE k \in 1 .. Len(s)
    BY <2>1, <2>2, JoinedAt DEF Carries
  <2>3. CASE k - Len(s) \in 1 .. Len(t)
    <3>1. u[k] = t[k - Len(s)]
      BY <2>3, JoinedAt
    <3> QED BY <2>1, <2>3, <3>1, JoinedAt DEF Carries
  <2> QED BY <2>2, <2>3, JoinedAt
<1>2. ASSUME Carries(s, x) PROVE Carries(u, x)
  BY <1>2, JoinedAt DEF Carries
<1>3. ASSUME Carries(t, x) PROVE Carries(u, x)
  <2>1. PICK k \in DOMAIN t : t[k].type = x
    BY <1>3 DEF Carries
  <2>2. Len(s) + k \in DOMAIN u /\ u[Len(s) + k] = t[k]
    BY JoinedAt
  <2> QED BY <2>1, <2>2 DEF Carries
<1> QED BY <1>1, <1>2, <1>3

LEMMA OnlyCarries ==
  ASSUME NEW s, NEW T, NEW x, Only(s, T), Carries(s, x)
  PROVE  x \in T
BY DEF Only, Carries

Follows(s, t) ==
  \A j \in DOMAIN s, k \in DOMAIN t : s[j].type \in Earlier(t[k].type)

LEMMA JoinedLined ==
  ASSUME NEW S, NEW s \in Seq(S), NEW t \in Seq(S)
  PROVE  Lined(s \o t) <=> Lined(s) /\ Lined(t) /\ Follows(s, t)
<1> DEFINE u == s \o t
<1>1. ASSUME Lined(u) PROVE Lined(s) /\ Lined(t) /\ Follows(s, t)
  <2>1. ASSUME NEW j \in DOMAIN s, NEW k \in DOMAIN s, j < k
        PROVE  s[j].type \in Earlier(s[k].type)
    <3>1. j \in DOMAIN u /\ u[j] = s[j] /\ k \in DOMAIN u /\ u[k] = s[k]
      BY JoinedAt
    <3> QED BY <1>1, <2>1, <3>1 DEF Lined
  <2>2. ASSUME NEW j \in DOMAIN t, NEW k \in DOMAIN t, j < k
        PROVE  t[j].type \in Earlier(t[k].type)
    <3>1. /\ Len(s) + j \in DOMAIN u /\ u[Len(s) + j] = t[j]
          /\ Len(s) + k \in DOMAIN u /\ u[Len(s) + k] = t[k]
          /\ Len(s) + j < Len(s) + k
      BY <2>2, JoinedAt
    <3> QED BY <1>1, <3>1 DEF Lined
  <2>3. ASSUME NEW j \in DOMAIN s, NEW k \in DOMAIN t
        PROVE  s[j].type \in Earlier(t[k].type)
    <3>1. /\ j \in DOMAIN u /\ u[j] = s[j]
          /\ Len(s) + k \in DOMAIN u /\ u[Len(s) + k] = t[k]
          /\ j < Len(s) + k
      BY JoinedAt
    <3> QED BY <1>1, <3>1 DEF Lined
  <2> QED BY <2>1, <2>2, <2>3 DEF Lined, Follows
<1>2. ASSUME Lined(s), Lined(t), Follows(s, t) PROVE Lined(u)
  <2>1. ASSUME NEW j \in DOMAIN u, NEW k \in DOMAIN u, j < k
        PROVE  u[j].type \in Earlier(u[k].type)
    <3>1. CASE k \in 1 .. Len(s)
      <4>1. j \in DOMAIN s /\ k \in DOMAIN s /\ u[j] = s[j] /\ u[k] = s[k]
        BY <2>1, <3>1, JoinedAt
      <4> QED BY <1>2, <2>1, <4>1 DEF Lined
    <3>2. CASE k - Len(s) \in 1 .. Len(t) /\ j \in 1 .. Len(s)
      <4>1. j \in DOMAIN s /\ k - Len(s) \in DOMAIN t /\ u[j] = s[j] /\ u[k] = t[k - Len(s)]
        BY <3>2, JoinedAt
      <4> QED BY <1>2, <4>1 DEF Follows
    <3>3. CASE k - Len(s) \in 1 .. Len(t) /\ j - Len(s) \in 1 .. Len(t)
      <4>1. /\ j - Len(s) \in DOMAIN t /\ k - Len(s) \in DOMAIN t
            /\ u[j] = t[j - Len(s)] /\ u[k] = t[k - Len(s)]
            /\ j - Len(s) < k - Len(s)
        BY <2>1, <3>3, JoinedAt
      <4> QED BY <1>2, <4>1 DEF Lined
    <3> QED BY <3>1, <3>2, <3>3, JoinedAt
  <2> QED BY <2>1 DEF Lined
<1> QED BY <1>1, <1>2

LEMMA PlaceInt ==
  ASSUME NEW f \in Events
  PROVE  Place(f) \in Int
<1>1. f.index \in Nat
  BY DEF Events
<1>2. 3 * f.index \in Int
  BY <1>1
<1>3. f.index \div 2 \in Int /\ f.index % 2 \in Int
  BY <1>1
<1>4. 3 * (f.index \div 2) + (f.index % 2) + 1 \in Int
  BY <1>3
<1> QED BY <1>2, <1>4 DEF Place

(* The parts of a steady sequence are steady.                              *)
LEMMA PartsSteady ==
  ASSUME NEW s \in Seq(Events), NEW t \in Seq(Events), NEW p, Steady(s \o t, p)
  PROVE  Steady(s, p) /\ Steady(t, p)
<1> DEFINE u == s \o t
<1>1. Steady(s, p)
  <2>1. ASSUME NEW k \in DOMAIN s, IsFrame(s[k]) PROVE s[k].session = p
    <3>1. k \in DOMAIN u /\ u[k] = s[k]
      BY JoinedAt
    <3> QED BY <2>1, <3>1 DEF Steady
  <2>2. ASSUME NEW j \in DOMAIN s, NEW k \in DOMAIN s, IsFrame(s[j]), IsFrame(s[k])
        PROVE  Place(s[k]) = Place(s[j]) + k - j
    <3>1. k \in DOMAIN u /\ u[k] = s[k] /\ j \in DOMAIN u /\ u[j] = s[j]
      BY JoinedAt
    <3> QED BY <2>2, <3>1 DEF Steady
  <2> QED BY <2>1, <2>2 DEF Steady
<1>2. Steady(t, p)
  <2>1. ASSUME NEW k \in DOMAIN t, IsFrame(t[k]) PROVE t[k].session = p
    <3>1. Len(s) + k \in DOMAIN u /\ u[Len(s) + k] = t[k]
      BY JoinedAt
    <3> QED BY <2>1, <3>1 DEF Steady
  <2>2. ASSUME NEW j \in DOMAIN t, NEW k \in DOMAIN t, IsFrame(t[j]), IsFrame(t[k])
        PROVE  Place(t[k]) = Place(t[j]) + k - j
    <3>1. /\ Len(s) + k \in DOMAIN u /\ u[Len(s) + k] = t[k]
          /\ Len(s) + j \in DOMAIN u /\ u[Len(s) + j] = t[j]
      BY JoinedAt
    <3>2. Place(t[k]) = Place(t[j]) + (Len(s) + k) - (Len(s) + j)
      BY <2>2, <3>1 DEF Steady
    <3>3. Place(t[j]) \in Int /\ Place(t[k]) \in Int
      <4>1. t[j] \in Events /\ t[k] \in Events
        OBVIOUS
      <4> QED BY <4>1, PlaceInt
    <3> QED BY <3>2, <3>3, JoinedAt
  <2> QED BY <2>1, <2>2 DEF Steady
<1> QED BY <1>1, <1>2

LEMMA RestUpTo ==
  ASSUME NEW s \in Seq(Events), NEW t \in Seq(Events), NEW x, UpTo(s \o t, x)
  PROVE  UpTo(t, x)
<1> DEFINE u == s \o t
<1>1. ASSUME NEW k \in DOMAIN t, IsFrame(t[k]) PROVE Place(t[k]) + Len(t) - k = x
  <2>1. Len(s) + k \in DOMAIN u /\ u[Len(s) + k] = t[k] /\ Len(u) = Len(s) + Len(t)
    BY JoinedAt
  <2>2. Place(t[k]) + (Len(s) + Len(t)) - (Len(s) + k) = x
    BY <1>1, <2>1 DEF UpTo
  <2>3. Place(t[k]) \in Int
    <3>1. t[k] \in Events
      OBVIOUS
    <3> QED BY <3>1, PlaceInt
  <2> QED BY <2>2, <2>3, JoinedAt
<1> QED BY <1>1 DEF UpTo

LEMMA NoFrameSteady ==
  ASSUME NEW s, NEW p, NEW x, \A k \in DOMAIN s : ~IsFrame(s[k])
  PROVE  Steady(s, p) /\ UpTo(s, x)
BY DEF Steady, UpTo

(* What is sent on goes on from where the stream is.                       *)
LEMMA JoinedSteady ==
  ASSUME NEW s \in Seq(Events), NEW t \in Seq(Events), NEW p, NEW x \in Int,
         Steady(s, p), UpTo(s, x), \A k \in DOMAIN t : IsFrame(t[k]) => t[k].session = p,
         \A k \in DOMAIN t : IsFrame(t[k]) => Place(t[k]) = x + k
  PROVE  Steady(s \o t, p) /\ UpTo(s \o t, x + Len(t))
<1> DEFINE u == s \o t
<1>1. ASSUME NEW k \in DOMAIN u, IsFrame(u[k])
      PROVE  u[k].session = p /\ Place(u[k]) = x + k - Len(s)
  <2>1. CASE k \in 1 .. Len(s)
    <3>1. k \in DOMAIN s /\ u[k] = s[k] /\ s[k] \in Events /\ k \in Int /\ Len(s) \in Int
      BY <2>1, JoinedAt
    <3>2. Place(s[k]) + Len(s) - k = x /\ Place(s[k]) \in Int
      BY <1>1, <3>1, PlaceInt DEF UpTo
    <3>3. Place(s[k]) = x + k - Len(s)
      BY <3>1, <3>2
    <3> QED BY <1>1, <3>1, <3>3 DEF Steady
  <2>2. CASE k - Len(s) \in 1 .. Len(t)
    <3>1. k - Len(s) \in DOMAIN t /\ u[k] = t[k - Len(s)] /\ k \in Int /\ Len(s) \in Int
      BY <2>2, JoinedAt
    <3>2. t[k - Len(s)].session = p /\ Place(t[k - Len(s)]) = x + (k - Len(s))
      BY <1>1, <3>1
    <3> QED BY <3>1, <3>2
  <2> QED BY <2>1, <2>2, JoinedAt
<1>2. Steady(u, p)
  <2>1. ASSUME NEW j \in DOMAIN u, NEW k \in DOMAIN u, IsFrame(u[j]), IsFrame(u[k])
        PROVE  Place(u[k]) = Place(u[j]) + k - j
    <3>1. Place(u[j]) = x + j - Len(s) /\ Place(u[k]) = x + k - Len(s)
      BY <1>1, <2>1
    <3>2. j \in Int /\ k \in Int /\ Len(s) \in Int
      BY JoinedAt
    <3> QED BY <3>1, <3>2
  <2> QED BY <1>1, <2>1 DEF Steady
<1>3. UpTo(u, x + Len(t))
  <2>1. ASSUME NEW k \in DOMAIN u, IsFrame(u[k]) PROVE Place(u[k]) + Len(u) - k = x + Len(t)
    <3>1. Place(u[k]) = x + k - Len(s)
      BY <1>1, <2>1
    <3>2. k \in Int /\ Len(s) \in Int /\ Len(t) \in Int /\ Len(u) = Len(s) + Len(t)
      BY JoinedAt
    <3> QED BY <3>1, <3>2
  <2> QED BY <2>1 DEF UpTo
<1> QED BY <1>2, <1>3

(* What is no frame changes nothing.                                       *)
LEMMA JoinedQuiet ==
  ASSUME NEW s \in Seq(Events), NEW t \in Seq(Events), NEW p, Steady(s, p),
         \A k \in DOMAIN t : ~IsFrame(t[k])
  PROVE  Steady(s \o t, p)
<1> DEFINE u == s \o t
<1>1. ASSUME NEW k \in DOMAIN u, IsFrame(u[k]) PROVE k \in DOMAIN s /\ u[k] = s[k]
  <2>1. CASE k \in 1 .. Len(s)
    BY <2>1, JoinedAt
  <2>2. CASE k - Len(s) \in 1 .. Len(t)
    <3>1. k - Len(s) \in DOMAIN t /\ u[k] = t[k - Len(s)]
      BY <2>2, JoinedAt
    <3> QED BY <1>1, <3>1
  <2> QED BY <2>1, <2>2, JoinedAt
<1>2. ASSUME NEW k \in DOMAIN u, IsFrame(u[k]) PROVE u[k].session = p
  BY <1>1, <1>2 DEF Steady
<1>3. ASSUME NEW j \in DOMAIN u, NEW k \in DOMAIN u, IsFrame(u[j]), IsFrame(u[k])
      PROVE  Place(u[k]) = Place(u[j]) + k - j
  <2>1. k \in DOMAIN s /\ u[k] = s[k] /\ j \in DOMAIN s /\ u[j] = s[j]
    BY <1>1, <1>3
  <2> QED BY <1>3, <2>1 DEF Steady
<1> QED BY <1>2, <1>3 DEF Steady

(* The three frames of a turn, the urgent one first.                       *)
LEMMA FlushedFrames ==
  ASSUME NEW p \in Pipes, NEW turn \in Nat
  PROVE  /\ flushed(p, turn) \in Seq(Events) /\ Len(flushed(p, turn)) = 3
         /\ \A k \in 1 .. 3 : /\ IsFrame(flushed(p, turn)[k])
                              /\ flushed(p, turn)[k].session = p
                              /\ Place(flushed(p, turn)[k]) = 3 * turn - 1 + k
<1> DEFINE first == Frame(p, 2 * turn, FALSE)
           urgent == Frame(p, turn, TRUE)
           last == Frame(p, 2 * turn + 1, FALSE)
<1>0. /\ ~first.urgent /\ first.index = 2 * turn
      /\ urgent.urgent /\ urgent.index = turn
      /\ ~last.urgent /\ last.index = 2 * turn + 1
  BY DEF Frame
<1>3. p \in 0 .. MaxPipes /\ 2 * turn \in Nat /\ 2 * turn + 1 \in Nat
  BY BridgedSessionsAssumption DEF Pipes
<1>4. first \in Events /\ urgent \in Events /\ last \in Events
  BY <1>3 DEF Events, Frame, Kinds
<1>10. /\ IsFrame(urgent) /\ urgent.session = p
       /\ IsFrame(first) /\ first.session = p
       /\ IsFrame(last) /\ last.session = p
  BY DEF IsFrame, Frame
<1> HIDE DEF first, urgent, last
<1>1. flushed(p, turn) = <<urgent>> \o <<first, last>>
  <2>1. enqueue(NoFrames, first) = [urgent |-> <<>>, normal |-> <<first>>]
    <3>1. enqueue(NoFrames, first) = [NoFrames EXCEPT !.normal = Append(@, first)]
      BY <1>0 DEF enqueue
    <3> QED BY <3>1 DEF NoFrames
  <2>2. enqueue([urgent |-> <<>>, normal |-> <<first>>], urgent)
        = [urgent |-> <<urgent>>, normal |-> <<first>>]
    BY <1>0 DEF enqueue
  <2>3. enqueue([urgent |-> <<urgent>>, normal |-> <<first>>], last)
        = [urgent |-> <<urgent>>, normal |-> <<first, last>>]
    BY <1>0 DEF enqueue
  <2>4. flushed(p, turn) = dequeued(enqueue(enqueue(enqueue(NoFrames, first), urgent), last))
    BY DEF flushed, first, urgent, last
  <2>5. flushed(p, turn) = dequeued([urgent |-> <<urgent>>, normal |-> <<first, last>>])
    BY <2>1, <2>2, <2>3, <2>4
  <2> QED BY <2>5 DEF dequeued
<1>5. Place(urgent) = 3 * turn
  BY <1>0 DEF Place
<1>6. (2 * turn) \div 2 = turn /\ (2 * turn) % 2 = 0
  OBVIOUS
<1>7. (2 * turn + 1) \div 2 = turn /\ (2 * turn + 1) % 2 = 1
  OBVIOUS
<1>8. Place(first) = 3 * turn + 1
  <2>1. Place(first) = 3 * ((2 * turn) \div 2) + ((2 * turn) % 2) + 1
    BY <1>0 DEF Place
  <2> QED BY <1>6, <2>1
<1>9. Place(last) = 3 * turn + 2
  <2>1. Place(last) = 3 * ((2 * turn + 1) \div 2) + ((2 * turn + 1) % 2) + 1
    BY <1>0 DEF Place
  <2> QED BY <1>7, <2>1
<1> DEFINE s == <<urgent>> \o <<first, last>>
<1>11. s \in Seq(Events) /\ Len(s) = 3 /\ s[1] = urgent /\ s[2] = first /\ s[3] = last
  <2>1. <<urgent>> \in Seq(Events) /\ <<first, last>> \in Seq(Events)
    BY <1>4
  <2>2. Len(<<urgent>>) = 1 /\ Len(<<first, last>>) = 2
    OBVIOUS
  <2>3. /\ \A k \in 1 .. 1 : s[k] = <<urgent>>[k]
        /\ \A k \in 1 .. 2 : s[1 + k] = <<first, last>>[k]
        /\ s \in Seq(Events) /\ Len(s) = 1 + 2
    BY <2>1, <2>2, JoinedAt
  <2>4. s[1] = urgent
    BY <2>3
  <2>5. s[1 + 1] = first /\ s[1 + 2] = last
    BY <2>3
  <2> QED BY <2>3, <2>4, <2>5
<1> HIDE DEF s
<1>12. ASSUME NEW k \in 1 .. 3
       PROVE  IsFrame(s[k]) /\ s[k].session = p /\ Place(s[k]) = 3 * turn - 1 + k
  <2>1. k = 1 \/ k = 2 \/ k = 3
    OBVIOUS
  <2>2. CASE k = 1
    BY <2>2, <1>5, <1>10, <1>11
  <2>3. CASE k = 2
    BY <2>3, <1>8, <1>10, <1>11
  <2>4. CASE k = 3
    BY <2>4, <1>9, <1>10, <1>11
  <2> QED BY <2>1, <2>2, <2>3, <2>4
<1> QED BY <1>1, <1>11, <1>12 DEF s
-----------------------------------------------------------------------------
(* What can happen at one end, e at n, of a pipe whose other end is f, at  *)
(* o: each lemma is of one thing, after which e is x and f is y.           *)
Meet(g, n, o, p, e, f, asked) == EndOK(g, n, p, e, f, asked) /\ EndOK(g, o, p, f, e, asked)

Between(g, n, o) == g \in PipeStates /\ n # o /\ g.from \in {n, o}

LEMMA RestOf ==
  ASSUME NEW s \in Seq(Events), NEW t \in Seq(Events), NEW d, d = s \o t
  PROVE  /\ \A T : Only(d, T) => Only(t, T)
         /\ \A k : Carries(t, k) => Carries(d, k)
         /\ \A k : Carries(d, k) => Carries(s, k) \/ Carries(t, k)
         /\ Lined(d) => Lined(t)
         /\ \A p : Steady(d, p) => Steady(t, p)
         /\ \A q : UpTo(d, q) => UpTo(t, q)
         /\ t # <<>> => d # <<>> /\ d[Len(d)] = t[Len(t)]
<1>1. t # <<>> => d # <<>> /\ d[Len(d)] = t[Len(t)]
  <2> SUFFICES ASSUME t # <<>> PROVE d # <<>> /\ d[Len(d)] = t[Len(t)]
    OBVIOUS
  <2>1. Len(t) \in 1 .. Len(t)
    OBVIOUS
  <2>2. Len(d) = Len(s) + Len(t)
    BY JoinedAt
  <2>3. d[Len(s) + Len(t)] = t[Len(t)]
    BY <2>1, JoinedAt
  <2>4. Len(d) # 0
    BY <2>1, <2>2, JoinedAt
  <2> QED BY <2>2, <2>3, <2>4
<1> QED BY <1>1, JoinedOnly, JoinedCarries, JoinedLined, PartsSteady, RestUpTo

LEMMA DueRest ==
  ASSUME NEW e \in EndType, NEW x \in EndType, NEW s \in Seq(Events), NEW p,
         e.due = s \o x.due
  PROVE  /\ \A T : Only(e.due, T) => Only(x.due, T)
         /\ \A k : Carries(x.due, k) => Carries(e.due, k)
         /\ \A k : Carries(e.due, k) => Carries(s, k) \/ Carries(x.due, k)
         /\ Lined(e.due) => Lined(x.due)
         /\ Steady(Stream(e), p) => Steady(x.due, p)
         /\ \A q : UpTo(Stream(e), q) => UpTo(x.due, q)
         /\ x.due # <<>> => e.due # <<>> /\ e.due[Len(e.due)] = x.due[Len(x.due)]
<1>1. e.due \in Seq(Events) /\ x.due \in Seq(Events) /\ e.heard \in Seq(Events)
  BY DEF EndType
<1> DEFINE d == e.due
           t == x.due
<1>2. d = s \o t /\ t \in Seq(Events) /\ d \in Seq(Events)
  BY <1>1
<1>3. Steady(Stream(e), p) => Steady(d, p)
  BY <1>1, PartsSteady DEF Stream
<1>4. \A q : UpTo(Stream(e), q) => UpTo(d, q)
  BY <1>1, RestUpTo DEF Stream
<1> HIDE DEF d, t
<1>5. /\ \A T : Only(d, T) => Only(t, T)
      /\ \A k : Carries(t, k) => Carries(d, k)
      /\ \A k : Carries(d, k) => Carries(s, k) \/ Carries(t, k)
      /\ Lined(d) => Lined(t)
      /\ \A q : Steady(d, q) => Steady(t, q)
      /\ \A q : UpTo(d, q) => UpTo(t, q)
      /\ t # <<>> => d # <<>> /\ d[Len(d)] = t[Len(t)]
  BY <1>2, RestOf
<1> QED BY <1>3, <1>4, <1>5 DEF d, t

(* A handshake of a dialler ends without a session.                        *)
LEMMA EndQuits ==
  ASSUME NEW g, NEW n, NEW o, NEW p, NEW asked \in BOOLEAN, Between(g, n, o),
         NEW e \in EndType, NEW x \in EndType, NEW f \in EndType,
         Meet(g, n, o, p, e, f, asked), e.task \in {"writeInit", "challenge", "writeAck"},
         e.task = "writeAck" => ~g.open,
         x.task = "over", x.reader = e.reader, x.due = e.due, x.session = e.session,
         x.heard = e.heard, x.sent = e.sent
  PROVE  Meet(g, n, o, p, x, f, asked)
<1>0. g.from = n /\ g.from # o /\ e.session = "none"
  BY DEF Between, Meet, EndOK, Role, AcceptTasks, SessionOf, EndType, Sessional
<1>1. Ending(g, p, x)
  BY DEF Meet, EndOK, Ending
<1>2. Role(g, n, x)
  BY <1>0 DEF Meet, EndOK, Role, DialTasks
<1>3. Lined(x.due) /\ SessionOf(x) /\ Beginning(g, n, p, x)
  BY <1>0 DEF Meet, EndOK, SessionOf, Beginning
<1>4. Meeting(g, n, x, f)
  BY <1>0 DEF Meeting
<1>5. Agreement(g, n, x, f, asked)
  BY <1>0 DEF Agreement
<1>6. Streaming(g, p, x, f)
  BY DEF Meet, EndOK, Streaming, Stream
<1>7. Meeting(g, o, f, x)
  BY <1>0 DEF Meet, EndOK, Meeting
<1>8. Agreement(g, o, f, x, asked)
  <2>1. CASE e.task = "writeAck"
    BY <2>1 DEF Agreement
  <2>2. CASE e.task # "writeAck"
    <3>1. Only(f.due, {"inbound", "init", "closed"}) /\ f.session # "active"
      BY <1>0, <2>2 DEF Meet, EndOK, Meeting
    <3>2. ~Carries(f.due, "ack")
      BY <3>1 DEF Only, Carries
    <3> QED BY <1>0, <3>1, <3>2 DEF Meet, EndOK, Agreement
  <2> QED BY <2>1, <2>2
<1>9. Streaming(g, p, f, x)
  BY DEF Meet, EndOK, Streaming
<1> QED BY <1>1, <1>2, <1>3, <1>4, <1>5, <1>6, <1>7, <1>8, <1>9 DEF Meet, EndOK

(* An end is torn down: its channel goes, with what it had buffered.       *)
LEMMA EndDrops ==
  ASSUME NEW g, NEW n, NEW o, NEW p, NEW asked \in BOOLEAN, NEW later \in BOOLEAN, Between(g, n, o),
         NEW e \in EndType, NEW x \in EndType, NEW f \in EndType, NEW s \in Seq(Events),
         Meet(g, n, o, p, e, f, asked), asked => later, g.open => later,
         e.due = s \o x.due, ~Carries(s, "inbound"), x.reader # p,
         x.task = e.task \/ (x.task = "over" /\ e.task # "none"),
         x.session = IF e.session = "active" THEN "closed" ELSE e.session,
         x.heard = e.heard, x.sent = e.sent
  PROVE  Meet(g, n, o, p, x, f, later)
<1>r. /\ \A T : Only(e.due, T) => Only(x.due, T)
      /\ \A k : Carries(x.due, k) => Carries(e.due, k)
      /\ Carries(e.due, "inbound") => Carries(x.due, "inbound")
      /\ Lined(e.due) => Lined(x.due)
      /\ Steady(Stream(e), p) => Steady(x.due, p)
      /\ \A q : UpTo(Stream(e), q) => UpTo(x.due, q)
      /\ x.due # <<>> => e.due # <<>> /\ e.due[Len(e.due)] = x.due[Len(x.due)]
  BY DueRest
<1>1. Ending(g, p, x)
  BY <1>r DEF Meet, EndOK, Ending
<1>2. Role(g, n, x)
  BY <1>r DEF Meet, EndOK, Role, DialTasks, AcceptTasks
<1>3. Lined(x.due) /\ SessionOf(x)
  BY <1>r DEF Meet, EndOK, SessionOf
<1>4. Beginning(g, n, p, x)
  <2>1. x.task = "none" <=> e.task = "none"
    OBVIOUS
  <2>2. Carries(x.due, "inbound") <=> Carries(e.due, "inbound")
    BY <1>r
  <2> QED BY <2>1, <2>2 DEF Meet, EndOK, Beginning
<1>5. Meeting(g, n, x, f)
  BY <1>r DEF Meet, EndOK, Meeting
<1>6. Agreement(g, n, x, f, later) /\ Agreement(g, o, f, x, later)
  BY DEF Agreement
<1>7. Streaming(g, p, x, f)
  <2>1. x.session # "active" /\ Stream(x) = x.due
    BY DEF Stream
  <2> QED BY <1>r, <2>1 DEF Meet, EndOK, Streaming
<1>8. Meeting(g, o, f, x)
  BY <1>r DEF Meet, EndOK, Meeting
<1>9. Streaming(g, p, f, x)
  BY DEF Meet, EndOK, Streaming
<1> QED BY <1>1, <1>2, <1>3, <1>4, <1>5, <1>6, <1>7, <1>8, <1>9 DEF Meet, EndOK

(* A pipe is dialled.                                                      *)
LEMMA EndsDialled ==
  ASSUME NEW g, NEW n, NEW o, NEW p, NEW asked \in BOOLEAN, Between(g, n, o), g.from = n, g.open,
         NEW x \in EndType, NEW y \in EndType,
         x.due = <<>>, x.task = "writeInit", x.session = "none", x.heard = <<>>,
         y.due = <<Message("inbound"), Message("init")>>, y.task = "none", y.reader # p,
         y.session = "none", y.heard = <<>>
  PROVE  Meet(g, n, o, p, x, y, asked)
<1>0. g.from # o
  BY DEF Between
<1>1. /\ DOMAIN y.due = 1 .. 2 /\ y.due[1].type = "inbound" /\ y.due[2].type = "init"
      /\ DOMAIN x.due = {} /\ DOMAIN x.heard = {} /\ DOMAIN y.heard = {}
  BY DEF Message
<1>2. \A k \in DOMAIN y.due : k = 1 \/ k = 2
  BY <1>1
<1>3. /\ Only(y.due, {"inbound", "init"}) /\ Carries(y.due, "inbound")
      /\ \A T : Only(x.due, T)
      /\ \A k : ~Carries(x.due, k)
  BY <1>1, <1>2 DEF Only, Carries
<1>4. Lined(x.due) /\ Lined(y.due)
  <2>1. ASSUME NEW j \in DOMAIN y.due, NEW k \in DOMAIN y.due, j < k PROVE j = 1 /\ k = 2
    BY <1>1, <2>1
  <2>2. "inbound" \in Earlier("init")
    BY DEF Earlier
  <2> QED BY <1>1, <2>1, <2>2 DEF Lined
<1>5. /\ \A q : Steady(x.due, q) /\ Steady(y.due, q) /\ Steady(x.heard, q) /\ Steady(y.heard, q)
      /\ \A q : UpTo(x.due, q) /\ UpTo(y.due, q)
  <2>1. \A k \in DOMAIN y.due : ~IsFrame(y.due[k])
    BY <1>1, <1>2 DEF IsFrame
  <2> QED BY <1>1, <2>1, NoFrameSteady
<1>6. Streaming(g, p, x, y) /\ Streaming(g, p, y, x)
  BY <1>1, <1>5 DEF Streaming, Stream
<1>7. ~Carries(y.due, "closed") /\ ~Carries(y.due, "ack") /\ Only(y.due, AcceptHears)
      /\ Only(y.due, {"inbound", "init", "closed"})
  BY <1>3 DEF Only, Carries, AcceptHears
<1>8. Ending(g, p, x) /\ Ending(g, p, y)
  BY <1>3, <1>7 DEF Ending
<1>9. Role(g, n, x) /\ Role(g, o, y)
  BY <1>0, <1>3, <1>7 DEF Role, DialTasks, AcceptTasks
<1>10. /\ SessionOf(x) /\ SessionOf(y)
       /\ Beginning(g, n, p, x) /\ Beginning(g, o, p, y)
  BY <1>0, <1>3 DEF SessionOf, Beginning
<1>11. Meeting(g, n, x, y) /\ Meeting(g, o, y, x)
  BY <1>0, <1>3, <1>7 DEF Meeting
<1>12. Agreement(g, n, x, y, asked) /\ Agreement(g, o, y, x, asked)
  BY <1>0, <1>7 DEF Agreement
<1> QED BY <1>4, <1>6, <1>8, <1>9, <1>10, <1>11, <1>12 DEF Meet, EndOK

(* An accepter takes the beginning of the pipe.                            *)
LEMMA EndBegins ==
  ASSUME NEW g, NEW n, NEW o, NEW p, NEW asked \in BOOLEAN, NEW later \in BOOLEAN, asked => later,
         Between(g, n, o),
         NEW e \in EndType, NEW x \in EndType, NEW f \in EndType, NEW b \in Events,
         Meet(g, n, o, p, e, f, asked), b.type = "inbound",
         e.due = <<b>> \o x.due, x.task = "init", x.session = e.session,
         x.heard = e.heard, x.sent = e.sent
  PROVE  Meet(g, n, o, p, x, f, later)
<1>0. <<b>> \in Seq(Events) /\ DOMAIN <<b>> = {1} /\ <<b>>[1] = b
  OBVIOUS
<1>r. /\ \A T : Only(e.due, T) => Only(x.due, T)
      /\ \A k : Carries(x.due, k) => Carries(e.due, k)
      /\ Lined(e.due) => Lined(x.due)
      /\ Steady(Stream(e), p) => Steady(x.due, p)
      /\ \A q : UpTo(Stream(e), q) => UpTo(x.due, q)
      /\ x.due # <<>> => e.due # <<>> /\ e.due[Len(e.due)] = x.due[Len(x.due)]
  BY <1>0, DueRest
<1>1. Carries(e.due, "inbound")
  <2>1. Carries(<<b>>, "inbound")
    BY <1>0 DEF Carries
  <2>2. x.due \in Seq(Events)
    BY DEF EndType
  <2>3. Carries(<<b>> \o x.due, "inbound")
    BY <1>0, <2>1, <2>2, JoinedCarries
  <2> QED BY <2>3
<1>2. g.from # n /\ g.from = o /\ e.task = "none" /\ e.session = "none" /\ e.heard = <<>>
  <2>1. Only(e.due, DialHears) => FALSE
    BY <1>1, OnlyCarries DEF DialHears
  <2>2. g.from # n
    BY <2>1 DEF Meet, EndOK, Role
  <2>3. e.task = "none"
    BY <1>1, <2>2 DEF Meet, EndOK, Beginning
  <2> QED BY <2>2, <2>3 DEF Between, Meet, EndOK, SessionOf
<1>3. ~Carries(x.due, "inbound")
  <2>1. Follows(<<b>>, x.due)
    BY <1>0, JoinedLined DEF Meet, EndOK, EndType
  <2>2. ASSUME NEW k \in DOMAIN x.due, x.due[k].type = "inbound" PROVE FALSE
    <3>1. b.type \in Earlier("inbound")
      BY <1>0, <2>1, <2>2 DEF Follows
    <3> QED BY <3>1 DEF Earlier
  <2> QED BY <2>2 DEF Carries
<1>4. Ending(g, p, x)
  <2>1. ASSUME ~g.open PROVE x.due # <<>>
    <3>1. e.due # <<>>
      BY <1>1 DEF Carries
    <3>2. e.due[Len(e.due)].type = "closed"
      BY <2>1, <3>1 DEF Meet, EndOK, Ending
    <3>3. x.due = <<>> => e.due = <<b>>
      OBVIOUS
    <3>4. x.due = <<>> => e.due[Len(e.due)] = b
      BY <1>0, <3>3
    <3> QED BY <3>2, <3>4
  <2> QED BY <1>r, <2>1 DEF Meet, EndOK, Ending
<1>5. Role(g, n, x)
  BY <1>2, <1>r DEF Meet, EndOK, Role, AcceptTasks
<1>6. Lined(x.due) /\ SessionOf(x) /\ Beginning(g, n, p, x)
  BY <1>2, <1>3, <1>r DEF Meet, EndOK, SessionOf, Beginning
<1>7. Meeting(g, n, x, f)
  BY <1>2 DEF Meet, EndOK, Meeting
<1>8. Agreement(g, n, x, f, later)
  BY <1>2, <1>r DEF Meet, EndOK, Agreement
<1>9. Streaming(g, p, x, f)
  BY <1>2, <1>r DEF Meet, EndOK, Streaming, Stream
<1>10. Meeting(g, o, f, x)
  BY <1>2, <1>r DEF Meet, EndOK, Meeting
<1>11. Agreement(g, o, f, x, later) /\ Streaming(g, p, f, x)
  BY <1>2 DEF Meet, EndOK, Agreement, Streaming
<1> QED BY <1>4, <1>5, <1>6, <1>7, <1>8, <1>9, <1>10, <1>11 DEF Meet, EndOK

(* A message has been written: the next is waited for.                     *)
LEMMA EndWrote ==
  ASSUME NEW g, NEW n, NEW o, NEW p, NEW asked \in BOOLEAN, Between(g, n, o),
         NEW e \in EndType, NEW x \in EndType, NEW f \in EndType,
         Meet(g, n, o, p, e, f, asked),
         \/ e.task = "writeInit" /\ x.task = "challenge"
         \/ e.task = "writeChallenge" /\ x.task = "ack",
         x.reader = e.reader, x.due = e.due, x.session = e.session,
         x.heard = e.heard, x.sent = e.sent
  PROVE  Meet(g, n, o, p, x, f, asked)
<1>1. Ending(g, p, x) /\ Lined(x.due)
  BY DEF Meet, EndOK, Ending
<1>2. Role(g, n, x)
  BY DEF Meet, EndOK, Role, DialTasks, AcceptTasks
<1>3. SessionOf(x) /\ x.session = "none" /\ Beginning(g, n, p, x)
  BY DEF Meet, EndOK, SessionOf, Beginning, EndType, Sessional
<1>4. Meeting(g, n, x, f) /\ Meeting(g, o, f, x)
  BY DEF Meet, EndOK, Meeting
<1>5. Agreement(g, n, x, f, asked) /\ Agreement(g, o, f, x, asked)
  BY DEF Meet, EndOK, Agreement
<1>6. Streaming(g, p, x, f) /\ Streaming(g, p, f, x)
  BY DEF Meet, EndOK, Streaming, Stream
<1> QED BY <1>1, <1>2, <1>3, <1>4, <1>5, <1>6 DEF Meet, EndOK

(* Where the end of a pipe has been reported, something is still to come   *)
(* as long as it has not been taken.                                       *)
LEMMA StillToCome ==
  ASSUME NEW g, NEW p, NEW e \in EndType, NEW x \in EndType, NEW s \in Seq(Events),
         e.due = s \o x.due, ~Carries(s, "closed"), Ending(g, p, e),
         e.reader = p \/ x.reader # p
  PROVE  Ending(g, p, x)
<1>r. /\ \A k : Carries(x.due, k) => Carries(e.due, k)
      /\ \A k : Carries(e.due, k) => Carries(s, k) \/ Carries(x.due, k)
      /\ x.due # <<>> => e.due # <<>> /\ e.due[Len(e.due)] = x.due[Len(x.due)]
  BY DueRest
<1>1. ASSUME ~g.open, e.due # <<>> PROVE x.due # <<>>
  <2>1. e.due[Len(e.due)].type = "closed"
    BY <1>1 DEF Ending
  <2>2. e.due \in Seq(Events)
    BY DEF EndType
  <2>3. Len(e.due) \in DOMAIN e.due
    BY <1>1, <2>2
  <2>4. Carries(e.due, "closed")
    BY <2>1, <2>3 DEF Carries
  <2>5. Carries(x.due, "closed")
    BY <1>r, <2>4
  <2> QED BY <2>5 DEF Carries
<1> QED BY <1>r, <1>1 DEF Ending

(* The dialler has written its acknowledgement: its session begins, and    *)
(* what its reader held is emitted.                                        *)
LEMMA EndEstablishes ==
  ASSUME NEW g, NEW n, NEW o, NEW p, NEW asked \in BOOLEAN, Between(g, n, o),
         NEW e \in EndType, NEW x \in EndType, NEW f \in EndType, NEW s \in Seq(Events),
         Meet(g, n, o, p, e, f, asked), e.task = "writeAck", e.reader = p,
         e.due = s \o x.due, ~Carries(s, "closed"), x.task = "over", x.session = "active",
         x.heard = e.heard, x.sent = e.sent
  PROVE  Meet(g, n, o, p, x, f, asked)
<1>r. /\ \A T : Only(e.due, T) => Only(x.due, T)
      /\ Lined(e.due) => Lined(x.due)
      /\ Steady(Stream(e), p) => Steady(x.due, p)
      /\ \A q : UpTo(Stream(e), q) => UpTo(x.due, q)
  BY DueRest
<1>1. g.from = n /\ g.from # o /\ e.session = "none" /\ x.heard = <<>>
  BY DEF Between, Meet, EndOK, Role, AcceptTasks, SessionOf, EndType, Sessional
<1>2. Ending(g, p, x)
  BY StillToCome DEF Meet, EndOK
<1>3. Role(g, n, x)
  BY <1>1, <1>r DEF Meet, EndOK, Role, DialTasks
<1>4. Lined(x.due) /\ SessionOf(x) /\ Beginning(g, n, p, x)
  BY <1>1, <1>r DEF Meet, EndOK, SessionOf, Beginning
<1>5. Meeting(g, n, x, f)
  BY <1>1, <1>r DEF Meet, EndOK, Meeting
<1>6. Agreement(g, n, x, f, asked)
  BY <1>1 DEF Agreement
<1>7. Streaming(g, p, x, f)
  <2>1. Stream(x) = x.due
    <3>1. x.due \in Seq(Events)
      BY DEF EndType
    <3>2. <<>> \o x.due = x.due
      BY <3>1
    <3> QED BY <1>1, <3>2 DEF Stream
  <2> QED BY <1>1, <1>r, <2>1 DEF Meet, EndOK, Streaming
<1>8. Meeting(g, o, f, x)
  BY <1>1, <1>r DEF Meet, EndOK, Meeting
<1>9. Agreement(g, o, f, x, asked) /\ Streaming(g, p, f, x)
  BY <1>1 DEF Meet, EndOK, Agreement, Streaming
<1> QED BY <1>2, <1>3, <1>4, <1>5, <1>6, <1>7, <1>8, <1>9 DEF Meet, EndOK

(* The accepter takes the acknowledgement: its session begins.             *)
LEMMA EndAcknowledged ==
  ASSUME NEW g, NEW n, NEW o, NEW p, NEW asked \in BOOLEAN, Between(g, n, o),
         NEW e \in EndType, NEW x \in EndType, NEW f \in EndType,
         NEW b \in Events, NEW r \in Seq(Events),
         Meet(g, n, o, p, e, f, asked), e.task = "ack", e.reader = p, b.type = "ack",
         e.due = (<<b>> \o r) \o x.due, ~Carries(r, "closed"), x.task = "over",
         x.session = "active", x.heard = e.heard, x.sent = e.sent
  PROVE  Meet(g, n, o, p, x, f, asked)
<1> DEFINE s == <<b>> \o r
<1>s. /\ s \in Seq(Events) /\ 1 \in DOMAIN s /\ s[1] = b /\ ~Carries(s, "closed")
      /\ Carries(s, "ack")
  <2>1. <<b>> \in Seq(Events) /\ DOMAIN <<b>> = {1} /\ <<b>>[1] = b
    OBVIOUS
  <2>2. ~Carries(<<b>>, "closed") /\ Carries(<<b>>, "ack")
    BY <2>1 DEF Carries
  <2>3. ~Carries(s, "closed") /\ Carries(s, "ack")
    BY <2>1, <2>2, JoinedCarries
  <2>4. s \in Seq(Events) /\ 1 \in DOMAIN s /\ s[1] = b
    BY <2>1, JoinedAt
  <2> QED BY <2>3, <2>4
<1>d. e.due = s \o x.due
  OBVIOUS
<1> HIDE DEF s
<1>t. x.due \in Seq(Events) /\ e.due \in Seq(Events)
  BY DEF EndType
<1>r. /\ \A T : Only(e.due, T) => Only(x.due, T)
      /\ \A k : Carries(x.due, k) => Carries(e.due, k)
      /\ Lined(e.due) => Lined(x.due)
      /\ Steady(Stream(e), p) => Steady(x.due, p)
      /\ \A q : UpTo(Stream(e), q) => UpTo(x.due, q)
  BY <1>s, <1>d, DueRest
<1>1. g.from # n /\ g.from = o /\ e.session = "none" /\ x.heard = <<>>
  BY DEF Between, Meet, EndOK, Role, DialTasks, SessionOf, EndType, Sessional
<1>2. Carries(e.due, "ack")
  <2>1. Carries(s \o x.due, "ack")
    BY <1>s, <1>t, JoinedCarries
  <2> QED BY <1>d, <2>1
<1>3. Only(x.due, {"frame", "closed"})
  <2>1. Follows(s, x.due)
    BY <1>s, <1>d, <1>t, JoinedLined DEF Meet, EndOK
  <2>2. Only(x.due, AcceptHears)
    BY <1>1, <1>r DEF Meet, EndOK, Role
  <2>3. ASSUME NEW k \in DOMAIN x.due PROVE x.due[k].type \in {"frame", "closed"}
    <3>1. "ack" \in Earlier(x.due[k].type) /\ x.due[k].type \in AcceptHears
      BY <1>s, <2>1, <2>2 DEF Follows, Only
    <3> QED BY <3>1 DEF Earlier, AcceptHears
  <2> QED BY <2>3 DEF Only
<1>4. Ending(g, p, x)
  BY <1>s, <1>d, StillToCome DEF Meet, EndOK
<1>5. Role(g, n, x)
  BY <1>1, <1>r DEF Meet, EndOK, Role, AcceptTasks
<1>6. Lined(x.due) /\ SessionOf(x) /\ Beginning(g, n, p, x)
  BY <1>1, <1>r DEF Meet, EndOK, SessionOf, Beginning
<1>7. Meeting(g, n, x, f)
  BY <1>1, <1>3 DEF Meeting
<1>8. Agreement(g, n, x, f, asked)
  BY <1>1, <1>2 DEF Meet, EndOK, Agreement
<1>9. Streaming(g, p, x, f)
  <2>1. Stream(x) = x.due
    <3>1. <<>> \o x.due = x.due
      BY <1>t
    <3> QED BY <1>1, <3>1 DEF Stream
  <2> QED BY <1>1, <1>r, <2>1 DEF Meet, EndOK, Streaming
<1>10. Meeting(g, o, f, x)
  <2>1. f.task \notin {"writeInit", "challenge"}
    <3>1. ~Only(e.due, {"inbound", "init", "closed"})
      BY <1>2, OnlyCarries
    <3> QED BY <1>1, <3>1 DEF Meet, EndOK, Meeting
  <2> QED BY <1>1, <2>1 DEF Meet, EndOK, Meeting
<1>11. Agreement(g, o, f, x, asked) /\ Streaming(g, p, f, x)
  BY <1>1 DEF Meet, EndOK, Agreement, Streaming
<1> QED BY <1>4, <1>5, <1>6, <1>7, <1>8, <1>9, <1>10, <1>11 DEF Meet, EndOK
(* An accepter takes the first message, and writes its challenge to the    *)
(* other end as long as the pipe is open.                                  *)
LEMMA EndsChallenge ==
  ASSUME NEW g, NEW n, NEW o, NEW p, NEW asked \in BOOLEAN, Between(g, n, o),
         NEW e \in EndType, NEW x \in EndType, NEW f \in EndType, NEW y \in EndType,
         NEW b \in Events, Meet(g, n, o, p, e, f, asked),
         e.task = "init", e.reader = p, b.type = "init", e.due = <<b>> \o x.due,
         x.task = "writeChallenge", x.session = e.session, x.heard = e.heard, x.sent = e.sent,
         y.due = IF g.open THEN f.due \o <<Message("challenge")>> ELSE f.due,
         y.reader = f.reader, y.task = f.task, y.session = f.session, y.heard = f.heard,
         y.sent = f.sent
  PROVE  Meet(g, n, o, p, x, y, asked)
<1>0. <<b>> \in Seq(Events) /\ DOMAIN <<b>> = {1} /\ <<b>>[1] = b /\ 1 \in DOMAIN <<b>>
  OBVIOUS
<1>q. ~Carries(<<b>>, "inbound") /\ ~Carries(<<b>>, "closed")
  BY <1>0 DEF Carries
<1>r. /\ \A T : Only(e.due, T) => Only(x.due, T)
      /\ \A k : Carries(x.due, k) => Carries(e.due, k)
      /\ \A k : Carries(e.due, k) => Carries(<<b>>, k) \/ Carries(x.due, k)
      /\ Lined(e.due) => Lined(x.due)
      /\ Steady(Stream(e), p) => Steady(x.due, p)
      /\ \A q : UpTo(Stream(e), q) => UpTo(x.due, q)
  BY <1>0, DueRest
<1>1. g.from # n /\ g.from = o /\ e.session = "none" /\ e.heard = <<>>
  BY DEF Between, Meet, EndOK, Role, DialTasks, SessionOf, EndType, Sessional
<1>2. Only(f.due, {"closed"}) /\ f.task # "writeAck" /\ f.session # "active"
  BY <1>1 DEF Meet, EndOK, Meeting
<1>3. g.open => f.due = <<>>
  <2>1. f.due \in Seq(Events)
    BY DEF EndType
  <2>2. ASSUME g.open, f.due # <<>> PROVE FALSE
    <3>1. 1 \in DOMAIN f.due
      BY <2>1, <2>2
    <3>2. f.due[1].type = "closed"
      BY <1>2, <3>1 DEF Only
    <3>3. Carries(f.due, "closed")
      BY <3>1, <3>2 DEF Carries
    <3> QED BY <2>2, <3>3 DEF Meet, EndOK, Ending
  <2> QED BY <2>2
<1>4. g.open => y.due = <<Message("challenge")>>
  <2>1. Message("challenge") \in Events
    BY BridgedSessionsAssumption DEF Message, Events, Kinds
  <2>2. <<>> \o <<Message("challenge")>> = <<Message("challenge")>>
    BY <2>1
  <2> QED BY <1>3, <2>2
<1>5. ~g.open => y.due = f.due
  OBVIOUS
<1>6. /\ DOMAIN <<Message("challenge")>> = {1} /\ <<Message("challenge")>>[1].type = "challenge"
  BY DEF Message
<1>7. g.open => /\ Only(y.due, {"challenge"}) /\ Lined(y.due) /\ Steady(y.due, p)
                /\ (\A q : UpTo(y.due, q)) /\ ~Carries(y.due, "closed") /\ ~Carries(y.due, "inbound")
                /\ ~Carries(y.due, "ack")
  <2>1. Only(<<Message("challenge")>>, {"challenge"}) /\ Lined(<<Message("challenge")>>)
    BY <1>6 DEF Only, Lined
  <2>2. \A q : Steady(<<Message("challenge")>>, p) /\ UpTo(<<Message("challenge")>>, q)
    BY <1>6, NoFrameSteady DEF IsFrame
  <2>3. \A k : Carries(<<Message("challenge")>>, k) => k = "challenge"
    BY <1>6 DEF Carries
  <2> QED BY <1>4, <2>1, <2>2, <2>3
<1>8. Ending(g, p, x)
  BY <1>0, <1>q, StillToCome DEF Meet, EndOK
<1>9. Role(g, n, x) /\ Lined(x.due) /\ SessionOf(x)
  BY <1>1, <1>r DEF Meet, EndOK, Role, AcceptTasks, SessionOf
<1>10. Beginning(g, n, p, x)
  BY <1>q, <1>r DEF Meet, EndOK, Beginning
<1>11. Meeting(g, n, x, y)
  BY <1>1 DEF Meeting
<1>12. Agreement(g, n, x, y, asked)
  BY <1>1, <1>r DEF Meet, EndOK, Agreement
<1>13. Streaming(g, p, x, y)
  BY <1>1, <1>r DEF Meet, EndOK, Streaming, Stream
<1>14. Ending(g, p, y)
  BY <1>7 DEF Meet, EndOK, Ending
<1>15. Role(g, o, y)
  <2>1. \A s : Only(s, {"challenge"}) => Only(s, DialHears)
    BY DEF Only, DialHears
  <2> QED BY <1>1, <1>7, <2>1 DEF Meet, EndOK, Role
<1>16. Lined(y.due) /\ SessionOf(y) /\ Beginning(g, o, p, y)
  BY <1>1, <1>7 DEF Meet, EndOK, SessionOf, Beginning
<1>17. Meeting(g, o, y, x)
  <2>1. y.task \notin {"writeAck"} /\ y.session # "active"
    BY <1>2
  <2>2. y.task \in {"writeInit", "challenge"} => Only(e.due, {"inbound", "init", "closed"})
    BY <1>1 DEF Meet, EndOK, Meeting
  <2> QED BY <1>1, <1>r, <2>1, <2>2 DEF Meeting
<1>18. Agreement(g, o, y, x, asked)
  BY <1>1 DEF Agreement
<1>19. Streaming(g, p, y, x)
  <2>1. Stream(y) = y.due
    BY <1>2 DEF Stream
  <2>2. Stream(f) = f.due
    BY <1>2 DEF Stream
  <2> QED BY <1>5, <1>7, <2>1, <2>2 DEF Meet, EndOK, Streaming
<1> QED BY <1>8, <1>9, <1>10, <1>11, <1>12, <1>13, <1>14, <1>15, <1>16, <1>17, <1>18, <1>19
        DEF Meet, EndOK

(* The dialler takes the challenge, and writes its acknowledgement.        *)
LEMMA EndsAck ==
  ASSUME NEW g, NEW n, NEW o, NEW p, NEW asked \in BOOLEAN, Between(g, n, o),
         NEW e \in EndType, NEW x \in EndType, NEW f \in EndType, NEW y \in EndType,
         NEW b \in Events, Meet(g, n, o, p, e, f, asked),
         e.task = "challenge", e.reader = p, b.type = "challenge", e.due = <<b>> \o x.due,
         x.task = "writeAck", x.session = e.session, x.heard = e.heard, x.sent = e.sent,
         y.due = IF g.open THEN f.due \o <<Message("ack")>> ELSE f.due,
         y.reader = f.reader, y.task = f.task, y.session = f.session, y.heard = f.heard,
         y.sent = f.sent
  PROVE  Meet(g, n, o, p, x, y, asked)
<1>0. <<b>> \in Seq(Events) /\ DOMAIN <<b>> = {1} /\ <<b>>[1] = b /\ 1 \in DOMAIN <<b>>
  OBVIOUS
<1>q. ~Carries(<<b>>, "inbound") /\ ~Carries(<<b>>, "closed") /\ Carries(<<b>>, "challenge")
  BY <1>0 DEF Carries
<1>r. /\ \A T : Only(e.due, T) => Only(x.due, T)
      /\ \A k : Carries(x.due, k) => Carries(e.due, k)
      /\ \A k : Carries(e.due, k) => Carries(<<b>>, k) \/ Carries(x.due, k)
      /\ Lined(e.due) => Lined(x.due)
      /\ Steady(Stream(e), p) => Steady(x.due, p)
      /\ \A q : UpTo(Stream(e), q) => UpTo(x.due, q)
  BY <1>0, DueRest
<1>t. x.due \in Seq(Events) /\ e.due \in Seq(Events) /\ f.due \in Seq(Events) /\ y.due \in Seq(Events)
  BY DEF EndType
<1>1. g.from = n /\ g.from # o /\ e.session = "none" /\ e.heard = <<>>
  BY DEF Between, Meet, EndOK, Role, AcceptTasks, SessionOf, EndType, Sessional
<1>2. Only(f.due, {"inbound", "init", "closed"}) /\ f.session # "active"
  BY <1>1 DEF Meet, EndOK, Meeting
<1>c. Carries(e.due, "challenge")
  <2>1. Carries(<<b>> \o x.due, "challenge")
    BY <1>0, <1>q, <1>t, JoinedCarries
  <2> QED BY <2>1
<1>3. f.task \notin {"none", "init"}
  <2>1. ~Only(e.due, {"closed"})
    BY <1>c, OnlyCarries
  <2> QED BY <1>1, <2>1 DEF Meet, EndOK, Meeting
<1>4. Only(x.due, {"frame", "closed"})
  <2>1. Follows(<<b>>, x.due)
    BY <1>0, <1>t, JoinedLined DEF Meet, EndOK
  <2>2. Only(x.due, DialHears)
    BY <1>1, <1>r DEF Meet, EndOK, Role
  <2>3. ASSUME NEW k \in DOMAIN x.due PROVE x.due[k].type \in {"frame", "closed"}
    <3>1. "challenge" \in Earlier(x.due[k].type) /\ x.due[k].type \in DialHears
      BY <1>0, <2>1, <2>2 DEF Follows, Only
    <3> QED BY <3>1 DEF Earlier, DialHears
  <2> QED BY <2>3 DEF Only
<1> DEFINE a == <<Message("ack")>>
<1>5. a \in Seq(Events)
  <2>1. Message("ack") \in Events
    BY BridgedSessionsAssumption DEF Message, Events, Kinds
  <2> QED BY <2>1
<1>6. DOMAIN a = {1} /\ a[1].type = "ack"
  BY DEF Message
<1>y. g.open => y.due = f.due \o a
  OBVIOUS
<1>z. ~g.open => y.due = f.due
  OBVIOUS
<1> HIDE DEF a
<1>7. /\ Only(a, AcceptHears) /\ Lined(a) /\ ~Carries(a, "closed") /\ ~Carries(a, "inbound")
      /\ \A k \in DOMAIN a : ~IsFrame(a[k])
  BY <1>6 DEF Only, AcceptHears, Lined, Carries, IsFrame
<1>8. g.open => Only(f.due, {"inbound", "init"})
  BY <1>2 DEF Meet, EndOK, Ending, Only, Carries
<1>9. g.open => Follows(f.due, a)
  <2>1. "inbound" \in Earlier("ack") /\ "init" \in Earlier("ack")
    BY DEF Earlier
  <2> QED BY <1>6, <1>8, <2>1 DEF Follows, Only
<1>10. Role(g, o, y)
  <2>1. ASSUME g.open PROVE Only(y.due, AcceptHears)
    <3>1. Only(f.due, AcceptHears)
      BY <1>1 DEF Meet, EndOK, Role
    <3>2. Only(f.due \o a, AcceptHears)
      BY <1>5, <1>7, <1>t, <3>1, JoinedOnly
    <3> QED BY <1>y, <2>1, <3>2
  <2> QED BY <1>1, <1>z, <2>1 DEF Meet, EndOK, Role
<1>11. Lined(y.due)
  <2>1. ASSUME g.open PROVE Lined(f.due \o a)
    <3>1. Lined(f.due)
      BY DEF Meet, EndOK
    <3> QED BY <1>5, <1>7, <1>9, <1>t, <2>1, <3>1, JoinedLined
  <2> QED BY <1>y, <1>z, <2>1 DEF Meet, EndOK
<1>12. /\ g.open => ~Carries(y.due, "closed")
       /\ Carries(y.due, "inbound") <=> Carries(f.due, "inbound")
  <2>1. ~Carries(f.due \o a, "closed") <=> ~Carries(f.due, "closed")
    BY <1>5, <1>7, <1>t, JoinedCarries
  <2>2. Carries(f.due \o a, "inbound") <=> Carries(f.due, "inbound")
    BY <1>5, <1>7, <1>t, JoinedCarries
  <2> QED BY <1>y, <1>z, <2>1, <2>2 DEF Meet, EndOK, Ending
<1>13. Ending(g, p, y)
  BY <1>z, <1>12 DEF Meet, EndOK, Ending
<1>14. SessionOf(y) /\ Beginning(g, o, p, y)
  BY <1>12 DEF Meet, EndOK, SessionOf, Beginning
<1>15. Meeting(g, o, y, x)
  <2>1. y.task \notin {"none", "init"} /\ y.session # "active"
    BY <1>2, <1>3
  <2> QED BY <1>1, <2>1 DEF Meeting, Meet, EndOK, Role, AcceptTasks
<1>16. Agreement(g, o, y, x, asked)
  BY DEF Meet, EndOK, Agreement
<1>17. Streaming(g, p, y, x)
  <2>1. Stream(y) = y.due /\ Stream(f) = f.due
    BY <1>2 DEF Stream
  <2>2. Steady(y.due, p)
    <3>1. Steady(f.due, p)
      BY <2>1 DEF Meet, EndOK, Streaming
    <3>2. Steady(f.due \o a, p)
      BY <1>5, <1>7, <1>t, <3>1, JoinedQuiet
    <3> QED BY <1>y, <1>z, <3>1, <3>2
  <2>3. ASSUME g.open PROVE \A q : UpTo(y.due, q)
    <3>1. \A k \in DOMAIN y.due : ~IsFrame(y.due[k])
      <4>1. Only(a, {"inbound", "init", "ack"}) /\ Only(f.due, {"inbound", "init", "ack"})
        BY <1>6, <1>8, <2>3 DEF Only
      <4>2. Only(f.due \o a, {"inbound", "init", "ack"})
        BY <1>5, <1>t, <4>1, JoinedOnly
      <4>3. Only(y.due, {"inbound", "init", "ack"})
        BY <1>y, <2>3, <4>2
      <4> QED BY <4>3 DEF Only, IsFrame
    <3> QED BY <3>1, NoFrameSteady
  <2> QED BY <2>1, <2>2, <2>3 DEF Meet, EndOK, Streaming
<1>18. Ending(g, p, x)
  BY <1>0, <1>q, StillToCome DEF Meet, EndOK
<1>19. Role(g, n, x) /\ Lined(x.due) /\ SessionOf(x) /\ Beginning(g, n, p, x)
  BY <1>1, <1>r DEF Meet, EndOK, Role, DialTasks, SessionOf, Beginning
<1>20. Meeting(g, n, x, y)
  BY <1>1, <1>4 DEF Meeting
<1>21. Agreement(g, n, x, y, asked)
  BY <1>1 DEF Agreement
<1>22. Streaming(g, p, x, y)
  BY <1>1, <1>r DEF Meet, EndOK, Streaming, Stream
<1> QED BY <1>10, <1>11, <1>13, <1>14, <1>15, <1>16, <1>17, <1>18, <1>19, <1>20, <1>21, <1>22
        DEF Meet, EndOK

(* Frames reach the listener of the session.                               *)
LEMMA EndHears ==
  ASSUME NEW g, NEW n, NEW o, NEW p, NEW asked \in BOOLEAN, Between(g, n, o),
         NEW e \in EndType, NEW x \in EndType, NEW f \in EndType, NEW s \in Seq(Events),
         Meet(g, n, o, p, e, f, asked), e.session = "active", e.reader = p,
         e.due = s \o x.due, ~Carries(s, "closed"), x.heard = e.heard \o s,
         x.task = e.task, x.session = e.session, x.sent = e.sent
  PROVE  Meet(g, n, o, p, x, f, asked)
<1>r. /\ \A T : Only(e.due, T) => Only(x.due, T)
      /\ \A k : Carries(x.due, k) => Carries(e.due, k)
      /\ Lined(e.due) => Lined(x.due)
  BY DueRest
<1>t. x.due \in Seq(Events) /\ e.due \in Seq(Events) /\ e.heard \in Seq(Events)
  BY DEF EndType
<1>1. e.task = "over" /\ Only(e.due, {"frame", "closed"})
  BY DEF Meet, EndOK, SessionOf, Meeting
<1>2. \A k \in DOMAIN s : IsFrame(s[k])
  <2>1. Only(s \o x.due, {"frame", "closed"})
    BY <1>1
  <2>2. Only(s, {"frame", "closed"})
    BY <1>t, <2>1, JoinedOnly
  <2> QED BY <2>2 DEF Only, Carries, IsFrame
<1>3. \A k \in DOMAIN x.heard : IsFrame(x.heard[k])
  <2> DEFINE h == e.heard
  <2>0. \A k \in DOMAIN h : IsFrame(h[k])
    BY DEF Meet, EndOK, Streaming
  <2>t. h \in Seq(Events) /\ x.heard = h \o s
    BY <1>t
  <2> HIDE DEF h
  <2>1. ASSUME NEW k \in DOMAIN (h \o s) PROVE IsFrame((h \o s)[k])
    <3>1. CASE k \in 1 .. Len(h)
      BY <2>0, <2>t, <3>1, JoinedAt
    <3>2. CASE k - Len(h) \in 1 .. Len(s)
      <4>1. (h \o s)[k] = s[k - Len(h)]
        BY <2>t, <3>2, JoinedAt
      <4> QED BY <1>2, <3>2, <4>1, JoinedAt
    <3> QED BY <2>t, <3>1, <3>2, JoinedAt
  <2> QED BY <2>t, <2>1
<1>4. Stream(x) = Stream(e)
  <2> DEFINE h == e.heard
             r == x.due
  <2>1. h \in Seq(Events) /\ r \in Seq(Events)
    BY <1>t
  <2>2. Stream(x) = (h \o s) \o r
    BY DEF Stream
  <2>3. Stream(e) = h \o (s \o r)
    BY DEF Stream
  <2> HIDE DEF h, r
  <2>4. (h \o s) \o r = h \o (s \o r)
    BY <2>1
  <2> QED BY <2>2, <2>3, <2>4
<1>5. Steady(x.heard, p)
  <2> DEFINE h == x.heard
             r == x.due
  <2>1. h \in Seq(Events) /\ r \in Seq(Events)
    BY DEF EndType
  <2>2. Steady(h \o r, p)
    <3>1. Stream(x) = h \o r
      BY DEF Stream
    <3> QED BY <1>4, <3>1 DEF Meet, EndOK, Streaming
  <2> HIDE DEF h, r
  <2>3. Steady(h, p)
    BY <2>1, <2>2, PartsSteady
  <2> QED BY <2>3 DEF h
<1>6. Streaming(g, p, x, f)
  BY <1>3, <1>4, <1>5 DEF Meet, EndOK, Streaming
<1>7. Ending(g, p, x)
  BY StillToCome DEF Meet, EndOK
<1>8. Role(g, n, x) /\ Lined(x.due) /\ SessionOf(x)
  BY <1>r DEF Meet, EndOK, Role, SessionOf
<1>9. Beginning(g, n, p, x)
  <2>1. ~Carries(e.due, "inbound")
    BY <1>1 DEF Only, Carries
  <2> QED BY <1>1, <1>r, <2>1 DEF Beginning
<1>10. Meeting(g, n, x, f) /\ Meeting(g, o, f, x)
  BY <1>r DEF Meet, EndOK, Meeting
<1>11. Agreement(g, n, x, f, asked)
  BY <1>r DEF Meet, EndOK, Agreement
<1>12. Agreement(g, o, f, x, asked) /\ Streaming(g, p, f, x)
  BY DEF Meet, EndOK, Agreement, Streaming
<1> QED BY <1>6, <1>7, <1>8, <1>9, <1>10, <1>11, <1>12 DEF Meet, EndOK

(* What is reported goes to a reader of another pipe, or to none.          *)
LEMMA EndRecedes ==
  ASSUME NEW g, NEW n, NEW o, NEW p, NEW asked \in BOOLEAN, Between(g, n, o),
         NEW e \in EndType, NEW x \in EndType, NEW f \in EndType, NEW s \in Seq(Events),
         Meet(g, n, o, p, e, f, asked), e.session # "active", x.reader # p,
         e.due = s \o x.due, ~Carries(s, "closed"), ~Carries(s, "inbound"),
         x.heard = e.heard, x.task = e.task, x.session = e.session, x.sent = e.sent
  PROVE  Meet(g, n, o, p, x, f, asked)
<1>r. /\ \A T : Only(e.due, T) => Only(x.due, T)
      /\ \A k : Carries(x.due, k) => Carries(e.due, k)
      /\ Carries(e.due, "inbound") => Carries(x.due, "inbound")
      /\ Lined(e.due) => Lined(x.due)
      /\ Steady(Stream(e), p) => Steady(x.due, p)
      /\ \A q : UpTo(Stream(e), q) => UpTo(x.due, q)
  BY DueRest
<1>1. Ending(g, p, x)
  BY StillToCome DEF Meet, EndOK
<1>2. Role(g, n, x) /\ Lined(x.due) /\ SessionOf(x)
  BY <1>r DEF Meet, EndOK, Role, SessionOf
<1>3. Beginning(g, n, p, x)
  BY <1>r DEF Meet, EndOK, Beginning
<1>4. Meeting(g, n, x, f) /\ Meeting(g, o, f, x)
  BY <1>r DEF Meet, EndOK, Meeting
<1>5. Agreement(g, n, x, f, asked)
  BY <1>r DEF Meet, EndOK, Agreement
<1>6. Streaming(g, p, x, f)
  BY <1>r DEF Meet, EndOK, Streaming, Stream
<1>7. Agreement(g, o, f, x, asked) /\ Streaming(g, p, f, x)
  BY DEF Meet, EndOK, Agreement, Streaming
<1> QED BY <1>1, <1>2, <1>3, <1>4, <1>5, <1>6, <1>7 DEF Meet, EndOK

LEMMA JoinedLast ==
  ASSUME NEW S, NEW s \in Seq(S), NEW t \in Seq(S), Len(t) = 1
  PROVE  s \o t # <<>> /\ (s \o t)[Len(s \o t)] = t[1]
<1>0. Len(s) \in Nat /\ Len(s \o t) = Len(s) + Len(t)
  BY JoinedAt
<1>1. Len(s) \in Nat /\ Len(s \o t) = Len(s) + 1 /\ 1 \in 1 .. Len(t)
  BY <1>0
<1>2. (s \o t)[Len(s) + 1] = t[1]
  BY <1>1, JoinedAt
<1>3. Len(s \o t) # 0
  BY <1>1
<1> QED BY <1>1, <1>2, <1>3

(* The pipe closes: what is left of the line is a part of what was due,    *)
(* and then the end.                                                       *)
Cut(p, e, x) ==
  /\ \E s, r \in Seq(Events) :
       /\ e.due = s \o r /\ x.due = s \o <<Message("closed")>>
       /\ Carries(e.due, "inbound") => Carries(s, "inbound")
  /\ x.reader = e.reader /\ x.task = e.task /\ x.session = e.session /\ x.heard = e.heard
  /\ x.sent = e.sent

LEMMA CutOnly ==
  ASSUME NEW p, NEW e, NEW x, Cut(p, e, x), NEW T, "closed" \in T, Only(e.due, T)
  PROVE  Only(x.due, T)
<1>1. PICK s \in Seq(Events), r \in Seq(Events) : e.due = s \o r /\ x.due = s \o <<Message("closed")>>
  BY DEF Cut
<1> DEFINE c == <<Message("closed")>>
<1>2. c \in Seq(Events)
  <2>1. Message("closed") \in Events
    BY BridgedSessionsAssumption DEF Message, Events, Kinds
  <2> QED BY <2>1
<1>3. Only(c, T)
  BY DEF Message, Only
<1>4. x.due = s \o c
  BY <1>1
<1> HIDE DEF c
<1>5. Only(s, T)
  <2>1. Only(s \o r, T)
    BY <1>1
  <2> QED BY <2>1, JoinedOnly
<1>6. Only(s \o c, T)
  BY <1>2, <1>3, <1>5, JoinedOnly
<1> QED BY <1>4, <1>6

LEMMA EndCloses ==
  ASSUME NEW g, NEW h, NEW n, NEW p, NEW asked \in BOOLEAN, NEW later \in BOOLEAN,
         g.open, ~h.open, h.from = g.from,
         NEW e \in EndType, NEW x \in EndType, NEW f \in EndType, NEW y \in EndType,
         EndOK(g, n, p, e, f, asked), Cut(p, e, x), Cut(p, f, y)
  PROVE  EndOK(h, n, p, x, y, later)
<1>p. PICK s \in Seq(Events), r \in Seq(Events) :
        /\ e.due = s \o r /\ x.due = s \o <<Message("closed")>>
        /\ Carries(e.due, "inbound") => Carries(s, "inbound")
  BY DEF Cut
<1>u. /\ x.reader = e.reader /\ x.task = e.task /\ x.session = e.session /\ x.heard = e.heard
      /\ x.sent = e.sent /\ y.task = f.task /\ y.session = f.session
  BY DEF Cut
<1>v. /\ Only(f.due, {"closed"}) => Only(y.due, {"closed"})
      /\ Only(f.due, {"inbound", "init", "closed"}) => Only(y.due, {"inbound", "init", "closed"})
  <2>1. Only(f.due, {"closed"}) => Only(y.due, {"closed"})
    BY CutOnly
  <2>2. ASSUME NEW T, T = {"inbound", "init", "closed"}, Only(f.due, T) PROVE Only(y.due, T)
    BY <2>2, CutOnly
  <2> QED BY <2>1, <2>2
<1> DEFINE c == <<Message("closed")>>
<1>1. c \in Seq(Events) /\ DOMAIN c = {1} /\ Len(c) = 1 /\ c[1].type = "closed"
  <2>1. Message("closed") \in Events
    BY BridgedSessionsAssumption DEF Message, Events, Kinds
  <2> QED BY <2>1 DEF Message
<1>x. x.due = s \o c
  BY <1>p
<1>t. e.due \in Seq(Events) /\ e.heard \in Seq(Events)
  BY DEF EndType
<1> HIDE DEF c
<1>2. /\ \A T : "closed" \in T => Only(c, T)
      /\ Lined(c) /\ ~Carries(c, "inbound") /\ \A k \in DOMAIN c : ~IsFrame(c[k])
  BY <1>1 DEF Only, Lined, Carries, IsFrame
<1> DEFINE d == e.due
<1>d. d = s \o r /\ d \in Seq(Events)
  BY <1>p, <1>t
<1> HIDE DEF d
<1>3. /\ \A T : Only(d, T) => Only(s, T)
      /\ \A k : Carries(s, k) => Carries(d, k)
      /\ Lined(d) => Lined(s)
      /\ \A q : Steady(d, q) => Steady(s, q)
  BY <1>d, JoinedOnly, JoinedCarries, JoinedLined, PartsSteady
<1>4. \A T : "closed" \in T /\ Only(e.due, T) => Only(x.due, T)
  <2>1. \A T : "closed" \in T /\ Only(s, T) => Only(s \o c, T)
    BY <1>1, <1>2, JoinedOnly
  <2> QED BY <1>x, <1>3, <2>1 DEF d
<1>5. Carries(x.due, "inbound") <=> Carries(e.due, "inbound")
  <2>1. Carries(s \o c, "inbound") <=> Carries(s, "inbound")
    BY <1>1, <1>2, JoinedCarries
  <2> QED BY <1>p, <1>x, <1>3, <2>1 DEF d
<1>6. ~Carries(s, "closed")
  <2>1. ~Carries(e.due, "closed")
    BY DEF EndOK, Ending
  <2> QED BY <1>3, <2>1 DEF d
<1>7. Lined(x.due)
  <2>1. Lined(s)
    BY <1>3 DEF d, EndOK
  <2>2. Follows(s, c)
    <3>1. ASSUME NEW j \in DOMAIN s PROVE s[j].type \in Earlier("closed")
      <4>1. s[j] \in Events
        BY <3>1
      <4> QED BY <1>6, <4>1 DEF Events, Carries, Earlier
    <3> QED BY <1>1, <3>1 DEF Follows
  <2>3. Lined(s \o c)
    BY <1>1, <1>2, <2>1, <2>2, JoinedLined
  <2> QED BY <1>x, <2>3
<1>8. Ending(h, p, x)
  <2>1. s \o c # <<>> /\ (s \o c)[Len(s \o c)] = c[1]
    <3>1. c \in Seq(Events) /\ Len(c) = 1
      BY <1>1
    <3> QED BY <3>1, JoinedLast
  <2> QED BY <1>x, <1>1, <2>1 DEF Ending
<1>9. Role(h, n, x)
  BY <1>u, <1>4 DEF EndOK, Role, DialHears, AcceptHears
<1>10. SessionOf(x)
  BY <1>u DEF EndOK, SessionOf
<1>11. Beginning(h, n, p, x)
  BY <1>u, <1>5 DEF EndOK, Beginning
<1>12. Meeting(h, n, x, y)
  BY <1>u, <1>v, <1>4 DEF EndOK, Meeting
<1>13. Agreement(h, n, x, y, later)
  BY DEF Agreement
<1>14. Steady(Stream(x), p)
  <2>1. CASE e.session = "active"
    <3> DEFINE k == e.heard
    <3>1. k \in Seq(Events) /\ Stream(e) = k \o (s \o r) /\ Stream(x) = k \o (s \o c)
      BY <1>p, <1>t, <1>u, <1>x, <2>1 DEF Stream
    <3>2. Steady(k \o (s \o r), p)
      BY <3>1 DEF EndOK, Streaming
    <3> HIDE DEF k
    <3>3. k \o (s \o r) = (k \o s) \o r /\ k \o (s \o c) = (k \o s) \o c
      <4>1. c \in Seq(Events) /\ k \in Seq(Events) /\ r \in Seq(Events) /\ s \in Seq(Events)
        BY <1>1, <3>1
      <4>2. (k \o s) \o r = k \o (s \o r)
        BY <4>1, ConcatAssociative
      <4>3. (k \o s) \o c = k \o (s \o c)
        BY <4>1, ConcatAssociative
      <4> QED BY <4>2, <4>3
    <3>4. k \o s \in Seq(Events)
      BY <3>1, JoinedAt
    <3>5. Steady(k \o s, p)
      BY <3>2, <3>3, <3>4, PartsSteady
    <3>6. Steady((k \o s) \o c, p)
      BY <1>1, <1>2, <3>4, <3>5, JoinedQuiet
    <3> QED BY <3>1, <3>3, <3>6
  <2>2. CASE e.session # "active"
    <3>1. Stream(e) = e.due /\ Stream(x) = s \o c
      BY <1>u, <1>x, <2>2 DEF Stream
    <3>2. Steady(s, p)
      BY <1>3, <3>1 DEF d, EndOK, Streaming
    <3>3. Steady(s \o c, p)
      BY <1>1, <1>2, <3>2, JoinedQuiet
    <3> QED BY <3>1, <3>3
  <2> QED BY <2>1, <2>2
<1>15. Streaming(h, p, x, y)
  BY <1>u, <1>14 DEF EndOK, Streaming
<1> QED BY <1>7, <1>8, <1>9, <1>10, <1>11, <1>12, <1>13, <1>15 DEF EndOK

(* A turn of frames is sent, to the other end if the pipe is open.         *)
LEMMA EndsSend ==
  ASSUME NEW g, NEW n, NEW o, NEW p \in Pipes, NEW asked \in BOOLEAN, Between(g, n, o),
         NEW e \in EndType, NEW x \in EndType, NEW f \in EndType, NEW y \in EndType,
         Meet(g, n, o, p, e, f, asked), e.session = "active",
         x.sent = e.sent + 1, x.reader = e.reader, x.due = e.due, x.task = e.task,
         x.session = e.session, x.heard = e.heard,
         y.due = IF g.open THEN f.due \o flushed(p, e.sent) ELSE f.due,
         y.reader = f.reader, y.task = f.task, y.session = f.session, y.heard = f.heard,
         y.sent = f.sent
  PROVE  Meet(g, n, o, p, x, y, asked)
<1> DEFINE t == flushed(p, e.sent)
<1>t. /\ e.sent \in Nat /\ e.due \in Seq(Events) /\ f.due \in Seq(Events) /\ f.heard \in Seq(Events)
      /\ t \in Seq(Events) /\ Len(t) = 3
      /\ \A k \in 1 .. 3 : IsFrame(t[k]) /\ t[k].session = p /\ Place(t[k]) = 3 * e.sent - 1 + k
  <2>1. /\ e.sent \in Nat /\ e.due \in Seq(Events) /\ f.due \in Seq(Events)
        /\ f.heard \in Seq(Events)
    BY DEF EndType
  <2>2. /\ t \in Seq(Events) /\ Len(t) = 3
        /\ \A k \in 1 .. 3 : IsFrame(t[k]) /\ t[k].session = p /\ Place(t[k]) = 3 * e.sent - 1 + k
    BY <2>1, FlushedFrames
  <2> QED BY <2>1, <2>2
<1>y. g.open => y.due = f.due \o t
  OBVIOUS
<1>z. ~g.open => y.due = f.due
  OBVIOUS
<1> HIDE DEF t
<1>d. DOMAIN t = 1 .. 3
  BY <1>t
<1>1. /\ \A T : "frame" \in T => Only(t, T)
      /\ Lined(t) /\ \A k : Carries(t, k) => k = "frame"
  <2>1. \A k \in DOMAIN t : t[k].type = "frame"
    BY <1>d, <1>t DEF IsFrame
  <2>2. "frame" \in Earlier("frame")
    BY DEF Earlier, Kinds
  <2> QED BY <2>1, <2>2 DEF Only, Lined, Carries
<1>3. \A T : "frame" \in T /\ Only(f.due, T) => Only(y.due, T)
  <2>1. \A T : "frame" \in T /\ Only(f.due, T) => Only(f.due \o t, T)
    BY <1>1, <1>t, JoinedOnly
  <2> QED BY <1>y, <1>z, <2>1
<1>4. \A k : k # "frame" /\ Carries(y.due, k) => Carries(f.due, k)
  <2>1. \A k : k # "frame" /\ Carries(f.due \o t, k) => Carries(f.due, k)
    BY <1>1, <1>t, JoinedCarries
  <2> QED BY <1>y, <1>z, <2>1
<1>5. \A k : Carries(f.due, k) => Carries(y.due, k)
  <2>1. \A k : Carries(f.due, k) => Carries(f.due \o t, k)
    BY <1>t, JoinedCarries
  <2> QED BY <1>y, <1>z, <2>1
<1>6. Lined(y.due)
  <2>1. ASSUME g.open PROVE Lined(f.due \o t)
    <3>1. Lined(f.due) /\ ~Carries(f.due, "closed")
      BY <2>1 DEF Meet, EndOK, Ending
    <3>2. Follows(f.due, t)
      <4>1. ASSUME NEW j \in DOMAIN f.due PROVE f.due[j].type \in Earlier("frame")
        <5>1. f.due[j] \in Events
          BY <1>t
        <5> QED BY <3>1, <5>1 DEF Events, Carries, Earlier
      <4> QED BY <1>d, <1>t, <4>1 DEF Follows, IsFrame
    <3> QED BY <1>1, <1>t, <3>1, <3>2, JoinedLined
  <2> QED BY <1>y, <1>z, <2>1 DEF Meet, EndOK
<1>7. Ending(g, p, y)
  BY <1>z, <1>4 DEF Meet, EndOK, Ending
<1>8. Role(g, o, y)
  BY <1>3 DEF Meet, EndOK, Role, DialHears, AcceptHears
<1>9. SessionOf(y) /\ Beginning(g, o, p, y)
  BY <1>4, <1>5 DEF Meet, EndOK, SessionOf, Beginning
<1>10. Meeting(g, o, y, x)
  BY <1>3 DEF Meet, EndOK, Meeting
<1>11. Agreement(g, o, y, x, asked)
  BY <1>4 DEF Meet, EndOK, Agreement
<1>12. Streaming(g, p, y, x)
  <2>1. ASSUME g.open PROVE Steady(Stream(y), p) /\ UpTo(Stream(y), 3 * x.sent - 1)
    <3> DEFINE q == Stream(f)
    <3>1. q \in Seq(Events) /\ Stream(y) = q \o t
      <4>1. CASE f.session = "active"
        <5> DEFINE h == f.heard
                   d == f.due
        <5>1. h \in Seq(Events) /\ d \in Seq(Events) /\ q = h \o d /\ Stream(y) = h \o (d \o t)
          BY <1>t, <1>y, <2>1, <4>1 DEF Stream
        <5> HIDE DEF h, d, q
        <5>2. h \o (d \o t) = (h \o d) \o t
          <6>1. t \in Seq(Events)
            BY <1>t
          <6> QED BY <5>1, <6>1, ConcatAssociative
        <5> QED BY <5>1, <5>2, JoinedAt
      <4>2. CASE f.session # "active"
        BY <1>t, <1>y, <2>1, <4>2 DEF Stream
      <4> QED BY <4>1, <4>2
    <3>2. Steady(q, p) /\ UpTo(q, 3 * e.sent - 1)
      BY <2>1 DEF Meet, EndOK, Streaming
    <3> HIDE DEF q
    <3> DEFINE last == 3 * e.sent - 1
    <3>3. last \in Int /\ 3 * x.sent - 1 = last + 3
      BY <1>t
    <3>4. UpTo(q, last) /\ \A k \in DOMAIN t : Place(t[k]) = last + k
      BY <1>d, <1>t, <3>2
    <3> HIDE DEF last
    <3>5. Steady(q \o t, p) /\ UpTo(q \o t, last + Len(t))
      BY <1>d, <1>t, <3>1, <3>2, <3>3, <3>4, JoinedSteady
    <3> QED BY <1>t, <3>1, <3>3, <3>5
  <2>2. ~g.open => Stream(y) = Stream(f)
    BY <1>z DEF Stream
  <2> QED BY <2>1, <2>2 DEF Meet, EndOK, Streaming
<1>13. /\ Ending(g, p, x) /\ Role(g, n, x) /\ Lined(x.due) /\ SessionOf(x)
       /\ Beginning(g, n, p, x)
  BY DEF Meet, EndOK, Ending, Role, SessionOf, Beginning
<1>14. Meeting(g, n, x, y)
  BY <1>4 DEF Meet, EndOK, Meeting, SessionOf
<1>15. Agreement(g, n, x, y, asked)
  BY DEF Meet, EndOK, Agreement
<1>16. Streaming(g, p, x, y)
  BY DEF Meet, EndOK, Streaming, Stream
<1> QED BY <1>6, <1>7, <1>8, <1>9, <1>10, <1>11, <1>12, <1>13, <1>14, <1>15, <1>16
        DEF Meet, EndOK

(* An end of a pipe whose id is asked for.                                 *)
LEMMA EndAsked ==
  ASSUME NEW g, NEW n, NEW o, NEW p, NEW e, NEW f, NEW asked \in BOOLEAN, NEW later \in BOOLEAN,
         g.open /\ asked => later, Meet(g, n, o, p, e, f, asked)
  PROVE  Meet(g, n, o, p, e, f, later)
BY DEF Meet, EndOK, Agreement

-----------------------------------------------------------------------------
(* The two nodes, and the two ends of each pipe that has been dialled.     *)
LEMMA OneOther ==
  ASSUME NEW n \in Nodes
  PROVE  /\ Other(n) \in Nodes /\ Other(n) # n /\ Other(Other(n)) = n
         /\ \A m \in Nodes : m = n \/ m = Other(n)
<1>1. \E a, b : Nodes = {a, b} /\ a # b
  <2>1. PICK a : a \in Nodes
    OBVIOUS
  <2>2. IsFiniteSet(Nodes \ {a}) /\ Cardinality(Nodes \ {a}) = 1
    BY <2>1, FS_RemoveElement, BridgedSessionsAssumption
  <2>3. PICK b : Nodes \ {a} = {b}
    BY <2>2, FS_Singleton
  <2> QED BY <2>1, <2>3
<1>2. PICK a, b : Nodes = {a, b} /\ a # b
  BY <1>1
<1>3. \A m \in Nodes : Other(m) \in Nodes /\ Other(m) # m
  <2>1. ASSUME NEW m \in Nodes PROVE Other(m) \in Nodes /\ Other(m) # m
    <3>1. \E k \in Nodes : k # m
      BY <1>2
    <3> QED BY <3>1 DEF Other
  <2> QED BY <2>1
<1> QED BY <1>2, <1>3

LEMMA EndTyped ==
  ASSUME PipesTypeOK, Fresh, NEW n \in Nodes, NEW p \in Dialled
  PROVE  /\ End(n, p) \in EndType /\ Between(pipe[p], n, Other(n))
         /\ Id(p) \in Ids /\ p \in Pipes /\ p # 0 /\ Asked(p) \in BOOLEAN
         /\ channels[n][Id(p)] \in Readers /\ events[n][p] \in Seq(Events)
         /\ channels[n][Id(p)].buffer \in Seq(Events)
<1>1. p \in Pipes /\ Id(p) \in Ids /\ pipe[p].from \in Nodes /\ p # 0
  BY BridgedSessionsAssumption DEF Fresh, Dialled, Pipes
<1>2. /\ channels[n][Id(p)] \in Readers /\ events[n][p] \in Seq(Events)
      /\ task[n][p] \in AllTasks /\ session[n][p] \in Sessional /\ heard[n][p] \in Seq(Events)
      /\ sent[n][p] \in Nat /\ pipe[p] \in PipeStates
  BY <1>1 DEF PipesTypeOK
<1>3. channels[n][Id(p)].buffer \in Seq(Events) /\ channels[n][Id(p)].reader \in 0 .. MaxPipes
  BY <1>2 DEF Readers
<1>4. Due(n, p) \in Seq(Events)
  BY <1>2, <1>3 DEF Due
<1>5. End(n, p) \in EndType
  BY <1>2, <1>3, <1>4 DEF End, EndType
<1> QED BY <1>1, <1>2, <1>3, <1>5, OneOther DEF Between, Asked

LEMMA EndTypedThen ==
  ASSUME PipesTypeOK', Fresh', NEW n \in Nodes, NEW p \in Dialled'
  PROVE  /\ End(n, p)' \in EndType
         /\ Id(p)' \in Ids /\ p \in Pipes /\ p # 0 /\ Asked(p)' \in BOOLEAN
         /\ channels'[n][Id(p)'] \in Readers /\ events'[n][p] \in Seq(Events)
<1>1. p \in Pipes /\ Id(p)' \in Ids /\ p # 0
  BY BridgedSessionsAssumption DEF Fresh, Dialled, Pipes
<1>2. /\ channels'[n][Id(p)'] \in Readers /\ events'[n][p] \in Seq(Events)
      /\ task'[n][p] \in AllTasks /\ session'[n][p] \in Sessional /\ heard'[n][p] \in Seq(Events)
      /\ sent'[n][p] \in Nat
  BY <1>1 DEF PipesTypeOK
<1>3. /\ channels'[n][Id(p)'].buffer \in Seq(Events)
      /\ channels'[n][Id(p)'].reader \in 0 .. MaxPipes
  BY <1>2 DEF Readers
<1>4. Due(n, p)' \in Seq(Events)
  BY <1>2, <1>3 DEF Due
<1>5. End(n, p)' \in EndType
  BY <1>2, <1>3, <1>4 DEF End, EndType
<1> QED BY <1>1, <1>2, <1>5 DEF Asked

LEMMA EndsMeet ==
  ASSUME PipesTypeOK, Regular, NEW n \in Nodes, NEW p \in Dialled
  PROVE  Meet(pipe[p], n, Other(n), p, End(n, p), End(Other(n), p), Asked(p))
<1>1. PipeOK(p)
  BY DEF Regular
<1> QED BY <1>1, OneOther DEF PipeOK, Meet

LEMMA EndsMet ==
  ASSUME NEW n \in Nodes, NEW p,
         Meet(pipe'[p], n, Other(n), p, End(n, p)', End(Other(n), p)', Asked(p)')
  PROVE  PipeOK(p)'
<1>1. ASSUME NEW m \in Nodes
      PROVE  EndOK(pipe'[p], m, p, End(m, p)', End(Other(m), p)', Asked(p)')
  <2>1. CASE m = n
    BY <2>1 DEF Meet
  <2>2. CASE m = Other(n)
    BY <2>2, OneOther DEF Meet
  <2> QED BY <2>1, <2>2, OneOther
<1> QED BY <1>1 DEF PipeOK

(* A pipe that a step does not touch.                                      *)
LEMMA Untouched ==
  ASSUME PipesTypeOK, Regular, NEW p \in Dialled, pipe'[p] = pipe[p],
         \A n \in Nodes : End(n, p)' = End(n, p), pipe[p].open /\ Asked(p) => Asked(p)'
  PROVE  PipeOK(p)'
<1>1. PICK n \in Nodes : TRUE
  <2>1. Nodes # {}
    <3>1. Cardinality({}) = 0
      BY FS_EmptySet
    <3> QED BY <3>1, BridgedSessionsAssumption
  <2> QED BY <2>1
<1>2. Other(n) \in Nodes
  BY OneOther
<1>3. Meet(pipe[p], n, Other(n), p, End(n, p), End(Other(n), p), Asked(p))
  BY EndsMeet
<1>4. Asked(p) \in BOOLEAN /\ Asked(p)' \in BOOLEAN
  BY DEF Asked
<1>5. Meet(pipe[p], n, Other(n), p, End(n, p), End(Other(n), p), Asked(p)')
  BY <1>3, <1>4, EndAsked
<1> QED BY <1>2, <1>5, EndsMet

(* No two pipes of one id are in use.                                      *)
LEMMA OneInUse ==
  ASSUME PipesTypeOK, Regular, NEW p \in Dialled, NEW q \in Dialled, InUse(p), InUse(q),
         Id(p) = Id(q)
  PROVE  p = q
<1>1. p \in Pipes /\ q \in Pipes
  BY DEF Dialled
<1>2. ~(p < q) /\ ~(q < p)
  BY <1>1 DEF Regular, Currents
<1> QED BY <1>1, <1>2 DEF Pipes

(* The channel of a node for an id.                                        *)
LEMMA ChannelOf ==
  ASSUME PipesTypeOK, Regular, NEW n \in Nodes, NEW i \in Ids
  PROVE  /\ channels[n][i] \in Readers /\ Shape(channels[n][i])
         /\ channels[n][i].reader # 0 =>
              /\ channels[n][i].reader \in Dialled /\ Id(channels[n][i].reader) = i
              /\ InUse(channels[n][i].reader)
<1>1. channels[n][i] \in Readers
  BY DEF PipesTypeOK
<1>2. channels[n][i].reader # 0 => channels[n][i].reader \in Pipes
  BY <1>1, BridgedSessionsAssumption DEF Readers, Pipes
<1> QED BY <1>1, <1>2 DEF Regular, Shapes, InUse

-----------------------------------------------------------------------------
(* The same of a step: what it does at n to the end of p there, from e to  *)
(* x, and to the other end, from f to y, keeps the invariant of p.         *)
Moves(n, p) ==
  /\ PipesTypeOK /\ Regular /\ PipesTypeOK' /\ Fresh'
  /\ n \in Nodes /\ p \in Dialled /\ p \in Dialled'

Becomes(n, p, e, x) == e = End(n, p) /\ x = End(n, p)'

LEMMA MovesTyped ==
  ASSUME NEW n, NEW p, Moves(n, p)
  PROVE  /\ Other(n) \in Nodes /\ Between(pipe[p], n, Other(n))
         /\ End(n, p) \in EndType /\ End(n, p)' \in EndType
         /\ End(Other(n), p) \in EndType /\ End(Other(n), p)' \in EndType
         /\ Asked(p) \in BOOLEAN /\ Asked(p)' \in BOOLEAN
         /\ Meet(pipe[p], n, Other(n), p, End(n, p), End(Other(n), p), Asked(p))
<1>1. Other(n) \in Nodes
  BY OneOther DEF Moves
<1>2. /\ Between(pipe[p], n, Other(n)) /\ End(n, p) \in EndType /\ End(Other(n), p) \in EndType
      /\ Asked(p) \in BOOLEAN
  BY <1>1, EndTyped DEF Moves, Regular
<1>3. End(n, p)' \in EndType /\ End(Other(n), p)' \in EndType /\ Asked(p)' \in BOOLEAN
  BY <1>1, EndTypedThen DEF Moves
<1>4. Meet(pipe[p], n, Other(n), p, End(n, p), End(Other(n), p), Asked(p))
  BY EndsMeet DEF Moves
<1> QED BY <1>1, <1>2, <1>3, <1>4

(* One end at a time.                                                      *)
LEMMA OneMoves ==
  ASSUME NEW n, NEW p, Moves(n, p), pipe'[p] = pipe[p],
         End(Other(n), p)' = End(Other(n), p), pipe[p].open /\ Asked(p) => Asked(p)',
         NEW e, NEW x, Becomes(n, p, e, x),
         \A g, o, f, asked :
           /\ Between(g, n, o) /\ f \in EndType /\ asked \in BOOLEAN
           /\ g = pipe[p] /\ Meet(g, n, o, p, e, f, asked)
           => Meet(g, n, o, p, x, f, asked)
  PROVE  PipeOK(p)'
<1>1. Meet(pipe[p], n, Other(n), p, x, End(Other(n), p), Asked(p))
  BY MovesTyped DEF Becomes
<1>2. Meet(pipe[p], n, Other(n), p, x, End(Other(n), p), Asked(p)')
  BY <1>1, MovesTyped, EndAsked
<1> QED BY <1>2, EndsMet DEF Moves, Becomes

LEMMA PipeQuits ==
  ASSUME NEW n, NEW p, Moves(n, p), pipe'[p] = pipe[p],
         End(Other(n), p)' = End(Other(n), p), pipe[p].open /\ Asked(p) => Asked(p)',
         NEW e, NEW x, Becomes(n, p, e, x), e.task \in {"writeInit", "challenge", "writeAck"},
         e.task = "writeAck" => ~pipe[p].open,
         x.task = "over", x.reader = e.reader, x.due = e.due, x.session = e.session,
         x.heard = e.heard, x.sent = e.sent
  PROVE  PipeOK(p)'
<1>1. e \in EndType /\ x \in EndType
  BY MovesTyped DEF Becomes
<1> QED BY <1>1, EndQuits, OneMoves

LEMMA PipeDrops ==
  ASSUME NEW n, NEW p, Moves(n, p), pipe'[p] = pipe[p],
         End(Other(n), p)' = End(Other(n), p), Asked(p) => Asked(p)', pipe[p].open => Asked(p)',
         NEW e, NEW x, Becomes(n, p, e, x), NEW s \in Seq(Events),
         e.due = s \o x.due, ~Carries(s, "inbound"), x.reader # p,
         x.task = e.task \/ (x.task = "over" /\ e.task # "none"),
         x.session = IF e.session = "active" THEN "closed" ELSE e.session,
         x.heard = e.heard, x.sent = e.sent
  PROVE  PipeOK(p)'
<1>1. ASSUME NEW g, NEW o, NEW f \in EndType, NEW asked \in BOOLEAN, NEW later \in BOOLEAN,
             Between(g, n, o), Meet(g, n, o, p, e, f, asked), asked => later, g.open => later
      PROVE  Meet(g, n, o, p, x, f, later)
  <2>1. e \in EndType /\ x \in EndType
    BY MovesTyped DEF Becomes
  <2> QED BY <1>1, <2>1, EndDrops
<1>2. Meet(pipe[p], n, Other(n), p, x, End(Other(n), p), Asked(p)')
  BY <1>1, MovesTyped DEF Becomes
<1> QED BY <1>2, EndsMet DEF Moves, Becomes

LEMMA PipeBegins ==
  ASSUME NEW n, NEW p, Moves(n, p), pipe'[p] = pipe[p],
         End(Other(n), p)' = End(Other(n), p), pipe[p].open /\ Asked(p) => Asked(p)',
         NEW e, NEW x, Becomes(n, p, e, x), NEW b \in Events, b.type = "inbound",
         e.due = <<b>> \o x.due, x.task = "init", x.session = e.session,
         x.heard = e.heard, x.sent = e.sent
  PROVE  PipeOK(p)'
<1>1. e \in EndType /\ x \in EndType
  BY MovesTyped DEF Becomes
<1> QED BY <1>1, EndBegins, OneMoves

LEMMA PipeWrote ==
  ASSUME NEW n, NEW p, Moves(n, p), pipe'[p] = pipe[p],
         End(Other(n), p)' = End(Other(n), p), pipe[p].open /\ Asked(p) => Asked(p)',
         NEW e, NEW x, Becomes(n, p, e, x),
         \/ e.task = "writeInit" /\ x.task = "challenge"
         \/ e.task = "writeChallenge" /\ x.task = "ack",
         x.reader = e.reader, x.due = e.due, x.session = e.session,
         x.heard = e.heard, x.sent = e.sent
  PROVE  PipeOK(p)'
<1>1. e \in EndType /\ x \in EndType
  BY MovesTyped DEF Becomes
<1> QED BY <1>1, EndWrote, OneMoves

LEMMA PipeEstablishes ==
  ASSUME NEW n, NEW p, Moves(n, p), pipe'[p] = pipe[p],
         End(Other(n), p)' = End(Other(n), p), pipe[p].open /\ Asked(p) => Asked(p)',
         NEW e, NEW x, Becomes(n, p, e, x), NEW s \in Seq(Events), e.task = "writeAck",
         e.reader = p, e.due = s \o x.due, ~Carries(s, "closed"), x.task = "over",
         x.session = "active", x.heard = e.heard, x.sent = e.sent
  PROVE  PipeOK(p)'
<1>1. e \in EndType /\ x \in EndType
  BY MovesTyped DEF Becomes
<1> QED BY <1>1, EndEstablishes, OneMoves

LEMMA PipeAcknowledged ==
  ASSUME NEW n, NEW p, Moves(n, p), pipe'[p] = pipe[p],
         End(Other(n), p)' = End(Other(n), p), pipe[p].open /\ Asked(p) => Asked(p)',
         NEW e, NEW x, Becomes(n, p, e, x), NEW b \in Events, NEW r \in Seq(Events),
         e.task = "ack", e.reader = p, b.type = "ack",
         e.due = (<<b>> \o r) \o x.due, ~Carries(r, "closed"), x.task = "over",
         x.session = "active", x.heard = e.heard, x.sent = e.sent
  PROVE  PipeOK(p)'
<1>1. e \in EndType /\ x \in EndType
  BY MovesTyped DEF Becomes
<1> QED BY <1>1, EndAcknowledged, OneMoves

LEMMA PipeHears ==
  ASSUME NEW n, NEW p, Moves(n, p), pipe'[p] = pipe[p],
         End(Other(n), p)' = End(Other(n), p), pipe[p].open /\ Asked(p) => Asked(p)',
         NEW e, NEW x, Becomes(n, p, e, x), NEW s \in Seq(Events),
         e.session = "active", e.reader = p, e.due = s \o x.due, ~Carries(s, "closed"),
         x.heard = e.heard \o s, x.task = e.task, x.session = e.session, x.sent = e.sent
  PROVE  PipeOK(p)'
<1>1. e \in EndType /\ x \in EndType
  BY MovesTyped DEF Becomes
<1> QED BY <1>1, EndHears, OneMoves

LEMMA PipeRecedes ==
  ASSUME NEW n, NEW p, Moves(n, p), pipe'[p] = pipe[p],
         End(Other(n), p)' = End(Other(n), p), pipe[p].open /\ Asked(p) => Asked(p)',
         NEW e, NEW x, Becomes(n, p, e, x), NEW s \in Seq(Events),
         e.session # "active", x.reader # p, e.due = s \o x.due, ~Carries(s, "closed"),
         ~Carries(s, "inbound"), x.heard = e.heard, x.task = e.task, x.session = e.session,
         x.sent = e.sent
  PROVE  PipeOK(p)'
<1>1. e \in EndType /\ x \in EndType
  BY MovesTyped DEF Becomes
<1> QED BY <1>1, EndRecedes, OneMoves

(* Both ends.  What is written reaches the other end while the pipe is     *)
(* open.                                                                   *)
Reaches(p, f, y, t) ==
  /\ y.due = IF pipe[p].open THEN f.due \o t ELSE f.due
  /\ y.reader = f.reader /\ y.task = f.task /\ y.session = f.session /\ y.heard = f.heard
  /\ y.sent = f.sent

LEMMA PipeChallenges ==
  ASSUME NEW n, NEW p, Moves(n, p), pipe'[p] = pipe[p], Asked(p) <=> Asked(p)',
         NEW e, NEW x, Becomes(n, p, e, x), NEW f, NEW y, Becomes(Other(n), p, f, y),
         NEW b \in Events, e.task = "init", e.reader = p, b.type = "init",
         e.due = <<b>> \o x.due, x.task = "writeChallenge", x.session = e.session,
         x.heard = e.heard, x.sent = e.sent, Reaches(p, f, y, <<Message("challenge")>>)
  PROVE  PipeOK(p)'
<1>1. /\ e \in EndType /\ x \in EndType /\ f \in EndType /\ y \in EndType
      /\ Between(pipe[p], n, Other(n)) /\ Asked(p) \in BOOLEAN
      /\ Meet(pipe[p], n, Other(n), p, e, f, Asked(p))
  BY MovesTyped DEF Becomes
<1>2. ASSUME NEW g, NEW o, NEW asked \in BOOLEAN, Between(g, n, o), g = pipe[p],
             Meet(g, n, o, p, e, f, asked)
      PROVE  Meet(g, n, o, p, x, y, asked)
  BY <1>1, <1>2, EndsChallenge DEF Reaches
<1>3. Meet(pipe[p], n, Other(n), p, x, y, Asked(p))
  BY <1>1, <1>2
<1>4. Meet(pipe[p], n, Other(n), p, x, y, Asked(p)')
  BY <1>3, MovesTyped, EndAsked
<1> QED BY <1>4, EndsMet DEF Moves, Becomes

LEMMA PipeAcks ==
  ASSUME NEW n, NEW p, Moves(n, p), pipe'[p] = pipe[p], Asked(p) <=> Asked(p)',
         NEW e, NEW x, Becomes(n, p, e, x), NEW f, NEW y, Becomes(Other(n), p, f, y),
         NEW b \in Events, e.task = "challenge", e.reader = p, b.type = "challenge",
         e.due = <<b>> \o x.due, x.task = "writeAck", x.session = e.session,
         x.heard = e.heard, x.sent = e.sent, Reaches(p, f, y, <<Message("ack")>>)
  PROVE  PipeOK(p)'
<1>1. /\ e \in EndType /\ x \in EndType /\ f \in EndType /\ y \in EndType
      /\ Between(pipe[p], n, Other(n)) /\ Asked(p) \in BOOLEAN
      /\ Meet(pipe[p], n, Other(n), p, e, f, Asked(p))
  BY MovesTyped DEF Becomes
<1>2. ASSUME NEW g, NEW o, NEW asked \in BOOLEAN, Between(g, n, o), g = pipe[p],
             Meet(g, n, o, p, e, f, asked)
      PROVE  Meet(g, n, o, p, x, y, asked)
  BY <1>1, <1>2, EndsAck DEF Reaches
<1>3. Meet(pipe[p], n, Other(n), p, x, y, Asked(p))
  BY <1>1, <1>2
<1>4. Meet(pipe[p], n, Other(n), p, x, y, Asked(p)')
  BY <1>3, MovesTyped, EndAsked
<1> QED BY <1>4, EndsMet DEF Moves, Becomes

LEMMA PipeSends ==
  ASSUME NEW n, NEW p, Moves(n, p), pipe'[p] = pipe[p], Asked(p) <=> Asked(p)',
         NEW e, NEW x, Becomes(n, p, e, x), NEW f, NEW y, Becomes(Other(n), p, f, y),
         e.session = "active", x.sent = e.sent + 1, x.reader = e.reader, x.due = e.due,
         x.task = e.task, x.session = e.session, x.heard = e.heard,
         Reaches(p, f, y, flushed(p, e.sent))
  PROVE  PipeOK(p)'
<1>1. /\ e \in EndType /\ x \in EndType /\ f \in EndType /\ y \in EndType /\ p \in Pipes
      /\ Between(pipe[p], n, Other(n)) /\ Asked(p) \in BOOLEAN
      /\ Meet(pipe[p], n, Other(n), p, e, f, Asked(p))
  BY MovesTyped DEF Becomes, Moves, Dialled
<1>2. ASSUME NEW g, NEW o, NEW asked \in BOOLEAN, Between(g, n, o), g = pipe[p],
             Meet(g, n, o, p, e, f, asked)
      PROVE  Meet(g, n, o, p, x, y, asked)
  BY <1>1, <1>2, EndsSend DEF Reaches
<1>3. Meet(pipe[p], n, Other(n), p, x, y, Asked(p))
  BY <1>1, <1>2
<1>4. Meet(pipe[p], n, Other(n), p, x, y, Asked(p)')
  BY <1>3, MovesTyped, EndAsked
<1> QED BY <1>4, EndsMet DEF Moves, Becomes

LEMMA PipeCloses ==
  ASSUME NEW n, NEW p, Moves(n, p), pipe[p].open, ~pipe'[p].open, pipe'[p].from = pipe[p].from,
         NEW e, NEW x, Becomes(n, p, e, x), Cut(p, e, x),
         NEW f, NEW y, Becomes(Other(n), p, f, y), Cut(p, f, y)
  PROVE  PipeOK(p)'
<1>1. /\ e \in EndType /\ x \in EndType /\ f \in EndType /\ y \in EndType
      /\ Between(pipe[p], n, Other(n)) /\ Asked(p) \in BOOLEAN /\ Asked(p)' \in BOOLEAN
      /\ Meet(pipe[p], n, Other(n), p, e, f, Asked(p))
  BY MovesTyped DEF Becomes
<1>2. ASSUME NEW g, NEW h, NEW o, NEW asked \in BOOLEAN, NEW later \in BOOLEAN, g.open, ~h.open,
             h.from = g.from, Meet(g, n, o, p, e, f, asked)
      PROVE  Meet(h, n, o, p, x, y, later)
  BY <1>1, <1>2, EndCloses DEF Meet
<1>3. Meet(pipe'[p], n, Other(n), p, x, y, Asked(p)')
  BY <1>1, <1>2
<1> QED BY <1>3, EndsMet DEF Moves, Becomes

(* The channel gets a reader of another pipe.                              *)
LEMMA PipeRereads ==
  ASSUME NEW n, NEW p, Moves(n, p), pipe'[p] = pipe[p],
         End(Other(n), p)' = End(Other(n), p), pipe[p].open /\ Asked(p) => Asked(p)',
         NEW e, NEW x, Becomes(n, p, e, x), e.reader # p, x.reader # p, x.due = e.due,
         x.heard = e.heard, x.task = e.task, x.session = e.session, x.sent = e.sent
  PROVE  PipeOK(p)'
<1>1. e \in EndType /\ x \in EndType
  BY MovesTyped DEF Becomes
<1>2. ASSUME NEW g, NEW o, NEW f, NEW asked, Meet(g, n, o, p, e, f, asked)
      PROVE  Meet(g, n, o, p, x, f, asked)
  <2>1. EndOK(g, n, p, x, f, asked)
    BY <1>2 DEF Meet, EndOK, Ending, Role, SessionOf, Beginning, Meeting, Agreement, Streaming, Stream
  <2>2. EndOK(g, o, p, f, x, asked)
    BY <1>2 DEF Meet, EndOK, Meeting, Agreement, Streaming
  <2> QED BY <2>1, <2>2 DEF Meet
<1> QED BY <1>1, <1>2, OneMoves

(* What a step leaves alone at one end.                                    *)
LEMMA SameEnd ==
  ASSUME NEW m, NEW p, Id(p)' = Id(p), channels'[m][Id(p)] = channels[m][Id(p)],
         events'[m][p] = events[m][p], task'[m][p] = task[m][p],
         session'[m][p] = session[m][p], heard'[m][p] = heard[m][p], sent'[m][p] = sent[m][p]
  PROVE  End(m, p)' = End(m, p)
BY DEF End, Due

LEMMA StillAsked ==
  ASSUME NEW p, \A m \in Nodes : asks[m] \subseteq asks'[m], \A q : Id(q)' = Id(q), Asked(p)
  PROVE  Asked(p)'
BY DEF Asked

(* What is due of a pipe is what its reader holds, if that is its own, and *)
(* then what is to be reported.                                            *)
LEMMA DueParts ==
  ASSUME PipesTypeOK, Regular, NEW n \in Nodes, NEW p \in Dialled
  PROVE  \E s \in Seq(Events) :
           /\ Due(n, p) = s \o events[n][p]
           /\ Only(s, {"init", "challenge", "ack", "frame"})
           /\ s = IF channels[n][Id(p)].reader = p THEN channels[n][Id(p)].buffer ELSE <<>>
<1>1. channels[n][Id(p)].buffer \in Seq(Events) /\ events[n][p] \in Seq(Events) /\ Id(p) \in Ids
  BY EndTyped DEF Regular
<1>2. Only(channels[n][Id(p)].buffer, {"init", "challenge", "ack", "frame"})
  BY <1>1 DEF Regular, Shapes, Shape
<1>3. <<>> \o events[n][p] = events[n][p] /\ <<>> \in Seq(Events)
  BY <1>1
<1>4. Only(<<>>, {"init", "challenge", "ack", "frame"})
  BY DEF Only
<1>5. CASE channels[n][Id(p)].reader = p
  BY <1>1, <1>2, <1>5 DEF Due
<1>6. CASE channels[n][Id(p)].reader # p
  <2>1. Due(n, p) = <<>> \o events[n][p]
    BY <1>3, <1>6 DEF Due
  <2> QED BY <1>3, <1>4, <1>6, <2>1
<1> QED BY <1>5, <1>6

(* The channel of the id of q is torn down at n.  The handshakes of over   *)
(* end, and where a pipe of the id is open it is asked for.                *)
TearsDown(n, q, closes, over, more, s) ==
  /\ closes \subseteq {q} /\ (\A p \in closes : session[n][p] = "active")
  /\ teardown(n, Id(q), NoChannel, closes)
  /\ \A p \in over : Id(p) = Id(q) /\ task[n][p] # "none"
  /\ task' = [task EXCEPT ![n] = [p \in Pipes |-> IF p \in over THEN "over" ELSE task[n][p]]]
  /\ more \subseteq Dialled /\ asks' = [asks EXCEPT ![n] = @ \cup more]
  /\ q \in more \/ \A p \in Dialled : Id(p) = Id(q) => ~pipe[p].open
  /\ s \in Seq(Events) /\ Only(s, {"closed"}) /\ events[n][q] = s \o events'[n][q]
  /\ \A m \in Nodes, p \in Pipes : m # n \/ p # q => events'[m][p] = events[m][p]
  /\ UNCHANGED <<pipe, dials, sent, heard>>

LEMMA TornDown ==
  ASSUME PipesTypeOK, PipesTypeOK', Regular, NEW n \in Nodes, NEW q \in Dialled,
         NEW closes, NEW over, NEW more, NEW s, TearsDown(n, q, closes, over, more, s)
  PROVE  Regular'
<1> DEFINE i == Id(q)
           c == channels[n][i]
<1>a. pipe' = pipe /\ dials' = dials /\ sent' = sent /\ heard' = heard
  BY DEF TearsDown
<1>b. closes \subseteq {q} /\ (\A p \in closes : session[n][p] = "active")
      /\ teardown(n, Id(q), NoChannel, closes)
  BY DEF TearsDown
<1>o. /\ \A p \in over : Id(p) = Id(q) /\ task[n][p] # "none"
      /\ task' = [task EXCEPT ![n] = [p \in Pipes |-> IF p \in over THEN "over" ELSE task[n][p]]]
  BY DEF TearsDown
<1>m. /\ more \subseteq Dialled /\ asks' = [asks EXCEPT ![n] = @ \cup more]
      /\ q \in more \/ \A p \in Dialled : Id(p) = Id(q) => ~pipe[p].open
  BY DEF TearsDown
<1>s. /\ s \in Seq(Events) /\ Only(s, {"closed"}) /\ events[n][q] = s \o events'[n][q]
      /\ \A m \in Nodes, p \in Pipes : m # n \/ p # q => events'[m][p] = events[m][p]
  BY DEF TearsDown
<1>1. i \in Ids /\ c \in Readers /\ Shape(c) /\ q \in Pipes /\ q # 0
  BY EndTyped, ChannelOf DEF Regular
<1>2. Dialled' = Dialled /\ Dialled \subseteq Pipes /\ \A p : Id(p)' = Id(p)
  BY <1>a DEF Dialled, Id
<1>3. /\ channels' = [channels EXCEPT ![n][i] = NoChannel]
      /\ \A m \in Nodes, j \in Ids :
           channels'[m][j] = IF m = n /\ j = i THEN NoChannel ELSE channels[m][j]
  BY <1>b, <1>1 DEF teardown, PipesTypeOK
<1>4. \A m \in Nodes, p \in Pipes :
        task'[m][p] = IF m = n /\ p \in over THEN "over" ELSE task[m][p]
  BY <1>o DEF PipesTypeOK
<1>5. \A m \in Nodes, p \in Pipes :
        session'[m][p] = IF m = n /\ p \in closes \cup Sessions(n, i) THEN "closed"
                         ELSE session[m][p]
  BY <1>b DEF teardown, PipesTypeOK
<1>6. \A p \in Dialled : p \in closes \cup Sessions(n, i) <=> session[n][p] = "active" /\ Id(p) = i
  <2>1. ASSUME NEW p \in Dialled PROVE session[n][p] = "active" <=> channels[n][Id(p)].connection = p
    BY DEF Regular, Ties
  <2>2. c.connection # 0 => c.connection \in Dialled /\ Id(c.connection) = i
    BY <1>1, ChannelOf DEF Shape
  <2>3. \A p : p \in Sessions(n, i) <=> c.connection # 0 /\ p = c.connection
    BY DEF Sessions, Connected
  <2>4. \A p \in Dialled : p # 0
    BY EndTyped DEF Regular
  <2> QED BY <1>b, <2>1, <2>2, <2>3, <2>4
<1>7. \A p \in Pipes \ Dialled : Id(p) = None /\ i # None
  BY <1>1, BridgedSessionsAssumption DEF Regular, Fresh
<1>8. \A p \in Pipes \ Dialled : p \notin closes \cup Sessions(n, i)
  <2>1. c.connection # 0 => c.connection \in Dialled
    BY <1>1, ChannelOf DEF Shape
  <2> QED BY <1>b, <2>1 DEF Sessions, Connected
<1>9. \A m \in Nodes : asks[m] \subseteq asks'[m]
  BY <1>m DEF PipesTypeOK
<1>10. \A m \in Nodes, p \in Pipes : events'[m][p] \in Seq(Events) /\ events[m][p] \in Seq(Events)
  BY DEF PipesTypeOK
<1>11. events'[n][q] # <<>> => events[n][q] # <<>>
  BY <1>s, <1>1, <1>10
<1>12. Fresh'
  <2>1. \A p \in Dialled' : Id(p)' \in Ids /\ pipe'[p].from \in Nodes
    BY <1>a, <1>2 DEF Regular, Fresh
  <2>2. ASSUME NEW p \in Pipes \ Dialled
        PROVE  /\ ~pipe'[p].open /\ Id(p)' = None
               /\ \A m \in Nodes : /\ events'[m][p] = <<>> /\ p \notin asks'[m]
                                   /\ task'[m][p] = "none" /\ session'[m][p] = "none"
                                   /\ heard'[m][p] = <<>>
    <3>1. p # q /\ p \notin over
      BY <1>o, <1>7
    <3>2. \A m \in Nodes : p \notin asks'[m]
      BY <1>m DEF Regular, Fresh, PipesTypeOK
    <3> QED BY <1>a, <1>s, <1>2, <1>4, <1>5, <1>8, <3>1, <3>2 DEF Regular, Fresh
  <2> QED BY <1>2, <2>1, <2>2 DEF Fresh
<1>13. Shapes'
  <2>1. Shape(NoChannel) /\ NoChannel.reader = 0
    BY DEF Shape, NoChannel, Only
  <2>2. ASSUME NEW m \in Nodes, NEW j \in Ids
        PROVE  /\ Shape(channels'[m][j])
               /\ \A p \in Pipes : channels'[m][j].reader = p => p \in Dialled' /\ Id(p)' = j
    <3>1. CASE m = n /\ j = i
      BY <1>3, <2>1, <3>1, BridgedSessionsAssumption DEF Pipes
    <3>2. CASE ~(m = n /\ j = i)
      BY <1>2, <1>3, <3>2 DEF Regular, Shapes
    <3> QED BY <3>1, <3>2
  <2> QED BY <2>2 DEF Shapes, Shape
<1>14. Currents'
  <2>1. ASSUME NEW p \in Dialled, InUse(p)' PROVE InUse(p)
    <3>1. NoChannel.reader # p
      BY EndTyped DEF NoChannel, Regular
    <3>2. Id(p) \in Ids
      BY EndTyped DEF Regular
    <3> QED BY <1>a, <1>s, <1>2, <1>3, <1>11, <2>1, <3>1, <3>2 DEF InUse
  <2> QED BY <1>2, <2>1 DEF Regular, Currents
<1>15. Ties'
  <2>1. ASSUME NEW m \in Nodes, NEW p \in Dialled
        PROVE  session'[m][p] = "active" <=> channels'[m][Id(p)].connection = p
    <3>1. p # 0 /\ Id(p) \in Ids /\ NoChannel.connection = 0
      BY EndTyped DEF NoChannel, Regular
    <3>2. session[m][p] = "active" <=> channels[m][Id(p)].connection = p
      BY DEF Regular, Ties
    <3> QED BY <1>2, <1>3, <1>5, <1>6, <3>1, <3>2
  <2> QED BY <1>2, <2>1 DEF Ties
<1>16. ASSUME NEW p \in Dialled PROVE PipeOK(p)'
  <2>1. Id(p) \in Ids /\ p \in Pipes /\ p # 0
    BY EndTyped DEF Regular
  <2>2. ASSUME NEW m \in Nodes, m # n \/ Id(p) # i PROVE End(m, p)' = End(m, p)
    <3>1. Id(p)' = Id(p) /\ channels'[m][Id(p)] = channels[m][Id(p)]
      BY <1>2, <1>3, <2>1, <2>2
    <3>2. events'[m][p] = events[m][p] /\ heard'[m][p] = heard[m][p] /\ sent'[m][p] = sent[m][p]
      BY <1>a, <1>s, <2>1, <2>2
    <3>3. task'[m][p] = task[m][p]
      BY <1>o, <1>4, <2>1, <2>2
    <3>4. session'[m][p] = session[m][p]
      BY <1>5, <1>6, <2>1, <2>2
    <3> QED BY <3>1, <3>2, <3>3, <3>4, SameEnd
  <2>3. Asked(p) => Asked(p)'
    BY <1>2, <1>9, StillAsked
  <2>4. CASE Id(p) # i
    BY <1>a, <2>2, <2>3, <2>4, Untouched
  <2>5. CASE Id(p) = i
    <3> DEFINE e == End(n, p)
               x == End(n, p)'
    <3>1. PICK r \in Seq(Events) :
            Due(n, p) = r \o events[n][p] /\ Only(r, {"init", "challenge", "ack", "frame"})
      BY DueParts
    <3>2. x.reader = 0 /\ x.due = events'[n][p]
      BY <1>2, <1>3, <2>1, <2>5 DEF End, Due, NoChannel
    <3>3. PICK t \in Seq(Events) : e.due = t \o x.due /\ ~Carries(t, "inbound")
      <4>1. CASE p = q
        <5> DEFINE a == events'[n][q]
        <5>1. a \in Seq(Events) /\ e.due = r \o (s \o a)
          BY <1>s, <1>1, <1>10, <3>1, <4>1 DEF End
        <5>x. x.due = a
          BY <3>2, <4>1
        <5> HIDE DEF a
        <5>2. r \o (s \o a) = (r \o s) \o a
          BY <3>1, <5>1, ConcatAssociative
        <5>3. r \o s \in Seq(Events) /\ ~Carries(r \o s, "inbound")
          <6>1. ~Carries(r, "inbound") /\ ~Carries(s, "inbound")
            BY <1>s, <3>1 DEF Only, Carries
          <6> QED BY <1>s, <3>1, <6>1, JoinedCarries, JoinedAt
        <5> QED BY <5>1, <5>x, <5>2, <5>3
      <4>2. CASE p # q
        <5>1. e.due = r \o x.due
          BY <1>s, <2>1, <3>1, <3>2, <4>2 DEF End
        <5>2. ~Carries(r, "inbound")
          BY <3>1 DEF Only, Carries
        <5> QED BY <3>1, <5>1, <5>2
      <4> QED BY <4>1, <4>2
    <3>4. x.task = e.task \/ (x.task = "over" /\ e.task # "none")
      <4>1. x.task = task'[n][p] /\ e.task = task[n][p]
        BY DEF End
      <4>2. task'[n][p] = IF p \in over THEN "over" ELSE task[n][p]
        BY <1>4, <2>1
      <4>3. p \in over => task[n][p] # "none"
        BY <1>o
      <4> HIDE DEF e, x
      <4> QED BY <4>1, <4>2, <4>3
    <3>5. x.session = IF e.session = "active" THEN "closed" ELSE e.session
      BY <1>5, <1>6, <2>1, <2>5 DEF End
    <3>6. x.heard = e.heard /\ x.sent = e.sent
      BY <1>a DEF End
    <3>7. pipe[p].open => Asked(p)'
      BY <1>a, <1>m, <1>2, <2>5 DEF Asked, PipesTypeOK
    <3>8. End(Other(n), p)' = End(Other(n), p) /\ Other(n) \in Nodes
      BY <2>2, OneOther
    <3>9. pipe[p].open => Asked(p)'
      BY <3>7
    <3>10. Moves(n, p) /\ pipe'[p] = pipe[p]
      BY <1>a, <1>2, <1>12 DEF Moves
    <3>11. x.reader # p /\ Becomes(n, p, e, x)
      BY <2>1, <3>2 DEF Becomes
    <3> HIDE DEF e, x
    <3> QED BY <2>3, <3>3, <3>4, <3>5, <3>6, <3>8, <3>9, <3>10, <3>11, PipeDrops
  <2> QED BY <2>4, <2>5
<1> QED BY <1>2, <1>12, <1>13, <1>14, <1>15, <1>16 DEF Regular

(* Where nothing but one handshake moves.                                  *)
TaskMoves(n, q, t) ==
  /\ task' = [task EXCEPT ![n][q] = t]
  /\ UNCHANGED <<pipe, dials, events, asks, channels, session, sent, heard>>

LEMMA HandshakeMoves ==
  ASSUME PipesTypeOK, PipesTypeOK', Regular, NEW n \in Nodes, NEW q \in Dialled, NEW t,
         TaskMoves(n, q, t),
         \/ /\ task[n][q] \in {"writeInit", "challenge", "writeAck"} /\ t = "over"
            /\ task[n][q] = "writeAck" => ~pipe[q].open
         \/ task[n][q] = "writeInit" /\ t = "challenge"
         \/ task[n][q] = "writeChallenge" /\ t = "ack"
  PROVE  Regular'
<1>a. /\ pipe' = pipe /\ dials' = dials /\ events' = events /\ asks' = asks
      /\ channels' = channels /\ session' = session /\ sent' = sent /\ heard' = heard
  BY DEF TaskMoves
<1>b. task' = [task EXCEPT ![n][q] = t]
  BY DEF TaskMoves
<1>1. Dialled' = Dialled /\ Dialled \subseteq Pipes /\ \A p : Id(p)' = Id(p) /\ InUse(p)' = InUse(p)
  BY <1>a DEF Dialled, Id, InUse
<1>2. \A m \in Nodes, p \in Pipes : task'[m][p] = IF m = n /\ p = q THEN t ELSE task[m][p]
  BY <1>b DEF PipesTypeOK
<1>3. Fresh'
  BY <1>1, <1>2, <1>a DEF Regular, Fresh
<1>4. Shapes'
  BY <1>1, <1>a DEF Regular, Shapes, Shape
<1>5. Currents' /\ Ties'
  BY <1>1, <1>a DEF Regular, Currents, Ties
<1>6. ASSUME NEW p \in Dialled PROVE PipeOK(p)'
  <2>1. ASSUME NEW m \in Nodes, m # n \/ p # q PROVE End(m, p)' = End(m, p)
    BY <1>1, <1>2, <1>a, <2>1, SameEnd
  <2>2. Asked(p)' = Asked(p) /\ pipe'[p] = pipe[p]
    BY <1>1, <1>a DEF Asked
  <2>3. CASE p # q
    BY <2>1, <2>2, <2>3, Untouched
  <2>4. CASE p = q
    <3>1. /\ Moves(n, p) /\ End(Other(n), p)' = End(Other(n), p)
          /\ pipe[p].open /\ Asked(p) => Asked(p)'
      BY <1>1, <1>3, <2>1, <2>2, OneOther DEF Moves
    <3>2. /\ End(n, p)'.task = t /\ End(n, p).task = task[n][p]
          /\ End(n, p)'.reader = End(n, p).reader /\ End(n, p)'.due = End(n, p).due
          /\ End(n, p)'.session = End(n, p).session /\ End(n, p)'.heard = End(n, p).heard
          /\ End(n, p)'.sent = End(n, p).sent
      BY <1>1, <1>2, <1>a, <2>4 DEF End, Due
    <3> DEFINE e == End(n, p)
               x == End(n, p)'
    <3>3. Becomes(n, p, e, x)
      BY DEF Becomes
    <3> HIDE DEF e, x
    <3>4. /\ x.task = t /\ e.task = task[n][p]
          /\ x.reader = e.reader /\ x.due = e.due /\ x.session = e.session
          /\ x.heard = e.heard /\ x.sent = e.sent
      BY <3>2 DEF e, x
    <3>5. CASE e.task \in {"writeInit", "challenge", "writeAck"} /\ t = "over"
      BY <2>2, <2>4, <3>1, <3>3, <3>4, <3>5, PipeQuits
    <3>6. CASE \/ e.task = "writeInit" /\ t = "challenge"
               \/ e.task = "writeChallenge" /\ t = "ack"
      BY <2>2, <3>1, <3>3, <3>4, <3>6, PipeWrote
    <3> QED BY <2>4, <3>4, <3>5, <3>6
  <2> QED BY <2>3, <2>4
<1> QED BY <1>1, <1>3, <1>4, <1>5, <1>6 DEF Regular

(* What fails with a channel is of its id, and has begun.                  *)
LEMMA FailedOf ==
  ASSUME PipesTypeOK, Regular, NEW n \in Nodes, NEW q \in Dialled, NEW p \in Failed(n, Id(q))
  PROVE  p \in Dialled /\ Id(p) = Id(q) /\ task[n][p] # "none"
<1>1. Id(q) \in Ids
  BY EndTyped DEF Regular
<1> QED BY <1>1, ChannelOf, BridgedSessionsAssumption DEF Failed, Waiting, Pipes

(* connect() rejects, or accept() does and drops the id.                   *)
LEMMA FailKeeps ==
  ASSUME PipesTypeOK, PipesTypeOK', Regular, NEW n \in Nodes, NEW q \in Dialled, fail(n, q),
         task[n][q] \in Writing \cup Waiting, task[n][q] = "writeAck" => ~pipe[q].open,
         UNCHANGED <<pipe, dials, events, sent, heard>>
  PROVE  Regular'
<1>1. CASE task[n][q] \in {"writeInit", "challenge", "writeAck"}
  <2>1. TaskMoves(n, q, "over")
    BY <1>1 DEF fail, TaskMoves
  <2> QED BY <1>1, <2>1, HandshakeMoves
<1>2. CASE task[n][q] \notin {"writeInit", "challenge", "writeAck"}
  <2>1. /\ teardown(n, Id(q), NoChannel, {})
        /\ task' = [task EXCEPT ![n] = [ended(n, Id(q)) EXCEPT ![q] = "over"]]
        /\ asks' = [asks EXCEPT ![n] = @ \cup ({q} \cup dropped(n, Id(q)))]
    BY <1>2 DEF fail
  <2> DEFINE over == Failed(n, Id(q)) \cup {q}
             more == {q} \cup dropped(n, Id(q))
  <2>2. [ended(n, Id(q)) EXCEPT ![q] = "over"]
        = [p \in Pipes |-> IF p \in over THEN "over" ELSE task[n][p]]
    BY DEF ended
  <2>3. \A p \in over : Id(p) = Id(q) /\ task[n][p] # "none"
    BY FailedOf DEF Writing, Waiting
  <2>4. q \in Pipes /\ events[n][q] \in Seq(Events)
    BY EndTyped DEF Regular
  <2>5. <<>> \in Seq(Events) /\ Only(<<>>, {"closed"}) /\ events[n][q] = <<>> \o events'[n][q]
    BY <2>4 DEF Only
  <2>6. more \subseteq Dialled /\ q \in more
    BY FailedOf DEF dropped
  <2> HIDE DEF over
  <2>7. /\ task' = [task EXCEPT ![n] = [p \in Pipes |-> IF p \in over THEN "over" ELSE task[n][p]]]
        /\ asks' = [asks EXCEPT ![n] = @ \cup more]
    BY <2>1, <2>2
  <2> HIDE DEF more
  <2>8. TearsDown(n, q, {}, over, more, <<>>)
    BY <2>1, <2>3, <2>5, <2>6, <2>7 DEF TearsDown
  <2> QED BY <2>8, TornDown
<1> QED BY <1>1, <1>2

LEMMA CloseKeeps ==
  ASSUME PipesTypeOK, PipesTypeOK', Regular, NEW n \in Nodes, NEW q \in Dialled, Close(n, q)
  PROVE  Regular'
<1>1. /\ session[n][q] = "active" /\ teardown(n, Id(q), NoChannel, {q})
      /\ task' = [task EXCEPT ![n] = ended(n, Id(q))]
      /\ asks' = [asks EXCEPT ![n] = @ \cup ({q} \cup dropped(n, Id(q)))]
      /\ UNCHANGED <<pipe, dials, events, sent, heard>>
  BY DEF Close, host, seen
<1> DEFINE over == Failed(n, Id(q))
           more == {q} \cup dropped(n, Id(q))
<1>2. ended(n, Id(q)) = [p \in Pipes |-> IF p \in over THEN "over" ELSE task[n][p]]
  BY DEF ended
<1>3. \A p \in over : Id(p) = Id(q) /\ task[n][p] # "none"
  BY FailedOf
<1>4. q \in Pipes /\ events[n][q] \in Seq(Events)
  BY EndTyped DEF Regular
<1>5. <<>> \in Seq(Events) /\ Only(<<>>, {"closed"}) /\ events[n][q] = <<>> \o events'[n][q]
  BY <1>1, <1>4 DEF Only
<1>6. more \subseteq Dialled /\ q \in more
  BY FailedOf DEF dropped
<1> HIDE DEF over
<1>7. /\ task' = [task EXCEPT ![n] = [p \in Pipes |-> IF p \in over THEN "over" ELSE task[n][p]]]
      /\ asks' = [asks EXCEPT ![n] = @ \cup more]
  BY <1>1, <1>2
<1> HIDE DEF more
<1>8. TearsDown(n, q, {q}, over, more, <<>>)
  BY <1>1, <1>3, <1>5, <1>6, <1>7 DEF TearsDown
<1> QED BY <1>8, TornDown

(* A pipe whose line is not empty: what is first in it is due.             *)
LEMMA HeadDue ==
  ASSUME PipesTypeOK, Regular, NEW n \in Nodes, NEW q \in Dialled, events[n][q] # <<>>
  PROVE  /\ Carries(End(n, q).due, Head(events[n][q]).type)
         /\ \E b \in Events : b = Head(events[n][q]) /\ events[n][q] = <<b>> \o Tail(events[n][q])
         /\ Tail(events[n][q]) \in Seq(Events)
<1>1. events[n][q] \in Seq(Events)
  BY EndTyped DEF Regular
<1>2. PICK b \in Events : b = Head(events[n][q]) /\ events[n][q] = <<b>> \o Tail(events[n][q])
  <2>1. Head(events[n][q]) \in Events
    BY <1>1
  <2>2. events[n][q] = <<Head(events[n][q])>> \o Tail(events[n][q])
    BY <1>1, ConcatSimplifications
  <2> QED BY <2>1, <2>2
<1>3. 1 \in DOMAIN events[n][q] /\ Head(events[n][q]) = events[n][q][1]
  BY <1>1
<1>4. Carries(events[n][q], b.type)
  BY <1>2, <1>3 DEF Carries
<1>5. PICK s \in Seq(Events) : Due(n, q) = s \o events[n][q]
  BY DueParts
<1>6. Carries(Due(n, q), b.type)
  BY <1>1, <1>4, <1>5, JoinedCarries
<1> QED BY <1>1, <1>2, <1>6 DEF End

(* A pipe in use is the one among those of its id.                         *)
LEMMA ClosedKeeps ==
  ASSUME PipesTypeOK, PipesTypeOK', Regular, NEW n \in Nodes, NEW q \in Dialled, Closed(n, q)
  PROVE  Regular'
<1>1. /\ events[n][q] # <<>> /\ Head(events[n][q]).type = "closed"
      /\ teardown(n, Id(q), NoChannel, {})
      /\ task' = [task EXCEPT ![n] = ended(n, Id(q))]
      /\ asks' = [asks EXCEPT ![n] = @ \cup dropped(n, Id(q))]
      /\ events' = [events EXCEPT ![n][q] = Tail(@)]
      /\ UNCHANGED <<pipe, dials, sent, heard>>
  BY DEF Closed, Reports, host, seen
<1> DEFINE over == Failed(n, Id(q))
           more == dropped(n, Id(q))
<1>2. ended(n, Id(q)) = [p \in Pipes |-> IF p \in over THEN "over" ELSE task[n][p]]
  BY DEF ended
<1>3. \A p \in over : Id(p) = Id(q) /\ task[n][p] # "none"
  BY FailedOf
<1>4. more \subseteq Dialled
  BY FailedOf DEF dropped
<1>5. q \in Pipes
  BY DEF Dialled
<1>6. PICK b \in Events : b = Head(events[n][q]) /\ events[n][q] = <<b>> \o Tail(events[n][q])
  BY <1>1, HeadDue
<1>7. events'[n][q] = Tail(events[n][q])
  BY <1>1, <1>5 DEF PipesTypeOK
<1>8. \A m \in Nodes, p \in Pipes : m # n \/ p # q => events'[m][p] = events[m][p]
  BY <1>1 DEF PipesTypeOK
<1>9. \A p \in Dialled : Id(p) = Id(q) => ~pipe[p].open
  <2>1. ~pipe[q].open
    <3>1. Carries(End(n, q).due, "closed")
      BY <1>1, HeadDue
    <3>2. Ending(pipe[q], q, End(n, q))
      BY DEF Regular, PipeOK, EndOK
    <3> QED BY <3>1, <3>2 DEF Ending
  <2>2. InUse(q)
    BY <1>1 DEF InUse
  <2>3. ASSUME NEW p \in Dialled, Id(p) = Id(q), pipe[p].open PROVE FALSE
    <3>1. InUse(p)
      BY <2>3 DEF InUse
    <3>2. p = q
      BY <2>2, <2>3, <3>1, OneInUse
    <3> QED BY <2>1, <2>3, <3>2
  <2> QED BY <2>3
<1>10. <<b>> \in Seq(Events) /\ Only(<<b>>, {"closed"}) /\ events[n][q] = <<b>> \o events'[n][q]
  <2>1. DOMAIN <<b>> = {1} /\ <<b>>[1] = b /\ <<b>> \in Seq(Events)
    OBVIOUS
  <2>2. b.type = "closed"
    BY <1>1, <1>6
  <2>3. Only(<<b>>, {"closed"})
    BY <2>1, <2>2 DEF Only
  <2> QED BY <1>6, <1>7, <2>1, <2>3
<1> HIDE DEF over, more
<1>11. TearsDown(n, q, {}, over, more, <<b>>)
  <2>1. /\ task' = [task EXCEPT ![n] = [p \in Pipes |-> IF p \in over THEN "over" ELSE task[n][p]]]
        /\ asks' = [asks EXCEPT ![n] = @ \cup more]
    BY <1>1, <1>2 DEF more
  <2> QED BY <1>1, <1>3, <1>4, <1>8, <1>9, <1>10, <2>1 DEF TearsDown
<1> QED BY <1>11, TornDown

(* A session begins on its own channel, which has been read until then.    *)
SessionBegins(n, q) ==
  /\ channels' = [channels EXCEPT ![n][Id(q)] =
       [reader |-> q, mode |-> "frames", buffer |-> <<>>, connection |-> q]]
  /\ session' = [session EXCEPT ![n][q] = "active"]
  /\ task' = [task EXCEPT ![n][q] = "over"]
  /\ UNCHANGED <<pipe, dials, events, asks, sent, heard>>

LEMMA BeginsKeeps ==
  ASSUME PipesTypeOK, PipesTypeOK', Regular, NEW n \in Nodes, NEW q \in Dialled,
         SessionBegins(n, q), channels[n][Id(q)].reader = q,
         \/ task[n][q] = "writeAck"
         \/ /\ task[n][q] = "ack" /\ channels[n][Id(q)].buffer # <<>>
            /\ Head(channels[n][Id(q)].buffer).type = "ack"
  PROVE  Regular'
<1>a. /\ pipe' = pipe /\ dials' = dials /\ events' = events /\ asks' = asks
      /\ sent' = sent /\ heard' = heard
  BY DEF SessionBegins
<1>b. /\ channels' = [channels EXCEPT ![n][Id(q)] =
           [reader |-> q, mode |-> "frames", buffer |-> <<>>, connection |-> q]]
      /\ session' = [session EXCEPT ![n][q] = "active"]
      /\ task' = [task EXCEPT ![n][q] = "over"]
  BY DEF SessionBegins
<1> DEFINE i == Id(q)
           c == channels[n][i]
           d == [reader |-> q, mode |-> "frames", buffer |-> <<>>, connection |-> q]
<1>1. i \in Ids /\ c \in Readers /\ Shape(c) /\ q \in Pipes /\ q # 0 /\ c.buffer \in Seq(Events)
  BY EndTyped, ChannelOf DEF Regular
<1>2. Dialled' = Dialled /\ Dialled \subseteq Pipes /\ \A p : Id(p)' = Id(p)
  BY <1>a DEF Dialled, Id
<1>3. \A m \in Nodes, j \in Ids : channels'[m][j] = IF m = n /\ j = i THEN d ELSE channels[m][j]
  BY <1>1, <1>b DEF PipesTypeOK
<1>4. /\ \A m \in Nodes, p \in Pipes : task'[m][p] = IF m = n /\ p = q THEN "over" ELSE task[m][p]
      /\ \A m \in Nodes, p \in Pipes :
           session'[m][p] = IF m = n /\ p = q THEN "active" ELSE session[m][p]
  <2>1. \A m \in Nodes, p \in Pipes : task'[m][p] = IF m = n /\ p = q THEN "over" ELSE task[m][p]
    BY <1>b DEF PipesTypeOK
  <2>2. \A m \in Nodes, p \in Pipes :
           session'[m][p] = IF m = n /\ p = q THEN "active" ELSE session[m][p]
    BY <1>b DEF PipesTypeOK
  <2> QED BY <2>1, <2>2
<1>5. d.reader = q /\ d.mode = "frames" /\ d.buffer = <<>> /\ d.connection = q
  OBVIOUS
<1>6. c.reader = q /\ (c.connection # 0 => c.connection = q)
  BY <1>1 DEF Shape
<1> HIDE DEF d
<1>7. Fresh'
  BY <1>2, <1>4, <1>a DEF Regular, Fresh
<1>8. Shapes'
  <2>1. Shape(d)
    BY <1>1, <1>5 DEF Shape, Only
  <2>2. ASSUME NEW m \in Nodes, NEW j \in Ids
        PROVE  /\ Shape(channels'[m][j])
               /\ \A p \in Pipes : channels'[m][j].reader = p => p \in Dialled' /\ Id(p)' = j
    <3>1. CASE m = n /\ j = i
      BY <1>2, <1>3, <1>5, <2>1, <3>1
    <3>2. CASE ~(m = n /\ j = i)
      BY <1>2, <1>3, <3>2 DEF Regular, Shapes
    <3> QED BY <3>1, <3>2
  <2> QED BY <2>2 DEF Shapes, Shape
<1>9. Currents'
  <2>1. ASSUME NEW p \in Dialled, InUse(p)' PROVE InUse(p)
    <3>1. Id(p) \in Ids
      BY EndTyped DEF Regular
    <3> QED BY <1>2, <1>3, <1>5, <1>6, <1>a, <2>1, <3>1 DEF InUse
  <2> QED BY <1>2, <2>1 DEF Regular, Currents
<1>10. Ties'
  <2>1. ASSUME NEW m \in Nodes, NEW p \in Dialled
        PROVE  session'[m][p] = "active" <=> channels'[m][Id(p)].connection = p
    <3>1. p # 0 /\ Id(p) \in Ids /\ p \in Pipes
      BY EndTyped DEF Regular
    <3>2. session[m][p] = "active" <=> channels[m][Id(p)].connection = p
      BY DEF Regular, Ties
    <3>3. CASE m = n /\ p = q
      BY <1>3, <1>4, <1>5, <3>1, <3>3
    <3>4. CASE m = n /\ p # q /\ Id(p) = i
      BY <1>3, <1>4, <1>5, <1>6, <3>1, <3>2, <3>4
    <3>5. CASE ~(m = n /\ Id(p) = i)
      BY <1>3, <1>4, <3>1, <3>2, <3>5
    <3> QED BY <3>3, <3>4, <3>5
  <2> QED BY <1>2, <2>1 DEF Ties
<1>11. ASSUME NEW p \in Dialled PROVE PipeOK(p)'
  <2>1. Id(p) \in Ids /\ p \in Pipes /\ p # 0 /\ pipe'[p] = pipe[p] /\ Asked(p)' = Asked(p)
    BY <1>2, <1>a, EndTyped DEF Regular, Asked
  <2>2. ASSUME NEW m \in Nodes, m # n \/ p # q PROVE End(m, p)' = End(m, p)
    <3>1. task'[m][p] = task[m][p] /\ session'[m][p] = session[m][p]
      BY <1>4, <2>1, <2>2
    <3>2. CASE ~(m = n /\ Id(p) = i)
      <4>1. channels'[m][Id(p)] = channels[m][Id(p)]
        BY <1>3, <2>1, <3>2
      <4> QED BY <1>2, <1>a, <3>1, <4>1, SameEnd
    <3>3. CASE m = n /\ Id(p) = i
      BY <1>2, <1>3, <1>5, <1>6, <1>a, <2>1, <2>2, <3>1, <3>3 DEF End, Due
    <3> QED BY <3>2, <3>3
  <2>3. CASE p # q
    BY <2>1, <2>2, <2>3, Untouched
  <2>4. CASE p = q
    <3>1. /\ Moves(n, q) /\ End(Other(n), q)' = End(Other(n), q)
          /\ pipe[q].open /\ Asked(q) => Asked(q)'
      BY <1>2, <1>7, <2>1, <2>2, <2>4, OneOther DEF Moves
    <3> DEFINE e == End(n, q)
               x == End(n, q)'
               s == c.buffer
    <3>2. /\ e.reader = q /\ e.task = task[n][q] /\ e.due = s \o events[n][q]
          /\ x.task = "over" /\ x.session = "active" /\ x.heard = e.heard /\ x.sent = e.sent
      BY <1>1, <1>3, <1>4, <1>6, <1>a DEF End, Due
    <3>3. x.due = events[n][q]
      <4>1. x.due = <<>> \o events[n][q]
        BY <1>1, <1>2, <1>3, <1>5, <1>a DEF End, Due
      <4>2. events[n][q] \in Seq(Events)
        BY EndTyped DEF Regular
      <4> QED BY <4>1, <4>2
    <3>4. Becomes(n, q, e, x)
      BY DEF Becomes
    <3>5. s \in Seq(Events) /\ ~Carries(s, "closed")
      <4>1. Only(s, {"init", "challenge", "ack", "frame"})
        BY <1>1 DEF Shape
      <4> QED BY <1>1, <4>1 DEF Only, Carries
    <3>6. task[n][q] = "ack" => s # <<>> /\ Head(s).type = "ack"
      OBVIOUS
    <3> HIDE DEF e, x, s
    <3>7. e.due = s \o x.due
      BY <3>2, <3>3
    <3>8. CASE task[n][q] = "writeAck"
      BY <2>1, <2>4, <3>1, <3>2, <3>4, <3>5, <3>7, <3>8, PipeEstablishes
    <3>9. CASE task[n][q] = "ack"
      <4>1. PICK b \in Events, r \in Seq(Events) : s = <<b>> \o r /\ b.type = "ack"
        <5>1. Head(s) \in Events /\ Tail(s) \in Seq(Events)
          BY <3>5, <3>6, <3>9
        <5>2. s = <<Head(s)>> \o Tail(s)
          BY <3>5, <3>6, <3>9, ConcatSimplifications
        <5> QED BY <3>6, <3>9, <5>1, <5>2
      <4>2. <<b>> \in Seq(Events)
        OBVIOUS
      <4>3. ~Carries(r, "closed")
        BY <3>5, <4>1, <4>2, JoinedCarries
      <4>4. e.due = (<<b>> \o r) \o x.due
        BY <3>7, <4>1
      <4> QED BY <2>1, <2>4, <3>1, <3>2, <3>4, <3>9, <4>1, <4>3, <4>4, PipeAcknowledged
    <3> QED BY <3>8, <3>9
  <2> QED BY <2>3, <2>4
<1> QED BY <1>2, <1>7, <1>8, <1>9, <1>10, <1>11 DEF Regular

LEMMA WrittenKeeps ==
  ASSUME PipesTypeOK, PipesTypeOK', Regular, NEW n \in Nodes, NEW q \in Dialled, Written(n, q),
         ~stray, ~stray'
  PROVE  Regular'
<1>1. task[n][q] \in Writing /\ UNCHANGED <<pipe, dials, events, asks, sent>>
  BY DEF Written, host
<1>2. CASE task[n][q] = "writeAck"
  <2>1. establish(n, q) /\ heard' = heard
    BY <1>2 DEF Written
  <2>2. channels[n][Id(q)].reader = q /\ q # 0
    BY <2>1, EndTyped DEF establish, Regular
  <2>3. channels[n][Id(q)].mode # "none"
    <3>1. Id(q) \in Ids
      BY EndTyped DEF Regular
    <3> QED BY <2>2, <3>1, ChannelOf DEF Shape
  <2>4. SessionBegins(n, q)
    BY <1>1, <2>1, <2>2, <2>3 DEF establish, SessionBegins
  <2> QED BY <1>2, <2>2, <2>4, BeginsKeeps
<1>3. CASE task[n][q] # "writeAck"
  <2>1. TaskMoves(n, q, IF task[n][q] = "writeInit" THEN "challenge" ELSE "ack")
    BY <1>1, <1>3 DEF Written, TaskMoves, seen
  <2> QED BY <1>1, <1>3, <2>1, HandshakeMoves DEF Writing
<1> QED BY <1>2, <1>3

(* What is written to the pipe in use reaches the other end of that pipe,  *)
(* and nothing else.                                                       *)
LEMMA PutOn ==
  ASSUME PipesTypeOK, Regular, NEW n \in Nodes, NEW q \in Dialled, InUse(q), NEW t,
         put(n, Id(q), t)
  PROVE  \A m \in Nodes, p \in Pipes :
           events'[m][p] = IF m = Other(n) /\ p = q /\ pipe[q].open THEN events[m][p] \o t
                           ELSE events[m][p]
<1>1. Other(n) \in Nodes
  BY OneOther
<1>2. \A m \in Nodes, p \in Pipes :
        events'[m][p] = IF m = Other(n) /\ p \in Open(Id(q)) THEN events[m][p] \o t
                        ELSE events[m][p]
  BY <1>1 DEF put, PipesTypeOK
<1>3. ASSUME NEW p \in Open(Id(q)) PROVE p = q /\ pipe[q].open
  <2>1. p \in Pipes /\ pipe[p].open /\ Id(p) = Id(q)
    BY <1>3 DEF Open, Id
  <2>2. p \in Dialled /\ InUse(p)
    BY <2>1 DEF Regular, Fresh, InUse
  <2> QED BY <2>1, <2>2, OneInUse
<1>4. pipe[q].open => q \in Open(Id(q))
  BY DEF Open, Dialled, Id
<1> QED BY <1>2, <1>3, <1>4

LEMMA PutReaches ==
  ASSUME PipesTypeOK, Regular, NEW m \in Nodes, NEW q \in Dialled, NEW t \in Seq(Events),
         events'[m][q] = IF pipe[q].open THEN events[m][q] \o t ELSE events[m][q],
         Id(q)' = Id(q), channels'[m][Id(q)] = channels[m][Id(q)], task'[m][q] = task[m][q],
         session'[m][q] = session[m][q], heard'[m][q] = heard[m][q], sent'[m][q] = sent[m][q],
         NEW f, NEW y, Becomes(m, q, f, y)
  PROVE  Reaches(q, f, y, t)
<1>1. /\ f = End(m, q) /\ y = End(m, q)'
  BY DEF Becomes
<1>2. /\ y.reader = f.reader /\ y.task = f.task /\ y.session = f.session /\ y.heard = f.heard
      /\ y.sent = f.sent
  BY <1>1 DEF End
<1>3. f.due = Due(m, q) /\ y.due = Due(m, q)'
  BY <1>1 DEF End
<1>4. Due(m, q)' = IF pipe[q].open THEN Due(m, q) \o t ELSE Due(m, q)
  <2> DEFINE b == channels[m][Id(q)].buffer
             l == events[m][q]
  <2>1. b \in Seq(Events) /\ l \in Seq(Events)
    BY EndTyped DEF Regular
  <2>2. Due(m, q) = IF channels[m][Id(q)].reader = q THEN b \o l ELSE l
    BY DEF Due
  <2>3. Due(m, q)' = IF channels[m][Id(q)].reader = q THEN b \o events'[m][q] ELSE events'[m][q]
    BY DEF Due
  <2>4. events'[m][q] = IF pipe[q].open THEN l \o t ELSE l
    OBVIOUS
  <2> HIDE DEF b, l
  <2>5. b \o (l \o t) = (b \o l) \o t
    BY <2>1, ConcatAssociative
  <2> QED BY <2>2, <2>3, <2>4, <2>5
<1> QED BY <1>2, <1>3, <1>4 DEF Reaches

(* A message is taken from the reader, and the next is written.            *)
Takes(n, q, task1, type) ==
  /\ channels' = taken(n, q)
  /\ put(n, Id(q), <<Message(type)>>)
  /\ task' = [task EXCEPT ![n][q] = task1]
  /\ UNCHANGED <<pipe, dials, asks, session, sent, heard>>

LEMMA TakesKeeps ==
  ASSUME PipesTypeOK, PipesTypeOK', Regular, NEW n \in Nodes, NEW q \in Dialled, NEW t, NEW k,
         Takes(n, q, t, k), channels[n][Id(q)].reader = q, channels[n][Id(q)].mode = "control",
         channels[n][Id(q)].buffer # <<>>,
         Head(channels[n][Id(q)].buffer).type = task[n][q],
         \/ task[n][q] = "init" /\ t = "writeChallenge" /\ k = "challenge"
         \/ task[n][q] = "challenge" /\ t = "writeAck" /\ k = "ack"
  PROVE  Regular'
<1>a. /\ pipe' = pipe /\ dials' = dials /\ asks' = asks /\ session' = session
      /\ sent' = sent /\ heard' = heard
  BY DEF Takes
<1> DEFINE i == Id(q)
           c == channels[n][i]
           d == [c EXCEPT !.buffer = Tail(@)]
<1>1. i \in Ids /\ c \in Readers /\ Shape(c) /\ q \in Pipes /\ q # 0 /\ c.buffer \in Seq(Events)
  BY EndTyped, ChannelOf DEF Regular
<1>2. Dialled' = Dialled /\ Dialled \subseteq Pipes /\ \A p : Id(p)' = Id(p)
  BY <1>a DEF Dialled, Id
<1>3. \A m \in Nodes, j \in Ids : channels'[m][j] = IF m = n /\ j = i THEN d ELSE channels[m][j]
  BY <1>1 DEF Takes, taken, PipesTypeOK
<1>4. /\ \A m \in Nodes, p \in Pipes : task'[m][p] = IF m = n /\ p = q THEN t ELSE task[m][p]
  BY DEF Takes, PipesTypeOK
<1>5. /\ d.reader = c.reader /\ d.mode = c.mode /\ d.connection = c.connection
      /\ d.buffer = Tail(c.buffer) /\ Tail(c.buffer) \in Seq(Events)
  BY <1>1 DEF Readers
<1>6. PICK b \in Events : c.buffer = <<b>> \o Tail(c.buffer) /\ b.type = task[n][q]
  <2>1. Head(c.buffer) \in Events
    BY <1>1
  <2>2. c.buffer = <<Head(c.buffer)>> \o Tail(c.buffer)
    BY <1>1, ConcatSimplifications
  <2> QED BY <2>1, <2>2
<1>7. <<b>> \in Seq(Events)
  OBVIOUS
<1>c. c.reader = q /\ c.mode = "control"
  OBVIOUS
<1> HIDE DEF d
<1>8. InUse(q)
  BY DEF InUse
<1>9. \A m \in Nodes, p \in Pipes :
        events'[m][p] = IF m = Other(n) /\ p = q /\ pipe[q].open
                        THEN events[m][p] \o <<Message(k)>> ELSE events[m][p]
  BY <1>8, PutOn DEF Takes
<1>10. Fresh'
  BY <1>2, <1>4, <1>9, <1>a DEF Regular, Fresh
<1>11. Shapes'
  <2>1. Shape(d)
    <3>1. Only(c.buffer, {"init", "challenge", "ack", "frame"})
      BY <1>1 DEF Shape
    <3> DEFINE r == Tail(c.buffer)
    <3>2. Only(<<b>> \o r, {"init", "challenge", "ack", "frame"}) /\ r \in Seq(Events)
      BY <1>5, <1>6, <3>1
    <3> HIDE DEF r
    <3>3. Only(r, {"init", "challenge", "ack", "frame"})
      BY <1>7, <3>2, JoinedOnly
    <3> QED BY <1>1, <1>5, <1>c, <3>3 DEF Shape, r
  <2>2. ASSUME NEW m \in Nodes, NEW j \in Ids
        PROVE  /\ Shape(channels'[m][j])
               /\ \A p \in Pipes : channels'[m][j].reader = p => p \in Dialled' /\ Id(p)' = j
    <3>1. CASE m = n /\ j = i
      BY <1>2, <1>3, <1>5, <1>c, <2>1, <3>1
    <3>2. CASE ~(m = n /\ j = i)
      BY <1>2, <1>3, <3>2 DEF Regular, Shapes
    <3> QED BY <3>1, <3>2
  <2> QED BY <2>2 DEF Shapes, Shape
<1>12. Currents'
  <2>1. ASSUME NEW p \in Dialled, InUse(p)' PROVE InUse(p)
    <3>1. CASE p = q
      BY <1>8, <3>1
    <3>2. CASE p # q
      <4>1. Id(p) \in Ids
        BY EndTyped DEF Regular
      <4> QED BY <1>2, <1>3, <1>5, <1>9, <1>a, <2>1, <3>2, <4>1 DEF InUse
    <3> QED BY <3>1, <3>2
  <2> QED BY <1>2, <2>1 DEF Regular, Currents
<1>13. Ties'
  <2>1. ASSUME NEW m \in Nodes, NEW p \in Dialled
        PROVE  session'[m][p] = "active" <=> channels'[m][Id(p)].connection = p
    <3>1. Id(p) \in Ids
      BY EndTyped DEF Regular
    <3>2. session[m][p] = "active" <=> channels[m][Id(p)].connection = p
      BY DEF Regular, Ties
    <3> QED BY <1>3, <1>5, <1>a, <3>1, <3>2
  <2> QED BY <1>2, <2>1 DEF Ties
<1>14. ASSUME NEW p \in Dialled PROVE PipeOK(p)'
  <2>1. Id(p) \in Ids /\ p \in Pipes /\ p # 0 /\ pipe'[p] = pipe[p] /\ Asked(p)' = Asked(p)
    BY <1>2, <1>a, EndTyped DEF Regular, Asked
  <2>2. ASSUME NEW m \in Nodes, p # q PROVE End(m, p)' = End(m, p)
    <3>1. task'[m][p] = task[m][p] /\ events'[m][p] = events[m][p]
      BY <1>4, <1>9, <2>1, <2>2
    <3>2. CASE ~(m = n /\ Id(p) = i)
      <4>1. channels'[m][Id(p)] = channels[m][Id(p)]
        BY <1>3, <2>1, <3>2
      <4> QED BY <1>2, <1>a, <3>1, <4>1, SameEnd
    <3>3. CASE m = n /\ Id(p) = i
      BY <1>2, <1>3, <1>5, <1>c, <1>a, <2>1, <2>2, <3>1, <3>3 DEF End, Due
    <3> QED BY <3>2, <3>3
  <2>3. CASE p # q
    BY <2>1, <2>2, <2>3, Untouched
  <2>4. CASE p = q
    <3>1. Moves(n, q) /\ Other(n) \in Nodes /\ Other(n) # n /\ pipe'[q] = pipe[q]
          /\ (Asked(q) <=> Asked(q)')
      BY <1>2, <1>10, <2>1, <2>4, OneOther DEF Moves
    <3> DEFINE e == End(n, q)
               x == End(n, q)'
               f == End(Other(n), q)
               y == End(Other(n), q)'
    <3>2. /\ e.reader = q /\ e.task = task[n][q] /\ e.due = c.buffer \o events[n][q]
          /\ x.task = t /\ x.session = e.session /\ x.heard = e.heard /\ x.sent = e.sent
      BY <1>1, <1>3, <1>4, <1>c, <1>a DEF End, Due
    <3>3. x.due = Tail(c.buffer) \o events[n][q]
      BY <1>1, <1>2, <1>3, <1>5, <1>9, <1>a, <1>c, <3>1 DEF End, Due
    <3>4. Becomes(n, q, e, x) /\ Becomes(Other(n), q, f, y)
      BY DEF Becomes
    <3>5. <<Message(k)>> \in Seq(Events)
      <4>1. Message(k) \in Events
        BY BridgedSessionsAssumption DEF Message, Events, Kinds
      <4> QED BY <4>1
    <3> DEFINE msg == <<Message(k)>>
    <3>6. Reaches(q, f, y, msg)
      <4>1. /\ events'[Other(n)][q] = IF pipe[q].open THEN events[Other(n)][q] \o msg
                                      ELSE events[Other(n)][q]
            /\ Id(q)' = Id(q) /\ channels'[Other(n)][Id(q)] = channels[Other(n)][Id(q)]
            /\ task'[Other(n)][q] = task[Other(n)][q]
        BY <1>1, <1>2, <1>3, <1>4, <1>9, <3>1
      <4>2. /\ session'[Other(n)][q] = session[Other(n)][q]
            /\ heard'[Other(n)][q] = heard[Other(n)][q] /\ sent'[Other(n)][q] = sent[Other(n)][q]
        BY <1>a
      <4>3. msg \in Seq(Events)
        BY <3>5
      <4> HIDE DEF msg
      <4> QED BY <3>1, <3>4, <4>1, <4>2, <4>3, PutReaches
    <3>7. e.due = <<b>> \o x.due
      <4> DEFINE r == Tail(c.buffer)
                 l == events[n][q]
      <4>1. l \in Seq(Events) /\ r \in Seq(Events)
        BY <1>5, EndTyped DEF Regular
      <4>2. e.due = (<<b>> \o r) \o l /\ x.due = r \o l
        BY <1>6, <3>2, <3>3
      <4> HIDE DEF r, l
      <4>3. (<<b>> \o r) \o l = <<b>> \o (r \o l)
        BY <1>7, <4>1, ConcatAssociative
      <4> QED BY <4>2, <4>3
    <3> HIDE DEF e, x, f, y
    <3>8. CASE task[n][q] = "init"
      <4>1. Reaches(q, f, y, <<Message("challenge")>>) /\ t = "writeChallenge"
        BY <3>6, <3>8
      <4> QED BY <1>6, <2>4, <3>1, <3>2, <3>4, <3>7, <3>8, <4>1, PipeChallenges
    <3>9. CASE task[n][q] = "challenge"
      <4>1. Reaches(q, f, y, <<Message("ack")>>) /\ t = "writeAck"
        BY <3>6, <3>9
      <4> QED BY <1>6, <2>4, <3>1, <3>2, <3>4, <3>7, <3>9, <4>1, PipeAcks
    <3> QED BY <3>8, <3>9
  <2> QED BY <2>3, <2>4
<1> QED BY <1>2, <1>10, <1>11, <1>12, <1>13, <1>14 DEF Regular

LEMMA ResumeKeeps ==
  ASSUME PipesTypeOK, PipesTypeOK', Regular, NEW n \in Nodes, NEW q \in Dialled, Resume(n, q)
  PROVE  Regular'
<1> DEFINE c == channels[n][Id(q)]
           m == Head(c.buffer)
<1>1. /\ task[n][q] \in Waiting /\ c.reader = q /\ c.mode = "control" /\ c.buffer # <<>>
      /\ UNCHANGED <<pipe, dials, sent>>
  BY DEF Resume, Resumes, host
<1>2. c \in Readers
  BY EndTyped DEF Regular
<1>3. CASE m.type # task[n][q]
  <2>1. fail(n, q) /\ UNCHANGED <<events, heard>>
    BY <1>3 DEF Resume, seen
  <2>2. task[n][q] # "writeAck"
    BY <1>1 DEF Waiting
  <2> QED BY <1>1, <2>1, <2>2, FailKeeps
<1>4. CASE m.type = task[n][q] /\ m.type # "ack"
  <2> DEFINE k == IF m.type = "init" THEN "challenge" ELSE "ack"
             t == IF task[n][q] = "init" THEN "writeChallenge" ELSE "writeAck"
  <2>1. /\ channels' = taken(n, q) /\ put(n, Id(q), <<Message(k)>>)
        /\ task' = [task EXCEPT ![n][q] = t]
        /\ UNCHANGED <<asks, session, heard>>
    BY <1>4 DEF Resume, seen
  <2>2. \/ task[n][q] = "init" /\ t = "writeChallenge" /\ k = "challenge"
        \/ task[n][q] = "challenge" /\ t = "writeAck" /\ k = "ack"
    BY <1>1, <1>4 DEF Waiting
  <2> HIDE DEF k, t
  <2>3. Takes(n, q, t, k)
    BY <1>1, <2>1 DEF Takes
  <2> QED BY <1>1, <1>4, <2>2, <2>3, TakesKeeps
<1>5. CASE m.type = task[n][q] /\ m.type = "ack"
  <2>1. /\ channels' = [channels EXCEPT ![n][Id(q)] =
             [@ EXCEPT !.mode = "frames", !.buffer = <<>>, !.connection = q]]
        /\ session' = [session EXCEPT ![n][q] = "active"]
        /\ task' = [task EXCEPT ![n][q] = "over"]
        /\ UNCHANGED <<events, asks, heard>>
    BY <1>5 DEF Resume
  <2>2. [c EXCEPT !.mode = "frames", !.buffer = <<>>, !.connection = q]
        = [reader |-> q, mode |-> "frames", buffer |-> <<>>, connection |-> q]
    <3>1. ASSUME NEW r \in Readers, r.reader = q
          PROVE  [r EXCEPT !.mode = "frames", !.buffer = <<>>, !.connection = q]
                 = [reader |-> q, mode |-> "frames", buffer |-> <<>>, connection |-> q]
      <4> DEFINE a == [reader |-> q, mode |-> r.mode, buffer |-> r.buffer,
                       connection |-> r.connection]
                 b == [reader |-> q, mode |-> "frames", buffer |-> r.buffer,
                       connection |-> r.connection]
                 d == [reader |-> q, mode |-> "frames", buffer |-> <<>>,
                       connection |-> r.connection]
      <4>1. r = a
        BY <3>1 DEF Readers
      <4>2. [a EXCEPT !.mode = "frames"] = b
        OBVIOUS
      <4>3. [b EXCEPT !.buffer = <<>>] = d
        OBVIOUS
      <4>4. [d EXCEPT !.connection = q]
            = [reader |-> q, mode |-> "frames", buffer |-> <<>>, connection |-> q]
        OBVIOUS
      <4> HIDE DEF a, b, d
      <4>5. [r EXCEPT !.mode = "frames", !.buffer = <<>>, !.connection = q]
            = [[[r EXCEPT !.mode = "frames"] EXCEPT !.buffer = <<>>] EXCEPT !.connection = q]
        OBVIOUS
      <4> QED BY <4>1, <4>2, <4>3, <4>4, <4>5
    <3> HIDE DEF c, m
    <3> QED BY <1>1, <1>2, <3>1
  <2>3. SessionBegins(n, q)
    BY <1>1, <2>1, <2>2 DEF SessionBegins
  <2> QED BY <1>1, <1>5, <2>3, BeginsKeeps
<1> QED BY <1>3, <1>4, <1>5

(* A channel whose reader is of no pipe is idle: to tear it down does no   *)
(* more than to replace it.                                                *)
LEMMA IdleTeardown ==
  ASSUME PipesTypeOK, Regular, NEW n \in Nodes, NEW i \in Ids, channels[n][i].reader = 0,
         NEW replaced, teardown(n, i, replaced, {})
  PROVE  /\ channels' = [channels EXCEPT ![n][i] = replaced] /\ session' = session
         /\ ended(n, i) = task[n] /\ dropped(n, i) = {}
<1>1. Shape(channels[n][i])
  BY ChannelOf
<1>2. Sessions(n, i) = {}
  BY <1>1 DEF Sessions, Connected, Shape
<1>3. Failed(n, i) = {}
  <2>1. \A p \in Pipes : p # 0
    BY DEF Pipes
  <2> QED BY <2>1 DEF Failed
<1>4. session' = session
  <2>1. session \in [Nodes -> [Pipes -> Sessional]]
    BY DEF PipesTypeOK
  <2>2. session' = [session EXCEPT ![n] = [p \in Pipes |-> session[n][p]]]
    BY <1>2 DEF teardown
  <2>3. [p \in Pipes |-> session[n][p]] = session[n]
    BY <2>1
  <2> QED BY <2>1, <2>2, <2>3
<1>5. ended(n, i) = task[n]
  <2>1. task[n] \in [Pipes -> AllTasks]
    BY DEF PipesTypeOK
  <2> QED BY <1>3, <2>1 DEF ended
<1> QED BY <1>3, <1>4, <1>5 DEF teardown, dropped

(* Where the id of q gets a reader at n, and q its beginning or is         *)
(* dialled: the other pipes of the id go on.                               *)
LEMMA OthersGoOn ==
  ASSUME PipesTypeOK, Regular, PipesTypeOK', Fresh', NEW n \in Nodes, NEW i \in Ids, NEW q,
         NEW p \in Dialled, p # q, p \in Dialled', pipe'[p] = pipe[p],
         channels[n][i].reader = 0,
         \A m \in Nodes, j \in Ids :
           channels'[m][j] = IF m = n /\ j = i THEN Channel(q) ELSE channels[m][j],
         \A m \in Nodes : /\ events'[m][p] = events[m][p] /\ task'[m][p] = task[m][p]
                          /\ session'[m][p] = session[m][p] /\ heard'[m][p] = heard[m][p]
                          /\ sent'[m][p] = sent[m][p],
         Asked(p) => Asked(p)'
  PROVE  PipeOK(p)'
<1>1. Id(p)' = Id(p) /\ Id(p) \in Ids /\ p # 0
  BY EndTyped DEF Id, Regular
<1>2. ASSUME NEW m \in Nodes, m # n \/ Id(p) # i PROVE End(m, p)' = End(m, p)
  <2>1. channels'[m][Id(p)] = channels[m][Id(p)]
    BY <1>1, <1>2
  <2> QED BY <1>1, <2>1, SameEnd
<1>3. CASE Id(p) # i
  BY <1>2, <1>3, Untouched
<1>4. CASE Id(p) = i
  <2>1. Moves(n, p) /\ End(Other(n), p)' = End(Other(n), p)
    BY <1>2, OneOther DEF Moves
  <2> DEFINE e == End(n, p)
             x == End(n, p)'
  <2>2. channels'[n][i].reader = q /\ channels'[n][Id(p)'].reader = q
    <3>1. Channel(q).reader = q
      BY DEF Channel, NoChannel
    <3> QED BY <1>1, <1>4, <3>1
  <2>3. /\ e.reader = 0 /\ x.reader = q /\ x.due = e.due
        /\ x.heard = e.heard /\ x.task = e.task /\ x.session = e.session /\ x.sent = e.sent
    BY <1>1, <1>4, <2>2 DEF End, Due
  <2>4. Becomes(n, p, e, x)
    BY DEF Becomes
  <2> HIDE DEF e, x
  <2> QED BY <1>1, <2>1, <2>3, <2>4, PipeRereads
<1> QED BY <1>3, <1>4

LEMMA ChannelShape ==
  ASSUME NEW p, p # 0
  PROVE  /\ Channel(p).reader = p /\ Channel(p).connection = 0 /\ Channel(p).buffer = <<>>
         /\ Channel(p).mode = "control" /\ Shape(Channel(p))
BY DEF Channel, NoChannel, Shape, Only

LEMMA InboundKeeps ==
  ASSUME PipesTypeOK, PipesTypeOK', Regular, NEW n \in Nodes, NEW q \in Dialled, Inbound(n, q)
  PROVE  Regular'
<1> DEFINE i == Id(q)
<1>1. /\ events[n][q] # <<>> /\ Head(events[n][q]).type = "inbound"
      /\ teardown(n, i, Channel(q), {})
      /\ task' = [task EXCEPT ![n] = [ended(n, i) EXCEPT ![q] = "init"]]
      /\ asks' = [asks EXCEPT ![n] = @ \cup dropped(n, i)]
      /\ events' = [events EXCEPT ![n][q] = Tail(@)]
      /\ UNCHANGED <<pipe, dials, sent, heard>>
  BY DEF Inbound, accept, Reports, host, seen
<1>2. i \in Ids /\ q \in Pipes /\ q # 0 /\ events[n][q] \in Seq(Events)
  BY EndTyped DEF Regular
<1>3. InUse(q)
  BY <1>1 DEF InUse
<1>4. channels[n][i].reader = 0
  <2>1. channels[n][i].reader # q
    <3>1. Carries(End(n, q).due, "inbound")
      BY <1>1, HeadDue
    <3>2. EndOK(pipe[q], n, q, End(n, q), End(Other(n), q), Asked(q))
      BY DEF Regular, PipeOK
    <3>3. pipe[q].from # n
      <4>1. ~Only(End(n, q).due, DialHears)
        BY <3>1 DEF Only, Carries, DialHears
      <4> QED BY <3>2, <4>1 DEF EndOK, Role
    <3>4. End(n, q).reader # q
      BY <3>1, <3>2, <3>3 DEF EndOK, Beginning
    <3> QED BY <3>4 DEF End
  <2>2. channels[n][i].reader # 0 => channels[n][i].reader = q
    BY <1>2, <1>3, ChannelOf, OneInUse
  <2> QED BY <2>1, <2>2
<1>5. /\ channels' = [channels EXCEPT ![n][i] = Channel(q)] /\ session' = session
      /\ ended(n, i) = task[n] /\ dropped(n, i) = {}
  BY <1>1, <1>2, <1>4, IdleTeardown
<1>6. \A m \in Nodes, p \in Pipes :
        task'[m][p] = IF m = n /\ p = q THEN "init" ELSE task[m][p]
  BY <1>1, <1>5 DEF PipesTypeOK
<1>7. \A m \in Nodes, j \in Ids :
        channels'[m][j] = IF m = n /\ j = i THEN Channel(q) ELSE channels[m][j]
  BY <1>2, <1>5 DEF PipesTypeOK
<1>8. \A m \in Nodes, p \in Pipes :
        events'[m][p] = IF m = n /\ p = q THEN Tail(events[m][p]) ELSE events[m][p]
  BY <1>1 DEF PipesTypeOK
<1>9. \A m \in Nodes : asks'[m] = asks[m]
  BY <1>1, <1>5 DEF PipesTypeOK
<1>10. Dialled' = Dialled /\ Dialled \subseteq Pipes /\ \A p : Id(p)' = Id(p)
  BY <1>1 DEF Dialled, Id
<1>a. pipe' = pipe /\ sent' = sent /\ heard' = heard /\ session' = session
  BY <1>1, <1>5
<1>11. Fresh'
  BY <1>6, <1>8, <1>9, <1>10, <1>a DEF Regular, Fresh
<1>12. Shapes'
  <2>1. ASSUME NEW m \in Nodes, NEW j \in Ids
        PROVE  /\ Shape(channels'[m][j])
               /\ \A p \in Pipes : channels'[m][j].reader = p => p \in Dialled' /\ Id(p)' = j
    <3>1. CASE m = n /\ j = i
      BY <1>2, <1>7, <1>10, <3>1, ChannelShape
    <3>2. CASE ~(m = n /\ j = i)
      BY <1>7, <1>10, <3>2 DEF Regular, Shapes
    <3> QED BY <3>1, <3>2
  <2> QED BY <2>1 DEF Shapes, Shape
<1>13. Currents'
  <2>1. ASSUME NEW p \in Dialled, InUse(p)' PROVE InUse(p)
    <3>1. CASE p = q
      BY <1>3, <3>1
    <3>2. CASE p # q
      <4>1. Id(p) \in Ids /\ Channel(q).reader = q
        BY <1>2, EndTyped, ChannelShape DEF Regular
      <4> QED BY <1>7, <1>8, <1>10, <1>a, <2>1, <3>2, <4>1 DEF InUse
    <3> QED BY <3>1, <3>2
  <2> QED BY <1>10, <2>1 DEF Regular, Currents
<1>14. Ties'
  <2>1. ASSUME NEW m \in Nodes, NEW p \in Dialled
        PROVE  session'[m][p] = "active" <=> channels'[m][Id(p)].connection = p
    <3>1. Id(p) \in Ids /\ p # 0
      BY EndTyped DEF Regular
    <3>2. session[m][p] = "active" <=> channels[m][Id(p)].connection = p
      BY DEF Regular, Ties
    <3>3. channels[n][i].connection = 0 /\ Channel(q).connection = 0
      BY <1>2, <1>4, ChannelOf, ChannelShape DEF Shape
    <3> QED BY <1>7, <1>a, <3>1, <3>2, <3>3
  <2> QED BY <1>10, <2>1 DEF Ties
<1>15. ASSUME NEW p \in Dialled PROVE PipeOK(p)'
  <2>1. p \in Pipes /\ pipe'[p] = pipe[p] /\ Asked(p)' = Asked(p)
    BY <1>9, <1>10, <1>a DEF Asked
  <2>2. CASE p # q
    <3>1. \A m \in Nodes : /\ events'[m][p] = events[m][p] /\ task'[m][p] = task[m][p]
                           /\ session'[m][p] = session[m][p] /\ heard'[m][p] = heard[m][p]
                           /\ sent'[m][p] = sent[m][p]
      BY <1>6, <1>8, <1>a, <2>1, <2>2
    <3> QED BY <1>2, <1>4, <1>7, <1>10, <1>11, <2>1, <2>2, <3>1, OthersGoOn
  <2>3. CASE p = q
    <3>1. Other(n) \in Nodes /\ Other(n) # n
      BY OneOther
    <3>2. End(Other(n), q)' = End(Other(n), q)
      <4>1. /\ channels'[Other(n)][Id(q)] = channels[Other(n)][Id(q)]
            /\ events'[Other(n)][q] = events[Other(n)][q] /\ task'[Other(n)][q] = task[Other(n)][q]
        BY <1>2, <1>6, <1>7, <1>8, <3>1
      <4> QED BY <1>10, <1>a, <4>1, SameEnd
    <3>3. Moves(n, q)
      BY <1>10, <1>11 DEF Moves
    <3> DEFINE e == End(n, q)
               x == End(n, q)'
    <3>4. PICK b \in Events : /\ b = Head(events[n][q])
                              /\ events[n][q] = <<b>> \o Tail(events[n][q])
      BY <1>1, HeadDue
    <3>5. e.due = events[n][q]
      BY <1>2, <1>4 DEF End, Due
    <3>6. x.due = Tail(events[n][q])
      <4>1. x.due = <<>> \o Tail(events[n][q])
        BY <1>2, <1>7, <1>8, <1>10, ChannelShape DEF End, Due
      <4> QED BY <1>1, <1>2, <4>1
    <3>7. /\ x.task = "init" /\ x.session = e.session /\ x.heard = e.heard /\ x.sent = e.sent
          /\ b.type = "inbound"
      BY <1>1, <1>2, <1>6, <1>a, <3>4 DEF End
    <3>8. Becomes(n, q, e, x)
      BY DEF Becomes
    <3> HIDE DEF e, x
    <3>9. e.due = <<b>> \o x.due
      BY <3>4, <3>5, <3>6
    <3> QED BY <2>1, <2>3, <3>2, <3>3, <3>7, <3>8, <3>9, PipeBegins
  <2> QED BY <2>2, <2>3
<1> QED BY <1>10, <1>11, <1>12, <1>13, <1>14, <1>15 DEF Regular

(* A dial: what was there under the id is finished, and has left no        *)
(* reader.                                                                 *)
LEMMA IdIsFree ==
  ASSUME PipesTypeOK, Regular, NEW i \in Ids, Open(i) = {},
         \A m \in Nodes, q \in Pipes : Id(q) = i => events[m][q] = <<>>
  PROVE  \A m \in Nodes : channels[m][i].reader = 0
<1>1. ASSUME NEW m \in Nodes, channels[m][i].reader # 0 PROVE FALSE
  <2> DEFINE q == channels[m][i].reader
  <2>1. q \in Dialled /\ Id(q) = i /\ q \in Pipes
    BY <1>1, ChannelOf DEF Dialled
  <2>2. ~pipe[q].open /\ events[m][q] = <<>>
    BY <2>1 DEF Open, Id
  <2>3. Ending(pipe[q], q, End(m, q))
    BY <2>1 DEF Regular, PipeOK, EndOK
  <2> DEFINE d == channels[m][i].buffer
  <2>4. d \in Seq(Events) /\ Only(d, {"init", "challenge", "ack", "frame"})
    BY <2>1, EndTyped, ChannelOf DEF Regular, Shape
  <2>5. End(m, q).reader = q /\ End(m, q).due = d
    <3>1. End(m, q).due = d \o <<>>
      BY <2>1, <2>2 DEF End, Due
    <3>2. d \o <<>> = d
      BY <2>4
    <3> QED BY <2>1, <3>1, <3>2 DEF End
  <2> HIDE DEF q, d
  <2>6. d # <<>> /\ d[Len(d)].type = "closed"
    BY <2>2, <2>3, <2>5 DEF Ending
  <2>7. Len(d) \in DOMAIN d
    BY <2>4, <2>6
  <2> QED BY <2>4, <2>6, <2>7 DEF Only
<1> QED BY <1>1

LEMMA DialKeeps ==
  ASSUME PipesTypeOK, PipesTypeOK', Regular, NEW n \in Nodes, NEW i \in Ids, Dial(n, i)
  PROVE  Regular'
<1> DEFINE line == <<Message("inbound"), Message("init")>>
<1>q. PICK q : q = dials + 1
  OBVIOUS
<1>1. /\ dials < MaxPipes /\ Open(i) = {}
      /\ \A m \in Nodes, p \in Pipes : Id(p) = i => events[m][p] = <<>>
      /\ dials' = q /\ pipe' = [pipe EXCEPT ![q] = [id |-> i, from |-> n, open |-> TRUE]]
      /\ events' = [events EXCEPT ![Other(n)][q] = line]
      /\ teardown(n, i, Channel(q), {})
      /\ task' = [task EXCEPT ![n] = [ended(n, i) EXCEPT ![q] = "writeInit"]]
      /\ asks' = [asks EXCEPT ![n] = @ \cup dropped(n, i)]
      /\ UNCHANGED <<sent, heard>>
  BY <1>q DEF Dial, seen
<1>2. dials \in Nat /\ MaxPipes \in Nat
  BY BridgedSessionsAssumption DEF PipesTypeOK
<1>3. q \in Pipes \ Dialled /\ Dialled' = Dialled \cup {q} /\ q # 0 /\ Dialled \subseteq Pipes
  BY <1>q, <1>1, <1>2 DEF Pipes, Dialled
<1>4. \A m \in Nodes : channels[m][i].reader = 0
  BY <1>1, IdIsFree
<1>5. /\ channels' = [channels EXCEPT ![n][i] = Channel(q)] /\ session' = session
      /\ ended(n, i) = task[n] /\ dropped(n, i) = {}
  BY <1>1, <1>4, IdleTeardown
<1>o. Other(n) \in Nodes /\ Other(n) # n
  BY OneOther
<1>6. \A m \in Nodes, p \in Pipes :
        task'[m][p] = IF m = n /\ p = q THEN "writeInit" ELSE task[m][p]
  BY <1>1, <1>5 DEF PipesTypeOK
<1>7. \A m \in Nodes, j \in Ids :
        channels'[m][j] = IF m = n /\ j = i THEN Channel(q) ELSE channels[m][j]
  BY <1>5 DEF PipesTypeOK
<1>8. \A m \in Nodes, p \in Pipes :
        events'[m][p] = IF m = Other(n) /\ p = q THEN line ELSE events[m][p]
  BY <1>1, <1>o DEF PipesTypeOK
<1>9. \A m \in Nodes : asks'[m] = asks[m]
  BY <1>1, <1>5 DEF PipesTypeOK
<1>10. /\ pipe'[q].id = i /\ pipe'[q].from = n /\ pipe'[q].open
       /\ \A p \in Pipes \ {q} : pipe'[p] = pipe[p]
  BY <1>1, <1>3 DEF PipesTypeOK
<1>11. Id(q)' = i /\ \A p \in Pipes \ {q} : Id(p)' = Id(p)
  BY <1>10 DEF Id
<1>a. sent' = sent /\ heard' = heard /\ session' = session
  BY <1>1, <1>5
<1>b. i # None
  BY BridgedSessionsAssumption
<1>12. Fresh'
  <2>1. \A p \in Dialled' : Id(p)' \in Ids /\ pipe'[p].from \in Nodes
    BY <1>3, <1>10, <1>11 DEF Regular, Fresh
  <2>2. ASSUME NEW p \in Pipes \ Dialled'
        PROVE  /\ ~pipe'[p].open /\ Id(p)' = None
               /\ \A m \in Nodes : /\ events'[m][p] = <<>> /\ p \notin asks'[m]
                                   /\ task'[m][p] = "none" /\ session'[m][p] = "none"
                                   /\ heard'[m][p] = <<>>
    BY <1>3, <1>6, <1>8, <1>9, <1>10, <1>11, <1>a DEF Regular, Fresh
  <2> QED BY <2>1, <2>2 DEF Fresh
<1>13. Shapes'
  <2>1. ASSUME NEW m \in Nodes, NEW j \in Ids
        PROVE  /\ Shape(channels'[m][j])
               /\ \A p \in Pipes : channels'[m][j].reader = p => p \in Dialled' /\ Id(p)' = j
    <3>1. CASE m = n /\ j = i
      BY <1>3, <1>7, <1>11, <3>1, ChannelShape
    <3>2. CASE ~(m = n /\ j = i)
      BY <1>3, <1>7, <1>11, <3>2 DEF Regular, Shapes
    <3> QED BY <3>1, <3>2
  <2> QED BY <2>1 DEF Shapes, Shape
<1>14. Currents'
  <2>1. ASSUME NEW p \in Dialled, InUse(p)' PROVE InUse(p) /\ Id(p) # i
    <3>1. p \in Pipes /\ p # q /\ Id(p) \in Ids /\ Channel(q).reader = q
      BY <1>3, EndTyped, ChannelShape DEF Regular
    <3>2. Id(p)' = Id(p) /\ pipe'[p] = pipe[p] /\ \A m \in Nodes : events'[m][p] = events[m][p]
      BY <1>8, <1>10, <1>11, <3>1
    <3>3. InUse(p)
      BY <1>7, <2>1, <3>1, <3>2 DEF InUse
    <3>4. ASSUME Id(p) = i PROVE FALSE
      <4>1. ~pipe[p].open /\ \A m \in Nodes : events[m][p] = <<>>
        BY <1>1, <3>1, <3>4 DEF Open, Id
      <4>2. \A m \in Nodes : channels[m][Id(p)].reader # p
        BY <1>4, <3>4, EndTyped DEF Regular
      <4> QED BY <3>3, <4>1, <4>2 DEF InUse
    <3> QED BY <3>3, <3>4
  <2>2. ASSUME NEW p \in Dialled', InUse(p)', NEW r \in Pipes, r > p PROVE Id(r)' # Id(p)'
    <3>1. CASE p = q
      <4>1. r \notin Dialled /\ r # q
        BY <1>q, <1>2, <2>2, <3>1 DEF Dialled, Pipes
      <4>2. Id(r)' = None
        BY <1>11, <4>1 DEF Regular, Fresh
      <4> QED BY <1>11, <1>b, <3>1, <4>2
    <3>2. CASE p \in Dialled
      <4>1. InUse(p) /\ Id(p) # i /\ Id(p)' = Id(p)
        BY <1>3, <1>11, <2>1, <2>2, <3>2
      <4>2. CASE r = q
        BY <1>11, <4>1, <4>2
      <4>3. CASE r # q
        BY <1>11, <2>2, <3>2, <4>1, <4>3 DEF Regular, Currents
      <4> QED BY <4>2, <4>3
    <3> QED BY <1>3, <3>1, <3>2
  <2> QED BY <2>2 DEF Currents
<1>15. Ties'
  <2>1. ASSUME NEW m \in Nodes, NEW p \in Dialled'
        PROVE  session'[m][p] = "active" <=> channels'[m][Id(p)'].connection = p
    <3>1. channels[n][i].connection = 0 /\ Channel(q).connection = 0
      BY <1>3, <1>4, ChannelOf, ChannelShape DEF Shape
    <3>2. CASE p = q
      <4>1. session'[m][p] = "none"
        BY <1>3, <1>a, <3>2 DEF Regular, Fresh
      <4>2. channels'[m][i].connection = 0
        <5>1. channels[m][i].connection = 0
          BY <1>4, ChannelOf DEF Shape
        <5> QED BY <1>7, <3>1, <5>1
      <4> QED BY <1>3, <1>11, <3>2, <4>1, <4>2
    <3>3. CASE p \in Dialled
      <4>1. Id(p) \in Ids /\ p # 0 /\ p \in Pipes /\ p # q /\ Id(p)' = Id(p)
        BY <1>3, <1>11, <3>3, EndTyped DEF Regular
      <4>2. session[m][p] = "active" <=> channels[m][Id(p)].connection = p
        BY <3>3 DEF Regular, Ties
      <4> QED BY <1>7, <1>a, <3>1, <4>1, <4>2
    <3> QED BY <1>3, <3>2, <3>3
  <2> QED BY <2>1 DEF Ties
<1>16. ASSUME NEW p \in Dialled' PROVE PipeOK(p)'
  <2>1. CASE p \in Dialled
    <3>1. p \in Pipes /\ p # q /\ pipe'[p] = pipe[p]
      BY <1>3, <1>10, <2>1
    <3>2. Asked(p) => Asked(p)'
      <4>1. ASSUME NEW m \in Nodes, NEW r \in asks[m], Id(r) = Id(p) PROVE r \in asks'[m] /\ Id(r)' = Id(p)'
        <5>1. r \in Pipes /\ r # q
          BY <1>3, <4>1 DEF PipesTypeOK, Regular, Fresh
        <5> QED BY <1>9, <1>11, <3>1, <4>1, <5>1
      <4> QED BY <4>1 DEF Asked
    <3>3. \A m \in Nodes : /\ events'[m][p] = events[m][p] /\ task'[m][p] = task[m][p]
                           /\ session'[m][p] = session[m][p] /\ heard'[m][p] = heard[m][p]
                           /\ sent'[m][p] = sent[m][p]
      BY <1>6, <1>8, <1>a, <3>1
    <3> QED BY <1>4, <1>7, <1>12, <2>1, <3>1, <3>2, <3>3, OthersGoOn
  <2>2. CASE p = q
    <3> DEFINE x == End(n, q)'
               y == End(Other(n), q)'
    <3>0. \A m \in Nodes : events[m][q] = <<>> /\ task[m][q] = "none" /\ session[m][q] = "none"
                           /\ heard[m][q] = <<>>
      BY <1>3 DEF Regular, Fresh
    <3>1. /\ x.due = <<>> /\ x.task = "writeInit" /\ x.session = "none" /\ x.heard = <<>>
      <4>1. Due(n, q)' = <<>> \o <<>>
        BY <1>3, <1>7, <1>8, <1>11, <1>o, <3>0, ChannelShape DEF Due
      <4> QED BY <1>3, <1>6, <1>a, <3>0, <4>1 DEF End
    <3>2. y.due = line /\ y.task = "none" /\ y.reader # q /\ y.session = "none" /\ y.heard = <<>>
      <4>1. channels'[Other(n)][Id(q)'].reader = 0
        BY <1>4, <1>7, <1>11, <1>o
      <4>2. Due(Other(n), q)' = line
        BY <1>3, <1>8, <1>o, <4>1 DEF Due
      <4> QED BY <1>3, <1>6, <1>a, <1>o, <3>0, <4>1, <4>2 DEF End
    <3>3. x \in EndType /\ y \in EndType /\ Asked(q)' \in BOOLEAN
      BY <1>3, <1>12, <1>o, EndTypedThen
    <3>4. Between(pipe'[q], n, Other(n))
      <4>1. pipe'[q] \in PipeStates
        BY <1>3 DEF PipesTypeOK
      <4> QED BY <1>10, <1>o, <4>1 DEF Between
    <3> HIDE DEF x, y
    <3>5. Meet(pipe'[q], n, Other(n), q, x, y, Asked(q)')
      BY <1>10, <3>1, <3>2, <3>3, <3>4, EndsDialled
    <3> QED BY <2>2, <3>5, EndsMet DEF x, y
  <2> QED BY <1>3, <2>1, <2>2
<1> QED BY <1>12, <1>13, <1>14, <1>15, <1>16 DEF Regular


LEMMA Regrouped ==
  ASSUME NEW a \in Seq(Events), NEW b \in Seq(Events), NEW c \in Seq(Events)
  PROVE  (a \o b) \o c = a \o (b \o c)
BY ConcatAssociative

LEMMA CarriedOn ==
  ASSUME NEW a \in Seq(Events), NEW s \in Seq(Events), NEW r \in Seq(Events), NEW t,
         ~Carries(a, t), Carries(s \o r, t) => Carries(s, t)
  PROVE  Carries(a \o (s \o r), t) => Carries(a \o s, t)
<1>1. s \o r \in Seq(Events)
  OBVIOUS
<1>2. Carries(a \o (s \o r), t) => Carries(s \o r, t)
  BY <1>1, JoinedCarries
<1>3. Carries(s, t) => Carries(a \o s, t)
  BY JoinedCarries
<1> QED BY <1>2, <1>3

(* A chunk of what a host reports holds messages only.                     *)
Chunk(n, q, s, r) ==
  /\ s \in Seq(Events) /\ r \in Seq(Events) /\ events[n][q] = s \o r
  /\ ~Carries(s, "closed") /\ ~Carries(s, "inbound")
  /\ Only(s, {"init", "challenge", "ack", "frame"})

LEMMA ChunkOf ==
  ASSUME PipesTypeOK, Regular, NEW n \in Nodes, NEW q \in Dialled, NEW k \in Nat, k > 0,
         events[n][q] # <<>>, Head(events[n][q]).type # "inbound", k <= Len(events[n][q]),
         \A j \in 1 .. k : SubSeq(events[n][q], 1, k)[j].type # "closed"
  PROVE  Chunk(n, q, SubSeq(events[n][q], 1, k),
               SubSeq(events[n][q], k + 1, Len(events[n][q])))
<1> DEFINE line == events[n][q]
           s == SubSeq(line, 1, k)
           r == SubSeq(line, k + 1, Len(line))
<1>1. line \in Seq(Events) /\ Len(line) \in Nat
  <2>1. line \in Seq(Events)
    BY EndTyped DEF Regular
  <2> HIDE DEF line
  <2> QED BY <2>1
<1>2. PICK b \in Seq(Events) : Due(n, q) = b \o line
  BY DueParts
<1>3. Lined(Due(n, q))
  BY DEF Regular, PipeOK, EndOK, End
<1> HIDE DEF line
<1>4. Lined(line)
  BY <1>1, <1>2, <1>3, JoinedLined
<1>5. /\ s \in Seq(Events) /\ r \in Seq(Events) /\ Len(s) = k /\ DOMAIN s = 1 .. k
      /\ \A j \in 1 .. k : s[j] = line[j]
  <2>1. \A j \in 1 .. k : line[j] \in Events
    BY <1>1 DEF line
  <2>2. \A j \in k + 1 .. Len(line) : line[j] \in Events
    BY <1>1 DEF line
  <2>3. s \in Seq(Events) /\ Len(s) = k - 1 + 1 /\ \A j \in 1 .. k - 1 + 1 : s[j] = line[1 + j - 1]
    BY <2>1, SubSeqProperties
  <2>4. r \in Seq(Events)
    BY <1>1, <2>2, SubSeqProperties
  <2> QED BY <2>3, <2>4
<1>6. line = s \o r
  <2>1. k \in 1 - 1 .. Len(line) /\ 1 \in 1 .. Len(line) + 1 /\ Len(line) \in k .. Len(line)
    BY <1>1 DEF line
  <2>2. s \o r = SubSeq(line, 1, Len(line))
    BY <1>1, <2>1, ConcatAdjacentSubSeq
  <2> QED BY <1>1, <2>2, SubSeqFull
<1>7. \A j \in 1 .. k : line[j].type # "inbound"
  <2>1. ASSUME NEW j \in 1 .. k, line[j].type = "inbound" PROVE FALSE
    <3>1. 1 \in DOMAIN line /\ j \in DOMAIN line /\ Head(line) = line[1]
      BY <1>1 DEF line
    <3>2. j # 1
      BY <2>1, <3>1 DEF line
    <3>3. line[1].type \in Earlier(line[j].type)
      BY <1>4, <3>1, <3>2 DEF Lined
    <3> QED BY <2>1, <3>3 DEF Earlier
  <2> QED BY <2>1
<1>c. \A j \in 1 .. k : s[j].type # "closed"
  BY DEF line
<1> HIDE DEF s, r
<1>8. \A j \in 1 .. k : s[j].type # "closed" /\ s[j] \in Events
  BY <1>5, <1>c
<1>9. Chunk(n, q, s, r)
  <2>1. \A j \in 1 .. k : s[j].type \in {"init", "challenge", "ack", "frame"}
    BY <1>5, <1>7, <1>8 DEF Events, Kinds
  <2>2. Only(s, {"init", "challenge", "ack", "frame"})
    BY <1>5, <2>1 DEF Only
  <2>3. ~Carries(s, "closed") /\ ~Carries(s, "inbound")
    BY <1>5, <2>1 DEF Carries
  <2> QED BY <1>5, <1>6, <2>2, <2>3 DEF Chunk, line
<1> QED BY <1>9 DEF line, s, r

(* What the reader of the channel, if any, is of: the pipe that reports.   *)
LEMMA ReaderOf ==
  ASSUME PipesTypeOK, Regular, NEW n \in Nodes, NEW q \in Dialled, InUse(q)
  PROVE  channels[n][Id(q)].reader \in {0, q}
<1>1. Id(q) \in Ids
  BY EndTyped DEF Regular
<1> QED BY <1>1, ChannelOf, OneInUse

(* A chunk taken from the line; what happens to the channel and to what    *)
(* was heard is told apart below.                                          *)
TakesChunk(n, q, s, r) ==
  /\ Chunk(n, q, s, r) /\ events[n][q] # <<>>
  /\ events' = [events EXCEPT ![n][q] = r]
  /\ UNCHANGED <<pipe, dials, asks, task, session, sent>>

LEMMA ChunkTaken ==
  ASSUME PipesTypeOK, PipesTypeOK', Regular, NEW n \in Nodes, NEW q \in Dialled, NEW s, NEW r,
         TakesChunk(n, q, s, r)
  PROVE  /\ InUse(q) /\ Dialled' = Dialled /\ \A p : Id(p)' = Id(p) /\ Asked(p)' = Asked(p)
         /\ \A m \in Nodes, p \in Pipes :
              events'[m][p] = IF m = n /\ p = q THEN r ELSE events[m][p]
<1>1. InUse(q)
  BY DEF TakesChunk, InUse
<1>2. Dialled' = Dialled /\ \A p : Id(p)' = Id(p) /\ Asked(p)' = Asked(p)
  BY DEF TakesChunk, Dialled, Id, Asked
<1>3. \A m \in Nodes, p \in Pipes :
        events'[m][p] = IF m = n /\ p = q THEN r ELSE events[m][p]
  BY DEF TakesChunk, PipesTypeOK
<1> QED BY <1>1, <1>2, <1>3

(* Frames: whoever listens to the session of the channel hears them.       *)
LEMMA ChunkHeard ==
  ASSUME PipesTypeOK, PipesTypeOK', Regular, NEW n \in Nodes, NEW q \in Dialled, NEW s, NEW r,
         TakesChunk(n, q, s, r), channels[n][Id(q)].mode = "frames", UNCHANGED channels,
         heard' = [heard EXCEPT ![n][channels[n][Id(q)].connection] =
                     IF session[n][channels[n][Id(q)].connection] = "active" THEN @ \o s ELSE @]
  PROVE  Regular'
<1>1. /\ InUse(q) /\ Dialled' = Dialled /\ \A p : Id(p)' = Id(p) /\ Asked(p)' = Asked(p)
      /\ \A m \in Nodes, p \in Pipes :
           events'[m][p] = IF m = n /\ p = q THEN r ELSE events[m][p]
  BY ChunkTaken
<1>2. Id(q) \in Ids /\ q \in Pipes /\ q # 0
  BY EndTyped DEF Regular
<1>3. channels[n][Id(q)].reader = q /\ channels[n][Id(q)].connection = q
  BY <1>1, <1>2, ReaderOf, ChannelOf DEF Shape
<1>4. session[n][q] = "active"
  BY <1>3 DEF Regular, Ties
<1>5. \A m \in Nodes, p \in Pipes :
        heard'[m][p] = IF m = n /\ p = q THEN heard[m][p] \o s ELSE heard[m][p]
  BY <1>2, <1>3, <1>4 DEF PipesTypeOK
<1>a. /\ pipe' = pipe /\ asks' = asks /\ task' = task /\ session' = session /\ sent' = sent
      /\ channels' = channels /\ events[n][q] # <<>> /\ Chunk(n, q, s, r)
  BY DEF TakesChunk
<1>6. Fresh'
  BY <1>1, <1>5, <1>a DEF Regular, Fresh
<1>7. Shapes'
  BY <1>1, <1>a DEF Regular, Shapes, Shape
<1>8. Currents'
  <2>1. ASSUME NEW p \in Dialled, InUse(p)' PROVE InUse(p)
    <3>1. CASE p = q
      BY <1>1, <3>1
    <3>2. CASE p # q
      BY <1>1, <1>a, <2>1, <3>2 DEF InUse, Dialled
    <3> QED BY <3>1, <3>2
  <2> QED BY <1>1, <2>1 DEF Regular, Currents
<1>9. Ties'
  BY <1>1, <1>a DEF Regular, Ties
<1>10. ASSUME NEW p \in Dialled PROVE PipeOK(p)'
  <2>1. p \in Pipes /\ pipe'[p] = pipe[p] /\ (Asked(p) <=> Asked(p)')
    BY <1>1, <1>a DEF Dialled
  <2>2. ASSUME NEW m \in Nodes, m # n \/ p # q PROVE End(m, p)' = End(m, p)
    <3>1. events'[m][p] = events[m][p] /\ heard'[m][p] = heard[m][p]
      BY <1>1, <1>5, <2>1, <2>2
    <3> QED BY <1>1, <1>a, <3>1, SameEnd
  <2>3. CASE p # q
    BY <2>1, <2>2, <2>3, Untouched
  <2>4. CASE p = q
    <3>1. Moves(n, q) /\ End(Other(n), q)' = End(Other(n), q)
      BY <1>1, <1>6, <2>2, <2>4, OneOther DEF Moves
    <3> DEFINE e == End(n, q)
               x == End(n, q)'
               b == channels[n][Id(q)].buffer
    <3>2. b = <<>>
      BY <1>2, ChannelOf DEF Shape
    <3>3. e.due = b \o (s \o r) /\ x.due = b \o r
      BY <1>1, <1>2, <1>3, <1>a DEF End, Due, Chunk
    <3>4. s \in Seq(Events) /\ r \in Seq(Events) /\ ~Carries(s, "closed")
      BY <1>a DEF Chunk
    <3>5. /\ e.reader = q /\ e.session = "active" /\ x.heard = e.heard \o s /\ x.task = e.task
          /\ x.session = e.session /\ x.sent = e.sent
      BY <1>2, <1>3, <1>4, <1>5, <1>a DEF End
    <3>6. Becomes(n, q, e, x)
      BY DEF Becomes
    <3> HIDE DEF e, x, b
    <3>7. e.due = s \o x.due
      BY <3>2, <3>3, <3>4
    <3> QED BY <2>1, <2>4, <3>1, <3>4, <3>5, <3>6, <3>7, PipeHears
  <2> QED BY <2>3, <2>4
<1> QED BY <1>1, <1>6, <1>7, <1>8, <1>9, <1>10 DEF Regular

(* Control messages: the reader keeps them, or the channel does while it   *)
(* has none.                                                               *)
LEMMA ChunkKept ==
  ASSUME PipesTypeOK, PipesTypeOK', Regular, NEW n \in Nodes, NEW q \in Dialled, NEW s, NEW r,
         TakesChunk(n, q, s, r), channels[n][Id(q)].mode # "frames", UNCHANGED heard,
         channels' = pushed(n, Id(q), s)
  PROVE  Regular'
<1> DEFINE i == Id(q)
           c == channels[n][i]
           d == channels'[n][i]
<1>1. /\ InUse(q) /\ Dialled' = Dialled /\ \A p : Id(p)' = Id(p) /\ Asked(p)' = Asked(p)
      /\ \A m \in Nodes, p \in Pipes :
           events'[m][p] = IF m = n /\ p = q THEN r ELSE events[m][p]
  BY ChunkTaken
<1>2. i \in Ids /\ q \in Pipes /\ q # 0
  BY EndTyped DEF Regular
<1>3. c.reader \in {0, q} /\ c \in Readers /\ Shape(c) /\ c.connection = 0
  BY <1>1, <1>2, ReaderOf, ChannelOf DEF Shape
<1>a. /\ pipe' = pipe /\ asks' = asks /\ task' = task /\ session' = session /\ sent' = sent
      /\ heard' = heard /\ events[n][q] # <<>> /\ Chunk(n, q, s, r)
  BY DEF TakesChunk
<1>b. s \in Seq(Events) /\ r \in Seq(Events) /\ c.buffer \in Seq(Events)
  BY <1>a, EndTyped DEF Chunk, Regular
<1>4. /\ \A m \in Nodes, j \in Ids : ~(m = n /\ j = i) => channels'[m][j] = channels[m][j]
      /\ d = IF c.mode = "none" THEN [Channel(0) EXCEPT !.buffer = s]
             ELSE [c EXCEPT !.buffer = @ \o s]
  <2> DEFINE v == IF c.mode = "none" THEN [Channel(0) EXCEPT !.buffer = s]
                  ELSE [c EXCEPT !.buffer = @ \o s]
  <2>1. channels' = [channels EXCEPT ![n][i] = v]
    BY DEF pushed
  <2>2. channels \in [Nodes -> [Ids -> Readers]]
    BY DEF PipesTypeOK
  <2> HIDE DEF v
  <2>3. channels'[n][i] = v /\ \A m \in Nodes, j \in Ids : ~(m = n /\ j = i) => channels'[m][j] = channels[m][j]
    BY <1>2, <2>1, <2>2
  <2> QED BY <2>3 DEF v
<1>5. /\ d.reader = c.reader /\ d.connection = 0 /\ d.mode = "control"
      /\ d.buffer = IF c.mode = "none" THEN s ELSE c.buffer \o s
  <2>1. CASE c.mode = "none"
    BY <1>3, <1>4, <2>1 DEF Channel, NoChannel, Shape
  <2>2. CASE c.mode # "none"
    BY <1>3, <1>4, <2>2 DEF Readers
  <2> QED BY <2>1, <2>2
<1> HIDE DEF c, d, i
<1>6. Shape(d)
  <2>1. Only(d.buffer, {"init", "challenge", "ack", "frame"})
    <3>1. /\ Only(s, {"init", "challenge", "ack", "frame"})
          /\ Only(c.buffer, {"init", "challenge", "ack", "frame"})
      BY <1>3, <1>a DEF Chunk, Shape
    <3>2. Only(c.buffer \o s, {"init", "challenge", "ack", "frame"})
      BY <1>b, <3>1, JoinedOnly
    <3> QED BY <1>5, <3>1, <3>2
  <2> QED BY <1>5, <2>1 DEF Shape
<1>7. Fresh'
  BY <1>1, <1>a DEF Regular, Fresh
<1>8. Shapes'
  <2>1. ASSUME NEW m \in Nodes, NEW j \in Ids
        PROVE  /\ Shape(channels'[m][j])
               /\ \A p \in Pipes : channels'[m][j].reader = p => p \in Dialled' /\ Id(p)' = j
    <3>1. CASE m = n /\ j = i
      BY <1>1, <1>2, <1>3, <1>5, <1>6, <3>1 DEF d, i, Pipes
    <3>2. CASE ~(m = n /\ j = i)
      BY <1>1, <1>4, <3>2 DEF Regular, Shapes
    <3> QED BY <3>1, <3>2
  <2> QED BY <2>1 DEF Shapes, Shape
<1>9. \A m \in Nodes, j \in Ids : /\ channels'[m][j].reader = channels[m][j].reader
                                  /\ channels'[m][j].connection = channels[m][j].connection
  BY <1>3, <1>4, <1>5 DEF c, d
<1>10. Currents'
  <2>1. ASSUME NEW p \in Dialled, InUse(p)' PROVE InUse(p)
    <3>1. CASE p = q
      BY <1>1, <3>1
    <3>2. CASE p # q
      <4>1. Id(p) \in Ids /\ p \in Pipes
        BY EndTyped DEF Regular
      <4> QED BY <1>1, <1>9, <1>a, <2>1, <3>2, <4>1 DEF InUse
    <3> QED BY <3>1, <3>2
  <2> QED BY <1>1, <2>1 DEF Regular, Currents
<1>11. Ties'
  <2>1. ASSUME NEW m \in Nodes, NEW p \in Dialled
        PROVE  session'[m][p] = "active" <=> channels'[m][Id(p)].connection = p
    <3>1. Id(p) \in Ids
      BY EndTyped DEF Regular
    <3> QED BY <1>9, <1>a, <3>1 DEF Regular, Ties
  <2> QED BY <1>1, <2>1 DEF Ties
<1>12. ASSUME NEW p \in Dialled PROVE PipeOK(p)'
  <2>1. Id(p) \in Ids /\ p \in Pipes /\ p # 0 /\ pipe'[p] = pipe[p] /\ (Asked(p) <=> Asked(p)')
    BY <1>1, <1>a, EndTyped DEF Regular
  <2>2. ASSUME NEW m \in Nodes, m # n \/ p # q PROVE End(m, p)' = End(m, p)
    <3>1. events'[m][p] = events[m][p]
      BY <1>1, <2>1, <2>2
    <3>2. CASE ~(m = n /\ Id(p) = i)
      <4>1. channels'[m][Id(p)] = channels[m][Id(p)]
        BY <1>4, <2>1, <3>2
      <4> QED BY <1>1, <1>a, <3>1, <4>1, SameEnd
    <3>3. CASE m = n /\ Id(p) = i
      <4>1. c.reader # p /\ d.reader # p
        BY <1>3, <1>5, <2>1, <2>2, <3>3
      <4> QED BY <1>1, <1>5, <1>a, <3>1, <3>3, <4>1 DEF End, Due, c, d
    <3> QED BY <3>2, <3>3
  <2>3. CASE p # q
    BY <2>1, <2>2, <2>3, Untouched
  <2>4. CASE p = q /\ c.reader = q
    <3>1. d.buffer = c.buffer \o s /\ events'[n][q] = r /\ events[n][q] = s \o r
      BY <1>1, <1>2, <1>3, <1>5, <1>a, <2>4 DEF Shape, Chunk
    <3>2. Due(n, q)' = (c.buffer \o s) \o r /\ Due(n, q) = c.buffer \o (s \o r)
      BY <1>1, <1>5, <2>4, <3>1 DEF Due, c, d, i
    <3>3. Due(n, q)' = Due(n, q)
      <4>1. (c.buffer \o s) \o r = c.buffer \o (s \o r)
        BY <1>b, Regrouped
      <4> QED BY <3>2, <4>1
    <3>4. End(n, q)' = End(n, q)
      <4>1. channels'[n][Id(q)'].reader = channels[n][Id(q)].reader
        BY <1>1, <1>5 DEF c, d, i
      <4> QED BY <1>a, <3>3, <4>1 DEF End
    <3>5. \A m \in Nodes : End(m, q)' = End(m, q)
      BY <2>2, <2>4, <3>4
    <3> QED BY <2>1, <2>4, <3>5, Untouched
  <2>5. CASE p = q /\ c.reader = 0
    <3>1. Moves(n, q) /\ End(Other(n), q)' = End(Other(n), q)
      BY <1>1, <1>7, <2>2, <2>5, OneOther DEF Moves
    <3> DEFINE e == End(n, q)
               x == End(n, q)'
    <3>2. e.due = s \o r /\ x.due = r /\ e.reader # q /\ x.reader # q
      BY <1>1, <1>2, <1>5, <1>a, <2>5 DEF End, Due, Chunk, c, d, i
    <3>3. e.session # "active"
      BY <1>2, <1>3 DEF End, Regular, Ties, c, i
    <3>4. x.heard = e.heard /\ x.task = e.task /\ x.session = e.session /\ x.sent = e.sent
      BY <1>a DEF End
    <3>5. Becomes(n, q, e, x)
      BY DEF Becomes
    <3> HIDE DEF e, x
    <3>6. ~Carries(s, "closed") /\ ~Carries(s, "inbound")
      BY <1>a DEF Chunk
    <3>7. e.due = s \o x.due
      BY <3>2
    <3> QED BY <1>b, <2>1, <2>5, <3>1, <3>2, <3>3, <3>4, <3>5, <3>6, <3>7, PipeRecedes
  <2> QED BY <1>3, <2>3, <2>4, <2>5
<1> QED BY <1>1, <1>7, <1>8, <1>10, <1>11, <1>12 DEF Regular

LEMMA DataKeeps ==
  ASSUME PipesTypeOK, PipesTypeOK', Regular, NEW n \in Nodes, NEW q \in Dialled,
         NEW k \in Nat, k > 0, Data(n, q, k)
  PROVE  Regular'
<1> DEFINE s == SubSeq(events[n][q], 1, k)
           r == SubSeq(events[n][q], k + 1, Len(events[n][q]))
<1>1. /\ events[n][q] # <<>> /\ Head(events[n][q]).type \in {"init", "challenge", "ack", "frame"}
      /\ k <= Len(events[n][q]) /\ \A j \in 1 .. k : s[j].type # "closed"
      /\ events' = [events EXCEPT ![n][q] = r]
      /\ UNCHANGED <<pipe, dials, asks, task, session, sent>>
  BY DEF Data, Reports, host
<1>2. Head(events[n][q]).type # "inbound"
  BY <1>1
<1>3. TakesChunk(n, q, s, r)
  <2>1. Chunk(n, q, s, r)
    BY <1>1, <1>2, ChunkOf
  <2> QED BY <1>1, <2>1 DEF TakesChunk
<1>4. CASE channels[n][Id(q)].mode = "frames"
  <2>1. /\ UNCHANGED channels
        /\ heard' = [heard EXCEPT ![n][channels[n][Id(q)].connection] =
                     IF session[n][channels[n][Id(q)].connection] = "active" THEN @ \o s ELSE @]
    BY <1>4 DEF Data
  <2> HIDE DEF s, r
  <2> QED BY <1>3, <1>4, <2>1, ChunkHeard
<1>5. CASE channels[n][Id(q)].mode # "frames"
  <2>1. UNCHANGED heard /\ channels' = pushed(n, Id(q), s)
    BY <1>5 DEF Data
  <2> HIDE DEF s, r
  <2> QED BY <1>3, <1>5, <2>1, ChunkKept
<1> QED BY <1>4, <1>5

(* Losing a pipe, or disconnecting it, cuts its line at both ends.         *)
CutsLines(P) ==
  /\ pipe' = [p \in Pipes |-> [pipe[p] EXCEPT !.open = @ /\ p \notin P]]
  /\ \A m \in Nodes, p \in Pipes :
       \/ p \notin P /\ events'[m][p] = events[m][p]
       \/ p \in P /\ events'[m][p] = Append(events[m][p], Message("closed"))
       \/ p \in P /\ events'[m][p] = cut(events[m][p])
  /\ UNCHANGED <<dials, channels, task, session, sent, heard>>

(* What is left of a line starts as the line did, and loses no beginning.  *)
LEMMA LineCut ==
  ASSUME PipesTypeOK, Regular, NEW n \in Nodes, NEW q \in Dialled, NEW line,
         line = Append(events[n][q], Message("closed")) \/ line = cut(events[n][q])
  PROVE  \E s, r \in Seq(Events) :
           /\ events[n][q] = s \o r /\ line = s \o <<Message("closed")>>
           /\ Carries(events[n][q], "inbound") => Carries(s, "inbound")
<1> DEFINE old == events[n][q]
<1>0. Message("closed") \in Events
  BY BridgedSessionsAssumption DEF Message, Events, Kinds
<1>1. old \in Seq(Events)
  BY EndTyped DEF Regular
<1>2. CASE line = Append(old, Message("closed"))
  <2>1. old = old \o <<>> /\ <<>> \in Seq(Events)
    BY <1>1
  <2>2. line = old \o <<Message("closed")>>
    BY <1>0, <1>1, <1>2, AppendIsConcat
  <2> HIDE DEF old
  <2> QED
    BY <1>1, <2>1, <2>2 DEF old
<1>3. CASE line = cut(old) /\ old # <<>> /\ Head(old).type = "inbound"
  <2>1. PICK b \in Events : b = Head(old) /\ old = <<b>> \o Tail(old)
    BY <1>3, HeadDue
  <2>2. Tail(old) \in Seq(Events)
    BY <1>1, <1>3
  <2>3. <<b>> \in Seq(Events) /\ Carries(<<b>>, "inbound")
    <3>1. DOMAIN <<b>> = {1} /\ <<b>>[1] = b /\ <<b>> \in Seq(Events)
      OBVIOUS
    <3> QED BY <1>3, <2>1, <3>1 DEF Carries
  <2>4. line = Append(<<b>>, Message("closed"))
    BY <1>3, <2>1 DEF cut
  <2>5. line = <<b>> \o <<Message("closed")>>
    BY <1>0, <2>3, <2>4, AppendIsConcat
  <2> QED BY <2>1, <2>2, <2>3, <2>5
<1>4. CASE line = cut(old) /\ ~(old # <<>> /\ Head(old).type = "inbound")
  <2>1. line = Append(<<>>, Message("closed"))
    BY <1>4 DEF cut
  <2>2. line = <<>> \o <<Message("closed")>> /\ old = <<>> \o old
    <3>1. <<>> \in Seq(Events)
      OBVIOUS
    <3>2. line = <<>> \o <<Message("closed")>>
      BY <1>0, <2>1, <3>1, AppendIsConcat
    <3> QED BY <1>1, <3>2
  <2>3. ~Carries(old, "inbound")
    <3>1. ASSUME NEW j \in DOMAIN old, old[j].type = "inbound" PROVE FALSE
      <4>1. PICK b \in Seq(Events) : Due(n, q) = b \o old
        BY DueParts
      <4>2. Lined(Due(n, q))
        BY DEF Regular, PipeOK, EndOK, End
      <4>3. Lined(old)
        BY <1>1, <4>1, <4>2, JoinedLined
      <4>4. old # <<>> /\ 1 \in DOMAIN old /\ j \in 1 .. Len(old) /\ Head(old) = old[1]
        BY <1>1, <3>1
      <4>5. j # 1
        BY <1>4, <3>1, <4>4
      <4>6. old[1].type \in Earlier(old[j].type)
        BY <3>1, <4>3, <4>4, <4>5 DEF Lined
      <4> QED BY <3>1, <4>6 DEF Earlier
    <3> QED BY <3>1 DEF Carries
  <2>4. old \in Seq(Events) /\ <<>> \in Seq(Events)
    BY <1>1
  <2> HIDE DEF old
  <2> QED BY <2>2, <2>3, <2>4 DEF old
<1> QED BY <1>2, <1>3, <1>4

(* So is what is due at an end.                                            *)
LEMMA DueCut ==
  ASSUME PipesTypeOK, Regular, NEW n \in Nodes, NEW q \in Dialled, NEW P, q \in P, CutsLines(P),
         NEW e, NEW x, Becomes(n, q, e, x)
  PROVE  Cut(q, e, x)
<1>1. Id(q)' = Id(q) /\ q \in Pipes
  BY EndTyped DEF CutsLines, Id, Regular, PipesTypeOK, PipeStates
<1>2. PICK a \in Seq(Events) :
        /\ Due(n, q) = a \o events[n][q]
        /\ Only(a, {"init", "challenge", "ack", "frame"})
        /\ a = IF channels[n][Id(q)].reader = q THEN channels[n][Id(q)].buffer ELSE <<>>
  BY DueParts
<1>l. PICK line : line = events'[n][q]
  OBVIOUS
<1>3. line = Append(events[n][q], Message("closed")) \/ line = cut(events[n][q])
  BY <1>1, <1>l DEF CutsLines
<1>4. PICK s, r \in Seq(Events) :
        /\ events[n][q] = s \o r /\ line = s \o <<Message("closed")>>
        /\ Carries(events[n][q], "inbound") => Carries(s, "inbound")
  BY <1>3, LineCut
<1> DEFINE c == <<Message("closed")>>
<1>5. c \in Seq(Events)
  <2>1. Message("closed") \in Events
    BY BridgedSessionsAssumption DEF Message, Events, Kinds
  <2> QED BY <2>1
<1>6. Due(n, q)' = a \o (s \o c)
  <2>1. CASE channels[n][Id(q)].reader = q
    BY <1>1, <1>l, <1>2, <1>4, <2>1 DEF CutsLines, Due
  <2>2. CASE channels[n][Id(q)].reader # q
    <3>1. Due(n, q)' = s \o c /\ a = <<>>
      BY <1>1, <1>l, <1>2, <1>4, <2>2 DEF CutsLines, Due
    <3> HIDE DEF c
    <3>2. s \o c \in Seq(Events)
      BY <1>4, <1>5
    <3> QED BY <3>1, <3>2
  <2> QED BY <2>1, <2>2
<1> HIDE DEF c
<1>7. /\ a \o (s \o c) = (a \o s) \o c /\ a \o (s \o r) = (a \o s) \o r
      /\ a \o s \in Seq(Events)
  <2>1. a \o (s \o c) = (a \o s) \o c
    BY <1>2, <1>4, <1>5, Regrouped
  <2>2. a \o (s \o r) = (a \o s) \o r
    BY <1>2, <1>4, Regrouped
  <2>3. a \o s \in Seq(Events)
    BY <1>2, <1>4
  <2> QED BY <2>1, <2>2, <2>3
<1>8. e.due = (a \o s) \o r /\ x.due = (a \o s) \o c
  BY <1>2, <1>4, <1>6, <1>7 DEF Becomes, End
<1>9. Carries(e.due, "inbound") => Carries(a \o s, "inbound")
  <2>1. ~Carries(a, "inbound")
    BY <1>2 DEF Carries, Only
  <2>2. e.due = a \o (s \o r) /\ (Carries(s \o r, "inbound") => Carries(s, "inbound"))
    BY <1>2, <1>4 DEF Becomes, End
  <2>3. Carries(a \o (s \o r), "inbound") => Carries(a \o s, "inbound")
    BY <1>2, <1>4, <2>1, <2>2, CarriedOn
  <2> QED BY <2>2, <2>3
<1>10. /\ x.reader = e.reader /\ x.task = e.task /\ x.session = e.session /\ x.heard = e.heard
       /\ x.sent = e.sent
  BY <1>1 DEF CutsLines, Becomes, End
<1> QED BY <1>4, <1>7, <1>8, <1>9, <1>10 DEF Cut, c

(* A request to disconnect goes only with the pipes that are open under    *)
(* its id; these are cut.                                                  *)
LEMMA CutsKeep ==
  ASSUME PipesTypeOK, PipesTypeOK', Regular, NEW P, CutsLines(P),
         \A p \in P : p \in Dialled /\ pipe[p].open,
         \A n \in Nodes : asks'[n] \subseteq asks[n],
         \A n \in Nodes : \A r \in asks[n] : r \in asks'[n] \/ Open(Id(r)) \subseteq P
  PROVE  Regular'
<1>1. /\ \A p \in Pipes : /\ pipe'[p].from = pipe[p].from /\ pipe'[p].id = pipe[p].id
                          /\ pipe'[p].open = (pipe[p].open /\ p \notin P)
                          /\ p \notin P => pipe'[p] = pipe[p]
      /\ \A p \in Pipes : Id(p)' = Id(p)
  <2>1. ASSUME NEW p \in Pipes
        PROVE  /\ pipe'[p].from = pipe[p].from /\ pipe'[p].id = pipe[p].id
               /\ pipe'[p].open = (pipe[p].open /\ p \notin P)
               /\ p \notin P => pipe'[p] = pipe[p]
    <3>1. pipe'[p] = [pipe[p] EXCEPT !.open = @ /\ p \notin P] /\ pipe[p] \in PipeStates
      BY DEF CutsLines, PipesTypeOK
    <3> QED BY <3>1 DEF PipeStates
  <2> QED BY <2>1 DEF Id
<1>2. Dialled' = Dialled /\ Dialled \subseteq Pipes
  BY DEF CutsLines, Dialled
<1>3. \A m \in Nodes, p \in Pipes : p \notin P => events'[m][p] = events[m][p]
  BY DEF CutsLines
<1>a. channels' = channels /\ task' = task /\ session' = session /\ sent' = sent /\ heard' = heard
  BY DEF CutsLines
<1>4. Fresh'
  BY <1>1, <1>2, <1>3, <1>a DEF Regular, Fresh
<1>5. Shapes'
  BY <1>1, <1>2, <1>a DEF Regular, Shapes, Shape
<1>6. Currents'
  <2>1. ASSUME NEW p \in Dialled, InUse(p)' PROVE InUse(p)
    <3>1. CASE p \in P
      BY <3>1 DEF InUse
    <3>2. CASE p \notin P
      BY <1>1, <1>2, <1>3, <1>a, <2>1, <3>2 DEF InUse
    <3> QED BY <3>1, <3>2
  <2> QED BY <1>1, <1>2, <2>1 DEF Regular, Currents
<1>7. Ties'
  BY <1>1, <1>2, <1>a DEF Regular, Ties
<1>8. ASSUME NEW p \in Dialled PROVE PipeOK(p)'
  <2>n. PICK n \in Nodes : TRUE
    BY DEF Regular, Fresh
  <2>1. Id(p) \in Ids /\ p \in Pipes
    BY <2>n, EndTyped DEF Regular
  <2>2. CASE p \notin P
    <3>1. \A m \in Nodes : End(m, p)' = End(m, p)
      BY <1>1, <1>3, <1>a, <2>1, <2>2, SameEnd
    <3>2. ASSUME pipe[p].open, Asked(p) PROVE Asked(p)'
      <4>1. PICK m \in Nodes : \E r \in asks[m] : Id(r) = Id(p)
        BY <3>2 DEF Asked
      <4>r. PICK r \in asks[m] : Id(r) = Id(p)
        BY <4>1
      <4>2. r \in Pipes /\ p \in Open(Id(r))
        BY <2>1, <3>2, <4>r DEF PipesTypeOK, Open, Id
      <4>3. r \in asks'[m] /\ Id(r)' = Id(p)'
        BY <1>1, <2>1, <2>2, <4>r, <4>2
      <4> QED BY <4>3 DEF Asked
    <3> QED BY <1>1, <2>1, <2>2, <3>1, <3>2, Untouched
  <2>3. CASE p \in P
    <3>2. Other(n) \in Nodes /\ Moves(n, p)
      BY <1>2, <1>4, OneOther DEF Moves
    <3>3. pipe[p].open /\ ~pipe'[p].open /\ pipe'[p].from = pipe[p].from
      BY <1>1, <2>1, <2>3
    <3> DEFINE e == End(n, p)
               x == End(n, p)'
               f == End(Other(n), p)
               y == End(Other(n), p)'
    <3>4. Becomes(n, p, e, x) /\ Becomes(Other(n), p, f, y)
      BY DEF Becomes
    <3> HIDE DEF e, x, f, y
    <3>5. Cut(p, e, x) /\ Cut(p, f, y)
      BY <2>3, <3>2, <3>4, DueCut
    <3> QED BY <3>2, <3>3, <3>4, <3>5, PipeCloses
  <2> QED BY <2>2, <2>3
<1> QED BY <1>2, <1>4, <1>5, <1>6, <1>7, <1>8 DEF Regular

LEMMA LoseKeeps ==
  ASSUME PipesTypeOK, PipesTypeOK', Regular, NEW q \in Dialled, Lose(q)
  PROVE  Regular'
<1>1. /\ pipe[q].open /\ pipe' = [pipe EXCEPT ![q].open = FALSE]
      /\ events' = [n \in Nodes |-> [events[n] EXCEPT ![q] = cut(@)]]
      /\ UNCHANGED <<dials, asks, channels, task, session, sent, heard>>
  BY DEF Lose, local, seen
<1>2. q \in Pipes
  BY DEF Dialled
<1>3. CutsLines({q})
  <2>1. pipe' = [p \in Pipes |-> [pipe[p] EXCEPT !.open = @ /\ p \notin {q}]]
    <3>1. \A p \in Pipes : p # q => [pipe[p] EXCEPT !.open = @ /\ p \notin {q}] = pipe[p]
      <4>1. ASSUME NEW g \in PipeStates PROVE [g EXCEPT !.open = @ /\ TRUE] = g
        BY DEF PipeStates
      <4>2. ASSUME NEW p \in Pipes, p # q
            PROVE  [pipe[p] EXCEPT !.open = @ /\ p \notin {q}] = pipe[p]
        <5>1. pipe[p] \in PipeStates /\ (p \notin {q}) = TRUE
          BY <4>2 DEF PipesTypeOK
        <5> QED BY <4>1, <5>1
      <4> QED BY <4>2
    <3>2. [pipe[q] EXCEPT !.open = @ /\ q \notin {q}] = [pipe[q] EXCEPT !.open = FALSE]
      OBVIOUS
    <3>3. pipe \in [Pipes -> PipeStates]
      BY DEF PipesTypeOK
    <3> QED BY <1>1, <1>2, <3>1, <3>2, <3>3
  <2>2. \A m \in Nodes, p \in Pipes :
          events'[m][p] = IF p = q THEN cut(events[m][p]) ELSE events[m][p]
    BY <1>1, <1>2 DEF PipesTypeOK
  <2>3. \A m \in Nodes, p \in Pipes :
          \/ p \notin {q} /\ events'[m][p] = events[m][p]
          \/ p \in {q} /\ events'[m][p] = Append(events[m][p], Message("closed"))
          \/ p \in {q} /\ events'[m][p] = cut(events[m][p])
    BY <2>2
  <2> QED BY <1>1, <2>1, <2>3 DEF CutsLines
<1> QED BY <1>1, <1>3, CutsKeep

LEMMA DisconnectKeeps ==
  ASSUME PipesTypeOK, PipesTypeOK', Regular, NEW n \in Nodes, NEW q \in Dialled, Disconnect(n, q)
  PROVE  Regular'
<1>1. /\ q \in asks[n] /\ asks' = [asks EXCEPT ![n] = @ \ {q}]
      /\ pipe' = [p \in Pipes |-> [pipe[p] EXCEPT !.open = @ /\ p \notin Open(Id(q))]]
      /\ events' = [m \in Nodes |-> [p \in Pipes |->
           IF p \in Open(Id(q)) THEN Append(events[m][p], Message("closed")) ELSE events[m][p]]]
      /\ UNCHANGED <<dials, channels, task, session, sent, heard>>
  BY DEF Disconnect, local, seen
<1> DEFINE P == Open(Id(q))
<1>2. CutsLines(P)
  <2>1. \A m \in Nodes, p \in Pipes :
          events'[m][p] = IF p \in P THEN Append(events[m][p], Message("closed")) ELSE events[m][p]
    BY <1>1
  <2> HIDE DEF P
  <2>2. \A m \in Nodes, p \in Pipes :
          \/ p \notin P /\ events'[m][p] = events[m][p]
          \/ p \in P /\ events'[m][p] = Append(events[m][p], Message("closed"))
          \/ p \in P /\ events'[m][p] = cut(events[m][p])
    BY <2>1
  <2> QED BY <1>1, <2>2 DEF CutsLines, P
<1>3. \A p \in P : p \in Dialled /\ pipe[p].open
  BY DEF Open, Regular, Fresh
<1>4. \A m \in Nodes : asks'[m] = IF m = n THEN asks[m] \ {q} ELSE asks[m]
  BY <1>1 DEF PipesTypeOK
<1>5. \A m \in Nodes : asks'[m] \subseteq asks[m]
  BY <1>4
<1>6. \A m \in Nodes : \A r \in asks[m] : r \in asks'[m] \/ Open(Id(r)) \subseteq P
  BY <1>4
<1> HIDE DEF P
<1> QED BY <1>2, <1>3, <1>5, <1>6, CutsKeep

LEMMA SendKeeps ==
  ASSUME PipesTypeOK, PipesTypeOK', Regular, NEW n \in Nodes, NEW q \in Dialled, Send(n, q)
  PROVE  Regular'
<1> DEFINE t == flushed(q, sent[n][q])
<1>1. /\ session[n][q] = "active" /\ sent' = [sent EXCEPT ![n][q] = @ + 1]
      /\ put(n, Id(q), t)
      /\ UNCHANGED <<pipe, dials, asks, channels, task, session, heard>>
  BY DEF Send, host, local, seen
<1>2. Id(q) \in Ids /\ q \in Pipes /\ q # 0
  BY EndTyped DEF Regular
<1>3. InUse(q)
  <2>1. channels[n][Id(q)].connection = q
    BY <1>1 DEF Regular, Ties
  <2>2. channels[n][Id(q)].reader = q
    BY <1>2, <2>1, ChannelOf DEF Shape
  <2> QED BY <2>2 DEF InUse
<1>4. t \in Seq(Events)
  <2>1. sent[n][q] \in Nat
    BY <1>2 DEF PipesTypeOK
  <2> QED BY <1>2, <2>1, FlushedFrames
<1> HIDE DEF t
<1>5. \A m \in Nodes, p \in Pipes :
        events'[m][p] = IF m = Other(n) /\ p = q /\ pipe[q].open THEN events[m][p] \o t
                        ELSE events[m][p]
  BY <1>1, <1>3, PutOn
<1>6. \A m \in Nodes, p \in Pipes :
        sent'[m][p] = IF m = n /\ p = q THEN sent[m][p] + 1 ELSE sent[m][p]
  BY <1>1, <1>2 DEF PipesTypeOK
<1>7. Dialled' = Dialled /\ Dialled \subseteq Pipes /\ \A p : Id(p)' = Id(p) /\ Asked(p)' = Asked(p)
  BY <1>1 DEF Dialled, Id, Asked
<1>a. /\ pipe' = pipe /\ asks' = asks /\ task' = task /\ session' = session /\ heard' = heard
      /\ channels' = channels
  BY <1>1
<1>8. \A m \in Nodes, p \in Pipes : p # q => events'[m][p] = events[m][p]
  BY <1>5
<1>9. Fresh'
  BY <1>7, <1>8, <1>a DEF Regular, Fresh
<1>10. Shapes'
  BY <1>7, <1>a DEF Regular, Shapes, Shape
<1>11. Currents'
  <2>1. ASSUME NEW p \in Dialled, InUse(p)' PROVE InUse(p)
    <3>1. CASE p = q
      BY <1>3, <3>1
    <3>2. CASE p # q
      BY <1>7, <1>8, <1>a, <2>1, <3>2 DEF InUse
    <3> QED BY <3>1, <3>2
  <2> QED BY <1>7, <2>1 DEF Regular, Currents
<1>12. Ties'
  BY <1>7, <1>a DEF Regular, Ties
<1>13. ASSUME NEW p \in Dialled PROVE PipeOK(p)'
  <2>1. p \in Pipes /\ pipe'[p] = pipe[p] /\ (Asked(p) <=> Asked(p)')
    BY <1>7, <1>a
  <2>2. CASE p # q
    <3>1. \A m \in Nodes : events'[m][p] = events[m][p] /\ sent'[m][p] = sent[m][p]
      BY <1>6, <1>8, <2>1, <2>2
    <3>2. \A m \in Nodes : End(m, p)' = End(m, p)
      BY <1>7, <1>a, <3>1, SameEnd
    <3> QED BY <2>1, <3>2, Untouched
  <2>3. CASE p = q
    <3>1. Moves(n, q) /\ Other(n) \in Nodes /\ Other(n) # n
      BY <1>7, <1>9, <2>3, OneOther DEF Moves
    <3> DEFINE e == End(n, q)
               x == End(n, q)'
               f == End(Other(n), q)
               y == End(Other(n), q)'
    <3>2. events'[n][q] = events[n][q]
      BY <1>2, <1>5, <3>1
    <3>3. /\ e.session = "active" /\ x.sent = e.sent + 1 /\ x.reader = e.reader /\ x.due = e.due
          /\ x.task = e.task /\ x.session = e.session /\ x.heard = e.heard /\ e.sent = sent[n][q]
      BY <1>1, <1>2, <1>6, <1>7, <1>a, <3>2 DEF End, Due
    <3>4. Becomes(n, q, e, x) /\ Becomes(Other(n), q, f, y)
      BY DEF Becomes
    <3> HIDE DEF e, x, f, y
    <3>5. Reaches(q, f, y, t)
      <4>1. /\ events'[Other(n)][q] = IF pipe[q].open THEN events[Other(n)][q] \o t
                                      ELSE events[Other(n)][q]
            /\ sent'[Other(n)][q] = sent[Other(n)][q]
        BY <1>2, <1>5, <1>6, <3>1
      <4>2. /\ Id(q)' = Id(q) /\ channels'[Other(n)][Id(q)] = channels[Other(n)][Id(q)]
            /\ task'[Other(n)][q] = task[Other(n)][q]
            /\ session'[Other(n)][q] = session[Other(n)][q]
            /\ heard'[Other(n)][q] = heard[Other(n)][q]
        BY <1>7, <1>a
      <4> QED BY <1>4, <3>1, <3>4, <4>1, <4>2, PutReaches
    <3>6. Reaches(q, f, y, flushed(q, e.sent))
      BY <3>3, <3>5 DEF t
    <3> QED BY <2>1, <2>3, <3>1, <3>3, <3>4, <3>6, PipeSends
  <2> QED BY <2>2, <2>3
<1> QED BY <1>7, <1>9, <1>10, <1>11, <1>12, <1>13 DEF Regular

(* Typing, action by action.                                               *)
LEMMA Rechanneled ==
  ASSUME PipesTypeOK, NEW n \in Nodes, NEW i, NEW c, i \in Ids => c \in Readers
  PROVE  [channels EXCEPT ![n][i] = c] \in [Nodes -> [Ids -> Readers]]
<1>1. channels \in [Nodes -> [Ids -> Readers]]
  BY DEF PipesTypeOK
<1>2. [channels[n] EXCEPT ![i] = c] \in [Ids -> Readers]
  BY <1>1
<1> QED BY <1>1, <1>2

LEMMA Retasked ==
  ASSUME PipesTypeOK, NEW n \in Nodes, NEW p, NEW t \in AllTasks,
         NEW old \in [Pipes -> AllTasks]
  PROVE  /\ [task EXCEPT ![n] = [old EXCEPT ![p] = t]] \in [Nodes -> [Pipes -> AllTasks]]
         /\ [task EXCEPT ![n] = old] \in [Nodes -> [Pipes -> AllTasks]]
         /\ [task EXCEPT ![n][p] = t] \in [Nodes -> [Pipes -> AllTasks]]
<1>1. task \in [Nodes -> [Pipes -> AllTasks]]
  BY DEF PipesTypeOK
<1>2. /\ [old EXCEPT ![p] = t] \in [Pipes -> AllTasks]
      /\ [task[n] EXCEPT ![p] = t] \in [Pipes -> AllTasks]
  BY <1>1
<1> QED BY <1>1, <1>2

LEMMA Realined ==
  ASSUME PipesTypeOK, NEW n \in Nodes, NEW p, NEW line \in Seq(Events)
  PROVE  [events EXCEPT ![n][p] = line] \in [Nodes -> [Pipes -> Seq(Events)]]
<1>1. events \in [Nodes -> [Pipes -> Seq(Events)]]
  BY DEF PipesTypeOK
<1>2. [events[n] EXCEPT ![p] = line] \in [Pipes -> Seq(Events)]
  BY <1>1
<1> QED BY <1>1, <1>2

LEMMA MessageTyped ==
  ASSUME NEW t \in Kinds
  PROVE  Message(t) \in Events /\ <<Message(t)>> \in Seq(Events)
<1>1. Message(t) \in Events
  BY BridgedSessionsAssumption DEF Message, Events
<1> QED BY <1>1

LEMMA ChannelTyped ==
  ASSUME NEW p \in 0 .. MaxPipes
  PROVE  NoChannel \in Readers /\ Channel(p) \in Readers
<1>1. <<>> \in Seq(Events) /\ 0 \in 0 .. MaxPipes
  BY BridgedSessionsAssumption
<1>2. NoChannel \in Readers
  BY <1>1 DEF NoChannel, Readers
<1>3. Channel(p) = [[NoChannel EXCEPT !.reader = p] EXCEPT !.mode = "control"]
  BY DEF Channel
<1>4. \A r \in Readers : [r EXCEPT !.reader = p] \in Readers /\ [r EXCEPT !.mode = "control"] \in Readers
  BY DEF Readers
<1> QED BY <1>2, <1>3, <1>4

LEMMA PipeNumbers ==
  Pipes \subseteq 0 .. MaxPipes
BY BridgedSessionsAssumption DEF Pipes

LEMMA TeardownTyped ==
  ASSUME PipesTypeOK, NEW n \in Nodes, NEW i, NEW c \in Readers, NEW closes,
         teardown(n, i, c, closes)
  PROVE  /\ channels' \in [Nodes -> [Ids -> Readers]]
         /\ session' \in [Nodes -> [Pipes -> Sessional]]
         /\ ended(n, i) \in [Pipes -> AllTasks] /\ dropped(n, i) \in SUBSET Pipes
<1>1. channels' \in [Nodes -> [Ids -> Readers]]
  BY Rechanneled DEF teardown
<1>2. session' \in [Nodes -> [Pipes -> Sessional]]
  <2> DEFINE row == [p \in Pipes |->
                   IF p \in closes \cup Sessions(n, i) THEN "closed" ELSE session[n][p]]
  <2>1. session' = [session EXCEPT ![n] = row]
    BY DEF teardown
  <2>2. session \in [Nodes -> [Pipes -> Sessional]]
    BY DEF PipesTypeOK
  <2>3. row \in [Pipes -> Sessional]
    BY <2>2 DEF Sessional
  <2> HIDE DEF row
  <2> QED BY <2>1, <2>2, <2>3
<1>3. ended(n, i) \in [Pipes -> AllTasks]
  <2>1. task \in [Nodes -> [Pipes -> AllTasks]]
    BY DEF PipesTypeOK
  <2> QED BY <2>1 DEF ended, AllTasks, DialTasks
<1>4. dropped(n, i) \in SUBSET Pipes
  BY DEF dropped, Failed
<1> QED BY <1>1, <1>2, <1>3, <1>4

LEMMA PutTyped ==
  ASSUME PipesTypeOK, NEW n \in Nodes, NEW i, NEW t \in Seq(Events), put(n, i, t),
         Other(n) \in Nodes
  PROVE  events' \in [Nodes -> [Pipes -> Seq(Events)]]
<1> DEFINE row == [q \in Pipes |->
               IF q \in Open(i) THEN events[Other(n)][q] \o t ELSE events[Other(n)][q]]
<1>1. events \in [Nodes -> [Pipes -> Seq(Events)]]
  BY DEF PipesTypeOK
<1>2. row \in [Pipes -> Seq(Events)]
  BY <1>1
<1>3. events' = [events EXCEPT ![Other(n)] = row]
  BY DEF put
<1> HIDE DEF row
<1> QED BY <1>1, <1>2, <1>3

LEMMA AsksTyped ==
  ASSUME PipesTypeOK, NEW n \in Nodes, NEW P \in SUBSET Pipes
  PROVE  [asks EXCEPT ![n] = @ \cup P] \in [Nodes -> SUBSET Pipes]
BY DEF PipesTypeOK

LEMMA FailTyped ==
  ASSUME PipesTypeOK, NEW n \in Nodes, NEW p \in Pipes, fail(n, p)
  PROVE  /\ channels' \in [Nodes -> [Ids -> Readers]] /\ asks' \in [Nodes -> SUBSET Pipes]
         /\ session' \in [Nodes -> [Pipes -> Sessional]]
         /\ task' \in [Nodes -> [Pipes -> AllTasks]]
<1>0. "over" \in AllTasks /\ NoChannel \in Readers
  BY ChannelTyped, PipeNumbers DEF AllTasks, DialTasks
<1>1. CASE task[n][p] \in {"writeInit", "challenge", "writeAck"}
  <2>1. task' = [task EXCEPT ![n][p] = "over"] /\ UNCHANGED <<asks, channels, session>>
    BY <1>1 DEF fail
  <2>2. task' \in [Nodes -> [Pipes -> AllTasks]]
    <3>1. task[n] \in [Pipes -> AllTasks]
      BY DEF PipesTypeOK
    <3> QED BY <1>0, <2>1, <3>1, Retasked
  <2> QED BY <2>1, <2>2 DEF PipesTypeOK
<1>2. CASE task[n][p] \notin {"writeInit", "challenge", "writeAck"}
  <2>1. /\ teardown(n, Id(p), NoChannel, {})
        /\ task' = [task EXCEPT ![n] = [ended(n, Id(p)) EXCEPT ![p] = "over"]]
        /\ asks' = [asks EXCEPT ![n] = @ \cup ({p} \cup dropped(n, Id(p)))]
    BY <1>2 DEF fail
  <2>2. /\ channels' \in [Nodes -> [Ids -> Readers]]
        /\ session' \in [Nodes -> [Pipes -> Sessional]]
        /\ ended(n, Id(p)) \in [Pipes -> AllTasks]
    BY <1>0, <2>1, TeardownTyped
  <2>3. task' \in [Nodes -> [Pipes -> AllTasks]]
    BY <1>0, <2>1, <2>2, Retasked
  <2>4. asks' \in [Nodes -> SUBSET Pipes]
    <3>1. {p} \cup dropped(n, Id(p)) \in SUBSET Pipes
      BY DEF dropped, Failed
    <3> QED BY <2>1, <3>1, AsksTyped
  <2> QED BY <2>2, <2>3, <2>4
<1> QED BY <1>1, <1>2

LEMMA DialTyped ==
  ASSUME PipesTypeOK, NEW n \in Nodes, NEW i \in Ids, Dial(n, i)
  PROVE  PipesTypeOK'
<1>q. PICK q : q = dials + 1
  OBVIOUS
<1> DEFINE line == <<Message("inbound"), Message("init")>>
<1>1. /\ dials < MaxPipes /\ dials' = q
      /\ pipe' = [pipe EXCEPT ![q] = [id |-> i, from |-> n, open |-> TRUE]]
      /\ events' = [events EXCEPT ![Other(n)][q] = line]
      /\ teardown(n, i, Channel(q), {})
      /\ task' = [task EXCEPT ![n] = [ended(n, i) EXCEPT ![q] = "writeInit"]]
      /\ asks' = [asks EXCEPT ![n] = @ \cup dropped(n, i)]
      /\ UNCHANGED <<sent, heard, stray>>
  BY <1>q DEF Dial, seen
<1>2. q \in 0 .. MaxPipes
  BY <1>q, <1>1, BridgedSessionsAssumption DEF PipesTypeOK
<1>3. Channel(q) \in Readers
  BY <1>2, ChannelTyped
<1>4. /\ channels' \in [Nodes -> [Ids -> Readers]]
      /\ session' \in [Nodes -> [Pipes -> Sessional]]
      /\ ended(n, i) \in [Pipes -> AllTasks] /\ dropped(n, i) \in SUBSET Pipes
  BY <1>1, <1>3, TeardownTyped
<1>5. task' \in [Nodes -> [Pipes -> AllTasks]]
  <2>1. "writeInit" \in AllTasks
    BY DEF AllTasks, DialTasks
  <2> QED BY <1>1, <1>4, <2>1, Retasked
<1>6. asks' \in [Nodes -> SUBSET Pipes]
  BY <1>1, <1>4, AsksTyped
<1>7. events' \in [Nodes -> [Pipes -> Seq(Events)]]
  <2>1. Message("inbound") \in Events /\ Message("init") \in Events
    BY MessageTyped DEF Kinds
  <2>2. line \in Seq(Events)
    BY <2>1
  <2> HIDE DEF line
  <2> QED BY <1>1, <2>2, OneOther, Realined
<1>8. pipe' \in [Pipes -> PipeStates]
  BY <1>1 DEF PipesTypeOK, PipeStates
<1> QED BY <1>1, <1>2, <1>4, <1>5, <1>6, <1>7, <1>8 DEF PipesTypeOK

LEMMA EstablishTyped ==
  ASSUME PipesTypeOK, NEW n \in Nodes, NEW p \in Pipes, establish(n, p)
  PROVE  /\ channels' \in [Nodes -> [Ids -> Readers]]
         /\ session' \in [Nodes -> [Pipes -> Sessional]]
         /\ task' \in [Nodes -> [Pipes -> AllTasks]] /\ stray' \in BOOLEAN
<1> DEFINE c == channels[n][Id(p)]
           d == [reader |-> IF c.mode = "none" THEN p ELSE c.reader, mode |-> "frames",
                 buffer |-> <<>>, connection |-> p]
<1>1. /\ channels' = [channels EXCEPT ![n][Id(p)] = d]
      /\ session' = [session EXCEPT ![n][p] = "active"]
      /\ task' = [task EXCEPT ![n][p] = "over"] /\ stray' = (stray \/ c.reader # p)
  BY DEF establish
<1>2. Id(p) \in Ids => d \in Readers
  <2>1. Id(p) \in Ids => c \in Readers
    BY DEF PipesTypeOK
  <2>2. p \in 0 .. MaxPipes
    BY PipeNumbers
  <2> HIDE DEF c
  <2> QED BY <2>1, <2>2 DEF Readers
<1>3. channels' \in [Nodes -> [Ids -> Readers]]
  <2> HIDE DEF d
  <2> QED BY <1>1, <1>2, Rechanneled
<1>4. session' \in [Nodes -> [Pipes -> Sessional]]
  BY <1>1 DEF PipesTypeOK, Sessional
<1>5. task' \in [Nodes -> [Pipes -> AllTasks]]
  <2>1. task[n] \in [Pipes -> AllTasks] /\ "over" \in AllTasks
    BY DEF PipesTypeOK, AllTasks, DialTasks
  <2> QED BY <1>1, <2>1, Retasked
<1>6. stray' \in BOOLEAN
  BY <1>1 DEF PipesTypeOK
<1> QED BY <1>3, <1>4, <1>5, <1>6

LEMMA WrittenTyped ==
  ASSUME PipesTypeOK, NEW n \in Nodes, NEW p \in Pipes, Written(n, p)
  PROVE  PipesTypeOK'
<1>1. UNCHANGED <<pipe, dials, events, asks, sent, heard>>
  BY DEF Written, host, seen
<1>2. CASE task[n][p] = "writeAck"
  <2>1. establish(n, p)
    BY <1>2 DEF Written
  <2> QED BY <1>1, <2>1, EstablishTyped DEF PipesTypeOK
<1>3. CASE task[n][p] # "writeAck"
  <2> DEFINE t == IF task[n][p] = "writeInit" THEN "challenge" ELSE "ack"
  <2>1. task' = [task EXCEPT ![n][p] = t] /\ UNCHANGED <<channels, session, stray>>
    BY <1>3 DEF Written, seen
  <2>2. t \in AllTasks /\ task[n] \in [Pipes -> AllTasks]
    BY DEF AllTasks, DialTasks, AcceptTasks, PipesTypeOK
  <2> HIDE DEF t
  <2>3. task' \in [Nodes -> [Pipes -> AllTasks]]
    BY <2>1, <2>2, Retasked
  <2> QED BY <1>1, <2>1, <2>3 DEF PipesTypeOK
<1> QED BY <1>2, <1>3

LEMMA FailsTyped ==
  ASSUME PipesTypeOK, NEW n \in Nodes, NEW p \in Pipes, fail(n, p),
         UNCHANGED <<pipe, dials, events, sent, heard, stray>>
  PROVE  PipesTypeOK'
BY FailTyped DEF PipesTypeOK

LEMMA ResumeTyped ==
  ASSUME PipesTypeOK, NEW n \in Nodes, NEW p \in Pipes, Resume(n, p)
  PROVE  PipesTypeOK'
<1> DEFINE c == channels[n][Id(p)]
           m == Head(c.buffer)
<1>1. UNCHANGED <<pipe, dials, sent>> /\ c.buffer # <<>>
  BY DEF Resume, Resumes, host
<1>c. Id(p) \in Ids => c \in Readers
  BY DEF PipesTypeOK
<1>t. task[n] \in [Pipes -> AllTasks]
  BY DEF PipesTypeOK
<1>2. CASE m.type # task[n][p]
  <2>1. fail(n, p) /\ UNCHANGED <<events, heard, stray>>
    BY <1>2 DEF Resume, seen
  <2> QED BY <1>1, <2>1, FailsTyped
<1>3. CASE m.type = task[n][p] /\ m.type # "ack"
  <2> DEFINE k == IF m.type = "init" THEN "challenge" ELSE "ack"
             t == IF task[n][p] = "init" THEN "writeChallenge" ELSE "writeAck"
             d == [c EXCEPT !.buffer = Tail(@)]
             msg == <<Message(k)>>
  <2>1. /\ channels' = [channels EXCEPT ![n][Id(p)] = d] /\ put(n, Id(p), msg)
        /\ task' = [task EXCEPT ![n][p] = t]
        /\ UNCHANGED <<asks, session, heard, stray>>
    <3>1. channels' = taken(n, p) /\ put(n, Id(p), msg)
          /\ task' = [task EXCEPT ![n][p] = t] /\ UNCHANGED <<asks, session, heard, stray>>
      BY <1>3 DEF Resume, seen
    <3>2. taken(n, p) = [channels EXCEPT ![n][Id(p)] = d]
      BY DEF taken
    <3> QED BY <3>1, <3>2
  <2>2. t \in AllTasks /\ k \in Kinds
    BY DEF AllTasks, DialTasks, AcceptTasks, Kinds
  <2>3. Id(p) \in Ids => d \in Readers
    <3> HIDE DEF c
    <3>1. ASSUME c \in Readers PROVE Tail(c.buffer) \in Seq(Events)
      BY <1>1, <3>1 DEF Readers
    <3>2. ASSUME NEW r \in Readers, NEW b \in Seq(Events) PROVE [r EXCEPT !.buffer = b] \in Readers
      BY DEF Readers
    <3> QED BY <1>c, <3>1, <3>2
  <2>4. msg \in Seq(Events)
    BY <2>2, MessageTyped
  <2> HIDE DEF c, m, k, t, d, msg
  <2>5. channels' \in [Nodes -> [Ids -> Readers]]
    BY <2>1, <2>3, Rechanneled
  <2>6. events' \in [Nodes -> [Pipes -> Seq(Events)]]
    BY <2>1, <2>4, OneOther, PutTyped
  <2>7. task' \in [Nodes -> [Pipes -> AllTasks]]
    BY <1>t, <2>1, <2>2, Retasked
  <2> QED BY <1>1, <2>1, <2>5, <2>6, <2>7 DEF PipesTypeOK
<1>4. CASE m.type = task[n][p] /\ m.type = "ack"
  <2> DEFINE d == [c EXCEPT !.mode = "frames", !.buffer = <<>>, !.connection = p]
  <2>1. /\ channels' = [channels EXCEPT ![n][Id(p)] = d]
        /\ session' = [session EXCEPT ![n][p] = "active"]
        /\ task' = [task EXCEPT ![n][p] = "over"]
        /\ UNCHANGED <<events, asks, heard, stray>>
    BY <1>4 DEF Resume
  <2>2. Id(p) \in Ids => d \in Readers
    <3>1. ASSUME NEW r \in Readers
          PROVE  /\ [r EXCEPT !.mode = "frames"] \in Readers /\ [r EXCEPT !.buffer = <<>>] \in Readers
                 /\ [r EXCEPT !.connection = p] \in Readers
      <4>1. <<>> \in Seq(Events) /\ p \in 0 .. MaxPipes
        BY PipeNumbers
      <4> QED BY <4>1 DEF Readers
    <3>2. d = [[[c EXCEPT !.mode = "frames"] EXCEPT !.buffer = <<>>] EXCEPT !.connection = p]
      OBVIOUS
    <3> HIDE DEF c, d
    <3> QED BY <1>c, <3>1, <3>2
  <2> HIDE DEF d
  <2>3. channels' \in [Nodes -> [Ids -> Readers]]
    BY <2>1, <2>2, Rechanneled
  <2>4. session' \in [Nodes -> [Pipes -> Sessional]]
    BY <2>1 DEF PipesTypeOK, Sessional
  <2>5. task' \in [Nodes -> [Pipes -> AllTasks]]
    <3>1. "over" \in AllTasks
      BY DEF AllTasks, DialTasks
    <3> QED BY <1>t, <2>1, <3>1, Retasked
  <2> QED BY <1>1, <2>1, <2>3, <2>4, <2>5 DEF PipesTypeOK
<1> QED BY <1>2, <1>3, <1>4

LEMMA TeardownKeepsTypes ==
  ASSUME PipesTypeOK, NEW n \in Nodes, NEW i, NEW c \in Readers, NEW closes, NEW more \in SUBSET Pipes,
         teardown(n, i, c, closes), task' = [task EXCEPT ![n] = ended(n, i)],
         asks' = [asks EXCEPT ![n] = @ \cup more],
         events' \in [Nodes -> [Pipes -> Seq(Events)]],
         UNCHANGED <<pipe, dials, sent, heard, stray>>
  PROVE  PipesTypeOK'
<1>1. /\ channels' \in [Nodes -> [Ids -> Readers]]
      /\ session' \in [Nodes -> [Pipes -> Sessional]] /\ ended(n, i) \in [Pipes -> AllTasks]
  BY TeardownTyped
<1>2. task' \in [Nodes -> [Pipes -> AllTasks]]
  BY <1>1 DEF PipesTypeOK
<1>3. asks' \in [Nodes -> SUBSET Pipes]
  BY AsksTyped
<1> QED BY <1>1, <1>2, <1>3 DEF PipesTypeOK

LEMMA TailTyped ==
  ASSUME PipesTypeOK, NEW n \in Nodes, NEW p \in Pipes, events[n][p] # <<>>,
         events' = [events EXCEPT ![n][p] = Tail(@)]
  PROVE  events' \in [Nodes -> [Pipes -> Seq(Events)]]
<1>1. Tail(events[n][p]) \in Seq(Events)
  <2>1. events[n][p] \in Seq(Events)
    BY DEF PipesTypeOK
  <2> QED BY <2>1
<1> QED BY <1>1, Realined

LEMMA InboundTyped ==
  ASSUME PipesTypeOK, NEW n \in Nodes, NEW p \in Pipes, Inbound(n, p)
  PROVE  PipesTypeOK'
<1> DEFINE i == Id(p)
<1>1. /\ events[n][p] # <<>>
      /\ teardown(n, i, Channel(p), {})
      /\ task' = [task EXCEPT ![n] = [ended(n, i) EXCEPT ![p] = "init"]]
      /\ asks' = [asks EXCEPT ![n] = @ \cup dropped(n, i)]
      /\ events' = [events EXCEPT ![n][p] = Tail(@)]
      /\ UNCHANGED <<pipe, dials, sent, heard, stray>>
  BY DEF Inbound, accept, Reports, host, seen
<1>2. Channel(p) \in Readers
  BY PipeNumbers, ChannelTyped
<1> HIDE DEF i
<1>3. /\ channels' \in [Nodes -> [Ids -> Readers]]
      /\ session' \in [Nodes -> [Pipes -> Sessional]]
      /\ ended(n, i) \in [Pipes -> AllTasks] /\ dropped(n, i) \in SUBSET Pipes
  BY <1>1, <1>2, TeardownTyped
<1>4. task' \in [Nodes -> [Pipes -> AllTasks]]
  <2>1. "init" \in AllTasks
    BY DEF AllTasks, AcceptTasks
  <2> QED BY <1>1, <1>3, <2>1, Retasked
<1>5. asks' \in [Nodes -> SUBSET Pipes] /\ events' \in [Nodes -> [Pipes -> Seq(Events)]]
  BY <1>1, <1>3, AsksTyped, TailTyped
<1> QED BY <1>1, <1>3, <1>4, <1>5 DEF PipesTypeOK

LEMMA ClosedTyped ==
  ASSUME PipesTypeOK, NEW n \in Nodes, NEW p \in Pipes, Closed(n, p)
  PROVE  PipesTypeOK'
<1> DEFINE more == dropped(n, Id(p))
<1>1. /\ events[n][p] # <<>>
      /\ teardown(n, Id(p), NoChannel, {})
      /\ task' = [task EXCEPT ![n] = ended(n, Id(p))]
      /\ asks' = [asks EXCEPT ![n] = @ \cup more]
      /\ events' = [events EXCEPT ![n][p] = Tail(@)]
      /\ UNCHANGED <<pipe, dials, sent, heard, stray>>
  BY DEF Closed, Reports, host, seen
<1>2. NoChannel \in Readers /\ more \in SUBSET Pipes
  BY PipeNumbers, ChannelTyped DEF dropped, Failed
<1>3. events' \in [Nodes -> [Pipes -> Seq(Events)]]
  BY <1>1, TailTyped
<1> HIDE DEF more
<1> QED BY <1>1, <1>2, <1>3, TeardownKeepsTypes

LEMMA CloseTyped ==
  ASSUME PipesTypeOK, NEW n \in Nodes, NEW p \in Pipes, Close(n, p)
  PROVE  PipesTypeOK'
<1> DEFINE more == {p} \cup dropped(n, Id(p))
<1>1. /\ teardown(n, Id(p), NoChannel, {p})
      /\ task' = [task EXCEPT ![n] = ended(n, Id(p))]
      /\ asks' = [asks EXCEPT ![n] = @ \cup more]
      /\ UNCHANGED <<pipe, dials, events, sent, heard, stray>>
  BY DEF Close, host, seen
<1>2. NoChannel \in Readers /\ more \in SUBSET Pipes
  BY PipeNumbers, ChannelTyped DEF dropped, Failed
<1>3. events' \in [Nodes -> [Pipes -> Seq(Events)]]
  BY <1>1 DEF PipesTypeOK
<1> HIDE DEF more
<1> QED BY <1>1, <1>2, <1>3, TeardownKeepsTypes

LEMMA DataTyped ==
  ASSUME PipesTypeOK, NEW n \in Nodes, NEW p \in Pipes, NEW k \in Nat, k > 0, Data(n, p, k)
  PROVE  PipesTypeOK'
<1> DEFINE line == events[n][p]
           s == SubSeq(line, 1, k)
           r == SubSeq(line, k + 1, Len(line))
           c == channels[n][Id(p)]
<1>1. /\ k <= Len(line) /\ events' = [events EXCEPT ![n][p] = r]
      /\ UNCHANGED <<pipe, dials, asks, task, session, sent, stray>>
      /\ IF c.mode = "frames"
         THEN /\ heard' = [heard EXCEPT ![n][c.connection] =
                   IF session[n][c.connection] = "active" THEN @ \o s ELSE @]
              /\ UNCHANGED channels
         ELSE channels' = pushed(n, Id(p), s) /\ UNCHANGED heard
  BY DEF Data, host
<1>2. line \in Seq(Events)
  BY DEF PipesTypeOK
<1> HIDE DEF line
<1>3. s \in Seq(Events) /\ r \in Seq(Events)
  <2>0. Len(line) \in Nat
    BY <1>2
  <2>1. \A j \in 1 .. k : line[j] \in Events
    BY <1>1, <1>2
  <2>2. \A j \in k + 1 .. Len(line) : line[j] \in Events
    BY <1>2
  <2>3. s \in Seq(Events)
    BY <2>1, SubSeqProperties
  <2>4. r \in Seq(Events)
    BY <2>0, <2>2, SubSeqProperties
  <2> QED BY <2>3, <2>4
<1> HIDE DEF s, r, c
<1>4. events' \in [Nodes -> [Pipes -> Seq(Events)]]
  BY <1>1, <1>3, Realined
<1>5. heard' \in [Nodes -> [Pipes -> Seq(Events)]]
  <2>1. heard \in [Nodes -> [Pipes -> Seq(Events)]]
    BY DEF PipesTypeOK
  <2>2. CASE c.mode = "frames"
    <3> DEFINE j == c.connection
               new == IF session[n][j] = "active" THEN heard[n][j] \o s ELSE heard[n][j]
    <3>1. heard' = [heard EXCEPT ![n][j] = new]
      BY <1>1, <2>2
    <3>2. j \in Pipes => new \in Seq(Events)
      BY <1>3, <2>1
    <3> HIDE DEF new, j
    <3>3. [heard[n] EXCEPT ![j] = new] \in [Pipes -> Seq(Events)]
      BY <2>1, <3>2
    <3> QED BY <2>1, <3>1, <3>3
  <2> QED BY <1>1, <2>1, <2>2
<1>6. channels' \in [Nodes -> [Ids -> Readers]]
  <2>1. CASE c.mode # "frames"
    <3> DEFINE d == IF c.mode = "none" THEN [Channel(0) EXCEPT !.buffer = s]
                    ELSE [c EXCEPT !.buffer = c.buffer \o s]
    <3>1. channels' = [channels EXCEPT ![n][Id(p)] = d]
      BY <1>1, <2>1 DEF pushed, c
    <3>2. Id(p) \in Ids => d \in Readers
      <4>1. ASSUME NEW x \in Readers, NEW b \in Seq(Events) PROVE [x EXCEPT !.buffer = b] \in Readers
        BY DEF Readers
      <4>2. Channel(0) \in Readers
        BY ChannelTyped, BridgedSessionsAssumption
      <4>3. ASSUME Id(p) \in Ids PROVE c \in Readers /\ c.buffer \o s \in Seq(Events)
        <5>1. c \in Readers
          BY <4>3 DEF PipesTypeOK, c
        <5>2. c.buffer \in Seq(Events)
          BY <5>1 DEF Readers
        <5> QED BY <1>3, <5>1, <5>2
      <4> QED BY <1>3, <4>1, <4>2, <4>3
    <3> HIDE DEF d
    <3> QED BY <3>1, <3>2, Rechanneled
  <2> QED BY <1>1, <2>1 DEF PipesTypeOK
<1> QED BY <1>1, <1>4, <1>5, <1>6 DEF PipesTypeOK

LEMMA SendTyped ==
  ASSUME PipesTypeOK, NEW n \in Nodes, NEW p \in Pipes, Send(n, p)
  PROVE  PipesTypeOK'
<1> DEFINE t == flushed(p, sent[n][p])
<1>1. /\ sent' = [sent EXCEPT ![n][p] = @ + 1] /\ put(n, Id(p), t)
      /\ UNCHANGED <<pipe, dials, asks, channels, task, session, heard, stray>>
  BY DEF Send, host, local, seen
<1>2. t \in Seq(Events)
  <2>1. sent[n][p] \in Nat
    BY DEF PipesTypeOK
  <2> QED BY <2>1, FlushedFrames
<1> HIDE DEF t
<1>3. events' \in [Nodes -> [Pipes -> Seq(Events)]]
  BY <1>1, <1>2, OneOther, PutTyped
<1>4. sent' \in [Nodes -> [Pipes -> Nat]]
  BY <1>1 DEF PipesTypeOK
<1> QED BY <1>1, <1>3, <1>4 DEF PipesTypeOK

LEMMA DisconnectTyped ==
  ASSUME PipesTypeOK, NEW n \in Nodes, NEW p \in Pipes, Disconnect(n, p)
  PROVE  PipesTypeOK'
<1>1. /\ asks' = [asks EXCEPT ![n] = @ \ {p}]
      /\ pipe' = [q \in Pipes |-> [pipe[q] EXCEPT !.open = @ /\ q \notin Open(Id(p))]]
      /\ events' = [m \in Nodes |-> [q \in Pipes |->
           IF q \in Open(Id(p)) THEN Append(events[m][q], Message("closed")) ELSE events[m][q]]]
      /\ UNCHANGED <<dials, channels, task, session, sent, heard, stray>>
  BY DEF Disconnect, local, seen
<1>2. pipe' \in [Pipes -> PipeStates]
  <2>1. ASSUME NEW g \in PipeStates, NEW b \in BOOLEAN PROVE [g EXCEPT !.open = @ /\ b] \in PipeStates
    BY DEF PipeStates
  <2>2. ASSUME NEW q \in Pipes
        PROVE  [pipe[q] EXCEPT !.open = @ /\ q \notin Open(Id(p))] \in PipeStates
    BY <2>1 DEF PipesTypeOK
  <2> QED BY <1>1, <2>2
<1>3. events' \in [Nodes -> [Pipes -> Seq(Events)]]
  <2>1. Message("closed") \in Events
    BY MessageTyped DEF Kinds
  <2>2. \A m \in Nodes, q \in Pipes : events[m][q] \in Seq(Events)
    BY DEF PipesTypeOK
  <2>3. ASSUME NEW m \in Nodes, NEW q \in Pipes
        PROVE  (IF q \in Open(Id(p)) THEN Append(events[m][q], Message("closed")) ELSE events[m][q])
               \in Seq(Events)
    BY <2>1, <2>2
  <2> QED BY <1>1, <2>3
<1>4. asks' \in [Nodes -> SUBSET Pipes]
  BY <1>1 DEF PipesTypeOK
<1> QED BY <1>1, <1>2, <1>3, <1>4 DEF PipesTypeOK

LEMMA LoseTyped ==
  ASSUME PipesTypeOK, NEW p \in Pipes, Lose(p)
  PROVE  PipesTypeOK'
<1>1. /\ pipe' = [pipe EXCEPT ![p].open = FALSE]
      /\ events' = [n \in Nodes |-> [events[n] EXCEPT ![p] = cut(@)]]
      /\ UNCHANGED <<dials, asks, channels, task, session, sent, heard, stray>>
  BY DEF Lose, local, seen
<1>2. pipe' \in [Pipes -> PipeStates]
  <2>1. ASSUME NEW g \in PipeStates PROVE [g EXCEPT !.open = FALSE] \in PipeStates
    BY DEF PipeStates
  <2>2. pipe \in [Pipes -> PipeStates]
    BY DEF PipesTypeOK
  <2>3. [pipe[p] EXCEPT !.open = FALSE] \in PipeStates
    BY <2>1, <2>2
  <2> QED BY <1>1, <2>2, <2>3
<1>3. events' \in [Nodes -> [Pipes -> Seq(Events)]]
  <2>1. ASSUME NEW line \in Seq(Events) PROVE cut(line) \in Seq(Events)
    <3>1. Message("closed") \in Events
      BY MessageTyped DEF Kinds
    <3>2. CASE line # <<>> /\ Head(line).type = "inbound"
      <4>1. Head(line) \in Events
        BY <3>2
      <4>2. cut(line) = Append(<<Head(line)>>, Message("closed"))
        BY <3>2 DEF cut
      <4> QED BY <3>1, <4>1, <4>2
    <3>3. CASE ~(line # <<>> /\ Head(line).type = "inbound")
      <4>1. cut(line) = Append(<<>>, Message("closed"))
        BY <3>3 DEF cut
      <4> QED BY <3>1, <4>1
    <3> QED BY <3>2, <3>3
  <2>2. ASSUME NEW n \in Nodes PROVE [events[n] EXCEPT ![p] = cut(@)] \in [Pipes -> Seq(Events)]
    <3>1. events[n] \in [Pipes -> Seq(Events)]
      BY DEF PipesTypeOK
    <3>2. cut(events[n][p]) \in Seq(Events)
      BY <2>1, <3>1
    <3> QED BY <3>1, <3>2
  <2> QED BY <1>1, <2>2
<1> QED BY <1>1, <1>2, <1>3 DEF PipesTypeOK

(* The invariant of the pipes holds at first.                              *)
LEMMA PipesInit ==
  Init => PipesIInv
<1> SUFFICES ASSUME Init PROVE PipesTypeOK /\ Regular
  BY DEF PipesIInv
<1>1. PipesTypeOK
  <2>1. <<>> \in Seq(Events) /\ 0 \in 0 .. MaxPipes /\ NoChannel \in Readers
    BY BridgedSessionsAssumption, ChannelTyped
  <2>2. "none" \in AllTasks /\ "none" \in Sessional
    BY DEF AllTasks, AcceptTasks, Sessional
  <2>3. [id |-> None, from |-> None, open |-> FALSE] \in PipeStates
    BY DEF PipeStates
  <2> QED BY <2>1, <2>2, <2>3 DEF Init, PipesTypeOK
<1>2. Dialled = {}
  BY DEF Init, Dialled, Pipes
<1>3. Fresh
  BY <1>2 DEF Init, Fresh, Id
<1>4. Shapes
  <2>1. Shape(NoChannel) /\ NoChannel.reader = 0
    BY DEF NoChannel, Shape, Only
  <2>2. \A p \in Pipes : p # 0
    BY DEF Pipes
  <2> QED BY <2>1, <2>2 DEF Init, Shapes
<1>5. Currents /\ Ties
  BY <1>2 DEF Currents, Ties
<1> QED BY <1>1, <1>2, <1>3, <1>4, <1>5 DEF Regular

(* What is yet to be dialled does nothing.                                 *)
LEMMA DoesSo ==
  ASSUME PipesTypeOK, Regular, NEW n \in Nodes, NEW p \in Pipes,
         \/ pipe[p].open \/ events[n][p] # <<>> \/ p \in asks[n] \/ task[n][p] # "none"
         \/ session[n][p] # "none"
  PROVE  p \in Dialled
BY DEF Regular, Fresh

LEMMA HandshakeGoesOn ==
  ASSUME PipesIInv, NEW n \in Nodes, NEW p \in Pipes,
         Written(n, p) \/ WriteFails(n, p) \/ Timeout(n, p) \/ Resume(n, p) \/ Disconnect(n, p)
  PROVE  PipesIInv'
<1>0. PipesTypeOK /\ (~stray => Regular)
  BY DEF PipesIInv
<1>1. CASE Written(n, p)
  <2>1. PipesTypeOK'
    BY <1>0, <1>1, WrittenTyped
  <2>2. ASSUME ~stray' PROVE Regular'
    <3>1. ~stray
      BY <1>1, <2>2 DEF Written, establish, seen
    <3>2. task[n][p] # "none"
      BY <1>1 DEF Written, Writing
    <3>3. p \in Dialled
      BY <1>0, <3>1, <3>2, DoesSo
    <3> QED BY <1>0, <1>1, <2>1, <2>2, <3>1, <3>3, WrittenKeeps
  <2> QED BY <2>1, <2>2 DEF PipesIInv
<1>2. CASE WriteFails(n, p)
  <2>1. /\ task[n][p] \in Writing /\ ~pipe[p].open /\ fail(n, p)
        /\ UNCHANGED <<pipe, dials, events, sent, heard, stray>>
    BY <1>2 DEF WriteFails, host, seen
  <2>2. PipesTypeOK'
    BY <1>0, <2>1, FailsTyped
  <2>3. ASSUME ~stray' PROVE Regular'
    <3>1. p \in Dialled
      BY <1>0, <2>1, <2>3, DoesSo DEF Writing
    <3> QED BY <1>0, <2>1, <2>2, <2>3, <3>1, FailKeeps
  <2> QED BY <2>2, <2>3 DEF PipesIInv
<1>3. CASE Timeout(n, p)
  <2>1. /\ task[n][p] \in Waiting /\ fail(n, p)
        /\ UNCHANGED <<pipe, dials, events, sent, heard, stray>>
    BY <1>3 DEF Timeout, host, seen
  <2>2. PipesTypeOK'
    BY <1>0, <2>1, FailsTyped
  <2>3. ASSUME ~stray' PROVE Regular'
    <3>1. p \in Dialled
      BY <1>0, <2>1, <2>3, DoesSo DEF Waiting
    <3>2. task[n][p] # "writeAck"
      BY <2>1 DEF Waiting
    <3> QED BY <1>0, <2>1, <2>2, <2>3, <3>1, <3>2, FailKeeps
  <2> QED BY <2>2, <2>3 DEF PipesIInv
<1>4. CASE Resume(n, p)
  <2>1. PipesTypeOK'
    BY <1>0, <1>4, ResumeTyped
  <2>2. ASSUME ~stray' PROVE Regular'
    <3>1. stray' = stray
      BY <1>4 DEF Resume, seen
    <3>2. task[n][p] # "none"
      BY <1>4 DEF Resume, Resumes, Waiting
    <3>3. p \in Dialled
      BY <1>0, <2>2, <3>1, <3>2, DoesSo
    <3> QED BY <1>0, <1>4, <2>1, <2>2, <3>1, <3>3, ResumeKeeps
  <2> QED BY <2>1, <2>2 DEF PipesIInv
<1>5. CASE Disconnect(n, p)
  <2>1. PipesTypeOK'
    BY <1>0, <1>5, DisconnectTyped
  <2>2. ASSUME ~stray' PROVE Regular'
    <3>1. stray' = stray /\ p \in asks[n]
      BY <1>5 DEF Disconnect, seen
    <3>2. p \in Dialled
      BY <1>0, <2>2, <3>1, DoesSo
    <3> QED BY <1>0, <1>5, <2>1, <2>2, <3>1, <3>2, DisconnectKeeps
  <2> QED BY <2>1, <2>2 DEF PipesIInv
<1> QED BY <1>1, <1>2, <1>3, <1>4, <1>5

LEMMA EventGoesOn ==
  ASSUME PipesIInv, NEW n \in Nodes, NEW p \in Pipes,
         \/ Inbound(n, p) \/ Closed(n, p)
         \/ \E k \in 1 .. (2 + 3 * MaxFrames) : Data(n, p, k)
  PROVE  PipesIInv'
<1>0. PipesTypeOK /\ (~stray => Regular)
  BY DEF PipesIInv
<1>1. CASE Inbound(n, p)
  <2>1. PipesTypeOK'
    BY <1>0, <1>1, InboundTyped
  <2>2. ASSUME ~stray' PROVE Regular'
    <3>1. stray' = stray /\ events[n][p] # <<>>
      BY <1>1 DEF Inbound, Reports, seen
    <3>2. p \in Dialled
      BY <1>0, <2>2, <3>1, DoesSo
    <3> QED BY <1>0, <1>1, <2>1, <2>2, <3>1, <3>2, InboundKeeps
  <2> QED BY <2>1, <2>2 DEF PipesIInv
<1>2. CASE Closed(n, p)
  <2>1. PipesTypeOK'
    BY <1>0, <1>2, ClosedTyped
  <2>2. ASSUME ~stray' PROVE Regular'
    <3>1. stray' = stray /\ events[n][p] # <<>>
      BY <1>2 DEF Closed, Reports, seen
    <3>2. p \in Dialled
      BY <1>0, <2>2, <3>1, DoesSo
    <3> QED BY <1>0, <1>2, <2>1, <2>2, <3>1, <3>2, ClosedKeeps
  <2> QED BY <2>1, <2>2 DEF PipesIInv
<1>3. ASSUME NEW k \in 1 .. (2 + 3 * MaxFrames), Data(n, p, k) PROVE PipesIInv'
  <2>0. k \in Nat /\ k > 0
    BY BridgedSessionsAssumption
  <2>1. PipesTypeOK'
    BY <1>0, <1>3, <2>0, DataTyped
  <2>2. ASSUME ~stray' PROVE Regular'
    <3>1. stray' = stray /\ events[n][p] # <<>>
      BY <1>3 DEF Data, Reports
    <3>2. p \in Dialled
      BY <1>0, <2>2, <3>1, DoesSo
    <3> QED BY <1>0, <1>3, <2>0, <2>1, <2>2, <3>1, <3>2, DataKeeps
  <2> QED BY <2>1, <2>2 DEF PipesIInv
<1> QED BY <1>1, <1>2, <1>3

(* The invariant of the pipes is kept: by a step on one pipe, of that one  *)
(* and of all that are in use beside it.                                   *)
LEMMA PipesStep ==
  PipesIInv /\ [Next]_vars => PipesIInv'
<1> SUFFICES ASSUME PipesIInv, [Next]_vars PROVE PipesIInv'
  OBVIOUS
<1>0. PipesTypeOK /\ (~stray => Regular)
  BY DEF PipesIInv
<1>1. CASE Handshake
  BY <1>1, HandshakeGoesOn DEF Handshake
<1>2. CASE Event
  BY <1>2, EventGoesOn DEF Event
<1>3. ASSUME NEW n \in Dialers, NEW i \in Ids, Dial(n, i) PROVE PipesIInv'
  <2>0. n \in Nodes
    BY BridgedSessionsAssumption
  <2>1. PipesTypeOK' /\ stray' = stray
    BY <1>0, <1>3, <2>0, DialTyped DEF Dial, seen
  <2> QED BY <1>0, <1>3, <2>0, <2>1, DialKeeps DEF PipesIInv
<1>4. ASSUME NEW n \in Nodes, NEW p \in Pipes, Send(n, p) PROVE PipesIInv'
  <2>1. PipesTypeOK'
    BY <1>0, <1>4, SendTyped
  <2>2. ASSUME ~stray' PROVE Regular'
    <3>1. stray' = stray /\ session[n][p] # "none"
      BY <1>4 DEF Send, seen
    <3>2. p \in Dialled
      BY <1>0, <2>2, <3>1, DoesSo
    <3> QED BY <1>0, <1>4, <2>1, <2>2, <3>1, <3>2, SendKeeps
  <2> QED BY <2>1, <2>2 DEF PipesIInv
<1>5. ASSUME NEW n \in Nodes, NEW p \in Pipes, Close(n, p) PROVE PipesIInv'
  <2>1. PipesTypeOK'
    BY <1>0, <1>5, CloseTyped
  <2>2. ASSUME ~stray' PROVE Regular'
    <3>1. stray' = stray /\ session[n][p] # "none"
      BY <1>5 DEF Close, seen
    <3>2. p \in Dialled
      BY <1>0, <2>2, <3>1, DoesSo
    <3> QED BY <1>0, <1>5, <2>1, <2>2, <3>1, <3>2, CloseKeeps
  <2> QED BY <2>1, <2>2 DEF PipesIInv
<1>6. ASSUME NEW p \in Pipes, Lose(p) PROVE PipesIInv'
  <2>1. PipesTypeOK'
    BY <1>0, <1>6, LoseTyped
  <2>2. ASSUME ~stray' PROVE Regular'
    <3>1. stray' = stray /\ pipe[p].open
      BY <1>6 DEF Lose, seen
    <3>2. p \in Dialled
      BY <1>0, <2>2, <3>1 DEF Regular, Fresh
    <3> QED BY <1>0, <1>6, <2>1, <2>2, <3>1, <3>2, LoseKeeps
  <2> QED BY <2>1, <2>2 DEF PipesIInv
<1>7. CASE UNCHANGED vars
  <2>1. UNCHANGED <<pipe, dials, events, asks, channels, task, session, sent, heard, stray>>
    BY <1>7 DEF vars, host, local, seen
  <2>2. PipesTypeOK'
    BY <1>0, <2>1 DEF PipesTypeOK
  <2>3. ASSUME Regular PROVE Regular'
    <3>1. Dialled' = Dialled
      BY <2>1 DEF Dialled
    <3>2. Fresh'
      BY <2>1, <2>3, <3>1 DEF Regular, Fresh, Id
    <3>3. Shapes'
      BY <2>1, <2>3, <3>1 DEF Regular, Shapes, Shape, Id
    <3>4. Currents'
      BY <2>1, <2>3, <3>1 DEF Regular, Currents, InUse, Id
    <3>5. Ties'
      BY <2>1, <2>3, <3>1 DEF Regular, Ties, Id
    <3>6. ASSUME NEW p \in Dialled PROVE PipeOK(p)'
      <4>1. pipe'[p] = pipe[p] /\ \A n \in Nodes : End(n, p)' = End(n, p)
        BY <2>1 DEF End, Due, Id
      <4>2. Asked(p) => Asked(p)'
        BY <2>1 DEF Asked, Id
      <4> QED BY <1>0, <2>3, <4>1, <4>2, Untouched
    <3> QED BY <3>1, <3>2, <3>3, <3>4, <3>5, <3>6 DEF Regular
  <2> QED BY <1>0, <2>1, <2>2, <2>3 DEF PipesIInv
<1> QED BY <1>1, <1>2, <1>3, <1>4, <1>5, <1>6, <1>7 DEF Next

(* Every third place is an urgent frame's.                                 *)
LEMMA PlaceOf ==
  ASSUME NEW f \in Events
  PROVE  /\ f.urgent \in BOOLEAN /\ f.index \in Nat /\ Place(f) \in Nat
         /\ f.urgent => Place(f) = 3 * f.index
         /\ ~f.urgent => \E a \in Nat : \/ f.index = 2 * a /\ Place(f) = 3 * a + 1
                                        \/ f.index = 2 * a + 1 /\ Place(f) = 3 * a + 2
<1>1. f.urgent \in BOOLEAN /\ f.index \in Nat
  BY DEF Events
<1>2. CASE f.urgent
  BY <1>1, <1>2 DEF Place
<1>3. CASE ~f.urgent
  <2> DEFINE i == f.index
             a == i \div 2
             b == i % 2
  <2>1. a \in Nat /\ b \in 0 .. 1 /\ i = 2 * a + b
    BY <1>1
  <2>2. Place(f) = 3 * a + b + 1
    BY <1>3 DEF Place
  <2> HIDE DEF a, b, i
  <2>3. b = 0 \/ b = 1
    BY <2>1
  <2>4. \/ i = 2 * a /\ Place(f) = 3 * a + 1
        \/ i = 2 * a + 1 /\ Place(f) = 3 * a + 2
    BY <2>1, <2>2, <2>3
  <2>5. Place(f) \in Nat
    BY <2>1, <2>4
  <2> QED BY <1>1, <1>3, <2>1, <2>4, <2>5 DEF i
<1> QED BY <1>1, <1>2, <1>3

LEMMA SteadyFollows ==
  ASSUME NEW s \in Seq(Events), NEW p, Steady(s, p), \A k \in DOMAIN s : IsFrame(s[k]),
         NEW j \in DOMAIN s, NEW k \in DOMAIN s, Following(s, j, k)
  PROVE  s[k].index = s[j].index + 1
<1>1. /\ j \in Nat /\ k \in Nat /\ j < k /\ \A l \in j .. k : l \in DOMAIN s /\ s[l] \in Events
      /\ DOMAIN s = 1 .. Len(s)
  BY DEF Following
<1>2. ASSUME NEW l \in j .. k PROVE Place(s[l]) = Place(s[j]) + (l - j)
  <2>1. l \in DOMAIN s /\ IsFrame(s[l]) /\ IsFrame(s[j]) /\ l \in Int
    BY <1>1
  <2>2. Place(s[l]) = Place(s[j]) + l - j
    BY <2>1 DEF Steady
  <2>3. Place(s[j]) \in Nat
    BY <1>1, PlaceOf
  <2> QED BY <1>1, <2>1, <2>2, <2>3
<1>3. /\ s[k].urgent = s[j].urgent
      /\ \A l \in j + 1 .. k - 1 : s[l].urgent # s[j].urgent
  BY DEF Following
<1>4. ASSUME NEW l \in j .. k
      PROVE  /\ s[l].urgent \in BOOLEAN /\ s[l].index \in Nat
             /\ s[l].urgent => Place(s[l]) = 3 * s[l].index
             /\ ~s[l].urgent => \E a \in Nat :
                  \/ s[l].index = 2 * a /\ Place(s[l]) = 3 * a + 1
                  \/ s[l].index = 2 * a + 1 /\ Place(s[l]) = 3 * a + 2
  BY <1>1, PlaceOf
<1>5. j \in j .. k /\ k \in j .. k
  BY <1>1
<1>6. CASE s[j].urgent
  <2>1. Place(s[j]) = 3 * s[j].index /\ Place(s[k]) = 3 * s[k].index
    BY <1>3, <1>4, <1>5, <1>6
  <2>2. 3 * s[k].index = 3 * s[j].index + (k - j) /\ s[j].index \in Nat /\ s[k].index \in Nat
    BY <1>2, <1>4, <1>5, <2>1
  <2>3. k - j >= 3
    BY <1>1, <2>2
  <2>4. ASSUME k - j > 3 PROVE FALSE
    <3>1. j + 3 \in j .. k /\ j + 3 \in j + 1 .. k - 1
      BY <1>1, <2>4
    <3>2. Place(s[j + 3]) = 3 * s[j].index + 3
      <4>1. Place(s[j + 3]) = Place(s[j]) + (j + 3 - j)
        BY <1>2, <3>1
      <4> QED BY <1>1, <2>1, <2>2, <4>1
    <3>3. ~s[j + 3].urgent
      BY <1>3, <1>4, <1>6, <3>1
    <3>4. PICK a \in Nat : Place(s[j + 3]) = 3 * a + 1 \/ Place(s[j + 3]) = 3 * a + 2
      BY <1>4, <3>1, <3>3
    <3> QED BY <2>2, <3>2, <3>4
  <2> QED BY <1>1, <2>2, <2>3, <2>4
<1>7. CASE ~s[j].urgent
  <2>1. PICK a \in Nat : \/ s[j].index = 2 * a /\ Place(s[j]) = 3 * a + 1
                         \/ s[j].index = 2 * a + 1 /\ Place(s[j]) = 3 * a + 2
    BY <1>4, <1>5, <1>7
  <2>2. PICK b \in Nat : \/ s[k].index = 2 * b /\ Place(s[k]) = 3 * b + 1
                         \/ s[k].index = 2 * b + 1 /\ Place(s[k]) = 3 * b + 2
    BY <1>3, <1>4, <1>5, <1>7
  <2>3. Place(s[k]) = Place(s[j]) + (k - j)
    BY <1>2, <1>5
  <2>4. ASSUME NEW l \in j + 1 .. k - 1
        PROVE  \E c \in Nat : Place(s[j]) + (l - j) = 3 * c
    <3>1. l \in j .. k /\ s[l].urgent
      BY <1>1, <1>3, <1>4, <1>7
    <3> QED BY <1>2, <1>4, <3>1
  <2>5. CASE s[j].index = 2 * a /\ Place(s[j]) = 3 * a + 1
    <3>1. ASSUME k > j + 1 PROVE FALSE
      <4>1. j + 1 \in j + 1 .. k - 1
        BY <1>1, <3>1
      <4>2. PICK c \in Nat : Place(s[j]) + (j + 1 - j) = 3 * c
        BY <2>4, <4>1
      <4> QED BY <1>1, <2>5, <4>2
    <3>2. k = j + 1
      BY <1>1, <3>1
    <3>3. Place(s[k]) = 3 * a + 2
      BY <1>1, <2>3, <2>5, <3>2
    <3>4. a = b /\ s[k].index = 2 * b + 1
      BY <2>2, <3>3
    <3> QED BY <2>5, <3>4
  <2>6. CASE s[j].index = 2 * a + 1 /\ Place(s[j]) = 3 * a + 2
    <3>1. ASSUME k > j + 2 PROVE FALSE
      <4>1. j + 2 \in j + 1 .. k - 1
        BY <1>1, <3>1
      <4>2. PICK c \in Nat : Place(s[j]) + (j + 2 - j) = 3 * c
        BY <2>4, <4>1
      <4> QED BY <1>1, <2>6, <4>2
    <3>2. k # j + 1
      BY <1>1, <2>2, <2>3, <2>6
    <3>3. k = j + 2
      BY <1>1, <3>1, <3>2
    <3> QED BY <1>1, <2>2, <2>3, <2>6, <3>3
  <2> QED BY <2>1, <2>5, <2>6
<1>8. s[j].urgent \in BOOLEAN
  BY <1>4, <1>5
<1> QED BY <1>6, <1>7, <1>8

LEMMA PipesHeardAsSent ==
  PipesIInv => HeardAsSent
<1> SUFFICES ASSUME PipesTypeOK, Regular, NEW n \in Nodes, NEW p \in Pipes
             PROVE  LET frames == heard[n][p] IN
                    /\ \A k \in DOMAIN frames : frames[k].type = "frame" /\ frames[k].session = p
                    /\ \A j, k \in DOMAIN frames :
                         Following(frames, j, k) => frames[k].index = frames[j].index + 1
  BY DEF PipesIInv, HeardAsSent
<1> DEFINE s == heard[n][p]
<1>1. s \in Seq(Events)
  BY DEF PipesTypeOK
<1>2. Steady(s, p) /\ \A k \in DOMAIN s : IsFrame(s[k])
  <2>1. CASE p \in Dialled
    <3>1. EndOK(pipe[p], n, p, End(n, p), End(Other(n), p), Asked(p))
      BY <2>1 DEF Regular, PipeOK
    <3>2. Streaming(pipe[p], p, End(n, p), End(Other(n), p)) /\ End(n, p).heard = s
      BY <3>1 DEF EndOK, End
    <3> QED BY <3>2 DEF Streaming
  <2>2. CASE p \notin Dialled
    BY <2>2 DEF Regular, Fresh, Steady
  <2> QED BY <2>1, <2>2
<1> HIDE DEF s
<1>3. \A k \in DOMAIN s : s[k].type = "frame" /\ s[k].session = p
  BY <1>2 DEF Steady, IsFrame
<1>4. \A j, k \in DOMAIN s : Following(s, j, k) => s[k].index = s[j].index + 1
  BY <1>1, <1>2, SteadyFollows
<1> QED BY <1>3, <1>4 DEF s

LEMMA PipesEndsAgree ==
  PipesIInv => EndsAgree
<1> SUFFICES ASSUME PipesTypeOK, Regular, Settled,
                    NEW p \in Pipes, NEW n \in Nodes, NEW m \in Nodes, session[n][p] = "active",
                    session[m][p] # "active"
             PROVE  FALSE
  BY DEF PipesIInv, EndsAgree
<1>1. p \in Dialled
  BY DoesSo
<1>2. m = Other(n) /\ n = Other(m)
  BY OneOther
<1>3. Id(p) \in Ids /\ p # 0
  BY <1>1, EndTyped DEF Regular
<1>4. ASSUME NEW o \in Nodes, channels[o][Id(p)].reader = p \/ session[o][p] = "active"
      PROVE  \/ channels[o][Id(p)].mode # "frames" /\ session[o][p] # "active"
             \/ /\ channels[o][Id(p)].connection = p /\ channels[o][Id(p)].reader = p
                /\ channels[o][Id(p)].buffer = <<>> /\ session[o][p] = "active"
  BY <1>1, <1>3, <1>4, ChannelOf DEF Shape, Regular, Ties
<1>5. \A o \in Nodes : events[o][p] = <<>> /\ task[o][p] \in {"none", "over"} /\ asks[o] = {}
  BY DEF Settled
<1>6. ~Asked(p)
  BY <1>5 DEF Asked
<1>7. \A o \in Nodes : EndOK(pipe[p], o, p, End(o, p), End(Other(o), p), Asked(p))
  BY <1>1 DEF Regular, PipeOK
<1>8. pipe[p].open
  <2>1. channels[n][Id(p)].reader = p /\ channels[n][Id(p)].buffer = <<>>
    BY <1>4
  <2>2. End(n, p).reader = p /\ End(n, p).due = <<>>
    <3>1. End(n, p).due = <<>> \o <<>>
      BY <1>5, <2>1 DEF End, Due
    <3> QED BY <2>1, <3>1 DEF End
  <2>3. Ending(pipe[p], p, End(n, p))
    BY <1>7 DEF EndOK
  <2> QED BY <1>1, <2>2, <2>3 DEF Ending
<1>9. CASE pipe[p].from = n
  <2>1. pipe[p].from # m
    BY <1>2, <1>9, OneOther
  <2>2. CASE task[m][p] = "none"
    <3>1. Beginning(pipe[p], m, p, End(m, p)) /\ End(m, p).task = "none"
      BY <1>7, <2>2 DEF EndOK, End
    <3>2. End(m, p).reader # p /\ Carries(End(m, p).due, "inbound")
      BY <2>1, <3>1 DEF Beginning
    <3>3. End(m, p).due = <<>>
      BY <1>5, <3>2 DEF End, Due
    <3> QED BY <3>2, <3>3 DEF Carries
  <2>3. CASE task[m][p] = "over"
    <3>1. /\ Agreement(pipe[p], m, End(m, p), End(Other(m), p), Asked(p))
          /\ End(m, p).task = "over" /\ End(m, p).session # "active"
      BY <1>7, <2>3 DEF EndOK, End
    <3> QED BY <1>6, <1>8, <2>1, <3>1 DEF Agreement
  <2> QED BY <1>5, <2>2, <2>3
<1>10. CASE pipe[p].from # n
  <2>1. Agreement(pipe[p], n, End(n, p), End(m, p), Asked(p))
    BY <1>2, <1>7 DEF EndOK
  <2>2. /\ End(n, p).session = "active" /\ End(m, p).task # "writeAck"
        /\ End(m, p).session # "active"
    BY <1>5 DEF End
  <2> QED BY <1>6, <1>8, <1>10, <2>1, <2>2 DEF Agreement
<1> QED BY <1>9, <1>10

-----------------------------------------------------------------------------
(* The transports side by side                                             *)

LEMMA OneAtATime ==
  [TransportsNext]_all => [Next]_vars /\ [Iroh!Next]_quic /\ [Failover!Next]_ladder
BY DEF TransportsNext, OverPipes, OverQuic, OnLadder, all

LEMMA TransportsInvariant == TransportsSpec => [](PipesIInv /\ QuicIInv /\ FailoverIInv)
<1>1. TransportsInit => PipesIInv /\ QuicIInv /\ FailoverIInv
  BY PipesInit, QuicInit, FailoverInit DEF TransportsInit
<1>2. PipesIInv /\ QuicIInv /\ FailoverIInv /\ [TransportsNext]_all
      => PipesIInv' /\ QuicIInv' /\ FailoverIInv'
  BY OneAtATime, PipesStep, QuicStep, FailoverStep
<1> QED BY <1>1, <1>2, PTL DEF TransportsSpec

(* Ends of any two builds that both have the connection have the same      *)
(* sub-streams open as far as the accepter knows them, and an accepter     *)
(* waits only for sub-streams that are on their way (iroh-transport.ts     *)
(* setUpDialer, setUpAccepter).                                            *)
THEOREM SameStreamsAlways == TransportsSpec => []SameStreams
BY TransportsInvariant, QuicSameStreams, PTL

(* Whoever has a connection whose last read loop has ended has been told   *)
(* that it is gone, also who came after it was (iroh-connection.ts         *)
(* noticePeerGone, onClose).                                               *)
THEOREM GoneIsNoticedAlways == TransportsSpec => []GoneIsNoticed
BY TransportsInvariant, QuicGoneIsNoticed, PTL

(* The frames of a session reach the listeners of that session and of no   *)
(* other, also where ids of pipes are used again, and in the order in      *)
(* which they were sent, none twice and none left out between two that do: *)
(* over a host's pipes those of a band (bridged-transport.ts accept,       *)
(* connect, teardown; pipe-reader.ts; priority-queue.ts dequeue), over QUIC*)
(* those of a sub-stream, whatever chunks they come in and whichever of    *)
(* them do not inflate (iroh-connection.ts readLoop, FrameReader).         *)
THEOREM FramesAsSentAlways == TransportsSpec => []FramesAsSent
<1>1. PipesIInv /\ QuicIInv => FramesAsSent
  BY PipesHeardAsSent, QuicInOrder DEF FramesAsSent
<1> QED BY <1>1, TransportsInvariant, PTL

(* Once nothing is under way on a pipe and nothing waits to be reported, a *)
(* session is there at both of its ends or at none, whichever write failed *)
(* or read timed out and whenever the pipe was lost (bridged-transport.ts  *)
(* accept, connect, drop, teardown, onClosed).                             *)
THEOREM EndsAgreeAlways == TransportsSpec => []EndsAgree
BY PipesEndsAgree, TransportsInvariant, PTL

(* Of any number of calls of establish() that overlap, none uses a relay   *)
(* before all above it have refused every try, and none fails before the   *)
(* last has (relay-failover.ts establish).                                 *)
THEOREM LadderAlways == TransportsSpec => []Ladder
BY TransportsInvariant, FailoverClimbs, PTL
=============================================================================
