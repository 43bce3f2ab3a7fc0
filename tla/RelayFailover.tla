---------------------------- MODULE RelayFailover ----------------------------
(***************************************************************************)
(* RelayFailoverManager (core/src/transport/relay-failover.ts): establish()*)
(* tries the direct path under a deadline, then one relay after another,   *)
(* each some times with a pause in between.  Calls may overlap.            *)
(*                                                                         *)
(* The attempts are the caller's: each opens a connection, fails, or hangs.*)
(* The direct one goes on after the deadline; nothing ends it.             *)
(***************************************************************************)
EXTENDS Naturals, FiniteSets

CONSTANTS
  Calls,               \* calls of establish() on one manager
  Relays,              \* how many endpoints there are
  maxRetriesPerRelay,
  MaxRouteResets       \* bound on the calls of reset()

RelayFailoverAssumption ==
  {Relays, maxRetriesPerRelay, MaxRouteResets} \subseteq Nat

VARIABLES
  call,     \* call -> what it waits for: at, relay, attempt
  direct,   \* call -> its direct attempt: "none", "open", "made" or "failed"
  made,     \* history: call -> the relays a connection was made through
  refusals, \* history: call -> relay -> attempts that failed
  outcome,  \* call -> <<"none">>, <<"failed">>, <<"direct">> or <<"relay", which>>
  currentRoute, \* the call whose it is, {} or a singleton
  routeResets

vars == <<call, direct, made, refusals, outcome, currentRoute, routeResets>>

Idle == [at |-> "idle", relay |-> 0, attempt |-> 0]

Init ==
  /\ call = [c \in Calls |-> Idle] /\ direct = [c \in Calls |-> "none"]
  /\ made = [c \in Calls |-> {}] /\ refusals = [c \in Calls |-> [r \in 1 .. Relays |-> 0]]
  /\ outcome = [c \in Calls |-> <<"none">>] /\ currentRoute = {} /\ routeResets = 0
-----------------------------------------------------------------------------
Establish(c) ==
  /\ call[c].at = "idle" /\ direct[c] = "none"
  /\ call' = [call EXCEPT ![c].at = "direct"] /\ direct' = [direct EXCEPT ![c] = "open"]
  /\ UNCHANGED <<made, refusals, outcome, currentRoute, routeResets>>

resolve(c, how) ==
  /\ call' = [call EXCEPT ![c] = Idle]
  /\ outcome' = [outcome EXCEPT ![c] = how] /\ currentRoute' = {c}

reject(c) ==
  /\ call' = [call EXCEPT ![c] = Idle]
  /\ outcome' = [outcome EXCEPT ![c] = <<"failed">>] /\ UNCHANGED currentRoute

(* Faulty variant: the attempts on one relay count for the next.           *)
advanceTired(c) ==
  IF call[c].relay = Relays THEN reject(c)
  ELSE /\ call' = [call EXCEPT ![c].at = "relay", ![c].relay = @ + 1]
       /\ UNCHANGED <<outcome, currentRoute>>

(* The next relay of the chain, or none is left.                           *)
advance(c) ==
  IF call[c].relay = Relays THEN reject(c)
  ELSE /\ call' = [call EXCEPT ![c] = [at |-> "relay", relay |-> @.relay + 1, attempt |-> 0]]
       /\ UNCHANGED <<outcome, currentRoute>>

(* The direct attempt succeeds; the race may have been decided already.    *)
DirectMade(c) ==
  /\ direct[c] = "open" /\ direct' = [direct EXCEPT ![c] = "made"]
  /\ IF call[c].at = "direct" THEN resolve(c, <<"direct">>)
     ELSE UNCHANGED <<call, outcome, currentRoute>>
  /\ UNCHANGED <<made, refusals, routeResets>>

DirectRefused(c) ==
  /\ direct[c] = "open" /\ direct' = [direct EXCEPT ![c] = "failed"]
  /\ IF call[c].at = "direct" THEN advance(c) ELSE UNCHANGED <<call, outcome, currentRoute>>
  /\ UNCHANGED <<made, refusals, routeResets>>

(* The deadline, which wins the race.                                      *)
DirectTimesOut(c) ==
  /\ call[c].at = "direct" /\ advance(c)
  /\ UNCHANGED <<direct, made, refusals, routeResets>>

RelayMade(c) ==
  /\ call[c].at = "relay" /\ resolve(c, <<"relay", call[c].relay>>)
  /\ made' = [made EXCEPT ![c] = @ \cup {call[c].relay}]
  /\ UNCHANGED <<direct, refusals, routeResets>>

mayRetry(attempt) == attempt < maxRetriesPerRelay

RelayRefused(c) ==
  /\ call[c].at = "relay"
  /\ refusals' = [refusals EXCEPT ![c][call[c].relay] = @ + 1]
  /\ IF mayRetry(call[c].attempt)
     THEN call' = [call EXCEPT ![c].at = "sleep"] /\ UNCHANGED <<outcome, currentRoute>>
     ELSE advance(c)
  /\ UNCHANGED <<direct, made, routeResets>>

(* The pause is over.                                                      *)
Slept(c) ==
  /\ call[c].at = "sleep"
  /\ call' = [call EXCEPT ![c].at = "relay", ![c].attempt = @ + 1]
  /\ UNCHANGED <<direct, made, refusals, outcome, currentRoute, routeResets>>

Reset ==
  /\ routeResets < MaxRouteResets /\ routeResets' = routeResets + 1 /\ currentRoute' = {}
  /\ UNCHANGED <<call, direct, made, refusals, outcome>>

Next ==
  \/ \E c \in Calls : Establish(c) \/ DirectMade(c) \/ DirectRefused(c) \/ DirectTimesOut(c)
                      \/ RelayMade(c) \/ RelayRefused(c) \/ Slept(c)
  \/ Reset

Spec == Init /\ [][Next]_vars
-----------------------------------------------------------------------------
(* A relay was tried, and as often as its option grants at least.          *)
Exhausted(c, r) == refusals[c][r] >= 1 /\ refusals[c][r] >= maxRetriesPerRelay

(* The ladder (RFC 001 §4.2): a relay is used only after all before it     *)
(* have had the attempts they are granted, establish() fails only after    *)
(* all relays have, and what it resolves with is a connection that was     *)
(* made.                                                                   *)
Ladder ==
  \A c \in Calls :
    /\ outcome[c] = <<"failed">> => made[c] = {} /\ \A r \in 1 .. Relays : Exhausted(c, r)
    /\ \A r \in made[c] : outcome[c] = <<"relay", r>> /\ \A q \in 1 .. r - 1 : Exhausted(c, q)
    /\ outcome[c] = <<"direct">> => direct[c] = "made" /\ made[c] = {}
    /\ call[c].at # "idle" => made[c] = {}

(* What one would expect and the code does not keep: one connection comes   *)
(* of one call.  The direct attempt goes on after its deadline, and when it *)
(* succeeds late, nothing closes the connection it made.                    *)
OneConnection == \A c \in Calls : direct[c] = "made" => made[c] = {}

(* relay-failover.ts:40, of maxRetriesPerRelay: "Attempts per relay         *)
(* endpoint before moving to the next"; the loop of line 220 runs once     *)
(* more.                                                                   *)
AttemptsPerRelay == \A c \in Calls, r \in 1 .. Relays : refusals[c][r] <= maxRetriesPerRelay
=============================================================================
