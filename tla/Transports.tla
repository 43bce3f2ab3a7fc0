----------------------------- MODULE Transports -----------------------------
(***************************************************************************)
(* Three parts of the transports side by side: sessions over a host's      *)
(* pipes (BridgedSessions), a session over QUIC (IrohSessions), and the    *)
(* choice of a relay (RelayFailover).  They share no state: a behaviour is *)
(* of one of them, the one that `subject` names, and the other two stay in *)
(* their initial state.                                                    *)
(***************************************************************************)
EXTENDS BridgedSessions

CONSTANTS
  Own, Builds, LegacyCount, MaxQuicFrames,           \* of IrohSessions
  Calls, Relays, maxRetriesPerRelay, MaxRouteResets  \* of RelayFailover

VARIABLES
  build, up, control, at, opened, adopted, pending, state, streams, readers,
  listens, told, wire, quicSent, quicHeard, quicUnheard,
  call, direct, made, refusals, outcome, currentRoute, routeResets,
  subject

Iroh == INSTANCE IrohSessions WITH
  MaxFrames <- MaxQuicFrames,
  sent <- quicSent, heard <- quicHeard, unheard <- quicUnheard

Failover == INSTANCE RelayFailover

ASSUME IrohAssumption == Iroh!IrohSessionsAssumption
ASSUME FailoverAssumption == Failover!RelayFailoverAssumption

quic ==
  <<build, up, control, at, opened, adopted, pending, state, streams, readers,
    listens, told, wire, quicSent, quicHeard, quicUnheard>>
ladder == <<call, direct, made, refusals, outcome, currentRoute, routeResets>>
all == <<vars, quic, ladder, subject>>

OverPipes(A) == subject = "pipes" /\ A /\ UNCHANGED <<quic, ladder, subject>>
OverQuic(A)  == subject = "quic" /\ A /\ UNCHANGED <<vars, ladder, subject>>
OnLadder(A)  == subject = "failover" /\ A /\ UNCHANGED <<vars, quic, subject>>

(* The dialer's build is of no interest where there is no session.         *)
TransportsInit ==
  /\ Init /\ Iroh!Init /\ Failover!Init
  /\ subject \in {"pipes", "quic", "failover"}
  /\ subject # "quic" => build = CHOOSE d \in Builds : TRUE
TransportsNext == OverPipes(Next) \/ OverQuic(Iroh!Next) \/ OnLadder(Failover!Next)

TransportsSpec == TransportsInit /\ [][TransportsNext]_all
-----------------------------------------------------------------------------
(* Over either kind of connection frames are heard as they were sent: on   *)
(* the session they were sent on, and in their order.                      *)
FramesAsSent == HeardAsSent /\ Iroh!FramesInOrder

(* Two ends of different builds have the same sub-streams open, in         *)
(* whatever order they were accepted, and neither waits for one that is    *)
(* not to come (IrohSessions: iroh-transport.ts setUpAccepter).            *)
SameStreams == Iroh!SameStreams

(* Whoever has a connection whose last sub-stream has ended has been told  *)
(* (IrohSessions: iroh-connection.ts noticePeerGone).                      *)
GoneIsNoticed == Iroh!GoneIsNoticed

(* No relay is used before all above it have had the attempts they are     *)
(* granted, and establish() fails only after the last (RelayFailover:      *)
(* relay-failover.ts establish).                                           *)
Ladder == Failover!Ladder
=============================================================================
