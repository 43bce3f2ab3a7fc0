--------------------------- MODULE ChannelTraffic ---------------------------
(***************************************************************************)
(* What nodes send each other for a channel beside its sealed messages:    *)
(* the evidence against who abuses its anonymity (Slashing), and the       *)
(* changes of its document (DocSync).  The two share no state: a behaviour *)
(* is of one of them, the one that `subject` names, and the other stays in *)
(* its initial state.  Subjects are those that are looked at.              *)
(***************************************************************************)
EXTENDS Slashing

CONSTANTS
  Replicas, MaxChanges, MaxConnects, MaxSyncMoves, \* of DocSync
  Subjects

VARIABLES
  deps, docs, queue, saved, sync, wires, late, up, started, lost, untold,
  connects, syncMoves,
  subject

D == INSTANCE DocSync WITH
  Nodes <- Replicas, MaxMoves <- MaxSyncMoves,
  doc <- docs, wire <- wires, moves <- syncMoves

ASSUME ReplicasAssumption == D!DocSyncAssumption
ASSUME SubjectsAssumption == Subjects \subseteq {"slashing", "documents"}

documents ==
  <<deps, docs, queue, saved, sync, wires, late, up, started, lost, untold,
    connects, syncMoves>>
all == <<vars, documents, subject>>

OnSlashing(A)  == subject = "slashing" /\ A /\ UNCHANGED <<documents, subject>>
OnDocuments(A) == subject = "documents" /\ A /\ UNCHANGED <<vars, subject>>

TrafficInit == Init /\ D!Init /\ subject \in Subjects
TrafficNext == OnSlashing(Next) \/ OnDocuments(D!Next)
TrafficSpec == TrafficInit /\ [][TrafficNext]_all

(* The fairness of each of the two.                                        *)
FairTrafficSpec ==
  TrafficSpec /\ WF_all(OnSlashing(Store)) /\ WF_all(OnDocuments(D!Hear))
-----------------------------------------------------------------------------
(* Two nodes that have a channel, with nothing under way between them and  *)
(* nothing lost, hold the same document (DocSync: sync-engine.ts           *)
(* handleRootSync(), handleSendDelta()).                                   *)
Converged == D!Converged

(* The two stop talking once nobody writes (DocSync: sync-engine.ts        *)
(* handleRootMatch(), generateFor()).                                      *)
ConversationEnds == D!ConversationEnds
=============================================================================
