-------------------------------- MODULE Node --------------------------------
(***************************************************************************)
(* What a node tells its user: the messages of a conversation (Messaging)  *)
(* and the reactions to them (Reactions).  The two share no state, and     *)
(* take their steps in any order.                                          *)
(***************************************************************************)
EXTENDS Messaging

CONSTANTS Emojis, MaxWrites, MaxSaves, MaxCrashes    \* of Reactions

VARIABLES
  reacted, stored, actor, at, firstSeen, seen, view, chosen, held, replayed, hasty,
  crashed, spent, written, saves

R == INSTANCE Reactions WITH
  Messages <- Msgs, doc <- reacted, sighted <- firstSeen, writes <- written

ASSUME ReactionsAssumption == R!ReactionsAssumption

reactions ==
  <<reacted, stored, actor, at, firstSeen, seen, view, chosen, held, replayed, hasty,
    crashed, spent, written, saves>>
node == <<vars, reactions>>

OnMessages  == Next /\ UNCHANGED reactions
OnReactions == R!Next /\ UNCHANGED vars

NodeInit == Init /\ R!Init
NodeNext == OnMessages \/ OnReactions

NodeSpec == NodeInit /\ [][NodeNext]_node
-----------------------------------------------------------------------------
(* A person's last choice is the one reaction a message has from them,     *)
(* whatever else was merged (Reactions: document-manager.ts setReaction).  *)
LastWord == R!LastWord

(* A restart tells the application no reaction it could already read       *)
(* (Reactions: chat-service.ts emitSyncedReactions).                       *)
NoReplay == R!NoReplay
=============================================================================
