----------------------------- MODULE Reactions ------------------------------
(***************************************************************************)
(* Reactions to the messages of one conversation: what ChatService writes  *)
(* of them to the channel document, how documents merge, and what it tells *)
(* the application (HLessEnd/src/chat-service.ts, core's                   *)
(* document-manager.ts), with processes that stop and start again.         *)
(*                                                                         *)
(* A document is the set of the writes it has.  What one synchronisation   *)
(* exchanges is the concern of another module; here a replica hands        *)
(* another its whole document in one step.  The conversation and its       *)
(* messages are on disk already.  Who uses one identity on two devices at  *)
(* once is left out.                                                       *)
(***************************************************************************)
EXTENDS Naturals, FiniteSets, FiniteSetsExt

CONSTANTS
  Nodes,
  Messages,
  Emojis,      \* what one can react with, the empty string aside
  MaxWrites,   \* bound on the reactions made
  MaxSaves,    \* bound on the checkpoints
  MaxCrashes   \* bound on the processes that stop

ReactionsAssumption ==
  /\ IsFiniteSet(Nodes)
  /\ "" \notin Emojis /\ "none" \notin Emojis
  /\ {MaxWrites, MaxSaves, MaxCrashes} \subseteq Nat

VARIABLES
  doc,      \* node -> writes its document has
  stored,   \* node -> the writes of the snapshot on disk
  actor,    \* node -> rank of its document's actor id, another in every process
  at,       \* node -> "starting" until init() resolves, then "ready"
  sighted,  \* node -> whether reactionState has the channel
  seen,     \* node -> reactionState: slot -> what was last seen in it
  view,     \* node -> slot -> what the application shows: read once, then told
  chosen,   \* history: node -> message -> what its user chose last
  held,     \* history: node -> what its document had when init() resolved
  replayed, \* history: node -> slots told again though it had them then
  hasty,    \* history: nodes that merged before they had restored
  crashed,  \* history: nodes that ever lost what was not stored
  spent,    \* ranks that processes have had
  writes, saves

told == <<sighted, seen, view, replayed>>
past == <<chosen, held, hasty, crashed>>
vars == <<doc, stored, actor, spent, at, told, past, writes, saves>>

(* Faulty variant: one slot per message.                                   *)
reactionKeyOfMessage(m, n) == <<m>>

reactionKey(m, n) == <<m, n>>

Slots  == {reactionKey(m, n) : m \in Messages, n \in Nodes}
Ranks  == 1 .. Cardinality(Nodes) + MaxCrashes
Unseen == [s \in Slots |-> "none"]

(* The write that Automerge has win in a slot.                             *)
Above(w, v) == w.ctr > v.ctr \/ (w.ctr = v.ctr /\ w.actor > v.actor)
Winner(d, s) == {w \in d : w.slot = s /\ \A v \in d : v.slot = s => v = w \/ Above(w, v)}

(* listReactions(): what every slot has, withdrawals included.             *)
listReactions(d) ==
  [s \in Slots |-> IF Winner(d, s) = {} THEN "none" ELSE (CHOOSE w \in Winner(d, s) : TRUE).emoji]

Init ==
  /\ doc = [n \in Nodes |-> {}] /\ stored = [n \in Nodes |-> {}]
  /\ actor \in {f \in [Nodes -> Ranks] : \A n, m \in Nodes : f[n] = f[m] => n = m}
  /\ spent = {actor[n] : n \in Nodes}
  /\ at = [n \in Nodes |-> "ready"]
  /\ sighted = [n \in Nodes |-> FALSE] /\ seen = [n \in Nodes |-> Unseen]
  /\ view = [n \in Nodes |-> Unseen] /\ replayed = [n \in Nodes |-> {}]
  /\ chosen = [n \in Nodes |-> [m \in Messages |-> "none"]]
  /\ held = [n \in Nodes |-> Unseen] /\ hasty = {} /\ crashed = {}
  /\ writes = 0 /\ saves = 0
-----------------------------------------------------------------------------
(* Faulty variant: at first sight everything is told.                      *)
newsAtOnce(n, now) == {s \in Slots : now[s] \notin {"none", seen[n][s]}}

(* What there is to tell: nothing at first sight.                          *)
news(n, now) == {s \in Slots : sighted[n] /\ now[s] \notin {"none", seen[n][s]}}

(* emitSyncedReactions(): the application hears nothing before init() has  *)
(* resolved.                                                               *)
emitSyncedReactions(n, d) ==
  LET now == listReactions(d) IN
  /\ sighted' = [sighted EXCEPT ![n] = TRUE]
  /\ seen' = [seen EXCEPT ![n] = [s \in Slots |-> IF now[s] = "none" THEN @[s] ELSE now[s]]]
  /\ IF at[n] = "ready"
     THEN /\ view' = [view EXCEPT ![n] = [s \in Slots |->
                        IF s \in news(n, now) THEN now[s] ELSE @[s]]]
          /\ replayed' = [replayed EXCEPT ![n] = @ \cup
                            {s \in news(n, now) : now[s] = held[n][s] /\ seen[n][s] = "none"}]
     ELSE UNCHANGED <<view, replayed>>

(* A write is numbered above all that the document has.                    *)
setReaction(n, m, emoji) ==
  doc[n] \cup {[slot |-> reactionKey(m, n), emoji |-> emoji, actor |-> actor[n],
                ctr |-> 1 + Max({0} \cup {w.ctr : w \in doc[n]})]}

(* writeReaction(): react(), and unreact() which writes the empty string.  *)
WriteReaction(n, m, emoji) ==
  /\ at[n] = "ready" /\ writes < MaxWrites /\ writes' = writes + 1
  /\ chosen' = [chosen EXCEPT ![n][m] = emoji]
  /\ doc' = [doc EXCEPT ![n] = setReaction(n, m, emoji)]
  /\ emitSyncedReactions(n, doc'[n])
  /\ UNCHANGED <<stored, actor, spent, at, held, hasty, crashed, saves>>

(* handleSendDelta(): the document is made if it is not there, the update  *)
(* is told of when something changed.  Peers are let in before the         *)
(* documents are restored.                                                 *)
Merge(n, p) ==
  /\ n # p /\ at[p] = "ready" /\ ~(doc[p] \subseteq doc[n])
  /\ doc' = [doc EXCEPT ![n] = @ \cup doc[p]]
  /\ emitSyncedReactions(n, doc'[n])
  /\ hasty' = IF at[n] = "starting" THEN hasty \cup {n} ELSE hasty
  /\ UNCHANGED <<stored, actor, spent, at, chosen, held, crashed, writes, saves>>

(* checkpoint(): the snapshot, and the write that lands.                   *)
Checkpoint(n) ==
  /\ at[n] = "ready" /\ stored[n] # doc[n]
  /\ saves < MaxSaves /\ saves' = saves + 1
  /\ stored' = [stored EXCEPT ![n] = doc[n]]
  /\ UNCHANGED <<doc, actor, spent, at, told, past, writes>>

(* The process stops, and another one begins.                              *)
Crash(n) ==
  /\ at[n] = "ready" /\ spent # Ranks
  /\ at' = [at EXCEPT ![n] = "starting"]
  /\ crashed' = IF doc[n] = stored[n] THEN crashed ELSE crashed \cup {n}
  /\ doc' = [doc EXCEPT ![n] = {}] /\ hasty' = hasty \ {n}
  /\ sighted' = [sighted EXCEPT ![n] = FALSE] /\ seen' = [seen EXCEPT ![n] = Unseen]
  /\ view' = [view EXCEPT ![n] = Unseen] /\ replayed' = [replayed EXCEPT ![n] = {}]
  /\ UNCHANGED <<stored, actor, spent, chosen, held, writes, saves>>

(* restoreAll(): what is stored takes the place of what is there; then     *)
(* init() resolves, and the application reads what is there.               *)
RestoreAll(n) ==
  /\ at[n] = "starting" /\ at' = [at EXCEPT ![n] = "ready"]
  /\ \E r \in Ranks \ spent : actor' = [actor EXCEPT ![n] = r] /\ spent' = spent \cup {r}
  /\ doc' = [doc EXCEPT ![n] = stored[n]]
  /\ LET now == listReactions(stored[n]) IN
     view' = [view EXCEPT ![n] = now] /\ held' = [held EXCEPT ![n] = now]
  /\ UNCHANGED <<stored, sighted, seen, replayed, chosen, hasty, crashed, writes, saves>>

Next ==
  \E n \in Nodes :
    \/ \E m \in Messages, emoji \in Emojis \cup {""} : WriteReaction(n, m, emoji)
    \/ \E p \in Nodes : Merge(n, p)
    \/ Checkpoint(n) \/ Crash(n) \/ RestoreAll(n)

Spec == Init /\ [][Next]_vars
-----------------------------------------------------------------------------
(* A person has one reaction to a message, and it is the last one chosen,  *)
(* a withdrawal included, wherever that person's writes have arrived in    *)
(* whatever order, and whoever else reacts to the message: as long as no   *)
(* process of theirs lost what was not stored.                             *)
LastWord ==
  \A n \in Nodes \ crashed, p \in Nodes, m \in Messages :
    LET own == reactionKey(m, n) IN
    at[n] = "ready" /\ {w \in doc[n] : w.slot = own} \subseteq doc[p] =>
      listReactions(doc[p])[own] = chosen[n][m]

(* A restart replays no reaction (emitSyncedReactions() at first sight):   *)
(* nothing the application could read when init() resolved is told to it   *)
(* as news.  Unless peers got in before the documents were restored.       *)
NoReplay == \A n \in Nodes \ hasty : replayed[n] = {}

(* The same, whoever got in when.                                          *)
NeverReplayed == \A n \in Nodes : replayed[n] = {}

(* "so a view can be rendered from one path": what the application shows   *)
(* is what the conversation has.                                           *)
ViewFollows == \A n \in Nodes : at[n] = "ready" => view[n] = listReactions(doc[n])

(* The last word, also of who lost what was not stored.                    *)
LastWordAlways ==
  \A n \in Nodes, p \in Nodes, m \in Messages :
    LET own == reactionKey(m, n) IN
    at[n] = "ready" /\ (\A w \in doc[n] : w.slot = own => w \in doc[p])
      /\ (\E w \in doc[n] : w.slot = own /\ w.actor = actor[n]) =>
      listReactions(doc[p])[own] = chosen[n][m]
=============================================================================
