---------------------------- MODULE NodeServices ----------------------------
(***************************************************************************)
(* Three services of the nodes side by side: vouchers (Endorsements), the  *)
(* pool that generates proofs (WorkerPool), and what a process finds of    *)
(* identity, keys and documents (Vault).  They share no state: a behaviour *)
(* is of one of them, the one that `subject` names, and the other two stay *)
(* in their initial state.                                                 *)
(***************************************************************************)
EXTENDS Endorsements

CONSTANTS
  Jobs, Size, Depth, MaxResets,                        \* of WorkerPool
  Seeds, RawKeys, Passphrases,
  MaxStarts, MaxEdits, MaxCalls, MaxRejects            \* of Vault

VARIABLES
  jobs, workers, timers, running, promise, stats, disposed, resets,
  rows, snapshot, phase, box, identityNow, edits, puts, writeQueue, failure,
  generating, used, keysUsed, before, failed, ran, entered, toKeep, kept,
  subject

Pool == INSTANCE WorkerPool

V == INSTANCE Vault WITH
  identity <- identityNow, doc <- edits, queue <- writeQueue, keys <- keysUsed,
  due <- toKeep, saved <- kept

ASSUME PoolAssumption == Pool!WorkerPoolAssumption
ASSUME VaultAssumption == V!VaultAssumption

pool == <<jobs, workers, timers, running, promise, stats, disposed, resets>>
vault ==
  <<rows, snapshot, phase, box, identityNow, edits, puts, writeQueue, failure,
    generating, used, keysUsed, before, failed, ran, entered, toKeep, kept>>
all == <<vars, pool, vault, subject>>

OnVouchers(A) == subject = "vouchers" /\ A /\ UNCHANGED <<pool, vault, subject>>
OnPool(A)     == subject = "pool" /\ A /\ UNCHANGED <<vars, vault, subject>>
OnVault(A)    == subject = "vault" /\ A /\ UNCHANGED <<vars, pool, subject>>

ServicesInit ==
  /\ Init /\ Pool!Init /\ V!Init
  /\ subject \in {"vouchers", "pool", "vault"}
ServicesNext == OnVouchers(Next) \/ OnPool(Pool!Next) \/ OnVault(V!Next)

ServicesSpec == ServicesInit /\ [][ServicesNext]_all

(* The fairness of each of the three.                                      *)
FairServicesSpec ==
  /\ ServicesSpec
  /\ WF_all(OnVouchers(Progress))
  /\ \A j \in Jobs : WF_all(OnPool(Pool!TimesOut(j)))
  /\ WF_all(OnVault(V!Progress))
-----------------------------------------------------------------------------
(* Every pending proof job is queued or has one worker and a timer         *)
(* (WorkerPool: worker-pool.ts pump, run, reset).                          *)
NoJobLost == Pool!NoJobLost

(* Every proof job submitted is settled in the end, whatever hangs         *)
(* (WorkerPool: worker-pool.ts run, replace).                              *)
EverySubmitSettles == Pool!EverySubmitSettles

(* What one key sealed, that key opens in every later process (Vault:      *)
(* secret-box.ts passphraseKey, open).                                     *)
SameKeyOpens == V!SameKeyOpens

(* Without a recovery phrase every process runs under one identity, and a  *)
(* refused start changes none (Vault: identity-service.ts materialise,     *)
(* restore).                                                               *)
OneIdentity == V!OneIdentity

(* What was held at disconnect() is there in every later process (Vault:   *)
(* client.ts disconnect, write-queue.ts flush).                            *)
DisconnectKeeps == V!DisconnectKeeps

(* Starting and disconnecting end, rejected writes or not (Vault: write-   *)
(* queue.ts flush).                                                        *)
Settles == V!Settles
=============================================================================
