----------------------------- MODULE WorkerPool -----------------------------
(***************************************************************************)
(* The pool that runs proof jobs (core/src/zk/worker-pool.ts): submit(),   *)
(* the timer of each run, the return of an executor, replacement of a      *)
(* worker, reset() and dispose().                                          *)
(*                                                                         *)
(* An executor is whatever the caller gave: it returns, fails or hangs.    *)
(* What it computes is left out.                                           *)
(***************************************************************************)
EXTENDS Naturals, Sequences, FiniteSets

CONSTANTS
  Jobs,       \* what is submitted, each once
  Size,       \* options.size
  Depth,      \* options.maxQueueDepth
  MaxResets   \* bound on the calls of reset()

WorkerPoolAssumption ==
  Size \in Nat \ {0} /\ Depth \in Nat \ {0} /\ MaxResets \in Nat /\ "idle" \notin Jobs

VARIABLES
  jobs,      \* the queue
  workers,   \* place -> its currentJob, or "idle"
  timers,    \* jobs whose timer is armed
  running,   \* jobs whose executor has not returned
  promise,   \* job -> "none", "pending", "resolved" or "rejected"
  stats,     \* completed, failed, timedOut, restarts
  disposed, resets

vars == <<jobs, workers, timers, running, promise, stats, disposed, resets>>

Init ==
  /\ jobs = <<>> /\ workers = [i \in 1 .. Size |-> "idle"]
  /\ timers = {} /\ running = {} /\ promise = [j \in Jobs |-> "none"]
  /\ stats = [completed |-> 0, failed |-> 0, timedOut |-> 0, restarts |-> 0]
  /\ disposed = FALSE /\ resets = 0
-----------------------------------------------------------------------------
Busy(ws) == {ws[i] : i \in DOMAIN ws} \ {"idle"}

(* pump(): idle workers, in their order, take what is queued; run() arms   *)
(* a timer for each.                                                       *)
pump(q, ws, left, armed) ==
  LET before(i) == Cardinality({k \in 1 .. i : ws[k] = "idle"})
      takes(i)  == ws[i] = "idle" /\ before(i) <= Len(q)
      taken     == {q[before(i)] : i \in {k \in DOMAIN ws : takes(k)}}
  IN  /\ workers' = [i \in DOMAIN ws |-> IF takes(i) THEN q[before(i)] ELSE ws[i]]
      /\ jobs' = SubSeq(q, Cardinality(taken) + 1, Len(q))
      /\ running' = left \cup taken /\ timers' = armed \cup taken

(* Settling a promise a second time does nothing.                          *)
settle(done, how) ==
  promise' = [j \in Jobs |-> IF j \in done /\ promise[j] = "pending" THEN how ELSE promise[j]]

without(j) == [i \in DOMAIN workers |-> IF workers[i] = j THEN "idle" ELSE workers[i]]

(* submit(): refused when disposed, or when the queue is at its limit.     *)
Submit(j) ==
  /\ promise[j] = "none"
  /\ IF disposed \/ Len(jobs) >= Depth
     THEN /\ promise' = [promise EXCEPT ![j] = "rejected"]
          /\ UNCHANGED <<jobs, workers, timers, running>>
     ELSE /\ promise' = [promise EXCEPT ![j] = "pending"]
          /\ pump(Append(jobs, j), workers, running, timers)
  /\ UNCHANGED <<stats, disposed, resets>>

(* The executor resolves in time: its worker is free again.                *)
Completes(j) ==
  /\ j \in Busy(workers)
  /\ settle({j}, "resolved")
  /\ stats' = [stats EXCEPT !.completed = @ + 1]
  /\ pump(jobs, without(j), running \ {j}, timers \ {j})
  /\ UNCHANGED <<disposed, resets>>

(* Faulty variant: the new worker waits for the next submit().             *)
replaceIdle(counter, j, left, armed) ==
  /\ stats' = [stats EXCEPT ![counter] = @ + 1]
  /\ workers' = without(j) /\ jobs' = jobs /\ running' = left /\ timers' = armed

(* replace(): a new worker, where the old one still has its place.         *)
replace(counter, j, left, armed) ==
  IF j \in Busy(workers)
  THEN /\ stats' = [stats EXCEPT ![counter] = @ + 1, !.restarts = @ + 1]
       /\ pump(jobs, without(j), left, armed)
  ELSE /\ stats' = [stats EXCEPT ![counter] = @ + 1]
       /\ running' = left /\ timers' = armed /\ UNCHANGED <<workers, jobs>>

(* The executor rejects in time.                                           *)
Fails(j) ==
  /\ j \in Busy(workers)
  /\ settle({j}, "rejected")
  /\ replace("failed", j, running \ {j}, timers \ {j})
  /\ UNCHANGED <<disposed, resets>>

(* An executor returns whose worker was given up: nobody looks.            *)
ReturnsLate(j) ==
  /\ j \in running \ Busy(workers) /\ running' = running \ {j}
  /\ UNCHANGED <<jobs, workers, timers, promise, stats, disposed, resets>>

(* The timer fires.  reset() and dispose() have cleared none.              *)
TimesOut(j) ==
  /\ j \in timers
  /\ settle({j}, "rejected")
  /\ replace("timedOut", j, running, timers \ {j})
  /\ UNCHANGED <<disposed, resets>>

(* Faulty variant: only what waits in the queue is rejected.               *)
abandonedQueue == {jobs[k] : k \in DOMAIN jobs}

(* The queue and abortWorkers(): all that waits or runs is rejected.       *)
abandoned == Busy(workers) \cup {jobs[k] : k \in DOMAIN jobs}
abandon ==
  /\ settle(abandoned, "rejected") /\ jobs' = <<>>
  /\ stats' = [stats EXCEPT !.failed = @ + Cardinality(Busy(workers))]
  /\ UNCHANGED <<timers, running>>

Reset ==
  /\ resets < MaxResets /\ resets' = resets + 1
  /\ abandon
  /\ workers' = [i \in 1 .. (IF workers = <<>> THEN 2 ELSE Cardinality(DOMAIN workers)) |-> "idle"]
  /\ UNCHANGED disposed

Dispose == ~disposed /\ disposed' = TRUE /\ abandon /\ workers' = <<>> /\ UNCHANGED resets

Next ==
  \/ \E j \in Jobs : Submit(j) \/ Completes(j) \/ Fails(j) \/ ReturnsLate(j) \/ TimesOut(j)
  \/ Reset \/ Dispose

Spec == Init /\ [][Next]_vars

(* A timer that is armed fires; no executor need ever return.              *)
FairSpec == Spec /\ \A j \in Jobs : WF_vars(TimesOut(j))
-----------------------------------------------------------------------------
(* Whoever awaits a proof is being served ("or an in-flight promise would  *)
(* never settle"): a pending job is queued or has one worker and a timer,  *)
(* in either case once, and nothing waits while a worker is idle.          *)
NoJobLost ==
  /\ \A j \in Jobs : promise[j] = "pending" =>
       Cardinality({k \in DOMAIN jobs : jobs[k] = j})
         + Cardinality({i \in DOMAIN workers : workers[i] = j}) = 1
  /\ \A j \in Busy(workers) : promise[j] = "pending" /\ j \in timers
  /\ jobs # <<>> => \A i \in DOMAIN workers : workers[i] # "idle"

(* "A hung prover must never wedge the whole app": every job submitted is  *)
(* settled, with executors that never return and a pool reset or disposed  *)
(* at any time.                                                            *)
EverySubmitSettles == \A j \in Jobs : [](promise[j] = "pending" => <>(promise[j] # "pending"))

(* Every settled job is in one counter: completed, failed or timedOut.     *)
CountedOnce ==
  stats.completed + stats.failed + stats.timedOut <= Cardinality({j \in Jobs : promise[j] # "none"})

(* "the worker is terminated and replaced": no more executors at work than *)
(* the pool has places.                                                    *)
ExecutorsBounded == Cardinality(running) <= Size
=============================================================================
