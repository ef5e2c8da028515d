---------------------------- MODULE BacktestJobs ----------------------------
(***************************************************************************)
(* The backtest job runner of the API (api/jobs/backtest_jobs.py) with the *)
(* server lifespan that starts and stops it (api/server.py): request       *)
(* handlers, the threads of the pool, the start-up reconciliation thread   *)
(* and the shutdown sequence, over the metadata.json of each job.          *)
(*                                                                         *)
(* Every block the runner executes under its lock is one action.  The pool *)
(* moves a future from pending to running without that lock, and a thread  *)
(* takes the lock again for each transition it makes.                      *)
(*                                                                         *)
(* Abstractions.  Metadata is its status; requests, results, timestamps    *)
(* and the best-effort PostgreSQL index are left out.  The pool may pick   *)
(* any pending future.  metadata.json is replaced atomically, and only the *)
(* reconciliation pass, whose errors the server swallows, may fail.        *)
(***************************************************************************)
EXTENDS Naturals, FiniteSets

CONSTANTS Jobs,           \* run ids of asynchronous backtests
          MaxWorkers,     \* backtest_jobs.max_workers
          MaxRestarts,    \* bound: starts of the API after the first
          MaxStoreErrors  \* bound: reconciliation passes that fail

ASSUME MaxWorkersAssumption == MaxWorkers \in Nat \ {0}
ASSUME JobBoundsAssumption == {MaxRestarts, MaxStoreErrors} \subseteq Nat

VARIABLES meta,       \* meta[j]: status in metadata.json, durable
          future,     \* future[j]: the future of the job and its thread's place
          tracked,    \* keys of _futures and _cancel_events
          event,      \* event[j]: the cancel event of the job is set
          proc,       \* the API process, see Proc
          active,     \* shutdown's list of futures
          unfinished, \* the ones that outlived shutdown's wait
          reconciler, \* the reconciliation thread of this process
          restarts, storeErrors

procVars == <<proc, active, unfinished, reconciler, restarts, storeErrors>>
jobVars == <<meta, future, tracked, event>>
vars == <<jobVars, procVars>>

Active == {"queued", "running", "cancelling"}
Terminal == {"completed", "failed", "cancelled"}

\* _run_job: about to start, refused the start, in execute_backtest_run, left
\* it by BacktestCancelledError, by another exception or with a payload, over.
InThread == {"start", "refused", "executing", "stopped", "raised", "computed",
             "over"}
Future == {"none", "pending", "cancelled", "done"} \cup InThread

\* Shutdown waits, then marks what did not stop, then forgets its futures.
Proc == {"up", "waiting", "marking", "clearing", "closed", "down"}

Init == /\ meta = [j \in Jobs |-> "absent"]
        /\ future = [j \in Jobs |-> "none"]
        /\ tracked = {}
        /\ event = [j \in Jobs |-> FALSE]
        /\ proc = "up"
        /\ active = {} /\ unfinished = {}
        /\ reconciler = "pending"
        /\ restarts = 0 /\ storeErrors = 0

Alive == proc # "down"
Closed == proc # "up"

-----------------------------------------------------------------------------
(* Request handlers.                                                       *)

submit(j) ==
  /\ Alive /\ ~ Closed
  /\ meta[j] = "absent"
  /\ meta' = [meta EXCEPT ![j] = "queued"]
  /\ future' = [future EXCEPT ![j] = "pending"]
  /\ tracked' = tracked \cup {j}
  /\ UNCHANGED <<event, procVars>>

\* future.cancel() succeeds while the pool has not picked the future up; its
\* done callback then forgets it.
Cancellable(j) == j \in tracked /\ future[j] = "pending"

\* Mutant of cancel: a future that never started is left to a thread to finish.
CancelAwaitsThread(j) ==
  /\ Alive
  /\ meta[j] \in {"queued", "running"}
  /\ meta' = [meta EXCEPT ![j] = "cancelling"]
  /\ future' = IF Cancellable(j) THEN [future EXCEPT ![j] = "cancelled"] ELSE future
  /\ tracked' = IF Cancellable(j) THEN tracked \ {j} ELSE tracked
  /\ event' = [event EXCEPT ![j] = @ \/ j \in tracked]
  /\ UNCHANGED procVars

\* A queued job without a future, left by an earlier process, is just closed.
cancel(j) ==
  /\ Alive
  /\ meta[j] # "absent"
  /\ event' = [event EXCEPT ![j] = @ \/ j \in tracked]
  /\ \/ /\ meta[j] = "queued"
        /\ Cancellable(j)
        /\ meta' = [meta EXCEPT ![j] = "cancelled"]
        /\ future' = [future EXCEPT ![j] = "cancelled"]
        /\ tracked' = tracked \ {j}
     \/ /\ meta[j] = "queued"
        /\ ~ Cancellable(j)
        /\ meta' = [meta EXCEPT ![j] = IF j \in tracked THEN "cancelling"
                                                        ELSE "cancelled"]
        /\ UNCHANGED <<future, tracked>>
     \/ /\ meta[j] = "running"
        /\ meta' = [meta EXCEPT ![j] = "cancelling"]
        /\ UNCHANGED <<future, tracked>>
     \/ /\ meta[j] \notin {"queued", "running"}
        /\ UNCHANGED <<meta, future, tracked>>
  /\ UNCHANGED procVars

-----------------------------------------------------------------------------
(* A pool thread in _run_job.                                              *)

\* The thread goes on to place p and leaves status s in the metadata.
Thread(j, p, s) == /\ future' = [future EXCEPT ![j] = p]
                   /\ meta' = [meta EXCEPT ![j] = s]
                   /\ UNCHANGED <<tracked, event, procVars>>

PickUp(j) == /\ Alive
             /\ future[j] = "pending"
             /\ Cardinality({k \in Jobs : future[k] \in InThread}) < MaxWorkers
             /\ Thread(j, "start", meta[j])

\* Mutant of _start_job: a status nobody else knows.
StartMisnamed(j) == /\ future[j] = "start"
                    /\ Thread(j, "executing", "started")

_start_job(j) ==
  /\ future[j] = "start"
  /\ IF meta[j] = "queued" THEN Thread(j, "executing", "running")
                           ELSE Thread(j, "refused", meta[j])

_cancel_if_requested_before_start(j) ==
  /\ future[j] = "refused"
  /\ Thread(j, "over", IF meta[j] = "cancelling" THEN "cancelled" ELSE meta[j])

\* The pipeline looks at the event between its stages only: a payload or an
\* error may come out although the event is set.
execute_backtest_run(j) ==
  /\ future[j] = "executing"
  /\ \/ event[j] /\ Thread(j, "stopped", meta[j])
     \/ Thread(j, "raised", meta[j])
     \/ Thread(j, "computed", meta[j])

_finish_cancelled(j) ==
  /\ future[j] = "stopped"
  /\ Thread(j, "over", IF meta[j] \in Active THEN "cancelled" ELSE meta[j])

_finish_failed(j) ==
  /\ future[j] = "raised"
  /\ Thread(j, "over", IF meta[j] \in {"running", "cancelling"} THEN "failed"
                                                               ELSE meta[j])

\* Mutant of _finish_completed: the status is not read again.
FinishCompletedBlind(j) == /\ future[j] = "computed"
                           /\ Thread(j, "over", "completed")

_finish_completed(j) ==
  /\ future[j] = "computed"
  /\ Thread(j, "over", CASE meta[j] = "cancelling" -> "cancelled"
                         [] meta[j] = "running" -> "completed"
                         [] OTHER -> meta[j])

\* _run_job returns, and the done callback takes the lock.
_forget_future(j) ==
  /\ future[j] = "over"
  /\ future' = [future EXCEPT ![j] = "done"]
  /\ tracked' = tracked \ {j}
  /\ UNCHANGED <<meta, event, procVars>>

-----------------------------------------------------------------------------
(* The server lifespan.                                                    *)

Recover(S) == meta' = [j \in Jobs |-> IF j \in S /\ meta[j] \in Active
                                        THEN "failed" ELSE meta[j]]

\* Mutant of reconcile_orphaned_jobs: a job in cancellation is left alone.
ReconcileNotCancelling ==
  /\ Alive
  /\ reconciler = "pending"
  /\ Recover({j \in Jobs : meta[j] # "cancelling"})
  /\ reconciler' = "done"
  /\ UNCHANGED <<future, tracked, event, proc, active, unfinished, restarts,
                 storeErrors>>

\* The start-up thread; requests are served before, during and after it.
reconcile_orphaned_jobs ==
  /\ Alive
  /\ reconciler = "pending"
  /\ Recover(Jobs)
  /\ reconciler' = "done"
  /\ UNCHANGED <<future, tracked, event, proc, active, unfinished, restarts,
                 storeErrors>>

\* An error part of the way is logged; the server goes on.
ReconcileFails ==
  /\ Alive
  /\ reconciler = "pending"
  /\ storeErrors < MaxStoreErrors
  /\ \E S \in SUBSET Jobs : Recover(S)
  /\ reconciler' = "failed"
  /\ storeErrors' = storeErrors + 1
  /\ UNCHANGED <<future, tracked, event, proc, active, unfinished, restarts>>

\* shutdown, up to the release of its lock.
shutdown ==
  /\ proc = "up"
  /\ proc' = "waiting"
  /\ active' = tracked
  /\ event' = [j \in Jobs |-> event[j] \/ j \in tracked]
  /\ meta' = [j \in Jobs |->
       IF j \in tracked /\ meta[j] \in Active
         THEN IF meta[j] = "queued" /\ Cancellable(j) THEN "cancelled"
                                                     ELSE "cancelling"
         ELSE meta[j]]
  /\ future' = [j \in Jobs |-> IF meta[j] = "queued" /\ Cancellable(j)
                                 THEN "cancelled" ELSE future[j]]
  /\ tracked' = {j \in tracked : ~ (meta[j] = "queued" /\ Cancellable(j))}
  /\ UNCHANGED <<unfinished, reconciler, restarts, storeErrors>>

\* wait_for_futures returns: everything is over, or the time is up.
ShutdownWaited ==
  /\ proc = "waiting"
  /\ proc' = "marking"
  /\ unfinished' = {j \in active : future[j] \notin {"cancelled", "done"}}
  /\ UNCHANGED <<jobVars, active, reconciler, restarts, storeErrors>>

\* Mutant of _mark_shutdown_timeout: what did not stop is left as it was.
TimeoutUnmarked ==
  /\ proc = "marking"
  /\ proc' = "clearing"
  /\ UNCHANGED <<jobVars, active, unfinished, reconciler, restarts, storeErrors>>

_mark_shutdown_timeout ==
  /\ proc = "marking"
  /\ proc' = "clearing"
  /\ meta' = [j \in Jobs |-> IF j \in unfinished /\ meta[j] \in Active
                               THEN "cancelled" ELSE meta[j]]
  /\ UNCHANGED <<future, tracked, event, active, unfinished, reconciler,
                 restarts, storeErrors>>

\* executor.shutdown cancels what is still pending.
ShutdownClears ==
  /\ proc = "clearing"
  /\ proc' = "closed"
  /\ tracked' = {}
  /\ active' = {} /\ unfinished' = {}
  /\ future' = [j \in Jobs |-> IF future[j] = "pending" THEN "cancelled"
                                                        ELSE future[j]]
  /\ UNCHANGED <<meta, event, reconciler, restarts, storeErrors>>

\* The process ends: after shutdown once its threads are over, or killed at any
\* time.  Nothing but the metadata survives.
ProcessEnds ==
  /\ Alive
  /\ proc' = "down"
  /\ future' = [j \in Jobs |-> "none"]
  /\ event' = [j \in Jobs |-> FALSE]
  /\ tracked' = {} /\ active' = {} /\ unfinished' = {}
  /\ reconciler' = "pending"
  /\ UNCHANGED <<meta, restarts, storeErrors>>

ProcessStarts ==
  /\ proc = "down"
  /\ restarts < MaxRestarts
  /\ proc' = "up"
  /\ restarts' = restarts + 1
  /\ UNCHANGED <<jobVars, active, unfinished, reconciler, storeErrors>>

-----------------------------------------------------------------------------
RunJob(j) ==
  \/ PickUp(j) \/ _start_job(j) \/ _cancel_if_requested_before_start(j)
  \/ execute_backtest_run(j) \/ _finish_cancelled(j) \/ _finish_failed(j)
  \/ _finish_completed(j) \/ _forget_future(j)

Lifespan ==
  \/ reconcile_orphaned_jobs \/ ReconcileFails
  \/ shutdown \/ ShutdownWaited \/ _mark_shutdown_timeout \/ ShutdownClears

Next == \/ \E j \in Jobs : submit(j) \/ cancel(j) \/ RunJob(j)
        \/ Lifespan
        \/ ProcessEnds \/ ProcessStarts

Spec == Init /\ [][Next]_vars

\* Pool threads run and backtests terminate; the reconciliation thread and a
\* shutdown that has begun run to their end.  Nobody has to restart the API.
Fairness == /\ \A j \in Jobs : WF_vars(RunJob(j))
            /\ WF_vars(reconcile_orphaned_jobs)
            /\ WF_vars(ShutdownWaited \/ _mark_shutdown_timeout \/ ShutdownClears)

FairSpec == Spec /\ Fairness

-----------------------------------------------------------------------------
(* Properties.                                                             *)

\* Statuses, futures and the process are in their ranges; in particular no
\* writer of metadata.json invents a status.
TypeOK ==
  /\ meta \in [Jobs -> Active \cup Terminal \cup {"absent"}]
  /\ future \in [Jobs -> Future]
  /\ tracked \subseteq Jobs
  /\ event \in [Jobs -> BOOLEAN]
  /\ proc \in Proc
  /\ active \subseteq Jobs /\ unfinished \subseteq Jobs
  /\ reconciler \in {"pending", "done", "failed"}
  /\ restarts \in 0..MaxRestarts
  /\ storeErrors \in 0..MaxStoreErrors

\* A status once terminal is never written over, whichever of the handler, the
\* pool thread, the reconciliation and the shutdown timeout gets there last;
\* and a cancellation the client was told of never ends as a completed job.
StatusIsFinal ==
  \A j \in Jobs :
    /\ meta[j] \in Terminal => meta'[j] = meta[j]
    /\ meta[j] = "cancelling" => meta'[j] \in {"cancelling", "cancelled", "failed"}

LateWritesLose == [][StatusIsFinal]_vars

\* Once start-up reconciliation has succeeded, a job that metadata.json calls
\* active has a future that will settle it: there are no zombies to poll.
NoZombies ==
  Alive /\ reconciler = "done" =>
    \A j \in Jobs : meta[j] \in Active =>
      future[j] \in {"pending", "start", "refused", "executing", "stopped",
                     "raised", "computed"}

\* When shutdown has returned, none of this process's jobs is still active in
\* the metadata, although their threads may be running.
ShutdownSettles ==
  proc = "closed" => \A j \in Jobs : future[j] # "none" => meta[j] \notin Active

\* An active job reaches a terminal status unless the API goes down first or
\* its start-up reconciliation fails; a leftover of a failed pass is settled by
\* the next start that reconciles.
JobsEnd ==
  \A j \in Jobs :
    meta[j] \in Active ~>
      (meta[j] \in Terminal \/ proc = "down" \/ reconciler = "failed")
=============================================================================
