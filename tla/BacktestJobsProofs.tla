------------------------- MODULE BacktestJobsProofs -------------------------
(***************************************************************************)
(* Proofs about BacktestJobs, for any set of jobs and any bounds.          *)
(*                                                                         *)
(* NoZombies and ShutdownSettles relate the metadata of a job to the place *)
(* of its thread.  Neither is inductive: what a thread will write depends  *)
(* on what the status can be at its place, and whom shutdown can miss on   *)
(* which futures are tracked.  JobInv states both, job by job.             *)
(***************************************************************************)
EXTENDS BacktestJobs, TLAPS

\* The future is in the pool's queue or on one of its threads.
Live(j) == future[j] \in {"pending"} \cup InThread

\* The thread can still be about to execute; it executes or has executed.
StatusAtPlace(j) ==
  /\ meta[j] = "absent" => future[j] = "none"
  /\ future[j] \in {"pending", "start"} => meta[j] # "running"
  /\ future[j] = "refused" => meta[j] \notin {"queued", "running"}
  /\ future[j] \in {"executing", "stopped", "raised", "computed"} =>
       meta[j] # "queued"
  /\ future[j] \in {"over", "done", "cancelled"} => meta[j] \notin Active
  /\ reconciler = "done" /\ future[j] = "none" => meta[j] \notin Active

\* Shutdown loses no future on its way.
ShutdownSees(j) ==
  /\ proc \in {"up", "waiting", "marking", "clearing"} =>
       (Live(j) <=> j \in tracked)
  /\ proc \in {"waiting", "marking"} /\ Live(j) => j \in active
  /\ proc = "marking" /\ Live(j) => j \in unfinished
  /\ proc \in {"clearing", "closed"} /\ future[j] # "none" => meta[j] \notin Active
  /\ proc = "down" =>
       future[j] = "none" /\ j \notin tracked /\ reconciler = "pending"

\* The inductive invariant.
JobInv == /\ TypeOK
          /\ \A j \in Jobs : StatusAtPlace(j)
          /\ \A j \in Jobs : ShutdownSees(j)

\* The invariant contains the properties the runs check.
LEMMA JobInvImplies == JobInv => NoZombies /\ ShutdownSettles
<1> SUFFICES ASSUME JobInv PROVE NoZombies /\ ShutdownSettles
  OBVIOUS
<1>1. NoZombies
  BY DEF JobInv, TypeOK, StatusAtPlace, NoZombies, Future, InThread
<1>2. ShutdownSettles
  BY DEF JobInv, ShutdownSees, ShutdownSettles
<1> QED BY <1>1, <1>2

\* No job exists at first.
LEMMA JobInvInit == Init => JobInv
BY JobBoundsAssumption DEF Init, JobInv, TypeOK, StatusAtPlace, ShutdownSees,
   Live, InThread, Future, Proc, Active, Terminal

\* Every action keeps the types.
LEMMA TypeNext == TypeOK /\ [Next]_vars => TypeOK'
<1> SUFFICES ASSUME TypeOK, [Next]_vars PROVE TypeOK'
  OBVIOUS
<1> USE DEF TypeOK, jobVars, procVars, Active, Terminal, Future, InThread, Proc
<1>1. ASSUME NEW j \in Jobs, submit(j) PROVE TypeOK'
  BY <1>1 DEF submit
<1>2. ASSUME NEW j \in Jobs, cancel(j) PROVE TypeOK'
  BY <1>2 DEF cancel
<1>3. ASSUME NEW j \in Jobs, RunJob(j) PROVE TypeOK'
  <2>1. CASE _forget_future(j)
    BY <2>1 DEF _forget_future
  <2>2. ASSUME NEW p \in Future, NEW s \in Active \cup Terminal \cup {"absent"},
               Thread(j, p, s)
        PROVE  TypeOK'
    BY <2>2 DEF Thread
  <2>3. meta[j] \in Active \cup Terminal \cup {"absent"}
    OBVIOUS
  <2> QED BY <1>3, <2>1, <2>2, <2>3
        DEF RunJob, PickUp, _start_job, _cancel_if_requested_before_start,
            execute_backtest_run, _finish_cancelled, _finish_failed,
            _finish_completed
<1>4. CASE Lifespan
  <2>1. CASE reconcile_orphaned_jobs
    BY <2>1 DEF reconcile_orphaned_jobs, Recover
  <2>2. CASE ReconcileFails
    BY <2>2, JobBoundsAssumption DEF ReconcileFails, Recover
  <2>3. CASE shutdown
    BY <2>3 DEF shutdown
  <2>4. CASE ShutdownWaited
    BY <2>4 DEF ShutdownWaited
  <2>5. CASE _mark_shutdown_timeout
    BY <2>5 DEF _mark_shutdown_timeout
  <2>6. CASE ShutdownClears
    BY <2>6 DEF ShutdownClears
  <2> QED BY <1>4, <2>1, <2>2, <2>3, <2>4, <2>5, <2>6 DEF Lifespan
<1>5. CASE ProcessEnds
  BY <1>5 DEF ProcessEnds
<1>6. CASE ProcessStarts
  BY <1>6, JobBoundsAssumption DEF ProcessStarts
<1>7. CASE UNCHANGED vars
  BY <1>7 DEF vars
<1> QED BY <1>1, <1>2, <1>3, <1>4, <1>5, <1>6, <1>7 DEF Next

\* A step of a job's thread moves that job alone, to a status and place that
\* match.
LEMMA ThreadKeeps ==
  ASSUME JobInv, NEW j \in Jobs, RunJob(j)
  PROVE  \A k \in Jobs : StatusAtPlace(k)' /\ ShutdownSees(k)'
<1>1. TypeOK /\ StatusAtPlace(j) /\ ShutdownSees(j)
  BY DEF JobInv
<1>2. ASSUME NEW k \in Jobs, k # j,
             meta'[k] = meta[k], future'[k] = future[k],
             k \in tracked' <=> k \in tracked, UNCHANGED procVars
      PROVE  StatusAtPlace(k)' /\ ShutdownSees(k)'
  BY <1>2 DEF JobInv, StatusAtPlace, ShutdownSees, Live, procVars
<1>3. CASE _forget_future(j)
  <2>1. StatusAtPlace(j)' /\ ShutdownSees(j)'
    BY <1>1, <1>3 DEF _forget_future, TypeOK, StatusAtPlace, ShutdownSees, Live,
       InThread, procVars
  <2> QED BY <1>1, <1>2, <1>3, <2>1 DEF _forget_future, TypeOK
<1>4. ASSUME NEW p, NEW s, Thread(j, p, s),
             p \in InThread, Live(j),
             s = meta[j] \/ (meta[j] \in Active /\ s \in Active \cup Terminal
                             /\ (proc \in {"clearing", "closed"} => s \notin Active)),
             p = "start" => s # "running",
             p = "refused" => s \notin {"queued", "running"},
             p \in {"executing", "stopped", "raised", "computed"} => s # "queued",
             p = "over" => s \notin Active
      PROVE  \A k \in Jobs : StatusAtPlace(k)' /\ ShutdownSees(k)'
  <2>1. /\ meta'[j] = s /\ future'[j] = p /\ tracked' = tracked
        /\ UNCHANGED procVars
    BY <1>1, <1>4 DEF Thread, TypeOK
  <2>2. StatusAtPlace(j)'
    BY <1>1, <1>4, <2>1 DEF StatusAtPlace, procVars, Live, InThread, Active, Terminal
  <2>3. ShutdownSees(j)'
    BY <1>1, <1>4, <2>1 DEF ShutdownSees, procVars, Live, InThread, Active
  <2> QED BY <1>1, <1>2, <1>4, <2>1, <2>2, <2>3 DEF Thread, TypeOK
<1>5. meta[j] \in Active \cup Terminal \cup {"absent"}
  BY <1>1 DEF TypeOK
<1>6. proc \in {"clearing", "closed"} /\ Live(j) => meta[j] \notin Active
  BY <1>1 DEF ShutdownSees, Live, InThread
<1>7. CASE PickUp(j)
  BY <1>1, <1>4, <1>7 DEF PickUp, StatusAtPlace, Live, InThread
<1>8. CASE _start_job(j)
  BY <1>1, <1>4, <1>6, <1>8
     DEF _start_job, StatusAtPlace, Live, InThread, Active, Terminal
<1>9. CASE _cancel_if_requested_before_start(j)
  BY <1>1, <1>4, <1>5, <1>9
     DEF _cancel_if_requested_before_start, StatusAtPlace, Live, InThread, Active,
         Terminal
<1>10. CASE execute_backtest_run(j)
  BY <1>1, <1>4, <1>10 DEF execute_backtest_run, StatusAtPlace, Live, InThread
<1>11. CASE _finish_cancelled(j)
  BY <1>1, <1>4, <1>5, <1>11
     DEF _finish_cancelled, StatusAtPlace, Live, InThread, Active, Terminal
<1>12. CASE _finish_failed(j)
  BY <1>1, <1>4, <1>5, <1>12
     DEF _finish_failed, StatusAtPlace, Live, InThread, Active, Terminal
<1>13. CASE _finish_completed(j)
  BY <1>1, <1>4, <1>5, <1>13
     DEF _finish_completed, StatusAtPlace, Live, InThread, Active, Terminal
<1> QED BY <1>3, <1>7, <1>8, <1>9, <1>10, <1>11, <1>12, <1>13 DEF RunJob

\* So do the handlers, the lifespan and the process.
LEMMA OthersKeep ==
  ASSUME JobInv,
         \/ \E j \in Jobs : submit(j) \/ cancel(j)
         \/ Lifespan \/ ProcessEnds \/ ProcessStarts \/ UNCHANGED vars,
         NEW k \in Jobs
  PROVE  StatusAtPlace(k)' /\ ShutdownSees(k)'
<1>1. TypeOK /\ StatusAtPlace(k) /\ ShutdownSees(k)
  BY DEF JobInv
<1> USE DEF StatusAtPlace, ShutdownSees, Live, InThread, Active, procVars
<1>2. ASSUME NEW j \in Jobs, submit(j) PROVE StatusAtPlace(k)' /\ ShutdownSees(k)'
  BY <1>1, <1>2 DEF submit, TypeOK, Alive, Closed, Proc
<1>3. ASSUME NEW j \in Jobs, cancel(j) PROVE StatusAtPlace(k)' /\ ShutdownSees(k)'
  BY <1>1, <1>3 DEF cancel, TypeOK, Alive, Cancellable, Proc
<1>4. CASE reconcile_orphaned_jobs
  BY <1>1, <1>4 DEF reconcile_orphaned_jobs, Recover, Alive
<1>5. CASE ReconcileFails
  BY <1>1, <1>5 DEF ReconcileFails, Recover, Alive
<1>6. CASE shutdown
  BY <1>1, <1>6 DEF shutdown, Cancellable
<1>7. CASE ShutdownWaited
  BY <1>1, <1>7 DEF ShutdownWaited, jobVars
<1>8. CASE _mark_shutdown_timeout
  BY <1>1, <1>8 DEF _mark_shutdown_timeout, TypeOK, Future
<1>9. CASE ShutdownClears
  BY <1>1, <1>9 DEF ShutdownClears
<1>10. CASE ProcessEnds
  BY <1>1, <1>10 DEF ProcessEnds
<1>11. CASE ProcessStarts
  BY <1>1, <1>11 DEF ProcessStarts, jobVars, TypeOK
<1>12. CASE UNCHANGED vars
  BY <1>1, <1>12 DEF vars, jobVars
<1> QED BY <1>2, <1>3, <1>4, <1>5, <1>6, <1>7, <1>8, <1>9, <1>10, <1>11, <1>12
      DEF Lifespan

\* The invariant is inductive.
LEMMA JobInvNext == JobInv /\ [Next]_vars => JobInv'
<1> SUFFICES ASSUME JobInv, [Next]_vars PROVE JobInv'
  OBVIOUS
<1>1. TypeOK'
  BY TypeNext DEF JobInv
<1>2. \A k \in Jobs : StatusAtPlace(k)' /\ ShutdownSees(k)'
  BY ThreadKeeps, OthersKeep DEF Next
<1> QED BY <1>1, <1>2 DEF JobInv

\* The invariant holds in every reachable state of the job runner.
THEOREM JobInvariant == Spec => []JobInv
BY JobInvInit, JobInvNext, PTL DEF Spec

\* No writer of a job's metadata.json leaves its types.
THEOREM JobsTyped == Spec => []TypeOK
<1>1. JobInv => TypeOK
  BY DEF JobInv
<1> QED BY <1>1, JobInvariant, PTL

\* After a successful start-up reconciliation every job that is active in its
\* metadata has a future in the pool that will settle it.
THEOREM ThereAreNoZombies == Spec => []NoZombies
BY JobInvImplies, JobInvariant, PTL

\* BacktestJobRunner.shutdown returns with none of its jobs active, however its
\* timeout and the pool's threads interleave.
THEOREM ShutdownSettlesJobs == Spec => []ShutdownSettles
BY JobInvImplies, JobInvariant, PTL

\* A step never writes over a terminal status, nor completes a cancellation.
LEMMA FinalStep == TypeOK /\ [Next]_vars => [StatusIsFinal]_vars
<1> SUFFICES ASSUME TypeOK, [Next]_vars, NEW k \in Jobs
             PROVE  /\ meta[k] \in Terminal => meta'[k] = meta[k]
                    /\ meta[k] = "cancelling" =>
                         meta'[k] \in {"cancelling", "cancelled", "failed"}
  BY DEF StatusIsFinal
<1> USE DEF TypeOK, Active, Terminal
<1>1. ASSUME NEW j \in Jobs, submit(j) \/ cancel(j)
      PROVE  meta'[k] = meta[k] \/ meta[k] \in {"absent", "queued", "running"}
  BY <1>1 DEF submit, cancel
<1>2. ASSUME NEW j \in Jobs, RunJob(j)
      PROVE  /\ meta[k] \in Terminal => meta'[k] = meta[k]
             /\ meta[k] = "cancelling" =>
                  meta'[k] \in {"cancelling", "cancelled", "failed"}
  BY <1>2 DEF RunJob, PickUp, _start_job, _cancel_if_requested_before_start,
     execute_backtest_run, _finish_cancelled, _finish_failed, _finish_completed,
     _forget_future, Thread
<1>3. CASE Lifespan
  BY <1>3 DEF Lifespan, reconcile_orphaned_jobs, ReconcileFails, Recover,
     shutdown, ShutdownWaited, _mark_shutdown_timeout, ShutdownClears, jobVars
<1>4. CASE ProcessEnds \/ ProcessStarts \/ UNCHANGED vars
  BY <1>4 DEF ProcessEnds, ProcessStarts, vars, jobVars
<1> QED BY <1>1, <1>2, <1>3, <1>4 DEF Next

\* Whichever of the request handler, the pool thread, the reconciliation and
\* the shutdown timeout of backtest_jobs.py writes last, a terminal status
\* stands and a cancellation never completes.
THEOREM LateWritersLose == Spec => LateWritesLose
BY JobsTyped, FinalStep, PTL DEF Spec, LateWritesLose

=============================================================================
