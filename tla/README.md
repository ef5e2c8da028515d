# Formal models of the quant platform

TLA+ modules, TLC configurations and TLAPS proofs for the parts of the platform
that keep shared, durable state under concurrency and failure: the Hermes
command ledger and the connector that drives it, the sessions and admissions
around them, the backtest job runner, and the paper account with its strategy
sleeves.
Paths below are relative to the repository root; `quant_system/` stands for
`src/quant_system/`.

## 1. Inventory

### The parts that carry the core logic

| part | state | operations | interacts with |
|---|---|---|---|
| **Command ledger** `hermes/command_ledger.py`, `scripts/sql/005_*.sql`, `023_*.sql` | rows of `hermes_commands` (state, version, lease token and expiry, dispatch mark, retry time, Hermes ids), unconsumed rows of `hermes_outbox` | create, cancel, claim, heartbeat, dispatch started / delivered / timeout / unavailable / rejected, reconciliation turn, reconcile as delivered, succeeded / failed / cancelled, recovery of lapsed leases | BFF (create, cancel), connector workers (the rest). One PostgreSQL transaction per call; calls are fenced by version and lease token |
| **Connector worker** `hermes/connector_worker.py`, `dispatch_adapter.py` | a process's loop, its dispatch result, a heartbeat thread per call | `run_once`: recover leases, reconcile active commands, claim and dispatch one | ledger, port, release gate |
| **Native run port** `hermes/native_run_port.py`, `run_lifecycle_port.py` | SQLite journal of receipts (request key, session, first_sent, run, terminal) | reserve, POST or replay, accepted / rejected, observe, terminal | Hermes over HTTP |
| **Hermes** (external) | Runs and their status, Idempotency-Keys with a retention | POST /v1/runs, GET a Run | |
| **Backtest jobs** `api/jobs/backtest_jobs.py`, `api/server.py` | `metadata.json` per job, futures, cancel events, closed flag | submit, cancel, the thread's transitions, start-up reconciliation, shutdown | request handlers, pool threads, lifespan |
| **Connector runtime** `hermes/connector_cli.py`, `connector_liveness.py` | a session lock held by one connection, rows of generations | build, acquire, heartbeat, stop, gate | keeps one worker active at a time; the API asks whether one is |
| **Managed sessions** `hermes/submission_saga.py`, `session_registry.py`, `managed_session_provisioner.py` | session rows with provisioning state, version, lease, attempts | create, fork; claim, ensure or fork at Hermes, mark ready, record failure | web client, connector cycle, Hermes |
| **Candidate and release authorities** `hermes/candidate_admission_authority.py`, `release_authority.py`, `effective_release_gate.py`, `composer_readiness.py`, `scripts/sql/016,020,028` | admissions, evidence sets, stamps, cutovers, the paper-authority epoch | open, accept, revoke; stamp, cut over, close both; epoch bump by every paper write; triggers that bind sessions and turns | operator, API, connector gate, paper account |
| **Run control** `hermes/run_stop_port.py`, `approval_release_port.py`, `run_control_outcome_authority.py` | stop and approval requests with outcomes | request, deliver, record outcome | Runs in Hermes |
| **Paper account** `execution/account.py`, `account_service.py`, `paper_broker.py`, `api/routes/paper.py` | cash, manual and allocated cash, shares by owner, waiting orders, kill switch | order, cancel, check waiting orders, rebalance, freeze, reset | API, pending-order thread, sleeves |
| **Strategy sleeves** `execution/paper_strategy_*.py` | sleeve, lots, plans, draft and journal files beside the account | create, plan, prepare, process, recover, pause, resume, stop | API, command line, account |
| **D34 jobs** `d34/`, `hermes/d34_job_authority.py` | job rows, leases, artifacts | claim, heartbeat, finish | runner containers |

The rest (factors, research, options, data providers, news, front end, routes,
operations scripts) is numerical code, I/O, or translation without state of its
own; `PROJECT.json` lists every part with the reason.

### What is hard

* **A POST whose answer is lost.** The worker cannot know whether Hermes
  started a Run. It may never send the command as new, must not call it
  rejected, and must find the Run again by replaying the same key, within the
  retention, and not after it.
* **Stale callers.** A worker stalls, its lease lapses, another recovers the
  command, the first comes back with an old version and token.
* **Two threads of one worker.** The heartbeat thread moves the version the main
  thread needs for recording its result, and may outlive the call.
* **Crashes** between any two of: claim, dispatch mark, receipt, POST, receipt
  update, ledger write; and a journal that cannot be written after the POST.
* **Sessions.** One managed session runs one turn at a time; the journal's
  unsettled receipt is the only lock.
* **Several files, one trade.** A sleeve's fill is written to a journal, the
  sleeve, its lots, the plan and the account, and the process may die between
  any two. Price evidence is collected without locks and used under them. An
  account is reset without a look at its sleeves.
* **One pot of cash.** Manual orders, waiting orders, sleeves and rebalances all
  draw on `account.cash`; reservations are sums over what waits.
* **Check, then insert.** A turn is checked against the admission in one
  transaction and inserted in the next; triggers in the database decide.
* **Evidence ages.** Any paper write invalidates the evidence a candidate was to
  be accepted, stamped or cut over on.
* **Job status** is written by request handler, pool thread, reconciliation and
  shutdown, and read again after each has given the lock up.

### What makes each part correct

* Ledger: rows obey their lifecycle under any callers, wake-ups match the queue,
  nothing is undone, versions cover every change.
* Connector and port: at most one Run per command; the ledger's verdict agrees
  with Hermes; a command called queued or cancelled has nothing at Hermes, one
  called rejected nothing or a receipt that keeps its session; one live Run per
  session; every command settles.
* Jobs: terminal statuses are final, no active job without a thread to finish
  it, shutdown leaves none active, every job ends.
* Paper account: no cash or share is promised twice; what was reserved is there
  when its price comes.
* Sleeves: account, sleeve, lots and plans agree once the journals are settled;
  no plan fills twice or after it was decided; a stop holds; no cash is stranded.
* Admissions: a candidate window and a release exclude each other; no turn from
  outside lives in a window; old evidence opens nothing.
* Managed sessions: ready means made; settled rows stand; every session settles.

The hazards behind these are listed, with their lines, in `PROJECT.json`.

## 2. Modules

| module | models | extends |
|---|---|---|
| `CommandLifecycle` | the ledger's promise, abstractly | |
| `CommandLedger` | `HermesCommandLedger` and its tables; any callers | |
| `CommandLedgerProofs` | theorems | `CommandLedger`, `TLAPS` |
| `HermesConnector` | workers, heartbeat threads, port, journal, Hermes | `CommandLedger` |
| `HermesConnectorProofs` | theorems | `HermesConnector`, `CommandLedgerProofs` |
| `BacktestJobs` | `BacktestJobRunner` and the server lifespan | |
| `BacktestJobsProofs` | theorems | `BacktestJobs`, `TLAPS` |
| `PaperAccount` | the account, its service, broker and routes | |
| `FoldLemmas` | facts about the folds of the community modules | `TLAPS` |
| `PaperAccountProofs` | theorems | `PaperAccount`, `FoldLemmas`, `TLAPS` |
| `StrategySleeves` | sleeve files, journals, recovery, processing commands | |
| `StrategySleevesProofs` | theorems | `StrategySleeves`, `TLAPS` |
| `ReleaseAdmission` | candidate and release authorities, epochs, daemons, triggers | |
| `ReleaseAdmissionProofs` | theorems | `ReleaseAdmission`, `TLAPS` |
| `ManagedSessions` | submissions of sessions, registry, provisioner, Hermes | |
| `ManagedSessionsProofs` | theorems | `ManagedSessions`, `TLAPS` |
| `MC*` | the instances TLC checks | |

### CommandLedger

`cmd[c]` is the row, `outbox[c]` its unconsumed outbox rows. Every public method
is one transaction that takes the row's lock first, so it is one action with the
method's name; its guard is what the method checks under the lock, and a call
that raises is a step that does not happen. `LedgerSpec` lets anyone call any
method with any version and token, which includes every stale caller.

A row keeps what later calls read. Timestamps are kept as comparisons with the
database clock (`live`: the lease has not lapsed, `due`: the retry time is past,
`eligible`: the payload has not expired), and the clock is an action per
comparison (`LeaseLapses`, `RetryComesDue`, `PayloadExpires`). A lease token is
the version its claim wrote, a value as fresh as the code's UUID. The three
Hermes ids of a row are always written together and are one value. Events,
error codes and attempt counts are never read by a transition and are left out.

`CommandLifecycle` is the abstract specification: absent, pending, sent, bound,
closed, with `Retract` for a dispatch known not to have left. `PhaseOf` maps
rows to phases: a leased row is pending until the dispatch mark and sent after
it.

### HermesConnector

A worker's record `wk[x]` holds its place in `run_once` and its locals. A step
is the code between two points where another process may act: one ledger call,
one SQLite transaction, one HTTP exchange.

| places | code |
|---|---|
| idle, list, turn | `run_once`, `_reconcile_active_runs`: recover lapsed leases, list, fence each turn |
| claim, gate, resolve | `_claim_and_dispatch`: claim, mark, gate, session, lease extension |
| port, post, ack, nack | `submit_or_recover` and `_invoke`: reserve, POST, receipt |
| done, record | `_submit_with_lease_heartbeat` returns; `_record_dispatch_result` |
| observe, fold | `observe`, `_record_terminal_observation` |

`beat[x]` is the heartbeat thread: it waits, has left its wait to call the ledger,
or is over. It makes the call under a lock that the main thread takes to read the
latest version, so the call is one step; a thread that has left its wait and not yet
taken the lock may make it after the main thread has read.
`late[c]` is a POST in flight whose client timed out or died: Hermes may take
it at any later time, or never. `key[c]` is what Hermes remembers for the key
and `window[c]` the journal's replay window: `open`, `over`, or `astride` when a
request was on its way at its end (`reserve` compares the age once, before the
POST). Hermes forgets no earlier than that, which is the retention it announces and
the port checks.

The port's error handling is modelled by the classes it distinguishes
(`AllReplies`): definite statuses, other 4xx, retryable statuses,
`durable_unavailable`, a 2xx body that is not an object. `refused_replay` is a
definite status given to a retry whose first POST was or may be accepted.
`unjournalled` is no reply but what becomes of one when the journal cannot be
written (or the thread that follows the Run cannot be started): the exception is
answered as a rejection, whatever Hermes did.

### BacktestJobs

`meta[j]` is the status in `metadata.json`, the only thing that survives the
process. `future[j]` is the pool's future and, on a thread, the place in
`_run_job`. Every block under `self._lock` is one action. `shutdown` is four
steps, since it releases the lock to wait and takes it again to mark.
`ReconcileFails` is the error that `server.py` swallows. The process may end at
any time, and start again.

### PaperAccount

Every route loads the account, changes it in memory and saves it under the
account locks, so a route call is one action, and the validator that runs on
every load is part of saving (`Save`). Shares and money are integers, and
slippage and commission are one fee per share; the code reserves the sum of the
two rates and charges their product on top, a difference of a few parts in a
hundred million that the model drops. `acct.pos[sym]` maps owners to shares, as
`source_quantity` does. `shorted` is history: what `process_pending_orders` did
to the first order it executed, unless that sold shares a rebalance has bought too
(`Shared`). `Mixed` and `SnapshotPlans` switch on two uses the `account` run leaves
out and the finding needs: whole-account rebalances and resets while sleeves exist
(`WholeAccount`, a condition on the caller, not in the code), and plans sized by a
signal, whose buys leave no room for the fees.

### StrategySleeves

Every writing call holds the account lock and the sleeve lock, so there is one
lock holder, `op`, with its place and its in-memory account; each of its steps is
one durable write and `Abort` may come between any two. `Prepare` is the phase of
a processing run outside the locks. A book (cash of a sleeve, its lots, the
account) is the set of plans whose fills it contains: two books agree on money
and shares exactly when they contain the same fills. `rev` stands for the changes of
the account that are no fills, since recovery compares whole accounts. A reset is an
action of its own: a fresh account takes the place of the old one, whose fills go to
`archived`; sleeves, plans and journals stay. `refused` is history: the sleeves whose
creation was answered as failed.

| places of `op` | code |
|---|---|
| drafts, journals | `reconcile_pending_sleeves`, `reconcile_execution_journals` |
| write_sleeve, write_lots, write_plan | the three writes after a journal, in a recovery and in a fill |
| save, commit | `_save_account_snapshot`, `commit_execution_journal` |
| work, batch | the call's own work; `process_pending_executions_once` under the locks |
| allocate, finalize | `create_strategy_sleeve` between its three writes |

### ReleaseAdmission

Every authority method is one transaction under the workspace's advisory locks,
with the triggers it fires, and is one action. Turns and daemons take several:
a turn is checked and then inserted, a daemon is gated, acquires or claims, and is
gated again. An admission's TTL is the flag `elapsed`. `touched` is history: the
admissions opened before the last paper write. Evidence is an epoch, 0 for none.
What the documents say, the digests that bind them and the flags of the release
gate can only close it further and are left out. The trust setting belongs to a
process and may differ between API and daemon and change with a restart.

### ManagedSessions

A row's `version` and `attempts` are its columns, `elapsed` says that the lease
has run out or the retry is due. A lease token is as good as the version its claim
wrote. `worker[w]` is a provisioner inside `provision_next`; `GetSession`,
`PostSession` and `ForkSession` are the requests of the two ports, with lost
answers, and `late` holds creations nobody waits for. Forks exist only on the
subprocess port; the native port refuses them. The network gate in front of each
pass is taken as open (it is modelled in `ReleaseAdmission`).

## 3. Runs

| run | instance | shows |
|---|---|---|
| `ledger` | 2 commands, 2 Runs, versions to 7 | `RowConstraints`, `WakeUpMatchesState`, `NothingUndone`, `VersionedSnapshots`, refinement of `CommandLifecycle` |
| `race` | 1 command, 2 workers, all replies, 2 faults, 1 beat | `AtMostOneRun`, `UnsentOrHeld`, `LedgerTellsHermes`, `DispatchExclusive` |
| `settles` | 2 commands of one session, 1 worker, 2 faults, fair | `OneLiveRunPerSession`, `OverReleasesSession`, `CommandsSettle` |
| `jobs` | 2 jobs, 2 threads, 2 restarts, 1 failed reconciliation, fair | `NoZombies`, `ShutdownSettles`, `LateWritesLose`, `JobsEnd` |
| `account` | 2 symbols, 2 sleeves, 2 waiting orders, cash 10, prices 1 and 3, fee 1, orders of 1 or 2 shares | `SleevesBacked`, `ReservationsCovered`, `FirstInLineFills` |
| `sleeves` | 2 plans of 1 sleeve, 2 processing commands, 2 days, 1 other request (a reset, say), 2 crashes or failed saves | `BooksAgree`, `OutcomeTrue`, `FilledOnce`, `AllocationHasSleeve`, `DecidedStays` |
| `sleeves_settle` | the same with 1 command, 1 crash and a sleeve the switch may be lifted for, fair | `PlansSettle` |
| `admission` | 2 admissions, 1 stamp, 1 cutover, 2 daemons, 1 session, 1 turn, 1 paper write, any number of API restarts | `OneAdmission`, `WindowClean`, `StaleEvidenceOpensNothing`, `TurnsInTheirAdmission` |
| `sessions` | a root session, its fork, a fork of an external session under a reused key; 2 provisioners, 2 crashes, 1 lease outrun, fair | `ReadyIsReal`, `AcceptedOncePerKey`, `SettledStands`, `SessionsSettle` |

Every passing run checks its module's type invariant too, except `ledger`, whose
`LedgerTypeOK` is a conjunct of the one `race` checks (and is proved), and
`settles` and `sleeves_settle`, whose modules have it checked in `race` and
`sleeves`.

**Bounds.** A fault is a crash, a stalled worker, a lost or late reply, an error
reply, a failed journal write, a closed gate, a database outage, or the end of the
replay window; two are enough for a lost reply followed by the end of the window
(the shortest way to a second Run, which the mutant `ReplayWindowIgnored` takes), or
for a lapsed lease and a crash of the worker that recovered it. In `settles` they let
a lost reply meet a refusal or a crash while a second command of the session waits.
`MaxPolls` bounds only reconciliation turns that cannot change anything (`Futile`):
without it, versions grow without bound.
`MaxVersion` bounds `LedgerSpec` only; the connector's versions are bounded by
its faults, beats and turns. In `ledger` seven versions
are a claim, a mark, a beat, a requeue and a second dispatch, or the whole way to
a terminal state through an unknown outcome. In `account` the cash pays for one
dear order and one cheap one but not for two dear ones, so every limit binds
somewhere. In `sleeves` two crashes allow one in a fill and one in the recovery
from it, and two plans the order of journals; one request lets another call
change or reset the account under a journal or after a fill (an instance with two
requests and one crash passes too). In `admission` one paper write makes evidence
stale before or after each step of the way to a release, and two admissions let a
window follow a release or an expired window. In `sessions` `MaxTakeovers` bounds
leases that run out under a live provisioner, without which attempts grow without
bound; one is enough for two provisioners to answer for one session. Symmetry is
used only where no liveness is checked.

**Fairness.** A worker's main thread keeps taking steps: its HTTP and database
calls have timeouts and the supervisor restarts it. A lease nobody extends
lapses, a back-off ends, a Run ends. Nothing makes Hermes answer, a gate open,
a client cancel or a late POST arrive. In `jobs` pool threads run and
backtests end, the start-up thread runs, and a shutdown once begun goes on;
nobody has to start the API again, and `JobsEnd` claims nothing of a process
that is down, or of one whose start-up pass failed: the next clean one settles
what it left. In `sleeves_settle` the processing command is run again and again
for the current day, days pass, and a lock holder goes on; crashes end, since
they are bounded. In `sessions` every connector cycle calls `provision_next`, its
requests have timeouts and the clock moves; clients, Hermes' late effects and
crashes owe nothing.

**What `settles` does not claim.** It has one worker, which is what the liveness
lock of `connector_runtime.py` lets run at a time. With two, which needs a worker
that goes on after it has lost the lock's connection, `OneLiveRunPerSession` is
false: the first worker's POST is refused and it stalls before journalling that;
its lease lapses and the other worker's recovery replays the same key and is
accepted; the first one then marks the receipt rejected, and the session is free
while the Run is live. The theorem about it states the condition.

**What `CommandsSettle` does not claim.** A command may stay `outcome_unknown`
when the journal refuses every retry: its replay window is over, or its refusal
was journalled and the worker died before telling the ledger. The property
allows exactly that, and the same for a command behind it in the session.

## 4. Findings

Each is a run that TLC must find violated.

* `finding_garbled_reply`: a 2xx body that is JSON but no object is
  `retryable=False`, so a command with an accepted Run becomes `failed`. The handler
  at `run_lifecycle_port.py:197` does the same with an exception of the journal
  after the POST.
* `finding_release_scope`: the insert trigger binds a session registered under an
  open release to the release's admission, while the readiness projection names
  none; the comment in `require_current_session_admission` says both carry none.
  Every turn of such a session is refused as a mismatch.
* `finding_sleeve_cash`: a rebalance may spend the whole account's cash and is
  turned down only when a sleeve holds positions, so it spends what was allocated
  to a sleeve that has not traded; the comment on `sleeve_cash` says both must
  come from the same account.

Behaviour met while modelling and worth knowing, without a run of its own:

* a turn refused with `session_busy`, before any request, is recorded as an
  unknown outcome (`dispatch_adapter.py:85`, `run_lifecycle_port.py:189`), and can
  be overtaken by a later turn of its session;
* a definite 4xx to the replay of an accepted POST settles the receipt and frees
  the session for a second live Run (`native_run_port.py:242`); a 4xx outside the
  list fails the command and leaves its session busy. `settles` leaves both
  replies out;
* the journal cannot be written after the POST (`native_run_port.py:243`, `:250`), or
  the thread that follows the Run cannot be started (`:253`): the exception is
  answered as `rejected`. The command is `failed` without a Run while its Run lives,
  or while its receipt stays open and answers `session_busy` to every later turn.
  `race` has these failures, and `UnsentOrHeld` says what still holds; `settles` has
  not, and there `OverReleasesSession` would be false;
* `reserve` lets a replay through until the very end of the retention and the POST
  follows later (`native_run_port.py:85`, `:236`), so a replay may reach Hermes when it
  has forgotten the key and start a second Run. `window[c] = "astride"` marks the
  command, and the properties about Runs except it;
* a job submitted before the start-up thread has run is failed as a leftover of
  an earlier process (`server.py:224`);
* two overlapping workers can fence each other's reconciliation turns off again
  and again; a heartbeat thread that is slow to take its lock makes the worker drop
  its result, which recovery then finds in the journal; a command requeued after
  `durable_unavailable` and then cancelled leaves its receipt open;
* a journal whose account has moved on marks its plan blocked as
  `recovery_required` and is kept off the account, but a plan the journal says is
  filled loses its fills (`paper_strategy_execution_service.py:668`);
* `process_pending_orders` replaces the queue after its loop, so an order that has
  just filled still holds its reservation while the later ones execute, and a
  later order may be cut short although the cash is there; `FirstInLineFills`
  therefore speaks of the first only;
* a signal-sized plan is checked against its gross value and can overdraw its
  sleeve by the fees, which `_apply_steps` rounds up to zero;
* a rebalance made while a sell order waits sells the shares of all owners pro rata
  (`account.py:324`), reserved manual ones with them, although
  `docs/guides/paper-trading.md:69` says that a later rebalance cannot take what a
  waiting order reserves. `ReservationsCovered` therefore counts manual and rebalanced
  shares together, and `FirstInLineFills` excepts the order that comes up short;
* a reset while sleeves exist leaves their cash in `sleeve.json`, and their next fill
  writes it into the fresh account again (`paper_strategy_execution_service.py:858`);
  the same cash can meanwhile have been allocated or spent. `account` leaves resets
  beside sleeves out;
* sleeves, plans and journals outlive a reset: the books of a sleeve go on naming fills
  that only an archived account has. `BooksAgree` and `OutcomeTrue` say so;
* when `account.json` has been replaced and writing its positions file fails
  (`account_storage.py:242`), the draft of a new sleeve is discarded although its cash
  is gone, and the call is answered "failed to persist strategy sleeve allocation":
  the cash stays stranded. `AllocationHasSleeve` excepts the sleeves answered so;
* a lease that runs out is taken over whatever the number of attempts, so
  `max_attempts` bounds recorded failures and not crashes.

## 5. Proofs

Checked by TLAPS for any sets of commands, Runs, workers, jobs, threads, sessions,
admissions, sleeves, plans, orders and prices and for any bounds. Each inductive
invariant was first checked by TLC as an invariant of the run's instance.

**CommandLedgerProofs.** The inductive invariant `LedgerInv` says that every row
together with its outbox rows is a `GoodRow`, and that no Run is shared (its
unique index). None of the parts is inductive alone: that a requeue writes a
matching wake-up depends on the old wake-up having been consumed, which depends on
the lease and dispatch columns. One lemma per UPDATE statement shows that a good
row becomes a good row by a `RowMove`; `StepForms` and `BatchRows` lift it to the
tables. From it follow

* `LedgerTyped`, `RowsAreLawful`, `WakeUpsMatch`;
* `SnapshotsAreVersioned` and `NothingIsUndone`, read off the row moves;
* `LedgerImplementsLifecycle`: initial states map to initial states, and each
  row move is invisible or one step of `CommandLifecycle`. A recovery of many
  lapsed leases at once changes no phase.

Assumptions: `NoRun` is not a Run, `Research` is a set of commands, `MaxVersion`
is a natural number. No theorem depends on the value of the bound.

**BacktestJobsProofs.** `JobInv` ties, job by job, the status to the place of the
thread (`StatusAtPlace`) and the shutdown's lists to the live futures
(`ShutdownSees`). `NoZombies` needs it because whether a thread will still
settle its job depends on what the status can be at that place;
`ShutdownSettles` because shutdown marks only the futures it recorded before it
gave the lock up. From it follow `JobsTyped`, `ThereAreNoZombies`,
`ShutdownSettlesJobs` and `LateWritersLose`.

**HermesConnectorProofs.** `ConnectorInv` holds whatever Hermes replies. Of each
command it says that Hermes' key names its Run until the window has passed, and
that, unless a request was on its way then, nothing is in flight after that and
there is one Run (`CommandInv`); of each worker, what its place has established
(`WorkerInv`): a marked dispatch finds its row still leased and marked, or pursued
by reconciliation, so that a worker whose lease lapsed cannot find it queued
again; a result `ok` names a Run of the command. `EngagedAlone` says that two
workers are never inside a marked dispatch of one command. `AtMostOneRun` is not
inductive without the windows, `DispatchExclusive` not without the mark and
`LedgerTellsHermes` not without what the worker observed before it writes. The
steps fall into three kinds, each with one frame lemma: a worker that drifts
(moves without news), one that tells (sends, learns or records), and what happens
outside the main threads; `Shapes` says that there are no others. The ledger's
lemmas are used for every call. From it follow `ConnectorTyped`,
`SubmittedAtMostOnce`, `LedgerIsTrue` and `DispatchIsExclusive`. Three more
invariants rest on it:

* `SentInv`: what the ledger takes as unsent was not sent, the holder of the lease
  knows whether it has sent anything, and a command failed without a Run has nothing
  sent or an open receipt. Holds whatever Hermes replies and whether or not the
  journal can be written. Gives `UnsentMeansUnsent`.
* `SettledInv`: a receipt is opened once, by a POST, and is settled before the
  command is over. Needs that nothing of `garbled`, `odd_refusal`, `store_down` and
  `unjournalled` happens, after which the port reports an end it did not journal.
  Gives `OverMeansSettled`, for any number of workers where the run has one.
* `SessionInv`: an open receipt stands for everything of its session that is or may
  become live. Needs one worker and no refused replay. Gives `SessionsTakeTurns`.

**StrategySleevesProofs.** The books agree only outside a fill, so `SleeveInv`
says what holds within one. The journals that wait are always in one of three
situations, and which one it is decides what recovery does with all of them:
`Unsaved` (the account is the one the first of them started from), `Saved` (it has
all their fills) or `Overtaken` (it has none of them and was changed or reset since).
`OpInv` says for each place of the lock holder which account it has in memory and
which sleeves already agree with it; `CallInv` what the call has decided. From it
follow `SleevesTyped`, `SleeveBooksAgree`, `OutcomesAreTrue`, `PlansFillOnce`,
`DecisionsStand` and `AllocationsHaveSleeves`.

**ReleaseAdmissionProofs.** `AdmissionInv`: one of each thing at a time
(`Singular`), an active stamp carries the epoch of an accepted admission and
whatever was opened before the last paper mutation has an older one (`Fenced`), a
turn past its check has a session whose binding never changes (`TurnsPlaced`).
`WindowClean` is not inductive without the last, since a turn is checked in one
transaction and inserted in another. From it follow `AdmissionsTyped`,
`OneAdmissionAtATime`, `WindowsAreClean`, `StaleEvidenceIsFenced` and
`TurnsStayInTheirAdmission`. Assumption besides those of the bounds:
`NamesAssumption`, that the "none" values are no members of their sets.

**ManagedSessionsProofs.** `SessionInv`: the source of whatever was claimed once
exists (`SourceReal`), each place of a provisioner has established what it writes
(`WorkerKnows`), whatever became of its lease, a row's version counts its claims
(`VersionsCount`), and registered keys are unique (`KeysUnique`). From it follow
`SessionsTyped`, `ReadySessionsAreReal`, `KeysAcceptOnce` and
`SettledSessionsStand`.

**FoldLemmas.** The sums of `PaperAccount` and its loops are folds of the community
modules, defined as recursive functions over the subsets of a finite set that
take a chosen element away. `SubsetsByChoice` is the induction over those subsets
and is proved from the well-foundedness of the naturals for a set of subsets, not
for an operator. `Total(f, S)` is a sum without recursion: the number of pairs of
an element and a unit of its value. `SumRecursion` and `SumFunctionTotal` show that
the fold gives the same number, and `TotalAdd`, `TotalBut`, `TotalPart` say how it
changes with the set and the function. `FoldRecursion` says that the function
that folds a finite set exists and satisfies its recursion equation, as long as the
accumulators stay in a set; a loop over a sequence folds the set of its indices.

**PaperAccountProofs.** `AccountInv` says that the manual cash is the cash less
all allocations (`Balanced`), that the manual cash and the shares outside the
sleeves cover what the waiting orders reserve (`Covers`), that no two orders wait
under one id and that every sleeve's file agrees with the account (`BooksMatch`).
`SleevesBacked` is not inductive without `BooksMatch`, because a plan is checked
against the sleeve's file and charged to the account; `ReservationsCovered` is not
without `Balanced`, because what is available is computed from the cash;
`FirstInLineFills` needs `ReservationsCovered` and the distinct ids, since an
order is filled from what the *other* orders leave. `LoopInv` is the invariant of
the loop over waiting orders: what is left of the queue stays covered, although
the queue itself is replaced only at the end. `Trials` says what the two passes of
a rebalance keep. From it follow `AccountsAgree`, `AccountTyped`,
`AllocationsBacked`, `ReservationsHold` and `FirstOrderFills`. Assumptions:
`NamesAssumption` (symbols and sleeves are finite sets, and a sleeve is not called
`manual` or `legacy`, which are keys of the same map), and `Regular`:

* rebalances and resets are made where there is no sleeve (`~Mixed`; orders may wait)
  and sleeves run definition plans (`~SnapshotPlans`), as in the account run;
  `finding_sleeve_cash` shows that `SleevesBacked` fails otherwise;
* no price is below the fee on one share. Slippage and commission are fractions
  of the price in the code, and `Fee` stands for both.

**Only model-checked.** All liveness (`CommandsSettle`, `JobsEnd`, `PlansSettle`,
`SessionsSettle`: TLAPS does not reason about fairness). No module declares a
RECURSIVE operator.

## 6. Not modelled

* In the ledger: run links, argument validation, inspection of the schema.
* In the connector: LISTEN/NOTIFY (a wake-up only shortens the poll), order and
  limit of the reconciliation list, statistics.
* In the port: the progress collector and the subprocess transport that the
  native port replaces.
* In the paper account: average cost, realised profit, the event ledger, floating
  point; in the sleeves: signals, quarantine and demotion, and the policy guards,
  whose verdict is any; in both: the PostgreSQL mode of the account.
* In the authorities: the evidence documents, digests, flags and capabilities; in
  the saga: stop, approval and operator actions and the composite submit.
* In the job runner: the PostgreSQL run index (best effort), failed writes of
  `metadata.json` outside reconciliation, a process killed inside a locked
  block, the pool's queue order (any pending future may be picked).
* The other components, as listed in `PROJECT.json`.

## 7. Plan

1. **Run control**: stop and approval requests racing the end of the Run.
2. **D34 jobs**: leases and artifacts of the runner containers.
3. **Reconciliation order**: the list with its order and limit, and that no
   command starves.
4. **Paper account in PostgreSQL**: the dual write and its repair.

## 8. Running

    cd tla
    tlc -workers 2 -config ConnectorRace.cfg MCHermesConnector
    tlapm CommandLedgerProofs.tla
