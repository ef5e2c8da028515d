--------------------------- MODULE CommandLedger ---------------------------
(***************************************************************************)
(* The durable Hermes command ledger (hermes/command_ledger.py): the rows  *)
(* of hermes_commands and the unconsumed rows of hermes_outbox.  Every     *)
(* method of the class is one PostgreSQL transaction, so it is one action  *)
(* here; a call whose guard fails raises and changes nothing.              *)
(*                                                                         *)
(* Spec puts no restriction on the callers: any number of workers, with    *)
(* any version and lease token they may remember, call the methods in any  *)
(* order.  HermesConnector composes the same actions with the worker that  *)
(* really calls them.                                                      *)
(*                                                                         *)
(* Abstractions.  The three Hermes identifiers of a row are one value, the *)
(* Run.  A lease token is the version that the claim wrote, which no other *)
(* claim of the row ever writes (uuid4 in the code).  Timestamps are read  *)
(* from one clock, the database's, and kept only as the comparisons made   *)
(* with it: live is lease_until > now, due is next_attempt_at <= now, and  *)
(* eligible is an unexpired payload.  Error codes, attempt counts, digests *)
(* and the append-only event log are written and never read back by a      *)
(* transition, and are left out.                                           *)
(***************************************************************************)
EXTENDS Integers

CONSTANTS Commands,     \* command identities (owner, session, client_request_id)
          Runs,         \* Hermes Run identities
          NoRun,        \* hermes_run_id IS NULL
          Research,     \* commands bound to a payload that expires
          MaxVersion    \* bound: rows stop changing at this version

ASSUME RunsAssumption == NoRun \notin Runs
ASSUME ResearchAssumption == Research \subseteq Commands
ASSUME MaxVersionAssumption == MaxVersion \in Nat

VARIABLES cmd,          \* cmd[c]: the row of hermes_commands
          outbox        \* outbox[c]: its unconsumed rows <<version, topic>>

ledgerVars == <<cmd, outbox>>

Terminal == {"succeeded", "failed", "cancelled"}
Active == {"delivered", "outcome_unknown"}
CommandState == {"absent", "queued", "leased"} \cup Active \cup Terminal
Topic == {"queued", "reconcile"}
NoToken == 0

Row == [state : CommandState, version : Nat, token : Nat, live : BOOLEAN,
        dispatched : BOOLEAN, due : BOOLEAN, eligible : BOOLEAN,
        run : Runs \cup {NoRun}]

AbsentRow == [state |-> "absent", version |-> 0, token |-> NoToken,
              live |-> FALSE, dispatched |-> FALSE, due |-> FALSE,
              eligible |-> TRUE, run |-> NoRun]

LedgerInit == /\ cmd = [c \in Commands |-> AbsentRow]
              /\ outbox = [c \in Commands |-> {}]

-----------------------------------------------------------------------------
(* Row updates.  Each is the SET list of one UPDATE statement; all of them *)
(* advance the version.                                                    *)

NextVersion(row) == [row EXCEPT !.version = @ + 1]

\* Mutant of Unleased: the lease columns are not cleared.
UnleasedKeepsToken(row) == [NextVersion(row) EXCEPT !.due = FALSE]

Unleased(row) == [NextVersion(row) EXCEPT !.token = NoToken, !.live = FALSE,
                                          !.due = FALSE]

Leased(row) == [NextVersion(row) EXCEPT !.state = "leased", !.due = FALSE,
                                        !.token = row.version + 1,
                                        !.live = TRUE]

\* due says whether next_attempt_at has been reached when the row is written.
Requeued(row, due) == [Unleased(row) EXCEPT !.state = "queued", !.due = due,
                                            !.dispatched = FALSE]

\* Mutant of Unknown: a state name the schema does not know.
UnknownMisnamed(row) == [Unleased(row) EXCEPT !.state = "unknown"]

Unknown(row) == [Unleased(row) EXCEPT !.state = "outcome_unknown"]

BoundTo(row, s, r) == [Unleased(row) EXCEPT !.state = s, !.run = r]

\* Mutant of Expired: every lapsed lease is requeued, dispatched or not.
ExpiredAlwaysRequeued(row) == Requeued(row, TRUE)

\* The lapsed lease of a row: requeue only what was never dispatched.
Expired(row) == IF row.dispatched THEN Unknown(row) ELSE Requeued(row, TRUE)

WakeUp(row, topic) == {<<row.version, topic>>}
Consume(rows, topic) == {x \in rows : x[2] # topic}

Write(c, row, rows) == /\ cmd' = [cmd EXCEPT ![c] = row]
                       /\ outbox' = [outbox EXCEPT ![c] = rows]

\* uq_hermes_commands_upstream_run: one row per Run.
RunFree(c, r) == \A d \in Commands \ {c} : cmd[d].run # r

-----------------------------------------------------------------------------
(* Guards.                                                                 *)

_lock_active_lease(c, v, t) ==
  /\ cmd[c].state = "leased"
  /\ cmd[c].version = v
  /\ cmd[c].token = t
  /\ cmd[c].live

\* A queued command claim_next_command may return.
Claimable(c) == /\ cmd[c].state = "queued"
                /\ cmd[c].due
                /\ cmd[c].eligible

\* Mutant of Lapsed: only undispatched leases are recovered.
LapsedUndispatched(c) == /\ cmd[c].state = "leased"
                         /\ ~ cmd[c].live
                         /\ ~ cmd[c].dispatched

\* A lease reconcile_expired_leases may recover.
Lapsed(c) == cmd[c].state = "leased" /\ ~ cmd[c].live

-----------------------------------------------------------------------------
(* The methods of HermesCommandLedger.                                     *)

\* A repeated create finds the row and changes nothing.
create_command(c) ==
  /\ cmd[c].state = "absent"
  /\ LET row == [NextVersion(cmd[c]) EXCEPT !.state = "queued", !.due = TRUE]
     IN  Write(c, row, WakeUp(row, "queued"))

cancel_queued_command(c, v) ==
  /\ cmd[c].state = "queued"
  /\ cmd[c].version = v
  /\ Write(c, [Unleased(cmd[c]) EXCEPT !.state = "cancelled"],
           Consume(outbox[c], "queued"))

\* Without the wake-up row of the version it read, the claim rolls back.
claim_next_command(c) ==
  /\ Claimable(c)
  /\ <<cmd[c].version, "queued">> \in outbox[c]
  /\ Write(c, Leased(cmd[c]), outbox[c] \ {<<cmd[c].version, "queued">>})

heartbeat_lease(c, v, t) ==
  /\ _lock_active_lease(c, v, t)
  /\ Write(c, NextVersion(cmd[c]), outbox[c])

\* Mutant of mark_dispatch_started: the version is not advanced.
DispatchStartedUnversioned(c, v, t) ==
  /\ _lock_active_lease(c, v, t)
  /\ ~ cmd[c].dispatched
  /\ Write(c, [cmd[c] EXCEPT !.dispatched = TRUE], outbox[c])

mark_dispatch_started(c, v, t) ==
  /\ _lock_active_lease(c, v, t)
  /\ ~ cmd[c].dispatched
  /\ Write(c, [NextVersion(cmd[c]) EXCEPT !.dispatched = TRUE], outbox[c])

mark_delivered(c, v, t, r) ==
  /\ _lock_active_lease(c, v, t)
  /\ cmd[c].dispatched
  /\ RunFree(c, r)
  /\ Write(c, BoundTo(cmd[c], "delivered", r), outbox[c])

mark_dispatch_timeout(c, v, t) ==
  /\ _lock_active_lease(c, v, t)
  /\ cmd[c].dispatched
  /\ LET row == Unknown(cmd[c])
     IN  Write(c, row, outbox[c] \cup WakeUp(row, "reconcile"))

\* Mutant of mark_dispatch_unavailable: the wake-up carries the old version.
DispatchUnavailableStaleWakeUp(c, v, t) ==
  /\ _lock_active_lease(c, v, t)
  /\ cmd[c].dispatched
  /\ Write(c, Requeued(cmd[c], FALSE), outbox[c] \cup WakeUp(cmd[c], "queued"))

mark_dispatch_unavailable(c, v, t) ==
  /\ _lock_active_lease(c, v, t)
  /\ cmd[c].dispatched
  /\ LET row == Requeued(cmd[c], FALSE)
     IN  Write(c, row, outbox[c] \cup WakeUp(row, "queued"))

mark_dispatch_rejected(c, v, t) ==
  /\ _lock_active_lease(c, v, t)
  /\ cmd[c].dispatched
  /\ Write(c, [Unleased(cmd[c]) EXCEPT !.state = "failed"], outbox[c])

mark_run_reconciliation_started(c, v) ==
  /\ cmd[c].state \in Active
  /\ cmd[c].version = v
  /\ Write(c, NextVersion(cmd[c]), outbox[c])

reconcile_outcome_as_delivered(c, v, r) ==
  /\ cmd[c].state = "outcome_unknown"
  /\ cmd[c].version = v
  /\ cmd[c].run \in {NoRun, r}
  /\ RunFree(c, r)
  /\ Write(c, [NextVersion(cmd[c]) EXCEPT !.state = "delivered", !.run = r],
           Consume(outbox[c], "reconcile"))

\* Mutant of _mark_run_terminal: the Run the row already names is not compared.
RunTerminalUncompared(c, v, r, s) ==
  /\ cmd[c].state \in Active
  /\ cmd[c].version = v
  /\ RunFree(c, r)
  /\ Write(c, BoundTo(cmd[c], s, r),
           IF cmd[c].state = "outcome_unknown"
             THEN Consume(outbox[c], "reconcile") ELSE outbox[c])

\* mark_succeeded, mark_failed and mark_cancelled.
_mark_run_terminal(c, v, r, s) ==
  /\ cmd[c].state \in Active
  /\ cmd[c].version = v
  /\ cmd[c].run \in {NoRun, r}
  /\ RunFree(c, r)
  /\ Write(c, BoundTo(cmd[c], s, r),
           IF cmd[c].state = "outcome_unknown"
             THEN Consume(outbox[c], "reconcile") ELSE outbox[c])

\* Mutant of reconcile_expired_leases: the dispatch mark is not looked at.
ReconcileRequeuesAll(S) ==
  /\ \A c \in S : Lapsed(c)
  /\ cmd' = [c \in Commands |-> IF c \in S THEN Requeued(cmd[c], TRUE) ELSE cmd[c]]
  /\ outbox' = [c \in Commands |->
       IF c \in S THEN outbox[c] \cup WakeUp(Requeued(cmd[c], TRUE), "queued")
                 ELSE outbox[c]]

\* One call recovers a batch: rows another transaction has locked, and the
\* ones past the limit, are skipped.
reconcile_expired_leases(S) ==
  /\ \A c \in S : Lapsed(c)
  /\ cmd' = [c \in Commands |-> IF c \in S THEN Expired(cmd[c]) ELSE cmd[c]]
  /\ outbox' = [c \in Commands |->
       IF c \in S
         THEN outbox[c] \cup WakeUp(Expired(cmd[c]),
                IF cmd[c].dispatched THEN "reconcile" ELSE "queued")
         ELSE outbox[c]]

-----------------------------------------------------------------------------
(* The database clock passes a timestamp of a row.                         *)

LeaseLapses(c) == /\ cmd[c].state = "leased"
                  /\ cmd[c].live
                  /\ cmd' = [cmd EXCEPT ![c].live = FALSE]
                  /\ UNCHANGED outbox

RetryComesDue(c) == /\ cmd[c].state = "queued"
                    /\ ~ cmd[c].due
                    /\ cmd' = [cmd EXCEPT ![c].due = TRUE]
                    /\ UNCHANGED outbox

PayloadExpires(c) == /\ c \in Research
                     /\ cmd[c].state # "absent"
                     /\ cmd[c].eligible
                     /\ cmd' = [cmd EXCEPT ![c].eligible = FALSE]
                     /\ UNCHANGED outbox

-----------------------------------------------------------------------------
(* A call by anyone with version v and token t in hand.                    *)

LeaseCall(c, v, t) ==
  \/ heartbeat_lease(c, v, t)
  \/ mark_dispatch_started(c, v, t)
  \/ mark_dispatch_timeout(c, v, t)
  \/ mark_dispatch_unavailable(c, v, t)
  \/ mark_dispatch_rejected(c, v, t)
  \/ \E r \in Runs : mark_delivered(c, v, t, r)

VersionCall(c, v) ==
  \/ cancel_queued_command(c, v)
  \/ mark_run_reconciliation_started(c, v)
  \/ \E r \in Runs : reconcile_outcome_as_delivered(c, v, r)
  \/ \E r \in Runs, s \in Terminal : _mark_run_terminal(c, v, r, s)

ClockTick(c) == LeaseLapses(c) \/ RetryComesDue(c) \/ PayloadExpires(c)

InBound(S) == \A c \in S : cmd[c].version < MaxVersion

LedgerNext ==
  \/ \E c \in Commands :
       /\ InBound({c})
       /\ \/ create_command(c)
          \/ claim_next_command(c)
          \/ \E v \in 1..MaxVersion : VersionCall(c, v)
          \/ \E v \in 1..MaxVersion, t \in 1..MaxVersion : LeaseCall(c, v, t)
  \/ \E S \in SUBSET Commands \ {{}} : InBound(S) /\ reconcile_expired_leases(S)
  \/ \E c \in Commands : ClockTick(c)

LedgerSpec == LedgerInit /\ [][LedgerNext]_ledgerVars

-----------------------------------------------------------------------------
(* Properties.                                                             *)

\* Every row and outbox row is well formed (hermes_commands, hermes_outbox).
LedgerTypeOK == /\ cmd \in [Commands -> Row]
                /\ outbox \in [Commands -> SUBSET (Nat \X Topic)]

\* No sequence of calls writes a row that the CHECK constraints of the schema
\* (scripts/sql/005_hermes_command_ledger.sql) would refuse, or a lifecycle
\* they do not express: a lease exactly while leased, a dispatch mark never on
\* a queued row and always on an unknown or bound one, a Run never before
\* delivery and always from delivery on.  A refused write would leave the
\* command where it was on every retry.
RowConstraints ==
  \A c \in Commands : LET row == cmd[c] IN
    /\ row.state = "leased" <=> row.token # NoToken
    /\ row.live => row.state = "leased"
    /\ row.token <= row.version
    /\ row.state = "absent" <=> row.version = 0
    /\ row.state \in {"absent", "queued"} => ~ row.dispatched
    /\ row.state \in Active \cup {"succeeded", "failed"} => row.dispatched
    /\ row.run # NoRun => row.state \in {"delivered"} \cup Terminal
    /\ row.state \in {"delivered", "succeeded"} => row.run # NoRun

\* The wake-up rows of the outbox agree with the queue: a queued command has
\* exactly the row its next claim consumes, at its current version, so a claim
\* never ends in "queued command has no matching durable outbox wake-up"; an
\* unknown outcome has exactly one reconcile row; nothing else has any.
WakeUpMatchesState ==
  \A c \in Commands :
    /\ cmd[c].state = "queued" => outbox[c] = WakeUp(cmd[c], "queued")
    /\ cmd[c].state = "outcome_unknown" =>
         \E v \in 1..cmd[c].version : outbox[c] = {<<v, "reconcile">>}
    /\ cmd[c].state \notin {"queued", "outcome_unknown"} => outbox[c] = {}

\* Whatever stale calls arrive, a row that reached a terminal state never
\* changes again (its payload's expiry apart), a Run once bound is never
\* replaced, and a dispatch mark is withdrawn only by the holder of the live
\* lease, never by the recovery of a lapsed one: no blind retry.
NoStepUndoes ==
  \A c \in Commands :
    /\ cmd[c].state \in Terminal =>
         cmd'[c] = [cmd[c] EXCEPT !.eligible = cmd'[c].eligible]
    /\ cmd[c].run # NoRun => cmd'[c].run = cmd[c].run
    /\ cmd[c].dispatched /\ ~ cmd'[c].dispatched =>
         cmd[c].live /\ cmd'[c].state = "queued"

NothingUndone == [][NoStepUndoes]_ledgerVars

\* A row changes only with its version, so a snapshot with the current version
\* is a current snapshot (timestamps passing apart): the compare-and-set of
\* every method compares all it relies on, and each version has one event row.
VersionCovers ==
  \A c \in Commands :
    \/ cmd'[c].version = cmd[c].version + 1
    \/ cmd'[c] = [cmd[c] EXCEPT !.live = cmd'[c].live, !.due = cmd'[c].due,
                                !.eligible = cmd'[c].eligible]

VersionedSnapshots == [][VersionCovers]_ledgerVars

\* The phase of a row in CommandLifecycle.
PhaseOf(row) ==
  CASE row.state = "absent" -> "absent"
    [] row.state = "queued" -> "pending"
    [] row.state = "leased" -> IF row.dispatched THEN "sent" ELSE "pending"
    [] row.state = "outcome_unknown" -> "sent"
    [] row.state = "delivered" -> "bound"
    [] row.state \in Terminal -> "closed"

Lifecycle == INSTANCE CommandLifecycle
               WITH phase <- [c \in Commands |-> PhaseOf(cmd[c])],
                    bound <- [c \in Commands |-> cmd[c].run]

\* Every call of the ledger is a step of the abstract lifecycle or none: leases,
\* heartbeats, claims, requeues of undispatched work and recoveries of lapsed
\* leases are invisible, and no interleaving of stale callers binds a second
\* Run or reopens a closed command.
ImplementsLifecycle == Lifecycle!Spec

=============================================================================
