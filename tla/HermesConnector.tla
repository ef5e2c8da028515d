-------------------------- MODULE HermesConnector --------------------------
(***************************************************************************)
(* The connector workers (hermes/connector_worker.py) that move commands   *)
(* of the ledger to Hermes, the port they do it through                    *)
(* (hermes/run_lifecycle_port.py, hermes/native_run_port.py) with its      *)
(* SQLite journal of request receipts, and the Hermes server as the port   *)
(* uses it.                                                                *)
(*                                                                         *)
(* A worker is one process that repeats run_once; its control state is pc. *)
(* Between two of its steps anything may happen: the lease lapses, another *)
(* worker recovers the command, the heartbeat thread moves the version, a  *)
(* POST it stopped waiting for is accepted, the process dies and is        *)
(* restarted by launchd.                                                   *)
(*                                                                         *)
(* The server side is external: it is what the port's handling of replies  *)
(* distinguishes.  Hermes remembers the Run of an Idempotency-Key for the  *)
(* retention it announces.                                                 *)
(***************************************************************************)
EXTENDS CommandLedger, FiniteSets

CONSTANTS Workers,
          NoCommand,
          SessionOf,    \* SessionOf[c]: the managed Hermes session of the command
          Replies,      \* the failing replies Hermes may give, see AllReplies
          Outcomes,     \* how Runs may end, see Ended
          MaxFaults,    \* bound: failures of the environment in a behaviour
          MaxBeats,     \* bound: beats of the heartbeat threads
          MaxPolls      \* bound: reconciliation turns that cannot succeed

\* "refused": HTTP 400, 401, 403, 404 or 422 to the first POST of a key.
\* "refused_replay": the same to a retry of a POST that Hermes has accepted or
\*   may yet accept (a rotated API key, say).
\* "odd_refusal": another status below 500 except 409 and 429.
\* "server_error": 409, 429 or 5xx.      "store_down": code durable_unavailable.
\* "garbled": accepted, with a 2xx body that is JSON but not an object.
\* "unjournalled": any answer, and then the journal of the port cannot be written
\*   or the thread that follows the Run cannot be started.
AllReplies == {"refused", "refused_replay", "odd_refusal", "server_error",
               "store_down", "garbled", "unjournalled"}

\* "partial": completed, with output marked incomplete.
\* "cancelled" stands for interrupted too.
Ended == {"completed", "partial", "failed", "cancelled"}

ASSUME RepliesAssumption == Replies \subseteq AllReplies
ASSUME OutcomesAssumption == Outcomes \subseteq Ended
ASSUME RunIdentityAssumption == Runs \subseteq Commands \X Nat
ASSUME SessionAssumption == DOMAIN SessionOf = Commands
ASSUME BoundsAssumption == {MaxFaults, MaxBeats, MaxPolls} \subseteq Nat

VARIABLES wk,           \* wk[x]: the main thread of worker x
          beat,         \* beat[x]: its heartbeat thread
          receipt,      \* receipt[c]: the row of the native request journal
          window,       \* window[c]: "over" when the retention has passed since
                        \* first_sent, "astride" if a request was then on its way
          hermes,       \* hermes[r]: status of Run r in Hermes, external
          key,          \* key[c]: the Run Hermes remembers for the key of c
          late,         \* late[c]: a POST of c nobody waits for is in flight
          faults, beats, polls

portVars == <<receipt, window>>
hermesVars == <<hermes, key, late>>
boundVars == <<faults, beats, polls>>
vars == <<ledgerVars, wk, beat, portVars, hermesVars, boundVars>>

PC == {"idle", "list", "turn", "claim", "gate", "resolve", "port", "post",
       "ack", "nack", "done", "record", "observe", "fold"}
Result == {"none", "ok", "rejected", "unavailable", "unknown"}

\* todo holds the <<command, version>> pairs the list query returned.
Idle == [pc |-> "idle", mode |-> "none", c |-> NoCommand, v |-> 0,
         t |-> NoToken, todo |-> {}, res |-> "none", run |-> NoRun,
         obs |-> "none"]
NoBeat == [st |-> "off", c |-> NoCommand, v |-> 0, t |-> NoToken]
NoReceipt == [st |-> "none", run |-> NoRun]

Init == /\ LedgerInit
        /\ wk = [x \in Workers |-> Idle]
        /\ beat = [x \in Workers |-> NoBeat]
        /\ receipt = [c \in Commands |-> NoReceipt]
        /\ window = [c \in Commands |-> "open"]
        /\ hermes = [r \in Runs |-> "none"]
        /\ key = [c \in Commands |-> NoRun]
        /\ late = [c \in Commands |-> FALSE]
        /\ faults = 0 /\ beats = 0 /\ polls = 0

At(x, p) == wk[x].pc = p
Go(x, p) == wk' = [wk EXCEPT ![x].pc = p]
Become(x, w) == wk' = [wk EXCEPT ![x] = w]
Fault == faults < MaxFaults /\ faults' = faults + 1 /\ UNCHANGED <<beats, polls>>

\* Worker x has a dispatch result for its command.
Finish(x, res, r) ==
  wk' = [wk EXCEPT ![x].pc = "done", ![x].res = res, ![x].run = r]

\* The turn of the current command is over; the loop goes to the next one.
EndTurn(x) == Become(x, [Idle EXCEPT !.pc = "turn", !.todo = wk[x].todo])

-----------------------------------------------------------------------------
(* The BFF.                                                                *)

CreateCommand(c) == /\ create_command(c)
                    /\ UNCHANGED <<wk, beat, portVars, hermesVars, boundVars>>

\* A cancel with a version that is no longer current raises.
CancelCommand(c) == /\ cancel_queued_command(c, cmd[c].version)
                    /\ UNCHANGED <<wk, beat, portVars, hermesVars, boundVars>>

-----------------------------------------------------------------------------
(* run_once.                                                               *)

\* run_once first recovers the lapsed leases; with the cycle's gate closed
\* that is all it does.
BeginCycle(x) ==
  /\ At(x, "idle")
  /\ reconcile_expired_leases({c \in Commands : Lapsed(c)})
  /\ \/ Go(x, "list") /\ UNCHANGED boundVars
     \/ Fault /\ UNCHANGED wk
  /\ UNCHANGED <<beat, portVars, hermesVars>>

\* An outage of the list query skips reconciliation, not the claim.
ListActiveRuns(x) ==
  /\ At(x, "list")
  /\ \/ /\ wk' = [wk EXCEPT ![x].pc = "turn",
                   ![x].todo = {<<c, cmd[c].version>> :
                                  c \in {d \in Commands : cmd[d].state \in Active}}]
        /\ UNCHANGED boundVars
     \/ Go(x, "claim") /\ Fault
  /\ UNCHANGED <<ledgerVars, beat, portVars, hermesVars>>

\* Mutant of SessionBusy: the session of the request is not looked at.
SessionNeverBusy(c) == FALSE

\* An unsettled request of the same session is in the journal.
SessionBusy(c) == \E d \in Commands \ {c} :
  /\ SessionOf[d] = SessionOf[c]
  /\ receipt[d].st = "open"

\* A turn of worker x that cannot settle command c: the Run has not ended, the
\* POST was refused, the replay window is over, the session is busy, or another
\* worker is in a turn of c, which this one would fence off.  Only the bound on
\* such turns uses this.
Futile(x, c) ==
  \/ \E y \in Workers \ {x} : wk[y].mode = "recover" /\ wk[y].c = c
  \/ cmd[c].run # NoRun /\ hermes[cmd[c].run] = "live"
  \/ /\ cmd[c].run = NoRun
     /\ receipt[c].run = NoRun
     /\ \/ receipt[c].st = "rejected"
        \/ receipt[c].st = "open" /\ window[c] # "open"
        \/ receipt[c].st = "none" /\ SessionBusy(c)

\* One command of the list: the fresh gate, then the version fence.
StartTurn(x, c, v) ==
  /\ At(x, "turn")
  /\ <<c, v>> \in wk[x].todo
  /\ mark_run_reconciliation_started(c, v)
  /\ IF Futile(x, c)
       THEN polls < MaxPolls /\ polls' = polls + 1 /\ UNCHANGED <<faults, beats>>
       ELSE UNCHANGED boundVars
  /\ Become(x, [Idle EXCEPT !.pc = IF cmd[c].run = NoRun THEN "port" ELSE "observe",
                            !.mode = "recover", !.c = c, !.v = v + 1,
                            !.run = cmd[c].run,
                            !.todo = wk[x].todo \ {<<c, v>>}])
  /\ UNCHANGED <<beat, portVars, hermesVars>>

\* The fence was lost, the gate is closed, or the bound on polls is reached.
SkipTurn(x, c, v) ==
  /\ At(x, "turn")
  /\ <<c, v>> \in wk[x].todo
  /\ \/ /\ \/ cmd[c].version # v
           \/ polls = MaxPolls /\ Futile(x, c)
        /\ UNCHANGED boundVars
     \/ Fault
  /\ wk' = [wk EXCEPT ![x].todo = @ \ {<<c, v>>}]
  /\ UNCHANGED <<ledgerVars, beat, portVars, hermesVars>>

EndTurns(x) ==
  /\ At(x, "turn")
  /\ wk[x].todo = {}
  /\ Go(x, "claim")
  /\ UNCHANGED <<ledgerVars, beat, portVars, hermesVars, boundVars>>

-----------------------------------------------------------------------------
(* _claim_and_dispatch.                                                    *)

\* The lease token is the version the claim writes.
Claim(x, c) ==
  /\ At(x, "claim")
  /\ claim_next_command(c)
  /\ Become(x, [Idle EXCEPT !.pc = "gate", !.mode = "dispatch", !.c = c,
                            !.v = cmd[c].version + 1, !.t = cmd[c].version + 1])
  /\ UNCHANGED <<beat, portVars, hermesVars, boundVars>>

ClaimNothing(x) ==
  /\ At(x, "claim")
  /\ \A c \in Commands : ~ Claimable(c)
  /\ Become(x, Idle)
  /\ UNCHANGED <<ledgerVars, beat, portVars, hermesVars, boundVars>>

\* mark_dispatch_started, open gate or not: behind a closed gate the result is
\* known without any network call.
StartDispatch(x) ==
  LET w == wk[x] IN
  /\ At(x, "gate")
  /\ mark_dispatch_started(w.c, w.v, w.t)
  /\ \/ /\ Become(x, [w EXCEPT !.pc = "resolve", !.v = @ + 1])
        /\ UNCHANGED boundVars
     \/ /\ \E res \in {"unavailable", "rejected"} :
             Become(x, [w EXCEPT !.pc = "done", !.v = @ + 1, !.res = res])
        /\ Fault
  /\ UNCHANGED <<beat, portVars, hermesVars>>

\* _dispatch_request: the managed session is resolved, then the lease extended
\* and the heartbeat thread started for the time of the call.
ResolveAndBeat(x) ==
  LET w == wk[x] IN
  /\ At(x, "resolve")
  /\ beat[x].st = "off"
  /\ heartbeat_lease(w.c, w.v, w.t)
  /\ Become(x, [w EXCEPT !.pc = "port", !.v = @ + 1])
  /\ beat' = [beat EXCEPT ![x] = [st |-> "waiting", c |-> w.c, v |-> w.v + 1,
                                  t |-> w.t]]
  /\ UNCHANGED <<portVars, hermesVars, boundVars>>

ResolveFails(x) ==
  /\ At(x, "resolve")
  /\ \E res \in {"unavailable", "rejected"} : Finish(x, res, NoRun)
  /\ Fault
  /\ UNCHANGED <<ledgerVars, beat, portVars, hermesVars>>

\* A ledger call before the network failed: the lease is left to lapse.
LeaseLost(x) ==
  LET w == wk[x] IN
  /\ wk[x].pc \in {"gate", "resolve"}
  /\ \/ ~ _lock_active_lease(w.c, w.v, w.t) /\ UNCHANGED boundVars
     \/ Fault
  /\ Become(x, Idle)
  /\ UNCHANGED <<ledgerVars, beat, portVars, hermesVars>>

-----------------------------------------------------------------------------
(* submit_or_recover through the native port.                              *)

\* Before the POST: failures of the payload, of the journal and of the capability
\* probe, of which a retryable one reports network_attempted, hence "unknown".
PortFails(x) ==
  /\ At(x, "port")
  /\ \E res \in {"unavailable", "rejected", "unknown"} : Finish(x, res, NoRun)
  /\ Fault
  /\ UNCHANGED <<ledgerVars, beat, portVars, hermesVars>>

\* Mutant of ReplayWindowOver: an old request is replayed all the same.
ReplayWindowIgnored(c) == FALSE

ReplayWindowOver(c) == window[c] # "open"

\* NativeReceipts.reserve, and what _invoke makes of the row it returns.
Reserve(x) ==
  LET c == wk[x].c  old == receipt[c] IN
  /\ At(x, "port")
  /\ \/ /\ old.run # NoRun                        \* recovered from the journal
        /\ Finish(x, "ok", old.run)
        /\ UNCHANGED receipt
     \/ /\ old.run = NoRun                        \* replay window over, refused
        /\ old.st # "none"
        /\ ReplayWindowOver(c) \/ old.st = "rejected"
        /\ Finish(x, "rejected", NoRun)
        /\ UNCHANGED receipt
     \/ /\ old = NoReceipt                        \* session_busy
        /\ SessionBusy(c)
        /\ Finish(x, "unknown", NoRun)
        /\ UNCHANGED receipt
     \/ /\ old = NoReceipt
        /\ ~ SessionBusy(c)
        /\ receipt' = [receipt EXCEPT ![c].st = "open"]
        /\ Go(x, "post")
     \/ /\ old.run = NoRun /\ old.st = "open" /\ ~ ReplayWindowOver(c)
        /\ Go(x, "post")
        /\ UNCHANGED receipt
  /\ UNCHANGED <<ledgerVars, beat, window, hermesVars, boundVars>>

\* Hermes takes a POST with the key of c: the Run it remembers for the key, or
\* a new one.
TakePost(c, r) ==
  /\ r[1] = c
  /\ \/ key[c] = r /\ UNCHANGED <<hermes, key>>
     \/ /\ key[c] = NoRun
        /\ hermes[r] = "none"
        /\ \A q \in Runs : q[1] = c /\ q[2] < r[2] => hermes[q] # "none"
        /\ hermes' = [hermes EXCEPT ![r] = "live"]
        /\ key' = [key EXCEPT ![c] = r]

PostAccepted(x) ==
  /\ At(x, "post")
  /\ \E r \in Runs : /\ TakePost(wk[x].c, r)
                     /\ wk' = [wk EXCEPT ![x].pc = "ack", ![x].run = r]
  /\ UNCHANGED <<ledgerVars, beat, portVars, late, boundVars>>

\* Accepted, but the reply is lost or names no Run, or is not an object.
PostAcceptedUnseen(x) ==
  /\ At(x, "post")
  /\ \E r \in Runs : TakePost(wk[x].c, r)
  /\ \/ Finish(x, "unknown", NoRun)
     \/ "garbled" \in Replies /\ Finish(x, "rejected", NoRun)
  /\ Fault
  /\ UNCHANGED <<ledgerVars, beat, portVars, late>>

\* Mutant of PostTimedOut: a timeout is taken for a request never sent.
PostTimedOutRetried(x) ==
  /\ At(x, "post")
  /\ Finish(x, "unavailable", NoRun)
  /\ late' = [late EXCEPT ![wk[x].c] = TRUE]
  /\ Fault
  /\ UNCHANGED <<ledgerVars, beat, portVars, hermes, key>>

\* The client gave up waiting; the request may still arrive.
PostTimedOut(x) ==
  /\ At(x, "post")
  /\ Finish(x, "unknown", NoRun)
  /\ late' = [late EXCEPT ![wk[x].c] = TRUE]
  /\ Fault
  /\ UNCHANGED <<ledgerVars, beat, portVars, hermes, key>>

\* The Runs Hermes has of a command.
RunsOf(c) == {r \in Runs : r[1] = c /\ hermes[r] # "none"}

\* Another POST with the key of x's command was accepted or is in flight.
MayBeAccepted(x) == LET c == wk[x].c IN
  \/ RunsOf(c) # {}
  \/ late[c]
  \/ \E y \in Workers \ {x} : wk[y].pc \in {"post", "ack"} /\ wk[y].c = c

\* An error reply: only the statuses of "refused" settle the receipt.
PostRefused(x) ==
  /\ At(x, "post")
  /\ \/ /\ IF MayBeAccepted(x) THEN "refused_replay" \in Replies
                                ELSE "refused" \in Replies
        /\ Go(x, "nack")
     \/ "odd_refusal" \in Replies /\ Finish(x, "rejected", NoRun)
     \/ "server_error" \in Replies /\ Finish(x, "unknown", NoRun)
     \/ "store_down" \in Replies /\ Finish(x, "unavailable", NoRun)
  /\ Fault
  /\ UNCHANGED <<ledgerVars, beat, portVars, hermesVars>>

\* receipts.accepted keeps the first Run it recorded.
Accepted(x) == receipt' = [receipt EXCEPT ![wk[x].c].run = IF @ = NoRun THEN wk[x].run
                                                                        ELSE @]

\* An exception after the POST, from the journal or from starting the thread
\* that follows the Run, is caught by submit_or_recover and called a rejection.
Acknowledge(x) ==
  /\ At(x, "ack")
  /\ \/ Accepted(x) /\ Finish(x, "ok", wk[x].run) /\ UNCHANGED boundVars
     \/ /\ "unjournalled" \in Replies
        /\ Accepted(x) \/ UNCHANGED receipt
        /\ Finish(x, "rejected", NoRun)
        /\ Fault
  /\ UNCHANGED <<ledgerVars, beat, window, hermesVars>>

\* Mutant of SettleRefused: the refusal is reported but not journalled.
RefusedUnsettled(x) ==
  /\ At(x, "nack")
  /\ Finish(x, "rejected", NoRun)
  /\ UNCHANGED <<ledgerVars, beat, portVars, hermesVars, boundVars>>

\* receipts.rejected settles the receipt unless it has a Run; when the journal
\* cannot be written the result is the same.
SettleRefused(x) ==
  LET c == wk[x].c IN
  /\ At(x, "nack")
  /\ \/ /\ receipt' = [receipt EXCEPT ![c].st = IF receipt[c].run = NoRun
                                                  THEN "rejected" ELSE @]
        /\ UNCHANGED boundVars
     \/ "unjournalled" \in Replies /\ UNCHANGED receipt /\ Fault
  /\ Finish(x, "rejected", NoRun)
  /\ UNCHANGED <<ledgerVars, beat, window, hermesVars>>

-----------------------------------------------------------------------------
(* The result of the port.                                                 *)

\* The version the result is recorded with: the one the heartbeat thread last
\* obtained, if this call started one.
Latest(x) == IF beat[x].c = wk[x].c /\ beat[x].t = wk[x].t
               THEN beat[x].v ELSE wk[x].v

\* A thread that waits is stopped and joined.  One that has left its wait and
\* not yet taken the lock may outlive the join's timeout and call the ledger
\* after the main thread has read the latest version under the lock.
StopBeat(x) == beat' = [beat EXCEPT ![x] = IF @.st = "beating" THEN @ ELSE NoBeat]

\* _submit_with_lease_heartbeat returns.
ReadLatest(x) ==
  /\ At(x, "done")
  /\ wk[x].mode = "dispatch"
  /\ Become(x, [wk[x] EXCEPT !.pc = "record", !.v = Latest(x)])
  /\ StopBeat(x)
  /\ UNCHANGED <<ledgerVars, portVars, hermesVars, boundVars>>

\* _record_dispatch_result.
RecordResult(x) ==
  LET w == wk[x] IN
  /\ At(x, "record")
  /\ \/ w.res = "ok" /\ mark_delivered(w.c, w.v, w.t, w.run)
     \/ w.res = "rejected" /\ mark_dispatch_rejected(w.c, w.v, w.t)
     \/ w.res = "unavailable" /\ mark_dispatch_unavailable(w.c, w.v, w.t)
     \/ w.res = "unknown" /\ mark_dispatch_timeout(w.c, w.v, w.t)
  /\ Become(x, Idle)
  /\ UNCHANGED <<beat, portVars, hermesVars, boundVars>>

\* The lease or the version is gone, or the database is: the result is dropped.
RecordLost(x) ==
  LET w == wk[x] IN
  /\ At(x, "record")
  /\ \/ /\ \/ ~ _lock_active_lease(w.c, w.v, w.t)
           \/ w.res = "ok" /\ ~ RunFree(w.c, w.run)
        /\ UNCHANGED boundVars
     \/ Fault
  /\ Become(x, Idle)
  /\ UNCHANGED <<ledgerVars, beat, portVars, hermesVars>>

\* _recover_unknown_outcome, with the Run in hand.
RecordRecovery(x) ==
  LET w == wk[x] IN
  /\ At(x, "done")
  /\ w.mode = "recover"
  /\ w.res = "ok"
  /\ reconcile_outcome_as_delivered(w.c, w.v, w.run)
  /\ Become(x, [w EXCEPT !.pc = "observe", !.v = @ + 1, !.res = "none"])
  /\ UNCHANGED <<beat, portVars, hermesVars, boundVars>>

\* No Run, or the version moved: the command stays outcome_unknown.
RecoveryLost(x) ==
  LET w == wk[x] IN
  /\ At(x, "done")
  /\ w.mode = "recover"
  /\ \/ /\ \/ w.res # "ok"
           \/ cmd[w.c].version # w.v
           \/ ~ RunFree(w.c, w.run)
        /\ UNCHANGED boundVars
     \/ Fault
  /\ EndTurn(x)
  /\ UNCHANGED <<ledgerVars, beat, portVars, hermesVars>>

-----------------------------------------------------------------------------
(* Observation of a Run.                                                   *)

\* Mutant of ObservedStatus: a completed Run with partial output succeeds.
ObservedPartialSucceeds(s) == CASE s \in {"completed", "partial"} -> "succeeded"
                                [] s = "failed" -> "failed"
                                [] s = "cancelled" -> "cancelled"
                                [] OTHER -> "running"

\* The mapping of a native status; incomplete output is never a success.
ObservedStatus(s) == CASE s = "completed" -> "succeeded"
                       [] s \in {"partial", "failed"} -> "failed"
                       [] s = "cancelled" -> "cancelled"
                       [] OTHER -> "running"

\* observe settles the receipt of an ended Run before the ledger hears of it.
Observe(x) ==
  LET w == wk[x]  status == ObservedStatus(hermes[w.run]) IN
  /\ At(x, "observe")
  /\ IF status \in Terminal
       THEN /\ receipt' = [c \in Commands |->
                 IF receipt[c].run = w.run /\ receipt[c].st = "open"
                   THEN [receipt[c] EXCEPT !.st = "terminal"] ELSE receipt[c]]
            /\ Become(x, [w EXCEPT !.pc = "fold", !.obs = status])
       ELSE EndTurn(x) /\ UNCHANGED receipt
  /\ UNCHANGED <<ledgerVars, beat, window, hermesVars, boundVars>>

\* _record_terminal_observation.
Fold(x) ==
  LET w == wk[x] IN
  /\ At(x, "fold")
  /\ _mark_run_terminal(w.c, w.v, w.run, w.obs)
  /\ EndTurn(x)
  /\ UNCHANGED <<beat, portVars, hermesVars, boundVars>>

ObservationLost(x) ==
  LET w == wk[x] IN
  /\ w.pc \in {"observe", "fold"}
  /\ \/ w.pc = "fold" /\ cmd[w.c].version # w.v /\ UNCHANGED boundVars
     \/ Fault
  /\ EndTurn(x)
  /\ UNCHANGED <<ledgerVars, beat, portVars, hermesVars>>

-----------------------------------------------------------------------------
(* The heartbeat thread.                                                   *)

\* stop.wait timed out: the next call is on its way whatever happens to stop.
BeatDue(x) ==
  /\ beat[x].st = "waiting"
  /\ beats < MaxBeats
  /\ beat' = [beat EXCEPT ![x].st = "beating"]
  /\ beats' = beats + 1
  /\ UNCHANGED <<ledgerVars, wk, portVars, hermesVars, faults, polls>>

\* The thread's call returned: it waits again while the main thread is still
\* in the call that started it.
InCall(x) == /\ wk[x].pc \in {"port", "post", "ack", "nack", "done"}
             /\ wk[x].mode = "dispatch"
             /\ wk[x].c = beat[x].c /\ wk[x].t = beat[x].t

Beat(x) ==
  LET b == beat[x] IN
  /\ b.st = "beating"
  /\ heartbeat_lease(b.c, b.v, b.t)
  /\ beat' = [beat EXCEPT ![x] = IF InCall(x)
                THEN [b EXCEPT !.st = "waiting", !.v = @ + 1] ELSE NoBeat]
  /\ UNCHANGED <<wk, portVars, hermesVars, boundVars>>

\* Any failure ends the thread; the version it had stays the latest known.
BeatFails(x) ==
  LET b == beat[x] IN
  /\ b.st = "beating"
  /\ ~ _lock_active_lease(b.c, b.v, b.t)
  /\ beat' = [beat EXCEPT ![x] = IF InCall(x) THEN [b EXCEPT !.st = "over"]
                                              ELSE NoBeat]
  /\ UNCHANGED <<ledgerVars, wk, portVars, hermesVars, boundVars>>

-----------------------------------------------------------------------------
(* The environment: time, Hermes and the process supervisor.               *)

Holds(x, c) == wk[x].mode = "dispatch" /\ wk[x].c = c /\ wk[x].t = cmd[c].token

\* The lease of a worker that is still at it: a stalled process.
LeaseLapsesEarly(c) ==
  /\ \E x \in Workers : Holds(x, c)
  /\ LeaseLapses(c)
  /\ Fault
  /\ UNCHANGED <<wk, beat, portVars, hermesVars>>

LeaseLapsesOrphaned(c) ==
  /\ \A x \in Workers : ~ Holds(x, c)
  /\ LeaseLapses(c)
  /\ UNCHANGED <<wk, beat, portVars, hermesVars, boundVars>>

RetryDue(c) == /\ RetryComesDue(c)
               /\ UNCHANGED <<wk, beat, portVars, hermesVars, boundVars>>

PayloadOver(c) == /\ PayloadExpires(c)
                  /\ UNCHANGED <<wk, beat, portVars, hermesVars, boundVars>>

RunEnds(r) ==
  /\ hermes[r] = "live"
  /\ \E s \in Outcomes : hermes' = [hermes EXCEPT ![r] = s]
  /\ UNCHANGED <<ledgerVars, wk, beat, portVars, key, late, boundVars>>

\* A POST that outlived its client arrives, or never does.
LatePost(c) ==
  /\ late[c]
  /\ \/ \E r \in Runs : TakePost(c, r)
     \/ UNCHANGED <<hermes, key>>
  /\ late' = [late EXCEPT ![c] = FALSE]
  /\ UNCHANGED <<ledgerVars, wk, beat, portVars, boundVars>>

InFlight(c) == late[c] \/ \E x \in Workers : At(x, "post") /\ wk[x].c = c

\* The retention passes.  reserve compares the age of the receipt before the POST
\* and leaves no margin, so a request may be on its way.
WindowCloses(c) ==
  /\ receipt[c].st # "none"
  /\ window[c] = "open"
  /\ window' = [window EXCEPT ![c] = IF InFlight(c) THEN "astride" ELSE "over"]
  /\ Fault
  /\ UNCHANGED <<ledgerVars, wk, beat, receipt, hermesVars>>

\* Hermes forgets a key no earlier than the journal gives it up.
HermesForgets(c) ==
  /\ window[c] # "open"
  /\ key[c] # NoRun
  /\ key' = [key EXCEPT ![c] = NoRun]
  /\ UNCHANGED <<ledgerVars, wk, beat, portVars, hermes, late, boundVars>>

\* The process dies with its threads and is started again; a POST it had sent
\* is still on its way.
Crash(x) ==
  /\ wk[x] # Idle \/ beat[x] # NoBeat
  /\ Become(x, Idle)
  /\ beat' = [beat EXCEPT ![x] = NoBeat]
  /\ late' = IF At(x, "post") THEN [late EXCEPT ![wk[x].c] = TRUE] ELSE late
  /\ Fault
  /\ UNCHANGED <<ledgerVars, portVars, hermes, key>>

-----------------------------------------------------------------------------
Cycle(x) ==
  \/ BeginCycle(x) \/ ListActiveRuns(x) \/ EndTurns(x) \/ ClaimNothing(x)
  \/ \E c \in Commands : Claim(x, c)
  \/ \E t \in wk[x].todo : StartTurn(x, t[1], t[2]) \/ SkipTurn(x, t[1], t[2])

Dispatch(x) ==
  \/ StartDispatch(x) \/ ResolveAndBeat(x) \/ ResolveFails(x) \/ LeaseLost(x)
  \/ ReadLatest(x) \/ RecordResult(x) \/ RecordLost(x)

Port(x) ==
  \/ PortFails(x) \/ Reserve(x) \/ PostAccepted(x) \/ PostAcceptedUnseen(x)
  \/ PostTimedOut(x) \/ PostRefused(x) \/ Acknowledge(x) \/ SettleRefused(x)

Recovery(x) == \/ RecordRecovery(x) \/ RecoveryLost(x)
               \/ Observe(x) \/ Fold(x) \/ ObservationLost(x)

MainThread(x) == Cycle(x) \/ Dispatch(x) \/ Port(x) \/ Recovery(x)

BeatThread(x) == Beat(x) \/ BeatFails(x)

Environment ==
  \/ \E c \in Commands :
       \/ CreateCommand(c) \/ CancelCommand(c)
       \/ LeaseLapsesEarly(c) \/ LeaseLapsesOrphaned(c)
       \/ RetryDue(c) \/ PayloadOver(c)
       \/ LatePost(c) \/ WindowCloses(c) \/ HermesForgets(c)
  \/ \E r \in Runs : RunEnds(r)
  \/ \E x \in Workers : Crash(x)

Next == \/ \E x \in Workers : MainThread(x) \/ BeatThread(x) \/ BeatDue(x)
        \/ Environment

Spec == Init /\ [][Next]_vars

-----------------------------------------------------------------------------
(* Fairness.  A worker's process runs its loop (launchd restarts it), the  *)
(* HTTP client and the ledger calls time out, so the main thread always    *)
(* gets on; leases nobody extends lapse, back-offs end and Runs end.       *)

Fairness ==
  /\ \A x \in Workers : WF_vars(MainThread(x)) /\ WF_vars(BeatThread(x))
  /\ \A c \in Commands : WF_vars(LeaseLapsesOrphaned(c)) /\ WF_vars(RetryDue(c))
  /\ \A r \in Runs : WF_vars(RunEnds(r))

FairSpec == Spec /\ Fairness

-----------------------------------------------------------------------------
(* Properties.                                                             *)

Dispatching(x, c) == /\ wk[x].mode = "dispatch" /\ wk[x].c = c
                     /\ wk[x].pc \in {"resolve", "port", "post", "ack", "nack"}

\* Nothing of c is at Hermes or can still arrive there.
NothingSent(c) == RunsOf(c) = {} /\ ~ InFlight(c)

\* Every variable is in its range: the worker's locals in _claim_and_dispatch
\* and _reconcile_active_runs, the journal, and the server as the port sees it.
TypeOK ==
  /\ LedgerTypeOK
  /\ wk \in [Workers -> [pc : PC, mode : {"none", "dispatch", "recover"},
                         c : Commands \cup {NoCommand}, v : Nat, t : Nat,
                         todo : SUBSET (Commands \X Nat), res : Result,
                         run : Runs \cup {NoRun},
                         obs : Terminal \cup {"none"}]]
  /\ beat \in [Workers -> [st : {"off", "waiting", "beating", "over"},
                           c : Commands \cup {NoCommand}, v : Nat, t : Nat]]
  /\ receipt \in [Commands -> [st : {"none", "open", "rejected", "terminal"},
                               run : Runs \cup {NoRun}]]
  /\ window \in [Commands -> {"open", "over", "astride"}]
  /\ hermes \in [Runs -> Ended \cup {"none", "live"}]
  /\ key \in [Commands -> Runs \cup {NoRun}]
  /\ late \in [Commands -> BOOLEAN]

\* However many times a command is submitted, recovered, timed out and replayed
\* by whichever workers, Hermes holds at most one Run of it, also after it has
\* forgotten the key; unless a request was on its way when the retention ended.
AtMostOneRun ==
  \A c \in Commands : window[c] # "astride" => Cardinality(RunsOf(c)) <= 1

\* What the ledger says of a Run is so in Hermes: the Run it names belongs to
\* the command, and a terminal state taken from an observation is how it ended,
\* however long ago it was taken; output that is incomplete never succeeded.
LedgerTellsHermes ==
  \A c \in Commands : cmd[c].run # NoRun =>
    /\ cmd[c].run \in RunsOf(c)
    /\ cmd[c].state = "succeeded" => hermes[cmd[c].run] = "completed"
    /\ cmd[c].state = "failed" => hermes[cmd[c].run] \in {"partial", "failed"}
    /\ cmd[c].state = "cancelled" => hermes[cmd[c].run] = "cancelled"

\* A command that waits in the queue or was cancelled there has no Run at Hermes
\* and no request for one under way: requeueing is never a blind retry.  One that
\* failed without a Run may have either, when the reply could not be read or
\* journalled, but then its receipt is open and keeps the session from its next
\* turn.
UnsentOrHeld ==
  \A c \in Commands : cmd[c].run = NoRun =>
    /\ cmd[c].state \in {"queued", "cancelled"} => NothingSent(c)
    /\ cmd[c].state = "failed" => NothingSent(c) \/ receipt[c].st = "open"

\* "Record a definitive upstream rejection" (mark_dispatch_rejected): a command is
\* queued, cancelled or failed without a Run only if nothing of it was sent.
UnsentUnlessRecorded ==
  \A c \in Commands :
    /\ cmd[c].state \in {"queued", "cancelled", "failed"}
    /\ cmd[c].run = NoRun
    => NothingSent(c)

\* The lease fences the network: two workers are never both dispatching one
\* command, even when the first one's lease has lapsed unnoticed.
DispatchExclusive ==
  \A c \in Commands, x, y \in Workers :
    Dispatching(x, c) /\ Dispatching(y, c) => x = y

\* Turns of one managed session do not overlap: an unsettled receipt blocks the
\* next turn until the Run it may have started has ended.  A command with a
\* request on its way at the end of the retention is excepted, see AtMostOneRun.
OneLiveRunPerSession ==
  \A r, q \in Runs :
    /\ hermes[r] = "live" /\ hermes[q] = "live"
    /\ "astride" \notin {window[r[1]], window[q[1]]}
    /\ SessionOf[r[1]] = SessionOf[q[1]]
    => r = q

\* A command that is over does not keep its session: its receipt is settled
\* (or was never written), so the session's next turn is not busy for ever.
OverReleasesSession ==
  \A c \in Commands :
    cmd[c].state \in Terminal /\ window[c] # "astride" => receipt[c].st # "open"

\* No retry of c through the journal can ever succeed: its POST was refused or
\* its replay window closed before a Run was recorded.
Refused(c) == /\ receipt[c].run = NoRun
              /\ receipt[c].st = "rejected" \/ (receipt[c].st = "open" /\ window[c] # "open")

\* A command in the queue reaches a terminal state in the end, whoever crashes
\* with its lease in hand, or its outcome is unknown and the journal refuses every
\* retry (its own or, by the session, the one before it).
CommandsSettle ==
  \A c \in Commands :
    cmd[c].state = "queued" ~>
      \/ cmd[c].state \in Terminal
      \/ /\ cmd[c].state = "outcome_unknown"
         /\ \E d \in Commands : SessionOf[d] = SessionOf[c] /\ Refused(d)

=============================================================================
