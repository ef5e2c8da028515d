--------------------------- MODULE ManagedSessions ---------------------------
(***************************************************************************)
(* Managed Hermes sessions: the create and fork submissions that register  *)
(* them, and the provisioner that leases a registered row, has Hermes make *)
(* the session and records the outcome with a compare-and-set.             *)
(*                                                                         *)
(* A session stands for the client action that asks for it: its identity   *)
(* is derived from the action's digest.  Two actions may carry the same    *)
(* client_action_id.  Workers are provisioners of overlapping connector    *)
(* processes.  Hermes is external: a request given up on may still be      *)
(* carried out.  The provisioner runs behind an open network gate.         *)
(***************************************************************************)
EXTENDS Naturals

CONSTANTS
  Sessions, Workers, NoSession,
  Observed,       \* external sessions, already registered and at Hermes
  Parent,         \* the source a session is forked from, or NoSession
  Key,            \* creation_client_action_id
  NativeWorkers,  \* workers with the official HTTP port; the others use the
                  \* subprocess port
  MaxAttempts,    \* max_attempts
  MaxCrashes,     \* bound on abandoned claims
  MaxTakeovers    \* bound on leases that run out under a live worker

ASSUME LineageAssumption ==
  /\ Observed \subseteq Sessions /\ NoSession \notin Sessions
  /\ Parent \in [Sessions -> Sessions \union {NoSession}]
  /\ \A s \in Observed : Parent[s] = NoSession
  /\ DOMAIN Key = Sessions
  /\ MaxAttempts \in Nat \ {0} /\ {MaxCrashes, MaxTakeovers} \subseteq Nat

VARIABLES
  row,      \* hermes_workspace_sessions
  receipt,  \* what the client was last told of its action
  worker,   \* a provisioner inside provision_next
  hermes,   \* sessions that exist at Hermes
  late,     \* creations under way at Hermes that nobody waits for
  crashes

vars == <<row, receipt, worker, hermes, late, crashes>>

Managed == Sessions \ Observed
Settled == {"ready", "failed"}
Registered(s) == row[s].state # "absent"
Idle == [pc |-> "idle", s |-> NoSession, version |-> 0, attempts |-> 0]

-----------------------------------------------------------------------------
(* submit_create_managed_session and submit_fork_into_managed_session. *)

SourceMissing(s) == Parent[s] # NoSession /\ ~Registered(Parent[s])

KeyTaken_unchecked(s) == FALSE

KeyTaken(s) == \E t \in Managed \ {s} : Registered(t) /\ Key[t] = Key[s]

\* The exact action again finds its own row and changes nothing.
register_workspace_session(s) ==
  row' = [row EXCEPT ![s].state = IF @ = "absent" THEN "pending" ELSE @]

\* A client repeats its action until it is told that it is accepted.
submit(s) ==
  /\ receipt[s] # "accepted"
  /\ \/ /\ SourceMissing(s) \/ KeyTaken(s)
        /\ receipt' = [receipt EXCEPT ![s] = "conflict"]
        /\ UNCHANGED row
     \/ /\ ~SourceMissing(s) /\ ~KeyTaken(s)
        /\ register_workspace_session(s)
        /\ \E r \in {"accepted", "reconciling"} : receipt' = [receipt EXCEPT ![s] = r]
     \/ /\ ~SourceMissing(s)
        /\ receipt' = [receipt EXCEPT ![s] = "reconciling"]
        /\ UNCHANGED row
  /\ UNCHANGED <<worker, hermes, late, crashes>>

-----------------------------------------------------------------------------
(* provision_next. *)

ParentReady(s) ==
  Parent[s] # NoSession => Parent[s] \in Observed \/ row[Parent[s]].state = "ready"

Due_unleased(s) == \/ row[s].state = "pending"
                   \/ row[s].state = "retryable" /\ row[s].elapsed

Due(s) == \/ row[s].state = "pending"
          \/ row[s].state = "retryable" /\ row[s].elapsed
          \/ row[s].state = "leased" /\ row[s].elapsed

\* An expired lease is taken over whatever its number of attempts.
_claim_next(w, s) ==
  /\ worker[w].pc = "idle" /\ s \in Managed
  /\ Due(s) /\ ParentReady(s)
  /\ row' = [row EXCEPT ![s] = [state |-> "leased", version |-> @.version + 1,
                                attempts |-> @.attempts + 1, elapsed |-> FALSE]]
  /\ worker' = [worker EXCEPT ![w] =
       [pc |-> IF Parent[s] = NoSession THEN "get" ELSE "fork",
        s |-> s, version |-> row'[s].version, attempts |-> row'[s].attempts]]
  /\ UNCHANGED <<receipt, hermes, late, crashes>>

Answer(w, pc) == worker' = [worker EXCEPT ![w].pc = pc]

\* ensure_session asks for the session first: found is a recovery, an error
\* other than not-found is retried, a document of another session is not.
GetSession(w) ==
  /\ worker[w].pc = "get"
  /\ \/ Answer(w, IF worker[w].s \in hermes THEN "made" ELSE "post")
     \/ Answer(w, "retry")
     \/ worker[w].s \in hermes /\ Answer(w, "refused")
  /\ UNCHANGED <<row, receipt, hermes, late, crashes>>

PostSession_blind(w) ==
  /\ worker[w].pc = "post"
  /\ Answer(w, "made")
  /\ \/ hermes' = hermes \union {worker[w].s} /\ UNCHANGED late
     \/ late' = (late \union {worker[w].s}) \ hermes /\ UNCHANGED hermes
  /\ UNCHANGED <<row, receipt, crashes>>

\* The creating request: done, refused (the session exists by now, or Hermes
\* is busy), done with its answer lost or unusable, or still to be done.
PostSession(w) ==
  /\ worker[w].pc = "post"
  /\ \/ /\ hermes' = hermes \union {worker[w].s}
        /\ \E pc \in {"made", "retry", "refused"} : Answer(w, pc)
        /\ UNCHANGED late
     \/ Answer(w, "retry") /\ UNCHANGED <<hermes, late>>
     \/ /\ late' = (late \union {worker[w].s}) \ hermes
        /\ Answer(w, "retry") /\ UNCHANGED hermes
  /\ UNCHANGED <<row, receipt, crashes>>

\* fork_session: the native port refuses every fork; the subprocess port's
\* call is idempotent by the action digest and refused without its source.
ForkSession(w) ==
  /\ worker[w].pc = "fork"
  /\ LET source == Parent[worker[w].s] IN
     \/ /\ w \in NativeWorkers \/ source \notin hermes
        /\ Answer(w, "refused") /\ UNCHANGED <<hermes, late>>
     \/ /\ w \notin NativeWorkers /\ source \in hermes
        /\ \/ /\ hermes' = hermes \union {worker[w].s}
              /\ \E pc \in {"made", "retry", "refused"} : Answer(w, pc)
              /\ UNCHANGED late
           \/ /\ late' = (late \union {worker[w].s}) \ hermes
              /\ Answer(w, "retry") /\ UNCHANGED hermes
     \/ Answer(w, "retry") /\ UNCHANGED <<hermes, late>>
  /\ UNCHANGED <<row, receipt, crashes>>

\* The compare-and-set of both writers: state, version and token, not the
\* clock.
HoldsLease(w) == /\ row[worker[w].s].state = "leased"
                 /\ row[worker[w].s].version = worker[w].version

Settle_uncompared(w, state) ==
  /\ worker' = [worker EXCEPT ![w] = Idle]
  /\ row' = [row EXCEPT ![worker[w].s] =
               [state |-> state, version |-> @.version + 1,
                attempts |-> @.attempts, elapsed |-> FALSE]]
  /\ UNCHANGED <<receipt, hermes, late, crashes>>

Settle(w, state) ==
  /\ worker' = [worker EXCEPT ![w] = Idle]
  /\ row' = IF HoldsLease(w)
            THEN [row EXCEPT ![worker[w].s] =
                    [state |-> state, version |-> @.version + 1,
                     attempts |-> @.attempts, elapsed |-> FALSE]]
            ELSE row
  /\ UNCHANGED <<receipt, hermes, late, crashes>>

_mark_ready(w) == worker[w].pc = "made" /\ Settle(w, "ready")

_record_failure_misnamed(w) ==
  /\ worker[w].pc \in {"retry", "refused"}
  /\ Settle(w, IF worker[w].pc = "retry" /\ worker[w].attempts < MaxAttempts
               THEN "retry_scheduled" ELSE "failed")

_record_failure(w) ==
  /\ worker[w].pc \in {"retry", "refused"}
  /\ Settle(w, IF worker[w].pc = "retry" /\ worker[w].attempts < MaxAttempts
               THEN "retryable" ELSE "failed")

\* The process dies, or the registry cannot be reached to record the outcome.
Abandon(w) ==
  /\ worker[w].pc # "idle" /\ crashes < MaxCrashes
  /\ worker' = [worker EXCEPT ![w] = Idle] /\ crashes' = crashes + 1
  /\ UNCHANGED <<row, receipt, hermes, late>>

\* A lease runs out, with or without a worker behind it, or a retry is due.
TimePasses(s) ==
  /\ row[s].state \in {"leased", "retryable"} /\ ~row[s].elapsed
  /\ row[s].state = "leased" /\ (\E w \in Workers : worker[w].s = s) =>
       row[s].attempts <= MaxTakeovers
  /\ row' = [row EXCEPT ![s].elapsed = TRUE]
  /\ UNCHANGED <<receipt, worker, hermes, late, crashes>>

LateEffect(s) ==
  /\ s \in late
  /\ late' = late \ {s} /\ hermes' = hermes \union {s}
  /\ UNCHANGED <<row, receipt, worker, crashes>>

-----------------------------------------------------------------------------
Init ==
  /\ row = [s \in Sessions |-> [state |-> IF s \in Observed THEN "observed" ELSE "absent",
                                version |-> 0, attempts |-> 0, elapsed |-> FALSE]]
  /\ receipt = [s \in Sessions |-> "none"]
  /\ worker = [w \in Workers |-> Idle]
  /\ hermes = Observed /\ late = {} /\ crashes = 0

provision_next(w) ==
  \/ \E s \in Managed : _claim_next(w, s)
  \/ GetSession(w) \/ PostSession(w) \/ ForkSession(w)
  \/ _mark_ready(w) \/ _record_failure(w)

Next ==
  \/ \E s \in Managed : submit(s) \/ TimePasses(s) \/ LateEffect(s)
  \/ \E w \in Workers : provision_next(w) \/ Abandon(w)

Spec == Init /\ [][Next]_vars

\* Every connector cycle calls provision_next, its requests have timeouts,
\* and the clock moves.  Clients, crashes and late effects owe nothing.
FairSpec ==
  /\ Spec
  /\ \A w \in Workers : WF_vars(provision_next(w))
  /\ \A s \in Managed : WF_vars(TimePasses(s))

-----------------------------------------------------------------------------
(* Properties. *)

\* Columns and program counters have their types; versions count two writes
\* per claim at most.
TypeOK ==
  /\ \A s \in Sessions :
       /\ row[s].state \in {"absent", "observed", "pending", "leased", "retryable"} \union Settled
       /\ row[s].version \in Nat /\ row[s].attempts \in Nat /\ row[s].elapsed \in BOOLEAN
       /\ row[s].version <= 2 * row[s].attempts
  /\ receipt \in [Sessions -> {"none", "accepted", "reconciling", "conflict"}]
  /\ worker \in [Workers -> [pc : {"idle", "get", "post", "fork", "made", "retry", "refused"},
                             s : Managed \union {NoSession}, version : Nat, attempts : Nat]]
  /\ hermes \subseteq Sessions /\ late \subseteq Sessions /\ crashes \in 0..MaxCrashes

\* A session the web may write to exists at Hermes, and so does the source
\* it was forked from, through lost answers, late creations and workers that
\* come back after their lease.  No fork is asked of Hermes before its source
\* exists there.
ReadyIsReal ==
  /\ \A s \in Managed : row[s].state = "ready" =>
       /\ s \in hermes
       /\ Parent[s] # NoSession => Parent[s] \in hermes
  /\ \A w \in Workers : worker[w].pc = "fork" => Parent[worker[w].s] \in hermes

\* An action the client was told is accepted is registered, and no other
\* session was registered under its client_action_id, through retries after
\* lost answers and the same key sent with different facts.
AcceptedOncePerKey ==
  \A s \in Managed : receipt[s] = "accepted" =>
    Registered(s) /\ \A t \in Managed : Registered(t) /\ Key[t] = Key[s] => t = s

\* A ready or failed session is never written again: a worker whose lease
\* was taken over loses, whatever it brings.
SettledStands ==
  [][\A s \in Managed : row[s].state \in Settled => row'[s] = row[s]]_vars

\* Every registered session whose source is ready ends ready or failed, with
\* crashes between any two steps of its provisioning.
SessionsSettle ==
  \A s \in Managed : Registered(s) /\ ParentReady(s) ~> row[s].state \in Settled
=============================================================================
