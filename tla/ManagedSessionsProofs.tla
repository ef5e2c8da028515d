------------------------ MODULE ManagedSessionsProofs ------------------------
(***************************************************************************)
(* Proofs about ManagedSessions for any sessions, lineage, keys, workers   *)
(* and bounds.                                                             *)
(*                                                                         *)
(* ReadyIsReal is not inductive: what a worker writes was learnt several   *)
(* steps earlier, possibly under a lease that has been taken over since.   *)
(* SourceReal carries the source's existence from the claim on, through    *)
(* retries and takeovers; WorkerKnows says what each place of the          *)
(* provisioner has established.  Both rest on Hermes never losing a        *)
(* session.  AcceptedOncePerKey rests on KeysUnique, which says the same   *)
(* of all registered rows, accepted or not.                                *)
(***************************************************************************)
EXTENDS ManagedSessions, TLAPS

RowState == {"absent", "observed", "pending", "leased", "retryable"} \union Settled
RowType == [state : RowState, version : Nat, attempts : Nat, elapsed : BOOLEAN]
WorkerType == [pc : {"idle", "get", "post", "fork", "made", "retry", "refused"},
               s : Managed \union {NoSession}, version : Nat, attempts : Nat]

\* The rows as records, the rest as in TypeOK.
Typed ==
  /\ row \in [Sessions -> RowType]
  /\ receipt \in [Sessions -> {"none", "accepted", "reconciling", "conflict"}]
  /\ worker \in [Workers -> WorkerType]
  /\ hermes \subseteq Sessions /\ late \subseteq Sessions /\ crashes \in 0..MaxCrashes

\* A claim writes once and its outcome once more.
VersionsCount ==
  \A s \in Sessions :
    /\ row[s].version <= 2 * row[s].attempts
    /\ row[s].state = "leased" => row[s].version < 2 * row[s].attempts

\* The source of a session, if it has one, exists at Hermes.
SourceExists(s) == Parent[s] # NoSession => Parent[s] \in hermes

\* Whatever was claimed once has a source that exists; what is ready exists.
SourceReal ==
  /\ Observed \subseteq hermes
  /\ \A s \in Managed :
       /\ row[s].state \in {"leased", "retryable"} \union Settled => SourceExists(s)
       /\ row[s].state = "ready" => s \in hermes

\* What a worker knows at its place, whatever has become of its lease.
WorkerKnows ==
  \A w \in Workers : worker[w].pc # "idle" =>
    /\ worker[w].s \in Managed
    /\ SourceExists(worker[w].s)
    /\ worker[w].pc = "fork" => Parent[worker[w].s] # NoSession
    /\ worker[w].pc = "made" => worker[w].s \in hermes

\* No two registered sessions share a client_action_id.
KeysUnique ==
  /\ \A s \in Managed : receipt[s] = "accepted" => Registered(s)
  /\ \A s, t \in Managed : Registered(s) /\ Registered(t) /\ Key[s] = Key[t] => s = t

\* The inductive invariant.
SessionInv == Typed /\ VersionsCount /\ SourceReal /\ WorkerKnows /\ KeysUnique

\* The invariant contains the properties that the runs check.
LEMMA SessionInvImplies == SessionInv => TypeOK /\ ReadyIsReal /\ AcceptedOncePerKey
<1> SUFFICES ASSUME SessionInv PROVE TypeOK /\ ReadyIsReal /\ AcceptedOncePerKey
  OBVIOUS
<1>1. TypeOK
  BY DEF SessionInv, Typed, VersionsCount, TypeOK, RowType, RowState, WorkerType, Settled
<1>2. ReadyIsReal
  BY DEF SessionInv, SourceReal, WorkerKnows, SourceExists, ReadyIsReal, Settled
<1>3. AcceptedOncePerKey
  BY DEF SessionInv, KeysUnique, AcceptedOncePerKey
<1> QED BY <1>1, <1>2, <1>3

\* Only the external sessions exist at first.
LEMMA SessionInvInit == Init => SessionInv
<1> SUFFICES ASSUME Init PROVE SessionInv
  OBVIOUS
<1> USE LineageAssumption DEF Init
<1>1. Typed
  BY DEF Typed, RowType, RowState, WorkerType, Idle
<1>2. VersionsCount
  <2>1. \A s \in Sessions : /\ row[s].version = 0 /\ row[s].attempts = 0
                           /\ row[s].state # "leased"
    OBVIOUS
  <2>2. 2 * 0 = 0
    OBVIOUS
  <2>3. ASSUME NEW s \in Sessions
        PROVE  /\ row[s].version <= 2 * row[s].attempts
               /\ row[s].state = "leased" => row[s].version < 2 * row[s].attempts
    BY <2>1, <2>2
  <2> QED BY <2>3 DEF VersionsCount
<1>3. SourceReal
  BY DEF SourceReal, Managed, Settled
<1>4. WorkerKnows
  BY DEF WorkerKnows, Idle
<1>5. KeysUnique
  BY DEF KeysUnique, Registered, Managed
<1> QED BY <1>1, <1>2, <1>3, <1>4, <1>5 DEF SessionInv

\* One row is replaced by one with the same columns; the rest stand still.
LEMMA RowWritten ==
  ASSUME Typed, NEW s \in Sessions, NEW new \in RowType,
         row' = [row EXCEPT ![s] = new]
  PROVE  /\ row' \in [Sessions -> RowType]
         /\ row'[s] = new
         /\ \A t \in Sessions \ {s} : row'[t] = row[t]
BY DEF Typed

\* A worker moves to another place with its claim; the rest stand still.
LEMMA WorkerAnswers ==
  ASSUME Typed, NEW w \in Workers,
         NEW pc \in {"get", "post", "fork", "made", "retry", "refused"},
         Answer(w, pc)
  PROVE  /\ worker' \in [Workers -> WorkerType]
         /\ worker'[w].pc = pc /\ worker'[w].s = worker[w].s
         /\ \A v \in Workers \ {w} : worker'[v] = worker[v]
<1>1. worker[w] \in WorkerType
  BY DEF Typed
<1>2. /\ worker' = [worker EXCEPT ![w] = [worker[w] EXCEPT !.pc = pc]]
  BY DEF Answer, Typed
<1>3. LET n == [worker[w] EXCEPT !.pc = pc]
      IN  n \in WorkerType /\ n.pc = pc /\ n.s = worker[w].s
  BY <1>1 DEF WorkerType
<1> QED BY <1>2, <1>3 DEF Typed

\* A worker that only moves between requests, with Hermes no smaller.
LEMMA AnswerKeeps ==
  ASSUME SessionInv, NEW w \in Workers, worker[w].pc # "idle",
         NEW pc \in {"get", "post", "fork", "made", "retry", "refused"},
         Answer(w, pc), pc # "fork",
         UNCHANGED <<row, receipt, crashes>>,
         hermes' \in SUBSET Sessions, hermes \subseteq hermes',
         pc = "made" => worker[w].s \in hermes',
         late' \in SUBSET Sessions
  PROVE  SessionInv'
<1>1. /\ worker' \in [Workers -> WorkerType]
      /\ worker'[w].pc = pc /\ worker'[w].s = worker[w].s
      /\ \A v \in Workers \ {w} : worker'[v] = worker[v]
  BY WorkerAnswers DEF SessionInv
<1>2. Typed'
  BY <1>1 DEF SessionInv, Typed
<1>3. VersionsCount' /\ KeysUnique'
  BY DEF SessionInv, VersionsCount, KeysUnique, Registered
<1>4. SourceReal'
  BY DEF SessionInv, SourceReal, SourceExists
<1>5. WorkerKnows'
  BY <1>1 DEF SessionInv, WorkerKnows, SourceExists
<1> QED BY <1>2, <1>3, <1>4, <1>5 DEF SessionInv

\* GetSession, PostSession and ForkSession.
LEMMA RequestKeeps ==
  ASSUME SessionInv, NEW w \in Workers,
         GetSession(w) \/ PostSession(w) \/ ForkSession(w)
  PROVE  SessionInv'
<1>1. /\ worker[w].pc # "idle" /\ hermes \subseteq Sessions /\ late \subseteq Sessions
      /\ worker[w].s \in Sessions
  BY DEF SessionInv, Typed, WorkerKnows, GetSession, PostSession, ForkSession, Managed
<1>2. CASE GetSession(w)
  BY <1>1, <1>2, AnswerKeeps DEF GetSession
<1>3. CASE PostSession(w)
  <2>1. hermes \union {worker[w].s} \in SUBSET Sessions
    BY <1>1
  <2>2. (late \union {worker[w].s}) \ hermes \in SUBSET Sessions
    BY <1>1
  <2> QED BY <1>1, <1>3, <2>1, <2>2, AnswerKeeps DEF PostSession
<1>4. CASE ForkSession(w)
  <2>1. hermes \union {worker[w].s} \in SUBSET Sessions
    BY <1>1
  <2>2. (late \union {worker[w].s}) \ hermes \in SUBSET Sessions
    BY <1>1
  <2> QED BY <1>1, <1>4, <2>1, <2>2, AnswerKeeps DEF ForkSession
<1> QED BY <1>2, <1>3, <1>4

\* submit registers a row at most, and only under a key that is free.
LEMMA SubmitKeeps ==
  ASSUME SessionInv, NEW s \in Managed, submit(s)
  PROVE  SessionInv'
<1>1. s \in Sessions /\ row[s] \in RowType /\ Typed
  BY DEF SessionInv, Typed, Managed
<1>2. CASE UNCHANGED row /\ receipt' \in [Sessions -> {"none", "accepted", "reconciling", "conflict"}]
           /\ \A t \in Managed : receipt'[t] = "accepted" => receipt[t] = "accepted"
  BY <1>2 DEF SessionInv, Typed, VersionsCount, SourceReal, SourceExists, WorkerKnows,
              KeysUnique, Registered, submit
<1>3. CASE ~KeyTaken(s) /\ register_workspace_session(s)
           /\ \E r \in {"accepted", "reconciling"} : receipt' = [receipt EXCEPT ![s] = r]
  <2> DEFINE new == [row[s] EXCEPT !.state = IF @ = "absent" THEN "pending" ELSE @]
  <2>1. /\ new \in RowType
        /\ new.state = IF row[s].state = "absent" THEN "pending" ELSE row[s].state
        /\ new.version = row[s].version /\ new.attempts = row[s].attempts
    BY <1>1 DEF RowType, RowState
  <2>2. row' = [row EXCEPT ![s] = new]
    BY <1>1, <1>3 DEF register_workspace_session, Typed
  <2> HIDE DEF new
  <2>3. /\ row' \in [Sessions -> RowType]
        /\ row'[s] = new
        /\ \A t \in Sessions \ {s} : row'[t] = row[t]
    BY <1>1, <2>1, <2>2, RowWritten
  <2>4. Typed'
    BY <1>1, <1>3, <2>3 DEF Typed, submit
  <2>5. VersionsCount'
    BY <2>1, <2>3 DEF SessionInv, VersionsCount
  <2>6. SourceReal' /\ WorkerKnows'
    BY <1>1, <2>1, <2>3 DEF SessionInv, SourceReal, SourceExists, WorkerKnows, Managed,
                            Settled, submit
  <2>7. /\ \A t \in Managed : Registered(t)' <=> t = s \/ Registered(t)
        /\ \A t \in Managed : receipt'[t] = "accepted" => t = s \/ receipt[t] = "accepted"
    BY <1>1, <1>3, <2>1, <2>3 DEF Registered, Typed, Managed
  <2>8. \A t \in Managed : Registered(t) /\ Key[t] = Key[s] => t = s
    BY <1>3 DEF KeyTaken
  <2>9. KeysUnique'
    BY <2>7, <2>8 DEF SessionInv, KeysUnique
  <2> QED BY <2>4, <2>5, <2>6, <2>9 DEF SessionInv
<1>4. ASSUME NEW r \in {"conflict", "reconciling"}, UNCHANGED row,
             receipt' = [receipt EXCEPT ![s] = r]
      PROVE  SessionInv'
  BY <1>1, <1>2, <1>4 DEF Typed, Managed
<1> QED BY <1>3, <1>4 DEF submit

\* A claim finds the source ready, hence real.
LEMMA ClaimKeeps ==
  ASSUME SessionInv, NEW w \in Workers, NEW s \in Managed, _claim_next(w, s)
  PROVE  SessionInv'
<1> DEFINE new == [state |-> "leased", version |-> row[s].version + 1,
                   attempts |-> row[s].attempts + 1, elapsed |-> FALSE]
           job == [pc |-> IF Parent[s] = NoSession THEN "get" ELSE "fork",
                   s |-> s, version |-> new.version, attempts |-> new.attempts]
<1>1. s \in Sessions /\ row[s] \in RowType /\ Typed
  BY DEF SessionInv, Typed, Managed
<1>2. /\ new \in RowType /\ new.state = "leased" /\ new.version = row[s].version + 1
      /\ new.attempts = row[s].attempts + 1
  BY <1>1 DEF RowType, RowState
<1>3. row' = [row EXCEPT ![s] = new]
  BY <1>1 DEF _claim_next, Typed
<1>4. /\ row' \in [Sessions -> RowType]
      /\ row'[s] = new
      /\ \A t \in Sessions \ {s} : row'[t] = row[t]
  BY <1>1, <1>2, <1>3, RowWritten
<1>5. worker' = [worker EXCEPT ![w] = job]
  BY <1>4 DEF _claim_next
<1>6. /\ job \in WorkerType /\ job.s = s /\ job.pc \in {"get", "fork"}
      /\ job.pc = "fork" => Parent[s] # NoSession
  BY <1>1, <1>2 DEF WorkerType, RowType
<1> HIDE DEF new, job
<1>7. Typed'
  BY <1>1, <1>4, <1>5, <1>6 DEF Typed, _claim_next
<1>8. VersionsCount'
  <2>1. \A t \in Sessions : row[t].version \in Nat /\ row[t].attempts \in Nat
    BY <1>1 DEF Typed, RowType
  <2>2. /\ new.version <= 2 * new.attempts
        /\ new.version < 2 * new.attempts
    BY <1>1, <1>2, <2>1 DEF SessionInv, VersionsCount
  <2> QED BY <1>1, <1>4, <2>2 DEF SessionInv, VersionsCount
<1>9. SourceExists(s)
  BY <1>1, LineageAssumption
     DEF SessionInv, SourceReal, SourceExists, ParentReady, _claim_next, Managed
<1>10. SourceReal'
  BY <1>1, <1>2, <1>4, <1>9 DEF SessionInv, SourceReal, SourceExists, Managed, _claim_next
<1>11. WorkerKnows'
  BY <1>1, <1>5, <1>6, <1>9 DEF SessionInv, Typed, WorkerKnows, SourceExists, _claim_next
<1>12. KeysUnique'
  <2>1. \A t \in Managed : Registered(t)' <=> Registered(t)
    BY <1>1, <1>2, <1>4 DEF Registered, Managed, _claim_next, Due
  <2> QED BY <2>1 DEF SessionInv, KeysUnique, _claim_next
<1> QED BY <1>7, <1>8, <1>10, <1>11, <1>12 DEF SessionInv

\* A worker gives up its claim, with or without an outcome.
LEMMA WorkerIdles ==
  ASSUME SessionInv, NEW w \in Workers, worker' = [worker EXCEPT ![w] = Idle],
         hermes' = hermes
  PROVE  worker' \in [Workers -> WorkerType] /\ WorkerKnows'
<1>1. Idle \in WorkerType /\ Idle.pc = "idle"
  BY DEF Idle, WorkerType
<1>2. /\ worker' \in [Workers -> WorkerType] /\ worker'[w].pc = "idle"
      /\ \A v \in Workers \ {w} : worker'[v] = worker[v]
  BY <1>1 DEF SessionInv, Typed
<1> QED BY <1>2 DEF SessionInv, WorkerKnows, SourceExists

\* An outcome is written over the worker's own lease only; a ready session was
\* seen at Hermes.
LEMMA SettleKeeps ==
  ASSUME SessionInv, NEW w \in Workers, worker[w].pc # "idle",
         NEW state \in {"ready", "failed", "retryable"},
         state = "ready" => worker[w].pc = "made",
         Settle(w, state)
  PROVE  SessionInv'
<1> DEFINE s == worker[w].s
           new == [state |-> state, version |-> row[s].version + 1,
                   attempts |-> row[s].attempts, elapsed |-> FALSE]
<1>1. s \in Managed /\ s \in Sessions /\ row[s] \in RowType /\ Typed
  BY DEF SessionInv, Typed, Managed, WorkerKnows
<1>2. worker' \in [Workers -> WorkerType] /\ WorkerKnows'
  BY WorkerIdles DEF Settle
<1>3. CASE ~HoldsLease(w)
  <2>1. UNCHANGED row
    BY <1>3 DEF Settle
  <2> QED BY <1>1, <1>2, <2>1
      DEF SessionInv, Typed, VersionsCount, SourceReal, SourceExists, KeysUnique,
          Registered, Settle
<1>4. CASE HoldsLease(w)
  <2>1. /\ new \in RowType /\ new.state = state /\ new.version = row[s].version + 1
        /\ new.attempts = row[s].attempts
    BY <1>1 DEF RowType, RowState, Settled
  <2>2. row' = [row EXCEPT ![s] = new]
    BY <1>1, <1>4 DEF Settle, Typed
  <2>3. /\ row' \in [Sessions -> RowType]
        /\ row'[s] = new
        /\ \A t \in Sessions \ {s} : row'[t] = row[t]
    BY <1>1, <2>1, <2>2, RowWritten
  <2>4. row[s].state = "leased"
    BY <1>4 DEF HoldsLease
  <2> HIDE DEF new
  <2>5. Typed'
    BY <1>1, <1>2, <2>3 DEF Typed, Settle
  <2>6. VersionsCount'
    <3>1. row[s].version \in Nat /\ row[s].attempts \in Nat
      BY <1>1 DEF RowType
    <3>2. row[s].version < 2 * row[s].attempts
      BY <1>1, <2>4 DEF SessionInv, VersionsCount
    <3>3. new.version <= 2 * new.attempts
      BY <2>1, <3>1, <3>2
    <3> QED BY <1>1, <2>1, <2>3, <3>3 DEF SessionInv, VersionsCount
  <2>7. SourceReal'
    <3>1. SourceExists(s) /\ (state = "ready" => s \in hermes)
      BY <1>1 DEF SessionInv, WorkerKnows
    <3> QED BY <1>1, <2>1, <2>3, <3>1 DEF SessionInv, SourceReal, SourceExists, Managed, Settle
  <2>8. KeysUnique'
    <3>1. \A t \in Managed : Registered(t)' <=> Registered(t)
      BY <1>1, <2>1, <2>3, <2>4 DEF Registered, Managed
    <3> QED BY <3>1 DEF SessionInv, KeysUnique, Settle
  <2> QED BY <1>2, <2>5, <2>6, <2>7, <2>8 DEF SessionInv
<1> QED BY <1>3, <1>4

\* Crashes, clocks and late effects write no outcome.
LEMMA WorldKeeps ==
  ASSUME SessionInv,
         \/ \E w \in Workers : Abandon(w)
         \/ \E s \in Managed : TimePasses(s) \/ LateEffect(s)
  PROVE  SessionInv'
<1>1. ASSUME NEW w \in Workers, Abandon(w) PROVE SessionInv'
  <2>1. worker' \in [Workers -> WorkerType] /\ WorkerKnows'
    BY <1>1, WorkerIdles DEF Abandon
  <2>2. crashes' \in 0..MaxCrashes
    BY <1>1, LineageAssumption DEF SessionInv, Typed, Abandon
  <2> QED BY <1>1, <2>1, <2>2
      DEF SessionInv, Typed, VersionsCount, SourceReal, SourceExists, KeysUnique,
          Registered, Abandon
<1>2. ASSUME NEW s \in Managed, TimePasses(s) PROVE SessionInv'
  <2> DEFINE new == [row[s] EXCEPT !.elapsed = TRUE]
  <2>1. s \in Sessions /\ row[s] \in RowType /\ Typed
    BY DEF SessionInv, Typed, Managed
  <2>2. /\ new \in RowType /\ new.state = row[s].state /\ new.version = row[s].version
        /\ new.attempts = row[s].attempts
    BY <2>1 DEF RowType
  <2>3. row' = [row EXCEPT ![s] = new]
    BY <1>2, <2>1 DEF TimePasses, Typed
  <2> HIDE DEF new
  <2>4. /\ row' \in [Sessions -> RowType]
        /\ \A t \in Sessions : /\ row'[t].state = row[t].state
                               /\ row'[t].version = row[t].version
                               /\ row'[t].attempts = row[t].attempts
    BY <2>1, <2>2, <2>3, RowWritten
  <2>5. Typed'
    BY <1>2, <2>1, <2>4 DEF Typed, TimePasses
  <2>6. VersionsCount'
    BY <2>4 DEF SessionInv, VersionsCount
  <2>7. SourceReal' /\ WorkerKnows' /\ KeysUnique'
    BY <1>2, <2>4 DEF SessionInv, SourceReal, SourceExists, WorkerKnows, KeysUnique,
                      Registered, Managed, TimePasses
  <2> QED BY <2>5, <2>6, <2>7 DEF SessionInv
<1>3. ASSUME NEW s \in Managed, LateEffect(s) PROVE SessionInv'
  BY <1>3 DEF SessionInv, Typed, VersionsCount, SourceReal, SourceExists, WorkerKnows,
              KeysUnique, Registered, Managed, LateEffect
<1> QED BY <1>1, <1>2, <1>3

\* Every action keeps the invariant.
LEMMA SessionInvNext == SessionInv /\ [Next]_vars => SessionInv'
<1> SUFFICES ASSUME SessionInv, [Next]_vars PROVE SessionInv'
  OBVIOUS
<1>1. ASSUME NEW w \in Workers, provision_next(w) PROVE SessionInv'
  <2>1. CASE _mark_ready(w)
    BY <2>1, SettleKeeps DEF _mark_ready
  <2>2. CASE _record_failure(w)
    BY <2>2, SettleKeeps DEF _record_failure
  <2> QED BY <1>1, <2>1, <2>2, ClaimKeeps, RequestKeeps DEF provision_next
<1>2. CASE UNCHANGED vars
  BY <1>2 DEF vars, SessionInv, Typed, VersionsCount, SourceReal, SourceExists,
              WorkerKnows, KeysUnique, Registered
<1> QED BY <1>1, <1>2, SubmitKeeps, WorldKeeps DEF Next

\* The inductive invariant holds in every behaviour.
THEOREM SessionInvariant == Spec => []SessionInv
BY SessionInvInit, SessionInvNext, PTL DEF Spec

\* Rows, receipts and provisioners keep their types, and a row's version never
\* counts more than two writes per claim.
THEOREM SessionsTyped == Spec => []TypeOK
BY SessionInvariant, SessionInvImplies, PTL

\* A ready session exists at Hermes with its source, for any lineage of forks
\* and any number of overlapping provisioners, crashes and late creations.
THEOREM ReadySessionsAreReal == Spec => []ReadyIsReal
BY SessionInvariant, SessionInvImplies, PTL

\* An accepted action is registered, alone under its client_action_id.
THEOREM KeysAcceptOnce == Spec => []AcceptedOncePerKey
BY SessionInvariant, SessionInvImplies, PTL

\* No step writes a settled row.
LEMMA SettledStep ==
  SessionInv /\ [Next]_vars =>
    [\A s \in Managed : row[s].state \in Settled => row'[s] = row[s]]_vars
<1> SUFFICES ASSUME SessionInv, Next,
                    NEW s \in Managed, row[s].state \in Settled
             PROVE  row'[s] = row[s]
  BY DEF vars
<1> USE DEF Settled
<1>1. row \in [Sessions -> RowType] /\ s \in Sessions
  BY DEF SessionInv, Typed, Managed
<1>2. ASSUME NEW t \in Managed, submit(t) \/ TimePasses(t) \/ LateEffect(t)
      PROVE  row'[s] = row[s]
  BY <1>1, <1>2 DEF submit, register_workspace_session, TimePasses, LateEffect, RowType
<1>3. ASSUME NEW w \in Workers, provision_next(w) \/ Abandon(w) PROVE row'[s] = row[s]
  <2>1. ASSUME NEW t \in Managed, _claim_next(w, t) PROVE row'[s] = row[s]
    BY <1>1, <2>1 DEF _claim_next, Due
  <2>2. ASSUME NEW state, Settle(w, state) PROVE row'[s] = row[s]
    BY <1>1, <2>2 DEF Settle, HoldsLease
  <2> QED BY <1>3, <2>1, <2>2
      DEF provision_next, GetSession, PostSession, ForkSession, Abandon, _mark_ready,
          _record_failure
<1> QED BY <1>2, <1>3 DEF Next

\* A ready or failed session is never written again, whoever comes back with
\* an outcome for it.
THEOREM SettledSessionsStand == Spec => SettledStands
BY SessionInvariant, SettledStep, PTL DEF Spec, SettledStands

=============================================================================
