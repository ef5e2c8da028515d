----------------------- MODULE HermesConnectorProofs -----------------------
(***************************************************************************)
(* Proofs about HermesConnector for any commands, Runs, workers and bounds.*)
(*                                                                         *)
(* ConnectorInv holds whatever Hermes replies; it gives the properties of  *)
(* Runs and of the lease.  The other three invariants rest on it: SentInv  *)
(* whatever Hermes replies too, SettledInv (with SentInv) where every      *)
(* rejection settles the receipt and the journal can be written,           *)
(* SessionInv for one worker whose replays are not refused.  A command     *)
(* with a request on its way when the retention ended (window "astride")   *)
(* may get a second Run, and is excepted wherever one Run is relied on.    *)
(***************************************************************************)
EXTENDS HermesConnector, CommandLedgerProofs, FiniteSetTheorems

\* Places of a worker outside any turn, of one that has started a dispatch, and of
\* one that recovers.
Free == {"idle", "list", "turn", "claim"}
Started == {"resolve", "port", "post", "ack", "nack", "done", "record"}
Recovering == {"port", "post", "ack", "nack", "done", "observe", "fold"}

\* The dispatch of command c by worker x has been marked in the ledger.
Engaged(x, c) == wk[x].mode = "dispatch" /\ wk[x].c = c /\ wk[x].pc \in Started

\* Only reconciliation may still settle c, or it has its Run.
Pursued(c) == cmd[c].state = "outcome_unknown" \/ cmd[c].run # NoRun

\* What Hermes, its keys, the journal and the ledger say of one command.
CommandInv(c) ==
  /\ key[c] # NoRun => key[c] \in RunsOf(c)
  /\ \A r \in RunsOf(c) : key[c] = r \/ window[c] # "open"
  /\ window[c] # "astride" => \A r, q \in RunsOf(c) : r = q
  /\ window[c] = "over" => ~InFlight(c)
  /\ window[c] # "open" => receipt[c].st # "none"
  /\ receipt[c].run # NoRun => receipt[c].run \in RunsOf(c)

\* What a worker has in hand, by its place.
WorkerInv(x) == LET w == wk[x] IN
  /\ w.mode = "none" <=> w.pc \in Free
  /\ w.mode # "none" => w.c \in Commands
  /\ w.mode = "dispatch" => w.pc \in Started \cup {"gate"}
  /\ w.mode = "recover" => w.pc \in Recovering /\ Pursued(w.c)
  /\ Engaged(x, w.c) =>
       (cmd[w.c].state = "leased" /\ cmd[w.c].dispatched) \/ Pursued(w.c)
  /\ w.pc \in {"ack", "observe", "fold"} => w.run \in RunsOf(w.c)
  /\ w.pc \in {"done", "record"} /\ w.res = "ok" => w.run \in RunsOf(w.c)
  /\ w.pc = "fold" => w.obs \in Terminal /\ w.obs = ObservedStatus(hermes[w.run])

\* One worker at a time has marked the dispatch of a command and not recorded it.
EngagedAlone ==
  \A x, y \in Workers : \A c \in Commands : Engaged(x, c) /\ Engaged(y, c) => x = y

ConnectorInv ==
  /\ LedgerInv /\ TypeOK
  /\ \A c \in Commands : CommandInv(c)
  /\ \A x \in Workers : WorkerInv(x)
  /\ EngagedAlone
  /\ LedgerTellsHermes

\* The states in which the ledger takes it that nothing of c was sent.
Unsent(c) ==
  \/ cmd[c].state \in {"absent", "queued"}
  \/ cmd[c].state = "cancelled" /\ cmd[c].run = NoRun
  \/ cmd[c].state = "leased" /\ ~cmd[c].dispatched

\* Nothing of c was sent, or its receipt tells that something may have been.
Held(c) == NothingSent(c) \/ receipt[c].st = "open"

\* A worker that holds the lease and is before the POST, or has learnt that it was
\* not accepted.
Unposted(x) ==
  \/ wk[x].pc \in {"resolve", "port", "nack"}
  \/ wk[x].pc \in {"done", "record"} /\ wk[x].res = "unavailable"

\* It is to record a rejection.
Told(x) == wk[x].pc \in {"done", "record"} /\ wk[x].res = "rejected"

\* The holder of the lease knows whether it has sent anything, or has a receipt.
SentBy(x) ==
  wk[x].mode = "dispatch" /\ cmd[wk[x].c].state = "leased" =>
    /\ Unposted(x) => NothingSent(wk[x].c)
    /\ wk[x].pc = "post" => RunsOf(wk[x].c) = {} /\ ~late[wk[x].c]
    /\ wk[x].pc \in {"post", "ack"} => receipt[wk[x].c].st = "open"
    /\ Told(x) => Held(wk[x].c)

\* It failed with no Run to its name.
FailedBare(c) == cmd[c].state = "failed" /\ cmd[c].run = NoRun

SentInv ==
  /\ \A c \in Commands : Unsent(c) => NothingSent(c)
  /\ \A c \in Commands : FailedBare(c) => Held(c)
  /\ \A x \in Workers : SentBy(x)

\* An open receipt stands for what may be alive of command c.
Shown(c) == receipt[c].st = "open" \/ window[c] = "astride"

\* An open receipt stands for all that may be alive of its session.
SessionInv ==
  /\ \A r \in Runs : hermes[r] = "live" => Shown(r[1])
  /\ \A c \in Commands : InFlight(c) => Shown(c) \/ key[c] # NoRun
  /\ \A c, d \in Commands :
       /\ receipt[c].st = "open" /\ receipt[d].st = "open"
       /\ SessionOf[c] = SessionOf[d]
       => c = d
  /\ \A x \in Workers : \A c \in Commands :
       wk[x].pc = "nack" /\ wk[x].c = c => NothingSent(c)

\* A receipt is opened once, by the POST, and settled before the command is, unless the
\* command may have a second Run.
SettledRow(c) ==
  /\ Unsent(c) => receipt[c].st = "none"
  /\ cmd[c].state \in Terminal => receipt[c].st # "open" \/ window[c] = "astride"
  /\ cmd[c].run # NoRun => receipt[c].run # NoRun

SettledBy(x) == LET w == wk[x] IN
  /\ w.mode = "dispatch" /\ cmd[w.c].state = "leased" =>
       /\ w.pc \in {"resolve", "port"} => receipt[w.c].st = "none"
       /\ w.pc \in {"done", "record"} /\ w.res = "unavailable" => receipt[w.c].st = "none"
       /\ w.pc \in {"done", "record"} /\ w.res = "rejected" => receipt[w.c].st # "open"
  /\ w.pc \in {"done", "record"} /\ w.res = "ok" => receipt[w.c].run # NoRun
  /\ w.pc \in {"observe", "fold"} => receipt[w.c].run # NoRun
  /\ w.pc = "fold" => receipt[w.c].st # "open" \/ window[w.c] = "astride"

SettledInv ==
  /\ \A c \in Commands : SettledRow(c)
  /\ \A x \in Workers : SettledBy(x)

-----------------------------------------------------------------------------
(* What the ledger calls of the connector do to a row.                     *)

\* Column state, dispatched and run of a row after a call.
Now(c, state, dispatched, run) ==
  /\ cmd'[c].state = state /\ cmd'[c].dispatched = dispatched /\ cmd'[c].run = run

\* One row is written and the ledger stays lawful.
Wrote(c) ==
  LedgerInv' /\ \A d \in Commands : d # c => cmd'[d] = cmd[d]

\* Row steps write one row.
LEMMA RowStepWrote ==
  ASSUME LedgerInv, NEW c \in Commands, RowStep(c)
  PROVE  Wrote(c)
BY InvRowStep DEF Wrote, RowStep, LedgerInv, LedgerTypeOK

\* The calls fenced by a lease.
LEMMA LeaseCallRow ==
  ASSUME LedgerInv, NEW c \in Commands, NEW v, NEW t
  PROVE  /\ LeaseCall(c, v, t) =>
              Wrote(c) /\ cmd[c].state = "leased" /\ cmd[c].run = NoRun
         /\ heartbeat_lease(c, v, t) => Now(c, "leased", cmd[c].dispatched, NoRun)
         /\ mark_dispatch_started(c, v, t) =>
              ~cmd[c].dispatched /\ Now(c, "leased", TRUE, NoRun)
         /\ mark_dispatch_timeout(c, v, t) => Now(c, "outcome_unknown", TRUE, NoRun)
         /\ mark_dispatch_unavailable(c, v, t) => Now(c, "queued", FALSE, NoRun)
         /\ mark_dispatch_rejected(c, v, t) => Now(c, "failed", TRUE, NoRun)
         /\ \A r \in Runs : mark_delivered(c, v, t, r) => Now(c, "delivered", TRUE, r)
<1>1. /\ cmd[c] \in Row /\ cmd[c].dispatched \in BOOLEAN
      /\ cmd \in [Commands -> Row]
      /\ cmd[c].state = "leased" => cmd[c].run = NoRun
  BY DEF LedgerInv, LedgerTypeOK, GoodRow, Row, Terminal
<1>2. ASSUME LeaseCall(c, v, t)
      PROVE  Wrote(c) /\ cmd[c].state = "leased" /\ cmd[c].run = NoRun
  <2>1. cmd[c].state = "leased"
    BY <1>2 DEF LeaseCall, heartbeat_lease, mark_dispatch_started, mark_delivered,
       mark_dispatch_timeout, mark_dispatch_unavailable, mark_dispatch_rejected,
       _lock_active_lease
  <2> QED BY <1>1, <1>2, <2>1, StepLeaseCall, RowStepWrote
<1>3. heartbeat_lease(c, v, t) => Now(c, "leased", cmd[c].dispatched, NoRun)
  BY <1>1 DEF heartbeat_lease, _lock_active_lease, Write, Now, NextVersion, Row
<1>4. mark_dispatch_started(c, v, t) =>
        ~cmd[c].dispatched /\ Now(c, "leased", TRUE, NoRun)
  BY <1>1 DEF mark_dispatch_started, _lock_active_lease, Write, Now, NextVersion, Row
<1>5. mark_dispatch_timeout(c, v, t) => Now(c, "outcome_unknown", TRUE, NoRun)
  BY <1>1 DEF mark_dispatch_timeout, _lock_active_lease, Write, Now, NextVersion,
     Unleased, Unknown, Row
<1>6. mark_dispatch_unavailable(c, v, t) => Now(c, "queued", FALSE, NoRun)
  BY <1>1 DEF mark_dispatch_unavailable, _lock_active_lease, Write, Now, NextVersion,
     Unleased, Requeued, Row
<1>7. mark_dispatch_rejected(c, v, t) => Now(c, "failed", TRUE, NoRun)
  BY <1>1 DEF mark_dispatch_rejected, _lock_active_lease, Write, Now, NextVersion,
     Unleased, Row
<1>8. \A r \in Runs : mark_delivered(c, v, t, r) => Now(c, "delivered", TRUE, r)
  BY <1>1 DEF mark_delivered, _lock_active_lease, Write, Now, NextVersion, Unleased,
     BoundTo, Row
<1> QED BY <1>2, <1>3, <1>4, <1>5, <1>6, <1>7, <1>8

\* The calls fenced by a version, and those of the queue.
LEMMA VersionCallRow ==
  ASSUME LedgerInv, NEW c \in Commands, NEW v
  PROVE  /\ create_command(c) =>
              Wrote(c) /\ cmd[c].state = "absent" /\ Now(c, "queued", FALSE, NoRun)
         /\ claim_next_command(c) =>
              Wrote(c) /\ cmd[c].state = "queued" /\ Now(c, "leased", FALSE, NoRun)
         /\ cancel_queued_command(c, v) =>
              Wrote(c) /\ cmd[c].state = "queued" /\ Now(c, "cancelled", FALSE, NoRun)
         /\ mark_run_reconciliation_started(c, v) =>
              /\ Wrote(c) /\ cmd[c].state \in Active
              /\ Now(c, cmd[c].state, TRUE, cmd[c].run)
         /\ \A r \in Runs : reconcile_outcome_as_delivered(c, v, r) =>
              /\ Wrote(c) /\ cmd[c].state = "outcome_unknown" /\ cmd[c].run = NoRun
              /\ Now(c, "delivered", TRUE, r)
         /\ \A r \in Runs, s \in Terminal : _mark_run_terminal(c, v, r, s) =>
              /\ Wrote(c) /\ cmd[c].state \in Active /\ cmd[c].run \in {NoRun, r}
              /\ Now(c, s, TRUE, r)
<1>1. /\ cmd[c] \in Row /\ cmd[c].dispatched \in BOOLEAN
      /\ cmd \in [Commands -> Row]
      /\ cmd[c].state \in {"absent", "queued"} => cmd[c].run = NoRun /\ ~cmd[c].dispatched
      /\ cmd[c].state \in Active => cmd[c].dispatched = TRUE
      /\ cmd[c].state = "outcome_unknown" => cmd[c].run = NoRun
  BY DEF LedgerInv, LedgerTypeOK, GoodRow, Row, Terminal, Active
<1>2. create_command(c) \/ claim_next_command(c) \/ VersionCall(c, v) => Wrote(c)
  BY StepOpening, StepVersionCall, RowStepWrote
<1>3. create_command(c) => cmd[c].state = "absent" /\ Now(c, "queued", FALSE, NoRun)
  BY <1>1 DEF create_command, Write, Now, NextVersion, Row
<1>4. claim_next_command(c) => cmd[c].state = "queued" /\ Now(c, "leased", FALSE, NoRun)
  BY <1>1 DEF claim_next_command, Claimable, Write, Now, NextVersion, Leased, Row
<1>5. cancel_queued_command(c, v) =>
        cmd[c].state = "queued" /\ Now(c, "cancelled", FALSE, NoRun)
  BY <1>1 DEF cancel_queued_command, Write, Now, NextVersion, Unleased, Row
<1>6. mark_run_reconciliation_started(c, v) =>
        cmd[c].state \in Active /\ Now(c, cmd[c].state, TRUE, cmd[c].run)
  BY <1>1 DEF mark_run_reconciliation_started, Write, Now, NextVersion, Row
<1>7. ASSUME NEW r \in Runs, reconcile_outcome_as_delivered(c, v, r)
      PROVE  /\ cmd[c].state = "outcome_unknown" /\ cmd[c].run = NoRun
             /\ Now(c, "delivered", TRUE, r)
  BY <1>1, <1>7 DEF reconcile_outcome_as_delivered, Write, Now, NextVersion, Row, Active
<1>8. ASSUME NEW r \in Runs, NEW s \in Terminal, _mark_run_terminal(c, v, r, s)
      PROVE  cmd[c].state \in Active /\ cmd[c].run \in {NoRun, r} /\ Now(c, s, TRUE, r)
  BY <1>1, <1>8 DEF _mark_run_terminal, Write, Now, NextVersion, Unleased, BoundTo, Row
<1> QED BY <1>2, <1>3, <1>4, <1>5, <1>6, <1>7, <1>8 DEF VersionCall

\* The passing of a timestamp, and the recovery of lapsed leases.
LEMMA ClockRow ==
  ASSUME LedgerInv, NEW c \in Commands, ClockTick(c)
  PROVE  /\ LedgerInv'
         /\ \A d \in Commands : Now(d, cmd[d].state, cmd[d].dispatched, cmd[d].run)
<1>1. /\ cmd[c] \in Row /\ cmd \in [Commands -> Row]
  BY DEF LedgerInv, LedgerTypeOK
<1>2. Wrote(c)
  BY StepClockTick, RowStepWrote
<1>3. Now(c, cmd[c].state, cmd[c].dispatched, cmd[c].run)
  BY <1>1 DEF ClockTick, LeaseLapses, RetryComesDue, PayloadExpires, Now, Row
<1> QED BY <1>2, <1>3 DEF Wrote, Now

\* reconcile_expired_leases requeues an unmarked dispatch; a marked one is unknown.
LEMMA BatchRow ==
  ASSUME LedgerInv, NEW S \in SUBSET Commands, reconcile_expired_leases(S)
  PROVE  /\ LedgerInv'
         /\ \A c \in Commands :
              \/ cmd'[c] = cmd[c]
              \/ /\ cmd[c].state = "leased" /\ cmd[c].run = NoRun
                 /\ \/ cmd[c].dispatched /\ Now(c, "outcome_unknown", TRUE, NoRun)
                    \/ ~cmd[c].dispatched /\ Now(c, "queued", FALSE, NoRun)
<1>1. LedgerInv'
  BY InvReconcile
<1>2. \A c \in Commands : cmd[c].dispatched \in BOOLEAN
  BY DEF LedgerInv, LedgerTypeOK, Row
<1> QED BY <1>1, <1>2, BatchRows DEF Becomes, Now

-----------------------------------------------------------------------------
(* What most steps leave alone.                                            *)

Worker == [pc : PC, mode : {"none", "dispatch", "recover"},
           c : Commands \cup {NoCommand}, v : Nat, t : Nat,
           todo : SUBSET (Commands \X Nat), res : Result,
           run : Runs \cup {NoRun}, obs : Terminal \cup {"none"}]

Heart == [st : {"off", "waiting", "beating", "over"},
          c : Commands \cup {NoCommand}, v : Nat, t : Nat]

\* A command that is pursued stays so, and a marked dispatch stays marked or is.
RowKept(c) ==
  /\ Pursued(c) => Pursued(c)'
  /\ cmd[c].state = "leased" /\ cmd[c].dispatched
     => (cmd'[c].state = "leased" /\ cmd'[c].dispatched) \/ Pursued(c)'

\* The step has no news of a Run.
NoNews(c) ==
  cmd'[c].run # NoRun => cmd'[c].run = cmd[c].run /\ cmd'[c].state = cmd[c].state

\* Nothing returns to the queue, is leased or is over by the step that was not
\* waiting, except by a cancel.
RowCalm(c) ==
  /\ Unsent(c)' => Unsent(c)
  /\ FailedBare(c)' => FailedBare(c)
  /\ cmd'[c].state = "leased" => cmd[c].state \in {"queued", "leased"}
  /\ cmd[c].state \in Terminal => cmd'[c].state = cmd[c].state
  /\ cmd'[c].state \in Terminal =>
       \/ cmd'[c].state = cmd[c].state
       \/ cmd[c].state = "queued" /\ cmd'[c].state = "cancelled"

LedgerSteady ==
  LedgerInv' /\ \A c \in Commands : RowKept(c) /\ NoNews(c) /\ RowCalm(c)

\* Worker x moves, alone, to where it knows what it should; it does not join another
\* in a marked dispatch.
Moved(x) ==
  /\ wk' \in [Workers -> Worker]
  /\ \A y \in Workers \ {x} : wk'[y] = wk[y]
  /\ WorkerInv(x)'
  /\ \A c \in Commands : Engaged(x, c)' =>
       Engaged(x, c) \/ \A y \in Workers \ {x} : ~Engaged(y, c)

\* Runs stay, and stay as they ended.
HermesGrows ==
  /\ \A r \in Runs : hermes[r] # "none" => hermes'[r] # "none"
  /\ \A r \in Runs : hermes[r] \in Ended => hermes'[r] = hermes[r]

\* The same, and no Run starts.
HermesSteady ==
  HermesGrows /\ \A r \in Runs : hermes'[r] # "none" => hermes[r] # "none"

\* Where hermes is steady the Runs of a command are the same.
LEMMA SameRuns ==
  /\ HermesGrows => \A c \in Commands : RunsOf(c) \subseteq RunsOf(c)'
  /\ HermesSteady => \A c \in Commands : RunsOf(c)' = RunsOf(c)
BY DEF HermesSteady, HermesGrows, RunsOf

\* A worker that stands still stays as well informed as it was.
LEMMA WorkerStands ==
  ASSUME NEW y \in Workers, WorkerInv(y), wk'[y] = wk[y], HermesGrows,
         Engaged(y, wk[y].c) \/ wk[y].mode = "recover" => RowKept(wk[y].c)
  PROVE  WorkerInv(y)'
<1>1. ObservedStatus(hermes[wk[y].run]) \in Terminal /\ wk[y].run \in Runs
      => hermes'[wk[y].run] = hermes[wk[y].run]
  BY DEF HermesGrows, ObservedStatus, Terminal, Ended
<1>2. \A c \in Commands : RunsOf(c) \subseteq RunsOf(c)'
  BY SameRuns
<1>3. \A c \in Commands : Engaged(y, c)' <=> Engaged(y, c)
  BY DEF Engaged
<1>4. wk[y].pc = "fold" => wk[y].run \in Runs
  BY DEF WorkerInv, RunsOf
<1>5. wk[y].mode = "none" => wk[y].pc \in Free
  BY DEF WorkerInv
<1> QED
  BY <1>1, <1>2, <1>3, <1>4, <1>5 DEF WorkerInv, RowKept, Engaged, Free, Started, Recovering

\* What a command's key, window and receipt say stays so if they stand still.
LEMMA CommandStands ==
  ASSUME NEW c \in Commands, CommandInv(c), HermesSteady,
         key'[c] = key[c], window'[c] = window[c],
         InFlight(c)' => InFlight(c) \/ window[c] = "open",
         receipt'[c].run # receipt[c].run => receipt'[c].run \in RunsOf(c),
         receipt[c].st # "none" => receipt'[c].st # "none"
  PROVE  CommandInv(c)'
<1>1. RunsOf(c)' = RunsOf(c)
  BY SameRuns
<1> QED BY <1>1 DEF CommandInv

\* What is said of Runs in the ledger stays true.
LEMMA TellsStands ==
  ASSUME LedgerTellsHermes, HermesGrows, \A c \in Commands : NoNews(c)
  PROVE  LedgerTellsHermes'
<1> SUFFICES ASSUME NEW c \in Commands, cmd'[c].run # NoRun
             PROVE  /\ cmd'[c].run \in RunsOf(c)'
                    /\ cmd'[c].state = "succeeded" => hermes'[cmd'[c].run] = "completed"
                    /\ cmd'[c].state = "failed" =>
                         hermes'[cmd'[c].run] \in {"partial", "failed"}
                    /\ cmd'[c].state = "cancelled" => hermes'[cmd'[c].run] = "cancelled"
  BY DEF LedgerTellsHermes
<1>1. cmd'[c].run = cmd[c].run /\ cmd'[c].state = cmd[c].state
  BY DEF NoNews
<1>2. RunsOf(c) \subseteq RunsOf(c)' /\ cmd[c].run \in RunsOf(c)
  BY <1>1, SameRuns DEF LedgerTellsHermes
<1> QED BY <1>1, <1>2 DEF LedgerTellsHermes, HermesGrows, RunsOf, Ended

\* The frame of the steps of one worker that do not touch the network or the
\* journal.
LEMMA OwnStep ==
  ASSUME ConnectorInv, NEW x \in Workers, Moved(x), LedgerInv', LedgerTellsHermes',
         \A y \in Workers \ {x} : Engaged(y, wk[y].c) \/ wk[y].mode = "recover"
                                 => RowKept(wk[y].c),
         wk'[x].pc = "post" => At(x, "post") /\ wk'[x].c = wk[x].c,
         beat' \in [Workers -> Heart], UNCHANGED <<portVars, hermesVars>>
  PROVE  ConnectorInv'
<1>1. TypeOK'
  BY DEF ConnectorInv, TypeOK, LedgerInv, Moved, Worker, Heart, portVars, hermesVars
<1>2. HermesSteady
  BY DEF hermesVars, HermesSteady, HermesGrows
<1>3. \A c \in Commands : CommandInv(c)'
  <2> SUFFICES ASSUME NEW c \in Commands PROVE CommandInv(c)'
    OBVIOUS
  <2>1. InFlight(c)' => InFlight(c)
    BY DEF InFlight, At, Moved, hermesVars
  <2> QED BY <2>1, <1>2, CommandStands DEF ConnectorInv, portVars, hermesVars
<1>4. \A y \in Workers : WorkerInv(y)'
  <2> SUFFICES ASSUME NEW y \in Workers, y # x PROVE WorkerInv(y)'
    BY DEF Moved
  <2> QED BY <1>2, WorkerStands DEF ConnectorInv, Moved, HermesSteady
<1>5. EngagedAlone'
  BY DEF ConnectorInv, EngagedAlone, Moved, Engaged
<1> QED BY <1>1, <1>3, <1>4, <1>5 DEF ConnectorInv

\* The same where the ledger brings no news.
LEMMA WorkerStep ==
  ASSUME ConnectorInv, NEW x \in Workers, Moved(x), LedgerSteady,
         wk'[x].pc = "post" => At(x, "post") /\ wk'[x].c = wk[x].c,
         beat' \in [Workers -> Heart], UNCHANGED <<portVars, hermesVars>>
  PROVE  ConnectorInv'
<1>1. \A y \in Workers \ {x} : Engaged(y, wk[y].c) \/ wk[y].mode = "recover"
                                => RowKept(wk[y].c)
  BY DEF LedgerSteady, Engaged, ConnectorInv, WorkerInv
<1>2. LedgerTellsHermes'
  BY TellsStands DEF ConnectorInv, LedgerSteady, HermesGrows, hermesVars
<1> QED BY <1>1, <1>2, OwnStep DEF LedgerSteady

\* Calls of the ledger that bring no news of a Run and withdraw no dispatch mark.
LEMMA SteadyRow ==
  ASSUME LedgerInv, NEW c \in Commands,
         \/ Now(c, cmd[c].state, cmd[c].dispatched, cmd[c].run)
         \/ cmd[c].state = "absent" /\ Now(c, "queued", FALSE, NoRun)
         \/ cmd[c].state = "queued" /\ Now(c, "leased", FALSE, NoRun)
         \/ cmd[c].state = "queued" /\ Now(c, "cancelled", FALSE, NoRun)
         \/ cmd[c].state = "leased" /\ Now(c, "leased", TRUE, NoRun)
         \/ cmd[c].state = "leased" /\ Now(c, "outcome_unknown", TRUE, NoRun)
         \/ cmd[c].state = "leased" /\ ~cmd[c].dispatched /\ Now(c, "queued", FALSE, NoRun)
  PROVE  RowKept(c) /\ NoNews(c) /\ RowCalm(c)
<1>1. cmd[c].state \in {"absent", "queued", "leased"} => cmd[c].run = NoRun
  BY DEF LedgerInv, GoodRow, Terminal
<1>2. RowKept(c)
  BY <1>1 DEF Now, RowKept, Pursued
<1>3. NoNews(c)
  BY <1>1 DEF Now, NoNews
<1>4. RowCalm(c)
  BY <1>1 DEF Now, RowCalm, Unsent, FailedBare, Terminal
<1> QED BY <1>2, <1>3, <1>4

\* Steps that leave the ledger alone.
LEMMA SteadyStill ==
  ASSUME LedgerInv, UNCHANGED ledgerVars
  PROVE  LedgerSteady
<1>1. LedgerInv'
  BY DEF ledgerVars, LedgerInv, LedgerTypeOK, OneCommandPerRun
<1>2. \A c \in Commands : Now(c, cmd[c].state, cmd[c].dispatched, cmd[c].run)
  BY DEF Now, ledgerVars
<1> QED BY <1>1, <1>2, SteadyRow DEF LedgerSteady

\* Calls that write one row.
LEMMA SteadyWrote ==
  ASSUME LedgerInv, NEW c \in Commands, Wrote(c),
         RowKept(c) /\ NoNews(c) /\ RowCalm(c)
  PROVE  LedgerSteady
<1>1. ASSUME NEW d \in Commands, d # c
      PROVE  Now(d, cmd[d].state, cmd[d].dispatched, cmd[d].run)
  BY <1>1 DEF Wrote, Now
<1> QED BY <1>1, SteadyRow DEF LedgerSteady, Wrote

\* The calls under a lease that extend, mark or give up a dispatch.
LEMMA SteadyLease ==
  ASSUME LedgerInv, NEW c \in Commands, NEW v, NEW t,
         \/ heartbeat_lease(c, v, t) \/ mark_dispatch_started(c, v, t)
         \/ mark_dispatch_timeout(c, v, t)
  PROVE  LedgerSteady
<1>1. Wrote(c) /\ cmd[c].state = "leased" /\ cmd[c].run = NoRun
  BY LeaseCallRow DEF LeaseCall
<1>2. \/ Now(c, "leased", cmd[c].dispatched, NoRun) \/ Now(c, "leased", TRUE, NoRun)
      \/ Now(c, "outcome_unknown", TRUE, NoRun)
  BY LeaseCallRow
<1>3. RowKept(c) /\ NoNews(c) /\ RowCalm(c)
  BY <1>1, <1>2, SteadyRow
<1> QED BY <1>1, <1>3, SteadyWrote

\* The calls of the queue, and the fence of a reconciliation turn.
LEMMA SteadyVersion ==
  ASSUME LedgerInv, NEW c \in Commands, NEW v,
         \/ create_command(c) \/ claim_next_command(c) \/ cancel_queued_command(c, v)
         \/ mark_run_reconciliation_started(c, v)
  PROVE  LedgerSteady
<1>1. /\ Wrote(c)
      /\ \/ cmd[c].state = "absent" /\ Now(c, "queued", FALSE, NoRun)
         \/ cmd[c].state = "queued" /\ Now(c, "leased", FALSE, NoRun)
         \/ cmd[c].state = "queued" /\ Now(c, "cancelled", FALSE, NoRun)
         \/ cmd[c].state \in Active /\ Now(c, cmd[c].state, TRUE, cmd[c].run)
  BY VersionCallRow
<1>2. cmd[c].state \in Active => cmd[c].dispatched = TRUE
  BY DEF LedgerInv, LedgerTypeOK, GoodRow, Active, Row
<1>3. RowKept(c) /\ NoNews(c) /\ RowCalm(c)
  BY <1>1, <1>2, SteadyRow
<1> QED BY <1>1, <1>3, SteadyWrote

\* A timestamp passes.
LEMMA SteadyClock ==
  ASSUME LedgerInv, NEW c \in Commands, ClockTick(c)
  PROVE  LedgerSteady
BY ClockRow, SteadyRow DEF LedgerSteady

\* The lapsed leases are recovered.
LEMMA SteadyBatch ==
  ASSUME LedgerInv, NEW S \in SUBSET Commands, reconcile_expired_leases(S)
  PROVE  LedgerSteady
<1>1. ASSUME NEW c \in Commands
      PROVE  RowKept(c) /\ NoNews(c) /\ RowCalm(c)
  <2>1. CASE cmd'[c] = cmd[c]
    BY <2>1, SteadyRow DEF Now
  <2>2. CASE cmd'[c] # cmd[c]
    BY <2>2, BatchRow, SteadyRow
  <2> QED BY <2>1, <2>2
<1> QED BY <1>1, BatchRow DEF LedgerSteady

\* A worker that ends its turn, or is outside one, has nothing in hand.
LEMMA FreeMove ==
  ASSUME ConnectorInv, NEW x \in Workers, NEW w \in Worker, Become(x, w),
         w.mode = "none", w.pc \in Free
  PROVE  Moved(x) /\ wk'[x] = w /\ w.pc # "post"
<1>1. /\ wk \in [Workers -> Worker]
      /\ wk' \in [Workers -> Worker]
      /\ wk'[x] = w /\ \A y \in Workers \ {x} : wk'[y] = wk[y]
  BY DEF ConnectorInv, TypeOK, Worker, Become
<1>2. \A c \in Commands : ~Engaged(x, c)'
  BY <1>1 DEF Engaged
<1>3. WorkerInv(x)'
  BY <1>1 DEF WorkerInv, Engaged, Free
<1> QED BY <1>1, <1>2, <1>3 DEF Moved, Free

\* A worker that goes on with its command.
LEMMA TaskMove ==
  ASSUME ConnectorInv, NEW x \in Workers, NEW w \in Worker, Become(x, w),
         w.mode = wk[x].mode, w.c = wk[x].c, w.mode # "none", RowKept(w.c),
         w.mode = "dispatch" => w.pc \in Started /\ wk[x].pc \in Started,
         w.mode = "recover" => w.pc \in Recovering,
         \/ w.pc \in {"ack", "observe", "fold"}
         \/ w.pc \in {"done", "record"} /\ w.res = "ok"
         => w.run \in RunsOf(w.c)',
         w.pc = "fold" => w.obs \in Terminal /\ w.obs = ObservedStatus(hermes'[w.run])
  PROVE  Moved(x) /\ wk'[x] = w
<1>1. /\ wk \in [Workers -> Worker]
      /\ wk' \in [Workers -> Worker]
      /\ wk'[x] = w /\ \A y \in Workers \ {x} : wk'[y] = wk[y]
  BY DEF ConnectorInv, TypeOK, Worker, Become
<1>2. w.c \in Commands /\ w.mode \in {"dispatch", "recover"}
  BY DEF ConnectorInv, WorkerInv, Worker
<1>3. \A c \in Commands : Engaged(x, c)' => Engaged(x, c)
  BY <1>1 DEF Engaged
<1>4. (w.mode = "recover" => Pursued(w.c)')
  BY <1>1, <1>2 DEF ConnectorInv, WorkerInv, RowKept
<1>5. w.mode = "dispatch" =>
        (cmd'[w.c].state = "leased" /\ cmd'[w.c].dispatched) \/ Pursued(w.c)'
  BY <1>1, <1>2 DEF ConnectorInv, WorkerInv, RowKept, Engaged
<1>6. w.pc \notin Free
  BY <1>2 DEF Started, Recovering, Free
<1>7. WorkerInv(x)'
  <2>1. (wk'[x].mode = "none" <=> wk'[x].pc \in Free) /\ wk'[x].c \in Commands
    BY <1>1, <1>2, <1>6
  <2>2. /\ wk'[x].mode = "dispatch" => wk'[x].pc \in Started \cup {"gate"}
        /\ wk'[x].mode = "recover" => wk'[x].pc \in Recovering /\ Pursued(w.c)'
    BY <1>1, <1>4
  <2>3. Engaged(x, w.c)' =>
          (cmd'[w.c].state = "leased" /\ cmd'[w.c].dispatched) \/ Pursued(w.c)'
    BY <1>1, <1>5 DEF Engaged
  <2>4. /\ wk'[x].pc \in {"ack", "observe", "fold"} => wk'[x].run \in RunsOf(w.c)'
        /\ wk'[x].pc \in {"done", "record"} /\ wk'[x].res = "ok"
           => wk'[x].run \in RunsOf(w.c)'
        /\ wk'[x].pc = "fold" =>
             wk'[x].obs \in Terminal /\ wk'[x].obs = ObservedStatus(hermes'[wk'[x].run])
    BY <1>1
  <2> QED BY <1>1, <2>1, <2>2, <2>3, <2>4 DEF WorkerInv
<1> QED BY <1>1, <1>3, <1>7 DEF Moved

-----------------------------------------------------------------------------
(* The steps of run_once.                                                  *)

\* A worker that has just started.
LEMMA IdleTyped ==
  /\ Idle \in Worker /\ Idle.pc = "idle" /\ Idle.mode = "none"
  /\ NoBeat \in Heart /\ Idle.res = "none" /\ Idle.obs = "none" /\ Idle.run = NoRun
BY DEF Idle, NoBeat, Worker, Heart, PC, Result, NoToken

\* The edits of a worker's locals that the steps make.
LEMMA Edited ==
  ASSUME NEW w \in Worker, NEW p \in PC
  PROVE  /\ [w EXCEPT !.pc = p] \in Worker
         /\ \A s \in SUBSET (Commands \X Nat) : [w EXCEPT !.pc = p, !.todo = s] \in Worker
         /\ \A n \in Nat : [w EXCEPT !.pc = p, !.v = n] \in Worker
         /\ \A n \in Nat, e \in Result : [w EXCEPT !.pc = p, !.v = n, !.res = e] \in Worker
         /\ \A e \in Result, r \in Runs \cup {NoRun} :
              [w EXCEPT !.pc = p, !.res = e, !.run = r] \in Worker
         /\ \A r \in Runs \cup {NoRun} : [w EXCEPT !.pc = p, !.run = r] \in Worker
         /\ \A o \in Terminal : [w EXCEPT !.pc = p, !.obs = o] \in Worker
BY DEF Worker

LEMMA EditedTodo ==
  ASSUME NEW w \in Worker, NEW s \in SUBSET (Commands \X Nat)
  PROVE  [w EXCEPT !.todo = s] \in Worker
BY DEF Worker

\* The ranges, one by one.
LEMMA TypesOpen ==
  ASSUME ConnectorInv
  PROVE  /\ wk \in [Workers -> Worker] /\ beat \in [Workers -> Heart]
         /\ cmd \in [Commands -> Row]
         /\ hermes \in [Runs -> Ended \cup {"none", "live"}]
         /\ key \in [Commands -> Runs \cup {NoRun}]
         /\ window \in [Commands -> {"open", "over", "astride"}]
         /\ late \in [Commands -> BOOLEAN]
         /\ receipt \in [Commands -> [st : {"none", "open", "rejected", "terminal"},
                                      run : Runs \cup {NoRun}]]
BY DEF ConnectorInv, TypeOK, LedgerTypeOK, Worker, Heart

\* Worker x moves with the ledger steady and no word from the network or to the
\* journal, to a place where it holds no result.
Drifts(x) ==
  /\ Moved(x) /\ LedgerSteady /\ beat' \in [Workers -> Heart]
  /\ UNCHANGED <<portVars, hermesVars>>
  /\ \/ wk'[x].pc \in Free \cup {"gate"}
     \/ wk'[x].mode = "recover" /\ wk'[x].pc = "port"
     \/ /\ wk'[x].mode = "recover" /\ wk'[x].pc = "observe"
        /\ cmd[wk'[x].c].run # NoRun

\* A worker that drifts keeps the invariant.
LEMMA DriftInv ==
  ASSUME ConnectorInv, NEW x \in Workers, Drifts(x)
  PROVE  ConnectorInv'
BY WorkerStep DEF Drifts, Free

\* Steps outside any turn, and those that end one, when the ledger is steady.
LEMMA FreeStep ==
  ASSUME ConnectorInv, NEW x \in Workers, LedgerSteady,
         NEW w \in Worker, Become(x, w), w.mode = "none", w.pc \in Free,
         beat' \in [Workers -> Heart], UNCHANGED <<portVars, hermesVars>>
  PROVE  Drifts(x)
BY FreeMove DEF Drifts

\* run_once recovers the lapsed leases.
LEMMA BeginCycleDrifts ==
  ASSUME ConnectorInv, NEW x \in Workers, BeginCycle(x)
  PROVE  Drifts(x)
<1>1. LedgerSteady /\ beat' = beat
  BY SteadyBatch DEF ConnectorInv, BeginCycle
<1>2. /\ wk[x].pc = "idle" /\ wk[x].mode = "none"
      /\ \/ Become(x, [wk[x] EXCEPT !.pc = "list"]) \/ Become(x, wk[x])
  BY TypesOpen DEF BeginCycle, At, Go, Become, ConnectorInv, WorkerInv, Free
<1>3. PICK w \in Worker : Become(x, w) /\ w.mode = "none" /\ w.pc \in {"idle", "list"}
  <2>1. "list" \in PC /\ wk[x] \in Worker
    BY TypesOpen DEF PC
  <2>2. [wk[x] EXCEPT !.pc = "list"] \in Worker
    BY <2>1, Edited
  <2> QED BY <1>2, <2>1, <2>2 DEF Worker
<1> QED BY <1>1, <1>3, FreeStep, TypesOpen DEF BeginCycle, Free

\* The list of active commands is read, or is not.
LEMMA ListActiveRunsDrifts ==
  ASSUME ConnectorInv, NEW x \in Workers, ListActiveRuns(x)
  PROVE  Drifts(x)
<1>1. LedgerSteady /\ beat' = beat
  BY SteadyStill DEF ConnectorInv, ListActiveRuns
<1>2. wk[x].pc = "list" /\ wk[x].mode = "none"
  BY DEF ListActiveRuns, At, ConnectorInv, WorkerInv, Free
<1>3. PICK w \in Worker : Become(x, w) /\ w.mode = "none" /\ w.pc \in {"turn", "claim"}
  <2> DEFINE list == {<<c, cmd[c].version>> : c \in {d \in Commands : cmd[d].state \in Active}}
             a == [wk[x] EXCEPT !.pc = "turn", !.todo = list]
             b == [wk[x] EXCEPT !.pc = "claim"]
  <2>1. list \in SUBSET (Commands \X Nat)
    BY TypesOpen DEF Row
  <2>2. a \in Worker /\ b \in Worker
    <3>1. "turn" \in PC /\ "claim" \in PC /\ wk[x] \in Worker
      BY TypesOpen DEF PC
    <3> HIDE DEF list
    <3> QED BY <2>1, <3>1, Edited
  <2>3. Become(x, a) \/ Become(x, b)
    BY DEF ListActiveRuns, Go, Become
  <2>4. a.mode = "none" /\ a.pc = "turn" /\ b.mode = "none" /\ b.pc = "claim"
    BY <1>2, TypesOpen DEF Worker
  <2> HIDE DEF a, b
  <2> QED BY <2>2, <2>3, <2>4
<1> QED BY <1>1, <1>3, FreeStep, TypesOpen DEF ListActiveRuns, Free

\* A command of the list is passed over.
LEMMA SkipTurnDrifts ==
  ASSUME ConnectorInv, NEW x \in Workers, NEW c, NEW v, SkipTurn(x, c, v)
  PROVE  Drifts(x)
<1>1. LedgerSteady /\ beat' = beat
  BY SteadyStill DEF ConnectorInv, SkipTurn
<1>2. wk[x].pc = "turn" /\ wk[x].mode = "none"
  BY DEF SkipTurn, At, ConnectorInv, WorkerInv, Free
<1>3. PICK w \in Worker : Become(x, w) /\ w.mode = "none" /\ w.pc = "turn"
  <2> DEFINE rest == wk[x].todo \ {<<c, v>>}
             a == [wk[x] EXCEPT !.todo = rest]
  <2>1. a \in Worker /\ a.mode = "none" /\ a.pc = "turn"
    <3>1. wk[x] \in Worker
      BY TypesOpen
    <3>2. rest \in SUBSET (Commands \X Nat)
      BY <3>1 DEF Worker
    <3> HIDE DEF rest
    <3>3. a \in Worker
      BY <3>1, <3>2, EditedTodo
    <3>4. a.mode = wk[x].mode /\ a.pc = wk[x].pc
      BY <3>1 DEF Worker
    <3> QED BY <1>2, <3>3, <3>4
  <2>2. Become(x, a)
    BY DEF SkipTurn, Become
  <2> HIDE DEF a
  <2> QED BY <2>1, <2>2
<1> QED BY <1>1, <1>3, FreeStep, TypesOpen DEF SkipTurn, Free

\* The list is done.
LEMMA EndTurnsDrifts ==
  ASSUME ConnectorInv, NEW x \in Workers, EndTurns(x)
  PROVE  Drifts(x)
<1>1. LedgerSteady /\ beat' = beat
  BY SteadyStill DEF ConnectorInv, EndTurns
<1>2. wk[x].pc = "turn" /\ wk[x].mode = "none"
  BY DEF EndTurns, At, ConnectorInv, WorkerInv, Free
<1>3. PICK w \in Worker : Become(x, w) /\ w.mode = "none" /\ w.pc = "claim"
  <2> DEFINE a == [wk[x] EXCEPT !.pc = "claim"]
  <2>1. a \in Worker /\ a.mode = "none" /\ a.pc = "claim"
    <3>1. "claim" \in PC /\ wk[x] \in Worker
      BY TypesOpen DEF PC
    <3>2. a.mode = wk[x].mode /\ a.pc = "claim"
      BY <3>1 DEF Worker
    <3> QED BY <1>2, <3>1, <3>2, Edited
  <2>2. Become(x, a)
    BY DEF EndTurns, Go, Become
  <2> HIDE DEF a
  <2> QED BY <2>1, <2>2
<1> QED BY <1>1, <1>3, FreeStep, TypesOpen DEF EndTurns, Free

\* Steps after which the worker is idle.
LEMMA IdleStep ==
  ASSUME ConnectorInv, NEW x \in Workers, LedgerSteady, Become(x, Idle),
         beat' \in [Workers -> Heart], UNCHANGED <<portVars, hermesVars>>
  PROVE  Drifts(x)
BY FreeStep, IdleTyped DEF Free

\* Steps after which the worker goes on to its next turn.
LEMMA EndTurnStep ==
  ASSUME ConnectorInv, NEW x \in Workers, EndTurn(x)
  PROVE  \E w \in Worker : Become(x, w) /\ w.mode = "none" /\ w.pc = "turn"
<1> DEFINE a == [Idle EXCEPT !.pc = "turn", !.todo = wk[x].todo]
<1>1. a \in Worker /\ a.mode = "none" /\ a.pc = "turn"
  BY IdleTyped, TypesOpen DEF Worker, PC
<1>2. Become(x, a)
  BY DEF EndTurn
<1> HIDE DEF a
<1> QED BY <1>1, <1>2

\* The queue is empty.
LEMMA ClaimNothingDrifts ==
  ASSUME ConnectorInv, NEW x \in Workers, ClaimNothing(x)
  PROVE  Drifts(x)
BY SteadyStill, IdleStep, TypesOpen DEF ConnectorInv, ClaimNothing

\* claim_next_command hands out a command nobody else has marked.
LEMMA ClaimDrifts ==
  ASSUME ConnectorInv, NEW x \in Workers, NEW c \in Commands, Claim(x, c)
  PROVE  Drifts(x)
<1>1. LedgerSteady /\ beat' = beat
  BY SteadyVersion DEF ConnectorInv, Claim
<1>2. PICK w \in Worker : /\ Become(x, w) /\ w.mode = "dispatch"
                          /\ w.pc = "gate" /\ w.c = c
  <2> DEFINE n == cmd[c].version + 1
             a == [Idle EXCEPT !.pc = "gate", !.mode = "dispatch", !.c = c, !.v = n, !.t = n]
  <2>1. n \in Nat
    BY TypesOpen DEF Row
  <2>2. a \in Worker /\ a.mode = "dispatch" /\ a.pc = "gate" /\ a.c = c
    <3> HIDE DEF n
    <3> QED BY <2>1, IdleTyped DEF Worker, PC
  <2>3. Become(x, a)
    BY DEF Claim
  <2> HIDE DEF a
  <2> QED BY <2>2, <2>3
<1>3. Moved(x) /\ wk'[x] = w
  <2>1. /\ wk' \in [Workers -> Worker]
        /\ wk'[x] = w /\ \A y \in Workers \ {x} : wk'[y] = wk[y]
    BY <1>2, TypesOpen DEF Become
  <2>2. \A d \in Commands : ~Engaged(x, d)'
    BY <1>2, <2>1 DEF Engaged, Started
  <2>3. WorkerInv(x)'
    BY <1>2, <2>1, <2>2 DEF WorkerInv, Free
  <2> QED BY <2>1, <2>2, <2>3 DEF Moved
<1> QED BY <1>1, <1>2, <1>3, TypesOpen DEF Claim, Drifts

\* mark_run_reconciliation_started only takes up a command that is pursued.
LEMMA StartTurnDrifts ==
  ASSUME ConnectorInv, NEW x \in Workers, NEW c \in Commands, NEW v \in Nat,
         StartTurn(x, c, v)
  PROVE  Drifts(x)
<1>1. LedgerSteady /\ beat' = beat
  BY SteadyVersion DEF ConnectorInv, StartTurn
<1>2. PICK w \in Worker : /\ Become(x, w) /\ w.mode = "recover" /\ w.c = c
                          /\ w.run = cmd[c].run
                          /\ w.pc = IF cmd[c].run = NoRun THEN "port" ELSE "observe"
  <2>1. PICK p \in PC, r \in Runs \cup {NoRun}, s \in SUBSET (Commands \X Nat), n \in Nat :
               /\ p = (IF cmd[c].run = NoRun THEN "port" ELSE "observe")
               /\ r = cmd[c].run /\ s = wk[x].todo \ {<<c, v>>} /\ n = v + 1
    <3>1. (IF cmd[c].run = NoRun THEN "port" ELSE "observe") \in PC
      BY DEF PC
    <3>2. cmd[c].run \in Runs \cup {NoRun} /\ v + 1 \in Nat
      BY TypesOpen DEF Row
    <3>3. wk[x].todo \ {<<c, v>>} \in SUBSET (Commands \X Nat)
      BY TypesOpen DEF Worker
    <3> QED BY <3>1, <3>2, <3>3
  <2> DEFINE a == [Idle EXCEPT !.pc = p, !.mode = "recover", !.c = c, !.v = n,
                               !.run = r, !.todo = s]
  <2>2. a \in Worker /\ a.mode = "recover" /\ a.pc = p /\ a.c = c /\ a.run = r
    BY IdleTyped DEF Worker
  <2>3. Become(x, a)
    BY <2>1 DEF StartTurn
  <2> HIDE DEF a
  <2> QED BY <2>1, <2>2, <2>3
<1>3. cmd[c].state \in Active /\ Now(c, cmd[c].state, TRUE, cmd[c].run)
  BY VersionCallRow DEF ConnectorInv, StartTurn
<1>4. cmd[c].run = NoRun => cmd[c].state = "outcome_unknown"
  BY <1>3 DEF ConnectorInv, LedgerInv, GoodRow, Active
<1>5. Pursued(c)'
  BY <1>3, <1>4 DEF Now, Pursued
<1>6. RunsOf(c)' = RunsOf(c) /\ (cmd[c].run # NoRun => cmd[c].run \in RunsOf(c))
  BY DEF StartTurn, hermesVars, RunsOf, ConnectorInv, LedgerTellsHermes
<1>7. Moved(x) /\ wk'[x] = w
  <2>1. /\ wk' \in [Workers -> Worker]
        /\ wk'[x] = w /\ \A y \in Workers \ {x} : wk'[y] = wk[y]
    BY <1>2, TypesOpen DEF Become
  <2>2. \A d \in Commands : ~Engaged(x, d)'
    BY <1>2, <2>1 DEF Engaged
  <2>3. WorkerInv(x)'
    BY <1>2, <1>5, <1>6, <2>1, <2>2 DEF WorkerInv, Free, Recovering
  <2> QED BY <2>1, <2>2, <2>3 DEF Moved
<1> QED BY <1>1, <1>2, <1>7, TypesOpen DEF StartTurn, Drifts

-----------------------------------------------------------------------------
(* The steps of _claim_and_dispatch.                                       *)

\* A worker inside a turn has a command.
LEMMA InTask ==
  ASSUME ConnectorInv, NEW x \in Workers, wk[x].pc \notin Free
  PROVE  /\ wk[x] \in Worker /\ wk[x].c \in Commands
         /\ wk[x].mode \in {"dispatch", "recover"}
         /\ wk[x].pc \in Started \cup Recovering \cup {"gate"}
         /\ wk[x].v \in Nat /\ wk[x].v + 1 \in Nat
BY TypesOpen DEF ConnectorInv, WorkerInv, Worker

\* A worker inside a call of its command gets the result.
LEMMA FinishMove ==
  ASSUME ConnectorInv, NEW x \in Workers, NEW e \in Result, NEW r \in Runs \cup {NoRun},
         wk[x].pc \in {"resolve", "port", "post", "ack", "nack"},
         NEW c \in Commands, wk[x].c = c,
         Finish(x, e, r), RowKept(c), e = "ok" => r \in RunsOf(c)'
  PROVE  /\ Moved(x) /\ wk'[x].pc = "done" /\ wk'[x].mode = wk[x].mode
         /\ wk'[x].c = c /\ wk'[x].res = e /\ wk'[x].run = r
<1>1. /\ wk[x] \in Worker /\ wk[x].c \in Commands /\ wk[x].mode \in {"dispatch", "recover"}
      /\ "done" \in PC
  BY InTask DEF Free, PC
<1>2. PICK w \in Worker : w = [wk[x] EXCEPT !.pc = "done", !.res = e, !.run = r]
  BY <1>1, Edited
<1>3. /\ Become(x, w) /\ w.mode = wk[x].mode /\ w.c = c /\ w.pc = "done"
      /\ w.res = e /\ w.run = r
  BY <1>1, <1>2 DEF Finish, Become, Worker
<1>4. RowKept(w.c) /\ (w.res = "ok" => w.run \in RunsOf(w.c)')
  BY <1>3
<1>5. wk[x].pc \in Started /\ w.pc \in Started /\ w.pc \in Recovering
  BY <1>3 DEF Started, Recovering
<1> QED BY <1>1, <1>3, <1>4, <1>5, TaskMove

\* mark_dispatch_started: the lease was unmarked, so no one else is engaged.
LEMMA StartDispatchInv ==
  ASSUME ConnectorInv, NEW x \in Workers, StartDispatch(x)
  PROVE  ConnectorInv'
<1> DEFINE w == wk[x]
<1>1. w.pc = "gate" /\ w.mode = "dispatch" /\ w.c \in Commands /\ w \in Worker
  BY InTask DEF StartDispatch, At, ConnectorInv, WorkerInv, Free, Recovering
<1>2. LedgerSteady /\ beat' = beat
  BY <1>1, SteadyLease DEF ConnectorInv, StartDispatch
<1>3. /\ cmd[w.c].state = "leased" /\ cmd[w.c].run = NoRun /\ ~cmd[w.c].dispatched
      /\ Now(w.c, "leased", TRUE, NoRun)
  BY <1>1, LeaseCallRow DEF ConnectorInv, StartDispatch, LeaseCall
<1>4. PICK n \in Worker :
        /\ Become(x, n) /\ n.mode = "dispatch" /\ n.c = w.c
        /\ n.pc = "resolve" \/ (n.pc = "done" /\ n.res # "ok")
  <2>1. "resolve" \in PC /\ "done" \in PC /\ w.v + 1 \in Nat
        /\ "unavailable" \in Result /\ "rejected" \in Result
    BY <1>1 DEF PC, Result, Worker
  <2>2. CASE Become(x, [w EXCEPT !.pc = "resolve", !.v = @ + 1])
    <3>1. PICK n \in Worker : n = [w EXCEPT !.pc = "resolve", !.v = @ + 1]
      BY <1>1, <2>1, Edited
    <3> QED BY <1>1, <2>2, <3>1 DEF Worker
  <2>3. ASSUME NEW e \in {"unavailable", "rejected"},
               Become(x, [w EXCEPT !.pc = "done", !.v = @ + 1, !.res = e])
        PROVE  \E n \in Worker :
                 /\ Become(x, n) /\ n.mode = "dispatch" /\ n.c = w.c
                 /\ n.pc = "resolve" \/ (n.pc = "done" /\ n.res # "ok")
    <3>1. PICK n \in Worker : n = [w EXCEPT !.pc = "done", !.v = @ + 1, !.res = e]
      BY <1>1, <2>1, Edited
    <3>2. n.mode = "dispatch" /\ n.c = w.c /\ n.pc = "done" /\ n.res = e
      BY <1>1, <3>1 DEF Worker
    <3> QED BY <2>3, <3>1, <3>2
  <2> QED BY <2>2, <2>3 DEF StartDispatch
<1>5. /\ wk' \in [Workers -> Worker]
      /\ wk'[x] = n /\ \A y \in Workers \ {x} : wk'[y] = wk[y]
  BY <1>4, TypesOpen DEF Become
<1>6. \A c \in Commands : Engaged(x, c)' => \A y \in Workers \ {x} : ~Engaged(y, c)
  <2> SUFFICES ASSUME NEW y \in Workers, Engaged(y, w.c) PROVE FALSE
    BY <1>4, <1>5 DEF Engaged
  <2> QED BY <1>3 DEF ConnectorInv, WorkerInv, Engaged, Pursued
<1>7. WorkerInv(x)'
  <2>1. Engaged(x, n.c)' => cmd'[n.c].state = "leased" /\ cmd'[n.c].dispatched
    BY <1>3, <1>4 DEF Now
  <2>2. n.c \in Commands /\ n.pc \in {"resolve", "done"}
    BY <1>1, <1>4
  <2> QED BY <1>4, <1>5, <2>1, <2>2 DEF WorkerInv, Free, Started
<1>8. Moved(x) /\ wk'[x].pc # "post"
  BY <1>4, <1>5, <1>6, <1>7 DEF Moved
<1> QED BY <1>2, <1>8, WorkerStep, TypesOpen DEF StartDispatch

\* The lease is extended before the call.
LEMMA ResolveAndBeatInv ==
  ASSUME ConnectorInv, NEW x \in Workers, ResolveAndBeat(x)
  PROVE  ConnectorInv'
<1>1. /\ wk[x].pc = "resolve" /\ wk[x].mode = "dispatch" /\ wk[x].c \in Commands
      /\ wk[x] \in Worker /\ wk[x].v + 1 \in Nat
  BY InTask DEF ResolveAndBeat, At, ConnectorInv, WorkerInv, Free, Recovering
<1>2. LedgerSteady
  BY <1>1, SteadyLease DEF ConnectorInv, ResolveAndBeat
<1>3. PICK n \in Worker : n = [wk[x] EXCEPT !.pc = "port", !.v = @ + 1]
  BY <1>1, Edited DEF PC
<1>4. Become(x, n) /\ n.mode = "dispatch" /\ n.c = wk[x].c /\ n.pc = "port"
  BY <1>1, <1>3 DEF ResolveAndBeat, Worker
<1>5. Moved(x) /\ wk'[x] = n
  BY <1>1, <1>2, <1>4, TaskMove DEF LedgerSteady, Started
<1>6. beat' \in [Workers -> Heart]
  <2>1. [st |-> "waiting", c |-> wk[x].c, v |-> wk[x].v + 1, t |-> wk[x].t] \in Heart
    BY <1>1 DEF Heart, Worker
  <2> QED BY <2>1, TypesOpen DEF ResolveAndBeat
<1> QED BY <1>2, <1>4, <1>5, <1>6, WorkerStep DEF ResolveAndBeat

\* The session cannot be resolved.
LEMMA ResolveFailsInv ==
  ASSUME ConnectorInv, NEW x \in Workers, ResolveFails(x)
  PROVE  ConnectorInv'
<1>1. LedgerSteady /\ beat' = beat
  BY SteadyStill DEF ConnectorInv, ResolveFails
<1>2. wk[x].pc = "resolve" /\ wk[x].c \in Commands
  BY InTask DEF ResolveFails, At, Free
<1>3. PICK e \in {"unavailable", "rejected"} : Finish(x, e, NoRun)
  BY DEF ResolveFails
<1>4. PICK c \in Commands : c = wk[x].c
  BY <1>2
<1>5. RowKept(c)
  BY <1>1 DEF LedgerSteady
<1>6. Moved(x) /\ wk'[x].pc = "done"
  BY <1>2, <1>3, <1>4, <1>5, FinishMove DEF Result
<1> QED BY <1>1, <1>6, WorkerStep, TypesOpen DEF ResolveFails

\* A lease lost before the network: the dispatch is dropped.
LEMMA LeaseLostDrifts ==
  ASSUME ConnectorInv, NEW x \in Workers, LeaseLost(x)
  PROVE  Drifts(x)
BY SteadyStill, IdleStep, TypesOpen DEF ConnectorInv, LeaseLost

\* A result that cannot be recorded is dropped.
LEMMA RecordLostDrifts ==
  ASSUME ConnectorInv, NEW x \in Workers, RecordLost(x)
  PROVE  Drifts(x)
BY SteadyStill, IdleStep, TypesOpen DEF ConnectorInv, RecordLost

\* The call of the port is over.
LEMMA ReadLatestInv ==
  ASSUME ConnectorInv, NEW x \in Workers, ReadLatest(x)
  PROVE  ConnectorInv'
<1>1. LedgerSteady
  BY SteadyStill DEF ConnectorInv, ReadLatest
<1>2. /\ wk[x].pc = "done" /\ wk[x].mode = "dispatch" /\ wk[x].c \in Commands
      /\ wk[x] \in Worker /\ Latest(x) \in Nat /\ "record" \in PC
  BY InTask, TypesOpen DEF ReadLatest, At, Free, Latest, Heart, PC
<1>3. PICK n \in Worker : n = [wk[x] EXCEPT !.pc = "record", !.v = Latest(x)]
  BY <1>2, Edited
<1>4. /\ Become(x, n) /\ n.mode = "dispatch" /\ n.c = wk[x].c /\ n.pc = "record"
      /\ n.res = wk[x].res /\ n.run = wk[x].run
  BY <1>2, <1>3 DEF ReadLatest, Worker
<1>5. n.res = "ok" => n.run \in RunsOf(n.c)'
  <2>1. RunsOf(n.c)' = RunsOf(n.c)
    BY DEF ReadLatest, hermesVars, RunsOf
  <2> QED BY <1>2, <1>4, <2>1 DEF ConnectorInv, WorkerInv
<1>6. Moved(x) /\ wk'[x] = n
  BY <1>1, <1>2, <1>4, <1>5, TaskMove DEF LedgerSteady, Started
<1>7. beat' \in [Workers -> Heart]
  BY IdleTyped, TypesOpen DEF ReadLatest, StopBeat
<1> QED BY <1>1, <1>4, <1>6, <1>7, WorkerStep DEF ReadLatest

\* The holder of a marked dispatch records what it knows and is idle.
LEMMA RecordStep ==
  ASSUME ConnectorInv, NEW x \in Workers, NEW c \in Commands, Engaged(x, c),
         Become(x, Idle), Wrote(c), cmd[c].state = "leased", cmd[c].run = NoRun,
         NEW s, NEW d, NEW r,
         Now(c, s, d, r),
         r = NoRun \/ (s = "delivered" /\ r \in RunsOf(c)),
         UNCHANGED <<beat, portVars, hermesVars>>
  PROVE  ConnectorInv'
<1>1. Moved(x) /\ wk'[x] = Idle
  BY FreeMove, IdleTyped DEF Free
<1>2. \A y \in Workers \ {x} : Engaged(y, wk[y].c) \/ wk[y].mode = "recover"
                                => RowKept(wk[y].c)
  <2> SUFFICES ASSUME NEW y \in Workers, y # x,
                      Engaged(y, wk[y].c) \/ wk[y].mode = "recover"
               PROVE  RowKept(wk[y].c)
    OBVIOUS
  <2>1. wk[y].c \in Commands /\ wk[y].c # c
    BY DEF ConnectorInv, WorkerInv, EngagedAlone, Engaged, Pursued
  <2> QED BY <1>1, <2>1 DEF Moved, Wrote, RowKept, Pursued
<1>3. LedgerTellsHermes'
  <2> SUFFICES ASSUME NEW e \in Commands, cmd'[e].run # NoRun
               PROVE  /\ cmd'[e].run \in RunsOf(e)
                      /\ cmd'[e].state = "succeeded" => hermes[cmd'[e].run] = "completed"
                      /\ cmd'[e].state = "failed" =>
                           hermes[cmd'[e].run] \in {"partial", "failed"}
                      /\ cmd'[e].state = "cancelled" => hermes[cmd'[e].run] = "cancelled"
    BY DEF LedgerTellsHermes, hermesVars, RunsOf
  <2>1. CASE e = c
    BY <2>1 DEF Now
  <2>2. CASE e # c
    BY <2>2 DEF Wrote, ConnectorInv, LedgerTellsHermes
  <2> QED BY <2>1, <2>2
<1> QED BY <1>1, <1>2, <1>3, OwnStep, IdleTyped, TypesOpen DEF Wrote

\* _record_dispatch_result: the Run it names is one of the command.
LEMMA RecordResultInv ==
  ASSUME ConnectorInv, NEW x \in Workers, RecordResult(x)
  PROVE  ConnectorInv'
<1> DEFINE w == wk[x]
<1>1. w.pc = "record" /\ w.mode = "dispatch" /\ w.c \in Commands /\ Engaged(x, w.c)
  BY InTask DEF RecordResult, At, ConnectorInv, WorkerInv, Free, Recovering, Engaged, Started
<1>2. /\ Become(x, Idle) /\ UNCHANGED <<beat, portVars, hermesVars>>
      /\ LedgerInv
  BY DEF RecordResult, ConnectorInv
<1>3. CASE w.res = "ok" /\ mark_delivered(w.c, w.v, w.t, w.run)
  <2>1. w.run \in RunsOf(w.c) /\ w.run \in Runs
    BY <1>1, <1>3 DEF ConnectorInv, WorkerInv, RunsOf
  <2>2. /\ Wrote(w.c) /\ cmd[w.c].state = "leased" /\ cmd[w.c].run = NoRun
        /\ Now(w.c, "delivered", TRUE, w.run)
    BY <1>1, <1>2, <1>3, <2>1, LeaseCallRow DEF LeaseCall
  <2> QED BY <1>1, <1>2, <2>1, <2>2, RecordStep
<1>4. CASE \/ mark_dispatch_rejected(w.c, w.v, w.t)
           \/ mark_dispatch_unavailable(w.c, w.v, w.t)
           \/ mark_dispatch_timeout(w.c, w.v, w.t)
  <2>1. /\ Wrote(w.c) /\ cmd[w.c].state = "leased" /\ cmd[w.c].run = NoRun
        /\ \/ Now(w.c, "failed", TRUE, NoRun) \/ Now(w.c, "queued", FALSE, NoRun)
           \/ Now(w.c, "outcome_unknown", TRUE, NoRun)
    BY <1>1, <1>2, <1>4, LeaseCallRow DEF LeaseCall
  <2> QED BY <1>1, <1>2, <2>1, RecordStep
<1> QED BY <1>3, <1>4 DEF RecordResult

-----------------------------------------------------------------------------
(* The steps of a reconciliation turn.                                     *)

\* The frame of the steps of one worker that write the journal, or leave a POST
\* behind.
LEMMA JournalStep ==
  ASSUME ConnectorInv, NEW x \in Workers, Moved(x), UNCHANGED ledgerVars,
         UNCHANGED <<window, hermes, key>>, beat' \in [Workers -> Heart],
         late' \in [Commands -> BOOLEAN],
         receipt' \in [Commands -> [st : {"none", "open", "rejected", "terminal"},
                                    run : Runs \cup {NoRun}]],
         \A c \in Commands :
           /\ InFlight(c)' => InFlight(c) \/ window[c] = "open"
           /\ receipt'[c].run # receipt[c].run => receipt'[c].run \in RunsOf(c)
           /\ receipt[c].st # "none" => receipt'[c].st # "none"
  PROVE  ConnectorInv'
<1>1. LedgerSteady
  BY SteadyStill DEF ConnectorInv
<1>2. HermesSteady
  BY DEF HermesSteady, HermesGrows
<1>3. TypeOK'
  BY <1>1 DEF ConnectorInv, TypeOK, LedgerSteady, LedgerInv, Moved, Worker, Heart
<1>4. \A c \in Commands : CommandInv(c)'
  BY <1>2, CommandStands DEF ConnectorInv
<1>5. \A y \in Workers : WorkerInv(y)'
  <2> SUFFICES ASSUME NEW y \in Workers, y # x PROVE WorkerInv(y)'
    BY DEF Moved
  <2>1. wk'[y] = wk[y] /\ (wk[y].mode # "none" => wk[y].c \in Commands)
    BY DEF Moved, ConnectorInv, WorkerInv
  <2>2. Engaged(y, wk[y].c) \/ wk[y].mode = "recover" => RowKept(wk[y].c)
    BY <1>1, <2>1 DEF LedgerSteady, Engaged
  <2> QED BY <1>2, <2>1, <2>2, WorkerStands DEF ConnectorInv, HermesSteady
<1>6. EngagedAlone'
  BY DEF ConnectorInv, EngagedAlone, Moved, Engaged
<1>7. LedgerTellsHermes'
  BY <1>1, <1>2, TellsStands DEF ConnectorInv, LedgerSteady, HermesSteady
<1> QED BY <1>1, <1>3, <1>4, <1>5, <1>6, <1>7 DEF ConnectorInv, LedgerSteady

\* A recovery that finds no Run or has lost its version.
LEMMA RecoveryLostDrifts ==
  ASSUME ConnectorInv, NEW x \in Workers, RecoveryLost(x)
  PROVE  Drifts(x)
<1>1. LedgerSteady /\ EndTurn(x)
  BY SteadyStill DEF ConnectorInv, RecoveryLost
<1> QED BY <1>1, EndTurnStep, FreeStep, TypesOpen DEF RecoveryLost, Free

\* An observation that cannot be recorded.
LEMMA ObservationLostDrifts ==
  ASSUME ConnectorInv, NEW x \in Workers, ObservationLost(x)
  PROVE  Drifts(x)
<1>1. LedgerSteady /\ EndTurn(x)
  BY SteadyStill DEF ConnectorInv, ObservationLost
<1> QED BY <1>1, EndTurnStep, FreeStep, TypesOpen DEF ObservationLost, Free

\* reconcile_outcome_as_delivered binds the Run the port recovered.
LEMMA RecordRecoveryInv ==
  ASSUME ConnectorInv, NEW x \in Workers, RecordRecovery(x)
  PROVE  ConnectorInv'
<1>1. /\ wk[x].pc = "done" /\ wk[x].mode = "recover" /\ wk[x].c \in Commands
      /\ wk[x] \in Worker /\ wk[x].v + 1 \in Nat /\ LedgerInv
      /\ wk[x].run \in RunsOf(wk[x].c) /\ wk[x].run \in Runs
  BY InTask DEF RecordRecovery, At, Free, ConnectorInv, WorkerInv, RunsOf
<1>2. PICK c \in Commands, r \in Runs : c = wk[x].c /\ r = wk[x].run
  BY <1>1
<1>3. /\ Wrote(c) /\ cmd[c].state = "outcome_unknown" /\ cmd[c].run = NoRun
      /\ Now(c, "delivered", TRUE, r)
  BY <1>1, <1>2, VersionCallRow DEF RecordRecovery
<1>4. \A d \in Commands : RowKept(d)
  BY <1>2, <1>3, RunsAssumption DEF Wrote, Now, RowKept, Pursued
<1>5. PICK n \in Worker : n = [wk[x] EXCEPT !.pc = "observe", !.v = @ + 1, !.res = "none"]
  BY <1>1, Edited DEF PC, Result
<1>6. /\ Become(x, n) /\ n.mode = "recover" /\ n.c = c /\ n.pc = "observe" /\ n.run = r
  BY <1>1, <1>2, <1>5 DEF RecordRecovery, Worker
<1>7. n.run \in RunsOf(n.c)'
  BY <1>1, <1>2, <1>6 DEF RecordRecovery, hermesVars, RunsOf
<1>8. Moved(x) /\ wk'[x] = n
  BY <1>1, <1>2, <1>4, <1>6, <1>7, TaskMove DEF Recovering
<1>9. LedgerTellsHermes'
  <2> SUFFICES ASSUME NEW e \in Commands, cmd'[e].run # NoRun
               PROVE  /\ cmd'[e].run \in RunsOf(e)
                      /\ cmd'[e].state = "succeeded" => hermes[cmd'[e].run] = "completed"
                      /\ cmd'[e].state = "failed" =>
                           hermes[cmd'[e].run] \in {"partial", "failed"}
                      /\ cmd'[e].state = "cancelled" => hermes[cmd'[e].run] = "cancelled"
    BY DEF LedgerTellsHermes, RecordRecovery, hermesVars, RunsOf
  <2>1. CASE e = c
    BY <1>1, <1>2, <1>3, <2>1 DEF Now
  <2>2. CASE e # c
    BY <1>3, <2>2 DEF Wrote, ConnectorInv, LedgerTellsHermes
  <2> QED BY <2>1, <2>2
<1>10. \A y \in Workers \ {x} : Engaged(y, wk[y].c) \/ wk[y].mode = "recover"
                                => RowKept(wk[y].c)
  BY <1>4, <1>8 DEF Moved, ConnectorInv, WorkerInv, Engaged
<1> QED BY <1>3, <1>6, <1>8, <1>9, <1>10, OwnStep, TypesOpen DEF Wrote, RecordRecovery

\* What is observed of an ended Run stays so.
LEMMA ObserveInv ==
  ASSUME ConnectorInv, NEW x \in Workers, Observe(x)
  PROVE  ConnectorInv'
<1> DEFINE status == ObservedStatus(hermes[wk[x].run])
<1>1. /\ wk[x].pc = "observe" /\ wk[x].mode = "recover" /\ wk[x].c \in Commands
      /\ wk[x] \in Worker /\ wk[x].run \in RunsOf(wk[x].c)
  BY InTask DEF Observe, At, Free, ConnectorInv, WorkerInv, Started
<1>2. CASE status \notin Terminal
  <2>1. LedgerSteady /\ EndTurn(x) /\ UNCHANGED <<portVars, hermesVars, beat>>
    BY <1>2, SteadyStill DEF ConnectorInv, Observe, portVars
  <2> QED BY <2>1, EndTurnStep, FreeStep, DriftInv, TypesOpen DEF Free
<1>3. CASE status \in Terminal
  <2>1. PICK n \in Worker : n = [wk[x] EXCEPT !.pc = "fold", !.obs = status]
    BY <1>1, <1>3, Edited DEF PC
  <2>2. /\ Become(x, n) /\ n.mode = "recover" /\ n.c = wk[x].c /\ n.pc = "fold"
        /\ n.run = wk[x].run /\ n.obs = status
    BY <1>1, <1>3, <2>1 DEF Observe, Worker
  <2>3. RunsOf(n.c)' = RunsOf(n.c) /\ hermes' = hermes
    BY DEF Observe, hermesVars, RunsOf
  <2>4. RowKept(n.c)
    BY <1>1, <2>2, SteadyStill DEF ConnectorInv, Observe, LedgerSteady
  <2>5. n.run \in RunsOf(n.c)' /\ n.obs \in Terminal
        /\ n.obs = ObservedStatus(hermes'[n.run])
    BY <1>1, <1>3, <2>2, <2>3
  <2>6. Moved(x) /\ wk'[x] = n
    <3>1. Become(x, n) /\ n.mode = wk[x].mode /\ n.c = wk[x].c /\ n.mode # "none"
      BY <1>1, <2>2
    <3>2. n.mode = "dispatch" => n.pc \in Started /\ wk[x].pc \in Started
      BY <2>2
    <3>3. n.mode = "recover" => n.pc \in Recovering
      BY <2>2 DEF Recovering
    <3> HIDE DEF status
    <3> QED BY <2>4, <2>5, <3>1, <3>2, <3>3, TaskMove
  <2>7. /\ receipt' \in [Commands -> [st : {"none", "open", "rejected", "terminal"},
                                      run : Runs \cup {NoRun}]]
        /\ \A c \in Commands : /\ receipt'[c].run = receipt[c].run
                               /\ receipt[c].st # "none" => receipt'[c].st # "none"
    BY <1>3, TypesOpen DEF Observe
  <2>8. \A c \in Commands : InFlight(c)' => InFlight(c)
    BY <2>2, <2>6 DEF Moved, InFlight, At, Observe, hermesVars
  <2> QED BY <2>6, <2>7, <2>8, JournalStep, TypesOpen DEF Observe, hermesVars
<1> QED BY <1>2, <1>3

\* _mark_run_terminal records the observed end of a Run of the command.
LEMMA FoldInv ==
  ASSUME ConnectorInv, NEW x \in Workers, Fold(x)
  PROVE  ConnectorInv'
<1>1. /\ wk[x].pc = "fold" /\ wk[x].mode = "recover" /\ wk[x].c \in Commands
      /\ wk[x].run \in RunsOf(wk[x].c) /\ wk[x].run \in Runs
      /\ wk[x].obs \in Terminal /\ wk[x].obs = ObservedStatus(hermes[wk[x].run])
  BY InTask DEF Fold, At, Free, Started, ConnectorInv, WorkerInv, RunsOf
<1>2. PICK c \in Commands, r \in Runs, s \in Terminal :
        c = wk[x].c /\ r = wk[x].run /\ s = wk[x].obs
  BY <1>1
<1>3. /\ Wrote(c) /\ cmd[c].state \in Active /\ cmd[c].run \in {NoRun, r}
      /\ Now(c, s, TRUE, r)
  BY <1>2, VersionCallRow DEF Fold, ConnectorInv
<1>4. \A d \in Commands : RowKept(d)
  BY <1>2, <1>3, RunsAssumption DEF Wrote, Now, RowKept, Pursued, Active
<1>5. PICK n \in Worker : Become(x, n) /\ n.mode = "none" /\ n.pc = "turn"
  BY EndTurnStep DEF Fold
<1>6. Moved(x) /\ wk'[x] = n
  BY <1>5, FreeMove DEF Free
<1>7. /\ s = "succeeded" => hermes[r] = "completed"
      /\ s = "failed" => hermes[r] \in {"partial", "failed"}
      /\ s = "cancelled" => hermes[r] = "cancelled"
  BY <1>1, <1>2 DEF ObservedStatus
<1>8. LedgerTellsHermes'
  <2> SUFFICES ASSUME NEW e \in Commands, cmd'[e].run # NoRun
               PROVE  /\ cmd'[e].run \in RunsOf(e)
                      /\ cmd'[e].state = "succeeded" => hermes[cmd'[e].run] = "completed"
                      /\ cmd'[e].state = "failed" =>
                           hermes[cmd'[e].run] \in {"partial", "failed"}
                      /\ cmd'[e].state = "cancelled" => hermes[cmd'[e].run] = "cancelled"
    BY DEF LedgerTellsHermes, Fold, hermesVars, RunsOf
  <2>1. CASE e = c
    BY <1>1, <1>2, <1>3, <1>7, <2>1 DEF Now
  <2>2. CASE e # c
    BY <1>3, <2>2 DEF Wrote, ConnectorInv, LedgerTellsHermes
  <2> QED BY <2>1, <2>2
<1>9. \A y \in Workers \ {x} : Engaged(y, wk[y].c) \/ wk[y].mode = "recover"
                                => RowKept(wk[y].c)
  BY <1>4, <1>6 DEF Moved, ConnectorInv, WorkerInv, Engaged
<1> QED BY <1>3, <1>5, <1>6, <1>8, <1>9, OwnStep, TypesOpen DEF Wrote, Fold

-----------------------------------------------------------------------------
(* The steps of submit_or_recover.                                         *)

\* The port fails before the journal.
LEMMA PortFailsInv ==
  ASSUME ConnectorInv, NEW x \in Workers, PortFails(x)
  PROVE  ConnectorInv'
<1>1. LedgerSteady /\ beat' = beat
  BY SteadyStill DEF ConnectorInv, PortFails
<1>2. PICK c \in Commands : c = wk[x].c /\ wk[x].pc = "port"
  BY InTask DEF PortFails, At, Free
<1>3. PICK e \in {"unavailable", "rejected", "unknown"} : Finish(x, e, NoRun)
  BY DEF PortFails
<1>4. RowKept(c)
  BY <1>1 DEF LedgerSteady
<1>5. Moved(x) /\ wk'[x].pc = "done"
  BY <1>2, <1>3, <1>4, FinishMove DEF Result
<1> QED BY <1>1, <1>5, WorkerStep, TypesOpen DEF PortFails

\* An error reply tells of no Run.
LEMMA PostRefusedInv ==
  ASSUME ConnectorInv, NEW x \in Workers, PostRefused(x)
  PROVE  ConnectorInv'
<1>1. LedgerSteady /\ beat' = beat
  BY SteadyStill DEF ConnectorInv, PostRefused
<1>2. PICK c \in Commands : c = wk[x].c /\ wk[x].pc = "post"
  BY InTask DEF PostRefused, At, Free
<1>3. RowKept(c) /\ wk[x] \in Worker /\ wk[x].mode \in {"dispatch", "recover"}
  BY <1>1, <1>2, InTask DEF LedgerSteady, Free
<1>4. CASE Go(x, "nack")
  <2>1. PICK n \in Worker : n = [wk[x] EXCEPT !.pc = "nack"]
    BY <1>3, Edited DEF PC
  <2>2. Become(x, n) /\ n.mode = wk[x].mode /\ n.c = c /\ n.pc = "nack"
    BY <1>2, <1>3, <1>4, <2>1 DEF Go, Become, Worker
  <2>3. Moved(x) /\ wk'[x] = n
    BY <1>2, <1>3, <2>2, TaskMove DEF Started, Recovering
  <2> QED BY <1>1, <2>2, <2>3, WorkerStep, TypesOpen DEF PostRefused
<1>5. CASE \E e \in {"rejected", "unknown", "unavailable"} : Finish(x, e, NoRun)
  <2>1. Moved(x) /\ wk'[x].pc = "done"
    BY <1>2, <1>3, <1>5, FinishMove DEF Result
  <2> QED BY <1>1, <2>1, WorkerStep, TypesOpen DEF PostRefused
<1> QED BY <1>4, <1>5 DEF PostRefused

\* A POST is left in flight within its window.
LEMMA PostTimedOutInv ==
  ASSUME ConnectorInv, NEW x \in Workers, PostTimedOut(x)
  PROVE  ConnectorInv'
<1>1. LedgerSteady
  BY SteadyStill DEF ConnectorInv, PostTimedOut
<1>2. PICK c \in Commands : c = wk[x].c /\ wk[x].pc = "post"
  BY InTask DEF PostTimedOut, At, Free
<1>3. RowKept(c)
  BY <1>1 DEF LedgerSteady
<1>4. Moved(x) /\ wk'[x].pc = "done"
  BY <1>2, <1>3, FinishMove DEF Result, PostTimedOut
<1>5. late' = [late EXCEPT ![c] = TRUE]
  BY <1>2 DEF PostTimedOut
<1>6. \A d \in Commands : InFlight(d)' => InFlight(d)
  BY <1>2, <1>4, <1>5, TypesOpen DEF InFlight, At, Moved
<1> QED BY <1>4, <1>5, <1>6, JournalStep, TypesOpen DEF PostTimedOut, portVars

\* A worker that goes to POST.
LEMMA PostMove ==
  ASSUME ConnectorInv, NEW x \in Workers, NEW c \in Commands, wk[x].c = c,
         wk[x].pc = "port", RowKept(c), Go(x, "post"), window[c] = "open", late' = late
  PROVE  /\ Moved(x) /\ wk'[x].pc = "post" /\ wk'[x].c = c
         /\ \A d \in Commands : InFlight(d)' => InFlight(d) \/ window[d] = "open"
<1>1. wk[x] \in Worker /\ wk[x].mode \in {"dispatch", "recover"}
  BY InTask DEF Free
<1>2. PICK n \in Worker : n = [wk[x] EXCEPT !.pc = "post"]
  BY <1>1, Edited DEF PC
<1>3. Become(x, n) /\ n.mode = wk[x].mode /\ n.c = c /\ n.pc = "post"
  BY <1>1, <1>2 DEF Go, Become, Worker
<1>4. Moved(x) /\ wk'[x] = n
  BY <1>1, <1>3, TaskMove DEF Started, Recovering
<1> QED BY <1>3, <1>4 DEF Moved, InFlight, At

\* The journal lets a POST go only while the window is open.
LEMMA ReserveInv ==
  ASSUME ConnectorInv, NEW x \in Workers, Reserve(x)
  PROVE  ConnectorInv'
<1>1. LedgerSteady /\ beat' = beat /\ late' = late /\ hermes' = hermes /\ key' = key
      /\ window' = window /\ UNCHANGED ledgerVars
  BY SteadyStill DEF ConnectorInv, Reserve, hermesVars
<1>2. PICK c \in Commands : c = wk[x].c /\ wk[x].pc = "port"
  BY InTask DEF Reserve, At, Free
<1>3. RowKept(c) /\ RunsOf(c)' = RunsOf(c) /\ CommandInv(c)
  BY <1>1, <1>2 DEF LedgerSteady, RunsOf, ConnectorInv
<1>4. CASE Finish(x, "ok", receipt[c].run) /\ receipt[c].run # NoRun /\ receipt' = receipt
  <2>1. receipt[c].run \in RunsOf(c)
    BY <1>3, <1>4 DEF CommandInv
  <2>2. receipt[c].run \in Runs
    BY <2>1 DEF RunsOf
  <2>3. PICK r \in Runs : r = receipt[c].run
    BY <2>2
  <2>4. Moved(x) /\ wk'[x].pc = "done"
    BY <1>2, <1>3, <1>4, <2>1, <2>3, FinishMove DEF Result
  <2> QED BY <1>1, <1>4, <2>4, WorkerStep, TypesOpen DEF portVars, hermesVars
<1>5. CASE \E e \in {"rejected", "unknown"} : Finish(x, e, NoRun) /\ receipt' = receipt
  <2>1. Moved(x) /\ wk'[x].pc = "done"
    BY <1>2, <1>3, <1>5, FinishMove DEF Result
  <2> QED BY <1>1, <1>5, <2>1, WorkerStep, TypesOpen DEF portVars, hermesVars
<1>6. CASE /\ Go(x, "post") /\ receipt[c] = NoReceipt
           /\ receipt' = [receipt EXCEPT ![c].st = "open"]
  <2>1. window[c] = "open"
    BY <1>3, <1>6, TypesOpen DEF CommandInv, NoReceipt
  <2>2. Moved(x) /\ \A d \in Commands : InFlight(d)' => InFlight(d) \/ window[d] = "open"
    BY <1>1, <1>2, <1>3, <1>6, <2>1, PostMove
  <2>3. /\ receipt' \in [Commands -> [st : {"none", "open", "rejected", "terminal"},
                                      run : Runs \cup {NoRun}]]
        /\ \A d \in Commands : /\ receipt'[d].run = receipt[d].run
                               /\ receipt[d].st # "none" => receipt'[d].st # "none"
    BY <1>6, TypesOpen
  <2> QED BY <1>1, <2>2, <2>3, JournalStep, TypesOpen
<1>7. CASE Go(x, "post") /\ receipt' = receipt /\ window[c] = "open"
  <2>1. Moved(x) /\ \A d \in Commands : InFlight(d)' => InFlight(d) \/ window[d] = "open"
    BY <1>1, <1>2, <1>3, <1>7, PostMove
  <2> QED BY <1>1, <1>7, <2>1, JournalStep, TypesOpen
<1> QED BY <1>2, <1>4, <1>5, <1>6, <1>7 DEF Reserve, ReplayWindowOver

\* The reply of the port reaches the journal, then the worker.
LEMMA AcknowledgeInv ==
  ASSUME ConnectorInv, NEW x \in Workers, Acknowledge(x)
  PROVE  ConnectorInv'
<1>1. LedgerSteady /\ beat' = beat /\ late' = late /\ hermes' = hermes /\ key' = key
      /\ window' = window /\ UNCHANGED ledgerVars
  BY SteadyStill DEF ConnectorInv, Acknowledge, hermesVars
<1>2. PICK c \in Commands : c = wk[x].c /\ wk[x].pc = "ack"
  BY InTask DEF Acknowledge, At, Free
<1>3. /\ RowKept(c) /\ RunsOf(c)' = RunsOf(c)
      /\ wk[x].run \in RunsOf(c) /\ wk[x].run \in Runs
  BY <1>1, <1>2 DEF LedgerSteady, RunsOf, ConnectorInv, WorkerInv
<1>4. PICK r \in Runs : r = wk[x].run
  BY <1>3
<1>5. Moved(x) /\ wk'[x].pc = "done"
  BY <1>2, <1>3, <1>4, FinishMove DEF Result, Acknowledge
<1>6. \/ receipt' = [receipt EXCEPT ![c].run = IF @ = NoRun THEN r ELSE @]
      \/ receipt' = receipt
  BY <1>2, <1>4 DEF Acknowledge, Accepted
<1>7. /\ receipt' \in [Commands -> [st : {"none", "open", "rejected", "terminal"},
                                    run : Runs \cup {NoRun}]]
      /\ \A d \in Commands : /\ receipt'[d].run # receipt[d].run
                                => receipt'[d].run \in RunsOf(d)
                             /\ receipt'[d].st = receipt[d].st
  <2>1. CASE receipt' = receipt
    BY <2>1, TypesOpen
  <2>2. CASE receipt' = [receipt EXCEPT ![c].run = IF @ = NoRun THEN r ELSE @]
    BY <1>3, <1>4, <2>2, TypesOpen
  <2> QED BY <1>6, <2>1, <2>2
<1>8. \A d \in Commands : InFlight(d)' => InFlight(d)
  BY <1>1, <1>5 DEF InFlight, At, Moved
<1> QED BY <1>1, <1>5, <1>7, <1>8, JournalStep, TypesOpen

\* A refusal is journalled.
LEMMA SettleRefusedInv ==
  ASSUME ConnectorInv, NEW x \in Workers, SettleRefused(x)
  PROVE  ConnectorInv'
<1>1. LedgerSteady /\ beat' = beat /\ late' = late /\ hermes' = hermes /\ key' = key
      /\ window' = window /\ UNCHANGED ledgerVars
  BY SteadyStill DEF ConnectorInv, SettleRefused, hermesVars
<1>2. PICK c \in Commands : c = wk[x].c /\ wk[x].pc = "nack"
  BY InTask DEF SettleRefused, At, Free
<1>3. RowKept(c)
  BY <1>1 DEF LedgerSteady
<1>4. Moved(x) /\ wk'[x].pc = "done"
  BY <1>2, <1>3, FinishMove DEF Result, SettleRefused
<1>5. \/ receipt' = [receipt EXCEPT ![c].st = IF receipt[c].run = NoRun
                                                THEN "rejected" ELSE @]
      \/ receipt' = receipt
  BY <1>2 DEF SettleRefused
<1>6. /\ receipt' \in [Commands -> [st : {"none", "open", "rejected", "terminal"},
                                    run : Runs \cup {NoRun}]]
      /\ \A d \in Commands : /\ receipt'[d].run = receipt[d].run
                             /\ receipt[d].st # "none" => receipt'[d].st # "none"
  <2>1. CASE receipt' = receipt
    BY <2>1, TypesOpen
  <2>2. CASE receipt' = [receipt EXCEPT ![c].st = IF receipt[c].run = NoRun
                                                    THEN "rejected" ELSE @]
    BY <2>2, TypesOpen
  <2> QED BY <1>5, <2>1, <2>2
<1>7. \A d \in Commands : InFlight(d)' => InFlight(d)
  BY <1>1, <1>4 DEF InFlight, At, Moved
<1> QED BY <1>1, <1>4, <1>6, <1>7, JournalStep, TypesOpen

-----------------------------------------------------------------------------
(* A POST that Hermes accepts.                                             *)

\* A POST in flight finds the Run of its key, or starts one: the first unless the
\* retention ended while it was on its way.
LEMMA Taken ==
  ASSUME ConnectorInv, NEW c \in Commands, NEW r \in Runs, TakePost(c, r), InFlight(c)
  PROVE  /\ HermesGrows
         /\ hermes' \in [Runs -> Ended \cup {"none", "live"}]
         /\ key' \in [Commands -> Runs \cup {NoRun}]
         /\ RunsOf(c)' = RunsOf(c) \cup {r} /\ key'[c] = r
         /\ RunsOf(c)' = {r} \/ window[c] = "astride"
         /\ \A d \in Commands \ {c} : RunsOf(d)' = RunsOf(d) /\ key'[d] = key[d]
<1>1. CommandInv(c) /\ r[1] = c /\ r # NoRun
  BY RunsAssumption DEF ConnectorInv, TakePost
<1>2. /\ key[c] # NoRun => key[c] \in RunsOf(c)
      /\ window[c] = "open" => \A q \in RunsOf(c) : key[c] = q
      /\ window[c] \in {"open", "astride"}
  BY <1>1, TypesOpen DEF CommandInv
<1>3. CASE key[c] = r /\ UNCHANGED <<hermes, key>>
  <2>1. r \in RunsOf(c) /\ (window[c] = "open" => RunsOf(c) = {r})
    BY <1>1, <1>2, <1>3
  <2> QED BY <1>2, <1>3, <2>1, TypesOpen DEF HermesGrows, RunsOf
<1>4. CASE /\ key[c] = NoRun /\ hermes[r] = "none"
           /\ hermes' = [hermes EXCEPT ![r] = "live"]
           /\ key' = [key EXCEPT ![c] = r]
  <2>1. window[c] = "open" => RunsOf(c) = {}
    BY <1>2, <1>4, RunsAssumption DEF RunsOf
  <2>2. /\ hermes' \in [Runs -> Ended \cup {"none", "live"}] /\ hermes'[r] = "live"
        /\ \A q \in Runs \ {r} : hermes'[q] = hermes[q]
    BY <1>4, TypesOpen
  <2>3. /\ key' \in [Commands -> Runs \cup {NoRun}] /\ key'[c] = r
        /\ \A d \in Commands \ {c} : key'[d] = key[d]
    BY <1>4, TypesOpen
  <2>4. HermesGrows
    BY <1>4, <2>2 DEF HermesGrows, Ended
  <2>5. RunsOf(c)' = RunsOf(c) \cup {r}
    BY <1>1, <2>2 DEF RunsOf
  <2>6. \A d \in Commands \ {c} : RunsOf(d)' = RunsOf(d)
    BY <1>1, <2>2 DEF RunsOf
  <2> QED BY <1>2, <2>1, <2>2, <2>3, <2>4, <2>5, <2>6
<1> QED BY <1>3, <1>4 DEF TakePost

\* The frame of an accepted POST.
LEMMA PostStep ==
  ASSUME ConnectorInv, NEW c \in Commands, NEW r \in Runs, TakePost(c, r), InFlight(c),
         UNCHANGED <<ledgerVars, beat, portVars>>, late' \in [Commands -> BOOLEAN],
         wk' \in [Workers -> Worker],
         \A d \in Commands : InFlight(d)' => InFlight(d),
         \A y \in Workers : wk'[y] = wk[y] \/ WorkerInv(y)',
         EngagedAlone'
  PROVE  ConnectorInv'
<1>1. LedgerSteady
  BY SteadyStill DEF ConnectorInv
<1>2. /\ HermesGrows
      /\ hermes' \in [Runs -> Ended \cup {"none", "live"}]
      /\ key' \in [Commands -> Runs \cup {NoRun}]
      /\ RunsOf(c)' = RunsOf(c) \cup {r} /\ key'[c] = r
      /\ RunsOf(c)' = {r} \/ window[c] = "astride"
      /\ \A d \in Commands \ {c} : RunsOf(d)' = RunsOf(d) /\ key'[d] = key[d]
  BY Taken
<1>3. TypeOK'
  BY <1>1, <1>2 DEF ConnectorInv, TypeOK, LedgerSteady, LedgerInv, Worker, portVars
<1>4. \A d \in Commands : CommandInv(d)'
  <2>1. CommandInv(c)'
    <3>1. receipt[c].run # NoRun => receipt[c].run \in RunsOf(c)'
      BY <1>2, SameRuns DEF ConnectorInv, CommandInv
    <3> QED BY <1>2, <3>1 DEF ConnectorInv, CommandInv, portVars
  <2>2. ASSUME NEW d \in Commands \ {c} PROVE CommandInv(d)'
    BY <1>2 DEF ConnectorInv, CommandInv, portVars
  <2> QED BY <2>1, <2>2
<1>5. \A y \in Workers : WorkerInv(y)'
  <2> SUFFICES ASSUME NEW y \in Workers, wk'[y] = wk[y] PROVE WorkerInv(y)'
    OBVIOUS
  <2>1. wk[y].mode # "none" => wk[y].c \in Commands
    BY DEF ConnectorInv, WorkerInv
  <2>2. Engaged(y, wk[y].c) \/ wk[y].mode = "recover" => RowKept(wk[y].c)
    BY <1>1, <2>1 DEF LedgerSteady, Engaged
  <2> QED BY <1>2, <2>2, WorkerStands DEF ConnectorInv
<1>6. LedgerTellsHermes'
  BY <1>1, <1>2, TellsStands DEF ConnectorInv, LedgerSteady
<1> QED BY <1>1, <1>3, <1>4, <1>5, <1>6 DEF ConnectorInv, LedgerSteady

\* A POST is accepted and answered.
LEMMA PostAcceptedInv ==
  ASSUME ConnectorInv, NEW x \in Workers, PostAccepted(x)
  PROVE  ConnectorInv'
<1>1. PICK r \in Runs : TakePost(wk[x].c, r)
                        /\ wk' = [wk EXCEPT ![x].pc = "ack", ![x].run = r]
  BY DEF PostAccepted
<1>2. PICK c \in Commands : c = wk[x].c /\ wk[x].pc = "post"
  BY InTask DEF PostAccepted, At, Free
<1>3. TakePost(c, r) /\ InFlight(c)
  BY <1>1, <1>2 DEF InFlight, At, TakePost
<1>4. RowKept(c)
  BY SteadyStill DEF ConnectorInv, PostAccepted, LedgerSteady
<1>5. wk[x] \in Worker /\ wk[x].mode \in {"dispatch", "recover"}
  BY <1>2, InTask DEF Free
<1>6. PICK n \in Worker : n = [wk[x] EXCEPT !.pc = "ack", !.run = r]
  BY <1>5, Edited DEF PC
<1>7. Become(x, n) /\ n.mode = wk[x].mode /\ n.c = c /\ n.pc = "ack" /\ n.run = r
  BY <1>1, <1>2, <1>5, <1>6 DEF Become, Worker
<1>8. r \in RunsOf(c)'
  BY <1>3, Taken
<1>9. Moved(x) /\ wk'[x] = n
  BY <1>2, <1>4, <1>5, <1>7, <1>8, TaskMove DEF Started, Recovering
<1>10. \A d \in Commands : InFlight(d)' => InFlight(d)
  BY <1>7, <1>9 DEF Moved, InFlight, At, PostAccepted
<1>11. EngagedAlone'
  BY <1>9 DEF ConnectorInv, EngagedAlone, Moved, Engaged
<1> QED BY <1>3, <1>9, <1>10, <1>11, PostStep, TypesOpen DEF Moved, PostAccepted

\* A POST is accepted and the answer is lost.
LEMMA PostAcceptedUnseenInv ==
  ASSUME ConnectorInv, NEW x \in Workers, PostAcceptedUnseen(x)
  PROVE  ConnectorInv'
<1>1. PICK r \in Runs : TakePost(wk[x].c, r)
  BY DEF PostAcceptedUnseen
<1>2. PICK c \in Commands : c = wk[x].c /\ wk[x].pc = "post"
  BY InTask DEF PostAcceptedUnseen, At, Free
<1>3. TakePost(c, r) /\ InFlight(c)
  BY <1>1, <1>2 DEF InFlight, At, TakePost
<1>4. RowKept(c)
  BY SteadyStill DEF ConnectorInv, PostAcceptedUnseen, LedgerSteady
<1>5. PICK e \in {"unknown", "rejected"} : Finish(x, e, NoRun)
  BY DEF PostAcceptedUnseen
<1>6. Moved(x) /\ wk'[x].pc = "done"
  BY <1>2, <1>4, <1>5, FinishMove DEF Result
<1>7. \A d \in Commands : InFlight(d)' => InFlight(d)
  BY <1>6 DEF Moved, InFlight, At, PostAcceptedUnseen
<1>8. EngagedAlone'
  BY <1>6 DEF ConnectorInv, EngagedAlone, Moved, Engaged
<1> QED BY <1>3, <1>6, <1>7, <1>8, PostStep, TypesOpen DEF Moved, PostAcceptedUnseen

-----------------------------------------------------------------------------
(* The heartbeat threads, the BFF, time, Hermes and the supervisor.        *)

\* The frame of the steps no main thread takes.
LEMMA OuterStep ==
  ASSUME ConnectorInv, LedgerSteady, UNCHANGED wk, beat' \in [Workers -> Heart],
         window' \in [Commands -> {"open", "over", "astride"}],
         late' \in [Commands -> BOOLEAN],
         hermes' \in [Runs -> Ended \cup {"none", "live"}],
         key' \in [Commands -> Runs \cup {NoRun}], UNCHANGED receipt,
         HermesGrows, \A c \in Commands : CommandInv(c)'
  PROVE  ConnectorInv'
<1>1. TypeOK'
  BY DEF ConnectorInv, TypeOK, LedgerSteady, LedgerInv, Heart
<1>2. \A y \in Workers : WorkerInv(y)'
  <2> SUFFICES ASSUME NEW y \in Workers PROVE WorkerInv(y)'
    OBVIOUS
  <2>1. wk[y].mode # "none" => wk[y].c \in Commands
    BY DEF ConnectorInv, WorkerInv
  <2>2. Engaged(y, wk[y].c) \/ wk[y].mode = "recover" => RowKept(wk[y].c)
    BY <2>1 DEF LedgerSteady, Engaged
  <2> QED BY <2>2, WorkerStands DEF ConnectorInv
<1>3. EngagedAlone'
  BY DEF ConnectorInv, EngagedAlone, Engaged
<1>4. LedgerTellsHermes'
  BY TellsStands DEF ConnectorInv, LedgerSteady
<1> QED BY <1>1, <1>2, <1>3, <1>4 DEF ConnectorInv, LedgerSteady

\* Those among them that change the ledger and the heartbeat only.
Outside ==
  /\ LedgerSteady /\ beat' \in [Workers -> Heart]
  /\ UNCHANGED <<wk, portVars, hermesVars>>

\* Steps outside the main threads keep the invariant.
LEMMA OutsideInv ==
  ASSUME ConnectorInv, Outside
  PROVE  ConnectorInv'
<1>1. HermesGrows
  BY DEF Outside, HermesGrows, hermesVars
<1>2. \A c \in Commands : CommandInv(c)'
  BY DEF Outside, ConnectorInv, CommandInv, RunsOf, InFlight, At, portVars, hermesVars
<1> QED BY <1>1, <1>2, OuterStep, TypesOpen DEF Outside, portVars, hermesVars

\* The heartbeat thread only extends the lease it was given.
LEMMA BeatThreadOutside ==
  ASSUME ConnectorInv, NEW x \in Workers, BeatThread(x) \/ BeatDue(x)
  PROVE  Outside
<1>1. CASE Beat(x)
  <2> DEFINE b == beat[x]
  <2>1. b \in Heart /\ b.v + 1 \in Nat
    BY TypesOpen DEF Heart
  <2>2. b.c \in Commands \/ UNCHANGED ledgerVars
    <3>1. b.c \notin Commands => cmd' = cmd /\ outbox' = outbox
      BY <1>1 DEF Beat, heartbeat_lease, Write, ConnectorInv, LedgerInv, LedgerTypeOK
    <3> QED BY <3>1 DEF ledgerVars
  <2>3. LedgerSteady
    BY <1>1, <2>2, SteadyStill, SteadyLease DEF Beat, ConnectorInv
  <2>4. beat' \in [Workers -> Heart]
    <3>1. [b EXCEPT !.st = "waiting", !.v = @ + 1] \in Heart
      BY <2>1 DEF Heart
    <3> QED BY <1>1, <3>1, IdleTyped, TypesOpen DEF Beat
  <2> QED BY <1>1, <2>3, <2>4, TypesOpen DEF Beat, Outside
<1>2. CASE BeatFails(x)
  <2>1. beat' \in [Workers -> Heart]
    <3>1. [beat[x] EXCEPT !.st = "over"] \in Heart
      <4>1. beat[x] \in Heart
        BY TypesOpen
      <4> QED BY <4>1 DEF Heart
    <3> QED BY <1>2, <3>1, IdleTyped, TypesOpen DEF BeatFails
  <2> QED BY <1>2, <2>1, SteadyStill, TypesOpen DEF BeatFails, ConnectorInv, Outside
<1>3. CASE BeatDue(x)
  <2>1. beat' \in [Workers -> Heart]
    <3>1. [beat[x] EXCEPT !.st = "beating"] \in Heart
      <4>1. beat[x] \in Heart
        BY TypesOpen
      <4> QED BY <4>1 DEF Heart
    <3> QED BY <1>3, <3>1, TypesOpen DEF BeatDue
  <2> QED BY <1>3, <2>1, SteadyStill, TypesOpen DEF BeatDue, ConnectorInv, Outside
<1> QED BY <1>1, <1>2, <1>3 DEF BeatThread

\* The BFF and the clock.
LEMMA LedgerOnlyOutside ==
  ASSUME ConnectorInv, NEW c \in Commands,
         \/ CreateCommand(c) \/ CancelCommand(c)
         \/ LeaseLapsesEarly(c) \/ LeaseLapsesOrphaned(c) \/ RetryDue(c) \/ PayloadOver(c)
  PROVE  Outside
<1>1. UNCHANGED <<wk, beat, portVars, hermesVars>>
  BY DEF CreateCommand, CancelCommand, LeaseLapsesEarly, LeaseLapsesOrphaned, RetryDue,
     PayloadOver
<1>2. \/ create_command(c) \/ cancel_queued_command(c, cmd[c].version) \/ ClockTick(c)
  BY DEF CreateCommand, CancelCommand, LeaseLapsesEarly, LeaseLapsesOrphaned, RetryDue,
     PayloadOver, ClockTick
<1>3. LedgerSteady
  BY <1>2, SteadyVersion, SteadyClock DEF ConnectorInv
<1> QED BY <1>1, <1>3, TypesOpen DEF Outside

\* A Run ends once.
LEMMA RunEndsInv ==
  ASSUME ConnectorInv, NEW r \in Runs, RunEnds(r)
  PROVE  ConnectorInv'
<1>1. PICK s \in Ended : hermes' = [hermes EXCEPT ![r] = s]
  BY OutcomesAssumption DEF RunEnds
<1>2. /\ hermes' \in [Runs -> Ended \cup {"none", "live"}]
      /\ hermes[r] = "live" /\ hermes'[r] = s
      /\ \A q \in Runs \ {r} : hermes'[q] = hermes[q]
  BY <1>1, TypesOpen DEF RunEnds
<1>3. HermesSteady
  BY <1>2 DEF HermesSteady, HermesGrows, Ended
<1>4. LedgerSteady
  BY SteadyStill DEF RunEnds, ConnectorInv
<1>5. \A c \in Commands : CommandInv(c)'
  <2> SUFFICES ASSUME NEW c \in Commands PROVE CommandInv(c)'
    OBVIOUS
  <2>1. InFlight(c)' <=> InFlight(c)
    BY DEF InFlight, At, RunEnds
  <2> QED BY <1>3, <2>1, CommandStands DEF ConnectorInv, RunEnds, portVars
<1> QED BY <1>2, <1>3, <1>4, <1>5, OuterStep, TypesOpen
        DEF HermesSteady, RunEnds, portVars

\* A POST arrives after its client gave up.
LEMMA LatePostInv ==
  ASSUME ConnectorInv, NEW c \in Commands, LatePost(c)
  PROVE  ConnectorInv'
<1>1. late' = [late EXCEPT ![c] = FALSE] /\ late' \in [Commands -> BOOLEAN] /\ InFlight(c)
  BY TypesOpen DEF LatePost, InFlight
<1>2. \A d \in Commands : InFlight(d)' => InFlight(d)
  BY <1>1, TypesOpen DEF LatePost, InFlight, At
<1>3. CASE \E r \in Runs : TakePost(c, r)
  <2>1. EngagedAlone'
    BY DEF ConnectorInv, EngagedAlone, Engaged, LatePost
  <2> QED BY <1>1, <1>2, <1>3, <2>1, PostStep, TypesOpen DEF LatePost
<1>4. CASE UNCHANGED <<hermes, key>>
  <2>1. HermesSteady
    BY <1>4 DEF HermesSteady, HermesGrows
  <2>2. \A d \in Commands : CommandInv(d)'
    BY <1>2, <1>4, <2>1, CommandStands DEF ConnectorInv, LatePost, portVars
  <2> QED BY <1>1, <1>4, <2>1, <2>2, SteadyStill, OuterStep, TypesOpen
          DEF HermesSteady, ConnectorInv, LatePost, portVars
<1> QED BY <1>3, <1>4 DEF LatePost

\* The retention ends, with a POST on its way or without.
LEMMA WindowClosesInv ==
  ASSUME ConnectorInv, NEW c \in Commands, WindowCloses(c)
  PROVE  ConnectorInv'
<1>1. /\ window' = [window EXCEPT ![c] = IF InFlight(c) THEN "astride" ELSE "over"]
      /\ receipt[c].st # "none" /\ window[c] = "open"
      /\ UNCHANGED <<ledgerVars, wk, beat, receipt, hermes, key, late>>
  BY DEF WindowCloses, hermesVars
<1>2. /\ window' \in [Commands -> {"open", "over", "astride"}]
      /\ window'[c] \in {"over", "astride"} /\ (window'[c] = "over" => ~InFlight(c))
      /\ \A d \in Commands \ {c} : window'[d] = window[d]
  BY <1>1, TypesOpen
<1>3. \A d \in Commands : (InFlight(d)' <=> InFlight(d)) /\ RunsOf(d)' = RunsOf(d)
  BY <1>1 DEF InFlight, At, RunsOf
<1>4. \A d \in Commands : CommandInv(d)'
  BY <1>1, <1>2, <1>3 DEF ConnectorInv, CommandInv
<1>5. HermesGrows
  BY <1>1 DEF HermesGrows
<1> QED BY <1>1, <1>2, <1>4, <1>5, SteadyStill, OuterStep, TypesOpen DEF ConnectorInv

\* A key is forgotten after its window.
LEMMA HermesForgetsInv ==
  ASSUME ConnectorInv, NEW c \in Commands, HermesForgets(c)
  PROVE  ConnectorInv'
<1>1. /\ key' = [key EXCEPT ![c] = NoRun] /\ window[c] # "open"
      /\ UNCHANGED <<ledgerVars, wk, beat, receipt, window, hermes, late>>
  BY DEF HermesForgets, portVars
<1>2. /\ key' \in [Commands -> Runs \cup {NoRun}] /\ key'[c] = NoRun
      /\ \A d \in Commands \ {c} : key'[d] = key[d]
  BY <1>1, TypesOpen
<1>3. \A d \in Commands : (InFlight(d)' <=> InFlight(d)) /\ RunsOf(d)' = RunsOf(d)
  BY <1>1 DEF InFlight, At, RunsOf
<1>4. \A d \in Commands : CommandInv(d)'
  BY <1>1, <1>2, <1>3 DEF ConnectorInv, CommandInv
<1>5. HermesGrows
  BY <1>1 DEF HermesGrows
<1> QED BY <1>1, <1>2, <1>4, <1>5, SteadyStill, OuterStep, TypesOpen DEF ConnectorInv

\* A worker dies; the POST it had sent stays in flight.
LEMMA CrashInv ==
  ASSUME ConnectorInv, NEW x \in Workers, Crash(x)
  PROVE  ConnectorInv'
<1>1. Moved(x) /\ wk'[x] = Idle
  BY FreeMove, IdleTyped DEF Free, Crash
<1>2. beat' \in [Workers -> Heart]
  BY IdleTyped, TypesOpen DEF Crash
<1>3. late' \in [Commands -> BOOLEAN]
      /\ \A c \in Commands : late'[c] => late[c] \/ (At(x, "post") /\ wk[x].c = c)
  BY TypesOpen DEF Crash
<1>4. \A c \in Commands : InFlight(c)' => InFlight(c)
  BY <1>1, <1>3, IdleTyped DEF InFlight, At, Moved
<1> QED BY <1>1, <1>2, <1>3, <1>4, JournalStep, TypesOpen DEF Crash, portVars

-----------------------------------------------------------------------------
(* The invariant.                                                          *)

\* The invariant holds at the start.
LEMMA ConnectorInit == Init => ConnectorInv
<1> SUFFICES ASSUME Init PROVE ConnectorInv
  OBVIOUS
<1>1. LedgerInv
  BY InvInit DEF Init
<1>2. TypeOK
  BY <1>1, IdleTyped DEF Init, TypeOK, LedgerInv, NoReceipt, Worker, Heart
<1>3. \A c \in Commands : RunsOf(c) = {} /\ ~InFlight(c)
  BY IdleTyped DEF Init, RunsOf, InFlight, At
<1>4. \A c \in Commands : CommandInv(c)
  BY <1>3 DEF Init, CommandInv, NoReceipt
<1>5. \A x \in Workers : WorkerInv(x) /\ \A c \in Commands : ~Engaged(x, c)
  BY IdleTyped DEF Init, WorkerInv, Engaged, Free
<1>6. EngagedAlone
  BY <1>5 DEF EngagedAlone
<1>7. LedgerTellsHermes
  BY DEF Init, LedgerInit, AbsentRow, LedgerTellsHermes
<1> QED BY <1>1, <1>2, <1>4, <1>5, <1>6, <1>7 DEF ConnectorInv

\* The steps that mark, send, learn or record something.
Tells(x) ==
  \/ StartDispatch(x) \/ ResolveAndBeat(x) \/ ResolveFails(x) \/ ReadLatest(x)
  \/ RecordResult(x) \/ Port(x) \/ RecordRecovery(x) \/ Observe(x) \/ Fold(x) \/ Crash(x)

\* Every step is one of these, drifts, or is taken outside the main threads.
LEMMA Shapes ==
  ASSUME ConnectorInv, [Next]_vars
  PROVE  \/ Outside
         \/ \E x \in Workers : Drifts(x) \/ Tells(x)
         \/ \E c \in Commands : LatePost(c) \/ WindowCloses(c) \/ HermesForgets(c)
         \/ \E r \in Runs : RunEnds(r)
<1>1. CASE UNCHANGED vars
  BY <1>1, SteadyStill, TypesOpen DEF vars, ConnectorInv, Outside
<1>2. ASSUME NEW x \in Workers, Cycle(x) PROVE Drifts(x)
  <2>1. ASSUME NEW t \in wk[x].todo, StartTurn(x, t[1], t[2]) \/ SkipTurn(x, t[1], t[2])
        PROVE  Drifts(x)
    <3>1. t \in Commands \X Nat
      BY <2>1, TypesOpen DEF Worker
    <3>2. t[1] \in Commands /\ t[2] \in Nat
      BY <3>1
    <3> QED BY <2>1, <3>2, StartTurnDrifts, SkipTurnDrifts
  <2> QED BY <1>2, <2>1, BeginCycleDrifts, ListActiveRunsDrifts, EndTurnsDrifts,
             ClaimNothingDrifts, ClaimDrifts DEF Cycle
<1>3. ASSUME NEW x \in Workers, Dispatch(x) PROVE Drifts(x) \/ Tells(x)
  BY <1>3, LeaseLostDrifts, RecordLostDrifts DEF Dispatch, Tells
<1>4. ASSUME NEW x \in Workers, Recovery(x) PROVE Drifts(x) \/ Tells(x)
  BY <1>4, RecoveryLostDrifts, ObservationLostDrifts DEF Recovery, Tells
<1>5. ASSUME NEW x \in Workers, MainThread(x) PROVE Drifts(x) \/ Tells(x)
  BY <1>2, <1>3, <1>4, <1>5 DEF MainThread, Tells
<1>6. ASSUME NEW x \in Workers, BeatThread(x) \/ BeatDue(x) PROVE Outside
  BY <1>6, BeatThreadOutside
<1>7. CASE Environment
  BY <1>7, LedgerOnlyOutside DEF Environment, Tells
<1> QED BY <1>1, <1>5, <1>6, <1>7 DEF Next

\* Every step keeps it.
LEMMA ConnectorNext == ConnectorInv /\ [Next]_vars => ConnectorInv'
<1> SUFFICES ASSUME ConnectorInv, [Next]_vars PROVE ConnectorInv'
  OBVIOUS
<1>1. ASSUME NEW x \in Workers, Port(x) PROVE ConnectorInv'
  BY <1>1, PortFailsInv, ReserveInv, PostAcceptedInv, PostAcceptedUnseenInv,
     PostTimedOutInv, PostRefusedInv, AcknowledgeInv, SettleRefusedInv DEF Port
<1>2. ASSUME NEW x \in Workers, Tells(x) PROVE ConnectorInv'
  BY <1>1, <1>2, StartDispatchInv, ResolveAndBeatInv, ResolveFailsInv, ReadLatestInv,
     RecordResultInv, RecordRecoveryInv, ObserveInv, FoldInv, CrashInv DEF Tells
<1> QED BY <1>2, Shapes, OutsideInv, DriftInv, LatePostInv, WindowClosesInv,
           HermesForgetsInv, RunEndsInv

\* ConnectorInv holds of every run_once loop, heartbeat thread and reply of Hermes:
\* the inductive invariant the properties of Runs and of the lease follow from.
THEOREM ConnectorInvariant == Spec => []ConnectorInv
BY ConnectorInit, ConnectorNext, PTL DEF Spec

\* The locals of the workers and of their heartbeat threads, the receipts and the
\* server's side of the port are in their ranges after any steps.
THEOREM ConnectorTyped == Spec => []TypeOK
<1>1. ConnectorInv => TypeOK
  BY DEF ConnectorInv
<1> QED BY <1>1, ConnectorInvariant, PTL

\* However often submit_or_recover posts a command (retries, recovery by another
\* worker, POSTs that arrive after a timeout or a crash), Hermes has one Run of it at
\* most: the Idempotency-Key finds the Run until the retention has passed, and
\* NativeReceipts.reserve refuses a replay from then on.  The only command excepted
\* is one with a request on its way at the moment the retention ended.
THEOREM SubmittedAtMostOnce == Spec => []AtMostOneRun
<1>1. ConnectorInv => AtMostOneRun
  <2> SUFFICES ASSUME ConnectorInv, NEW c \in Commands, window[c] # "astride"
               PROVE  Cardinality(RunsOf(c)) <= 1
    BY DEF AtMostOneRun
  <2>1. \A r, q \in RunsOf(c) : r = q
    BY DEF ConnectorInv, CommandInv
  <2>2. CASE RunsOf(c) = {}
    BY <2>2, FS_EmptySet
  <2>3. CASE RunsOf(c) # {}
    <3>1. PICK r \in RunsOf(c) : TRUE
      BY <2>3
    <3>2. RunsOf(c) = {r}
      BY <2>1, <3>1
    <3>3. Cardinality({r}) = 1
      BY FS_Singleton
    <3> QED BY <3>2, <3>3
  <2> QED BY <2>2, <2>3
<1> QED BY <1>1, ConnectorInvariant, PTL

\* The Run a row of the ledger names is a Run of that command, and a terminal state
\* that _record_terminal_observation wrote is how the Run ended, whatever moved
\* between the observation and the write.
THEOREM LedgerIsTrue == Spec => []LedgerTellsHermes
<1>1. ConnectorInv => LedgerTellsHermes
  BY DEF ConnectorInv
<1> QED BY <1>1, ConnectorInvariant, PTL

\* No two workers are between mark_dispatch_started and the end of the port's call
\* for one command, even when a lease has lapsed and was recovered: the recovery of a
\* marked dispatch goes to outcome_unknown, never to a second dispatch.
THEOREM DispatchIsExclusive == Spec => []DispatchExclusive
<1>1. ConnectorInv => DispatchExclusive
  BY DEF ConnectorInv, EngagedAlone, DispatchExclusive, Dispatching, Engaged, Started
<1> QED BY <1>1, ConnectorInvariant, PTL

-----------------------------------------------------------------------------
(* What the ledger takes as unsent was not sent.                           *)

\* The other workers stand still.
Others(x) == \A y \in Workers \ {x} : wk'[y] = wk[y]

\* The fields of a worker after a move.
LEMMA TaskFields ==
  ASSUME ConnectorInv, NEW x \in Workers, wk[x].pc \notin Free,
         NEW c \in Commands, c = wk[x].c
  PROVE  /\ \A p \in PC : Go(x, p) =>
              /\ Others(x) /\ wk'[x].pc = p /\ wk'[x].mode = wk[x].mode /\ wk'[x].c = c
              /\ wk'[x].res = wk[x].res /\ wk'[x].run = wk[x].run
         /\ \A e \in Result, r \in Runs \cup {NoRun} : Finish(x, e, r) =>
              /\ Others(x) /\ wk'[x].pc = "done" /\ wk'[x].mode = wk[x].mode
              /\ wk'[x].c = c /\ wk'[x].res = e /\ wk'[x].run = r
         /\ \A w : Become(x, w) => Others(x) /\ wk'[x] = w
<1>1. wk[x] \in Worker /\ wk \in [Workers -> Worker]
  BY TypesOpen
<1>2. ASSUME NEW p \in PC, Go(x, p)
      PROVE  /\ Others(x) /\ wk'[x].pc = p /\ wk'[x].mode = wk[x].mode /\ wk'[x].c = c
             /\ wk'[x].res = wk[x].res /\ wk'[x].run = wk[x].run
  <2>1. wk'[x] = [wk[x] EXCEPT !.pc = p] /\ Others(x)
    BY <1>1, <1>2 DEF Go, Others
  <2> QED BY <1>1, <2>1 DEF Worker
<1>3. ASSUME NEW e \in Result, NEW r \in Runs \cup {NoRun}, Finish(x, e, r)
      PROVE  /\ Others(x) /\ wk'[x].pc = "done" /\ wk'[x].mode = wk[x].mode
             /\ wk'[x].c = c /\ wk'[x].res = e /\ wk'[x].run = r
  <2>1. wk'[x] = [wk[x] EXCEPT !.pc = "done", !.res = e, !.run = r] /\ Others(x)
    BY <1>1, <1>3 DEF Finish, Others
  <2> QED BY <1>1, <2>1 DEF Worker
<1> QED BY <1>1, <1>2, <1>3 DEF Become, Others

\* A command in a worker's hands past the gate is not taken as unsent, and the
\* lease, if there is one, is the worker's.
LEMMA InHand ==
  ASSUME ConnectorInv, NEW x \in Workers, wk[x].pc \notin Free \cup {"gate"},
         NEW c \in Commands, c = wk[x].c
  PROVE  /\ ~Unsent(c) /\ ~FailedBare(c)
         /\ cmd[c].state = "leased" =>
              /\ wk[x].mode = "dispatch" /\ Engaged(x, c)
              /\ \A y \in Workers : Engaged(y, c) => y = x
              /\ \A y \in Workers :
                   wk[y].pc \notin Free \cup {"gate"} /\ wk[y].c = c => y = x
<1>1. \A d \in Commands :
        /\ cmd[d].run # NoRun => cmd[d].state \in {"delivered"} \cup Terminal
        /\ Pursued(d) => ~Unsent(d) /\ ~FailedBare(d) /\ cmd[d].state # "leased"
  BY DEF ConnectorInv, LedgerInv, GoodRow, Pursued, Unsent, FailedBare, Terminal
<1>2. ASSUME NEW y \in Workers, wk[y].pc \notin Free \cup {"gate"}, wk[y].c = c
      PROVE  \/ wk[y].mode = "recover" /\ Pursued(c)
             \/ Engaged(y, c) /\ (Pursued(c) \/ (cmd[c].state = "leased" /\ cmd[c].dispatched))
  BY <1>2, InTask DEF ConnectorInv, WorkerInv, Engaged
<1>3. ~Unsent(c) /\ ~FailedBare(c)
  BY <1>1, <1>2 DEF Unsent, FailedBare
<1>4. ASSUME cmd[c].state = "leased"
      PROVE  /\ wk[x].mode = "dispatch" /\ Engaged(x, c)
             /\ \A y \in Workers : Engaged(y, c) => y = x
             /\ \A y \in Workers :
                  wk[y].pc \notin Free \cup {"gate"} /\ wk[y].c = c => y = x
  <2>1. wk[x].mode = "dispatch" /\ Engaged(x, c)
    BY <1>1, <1>2, <1>4 DEF Engaged
  <2>2. \A y \in Workers : Engaged(y, c) => y = x
    BY <2>1 DEF ConnectorInv, EngagedAlone
  <2> QED BY <1>1, <1>2, <1>4, <2>1, <2>2
<1> QED BY <1>3, <1>4

\* A receipt that speaks for a leased command, or for one that failed bare, stays open.
Speaks(c) ==
  receipt[c].st = "open" =>
    receipt'[c].st = "open" \/ ~(cmd'[c].state = "leased" \/ FailedBare(c)')

\* A worker that stands still knows what it knew.
LEMMA SentByStands ==
  ASSUME ConnectorInv, NEW y \in Workers, SentBy(y), wk'[y] = wk[y],
         wk[y].c \in Commands => RowCalm(wk[y].c) /\ Speaks(wk[y].c),
         \A c \in Commands : wk[y].c = c /\ cmd[c].state = "leased" =>
           /\ (Unposted(y) \/ Told(y)) /\ NothingSent(c) => NothingSent(c)'
           /\ wk[y].pc = "post" /\ RunsOf(c) = {} /\ ~late[c] => RunsOf(c)' = {} /\ ~late'[c]
  PROVE  SentBy(y)'
<1> SUFFICES ASSUME wk[y].mode = "dispatch", cmd'[wk[y].c].state = "leased",
                    Unposted(y) \/ Told(y) \/ wk[y].pc \in {"post", "ack"}
             PROVE  /\ Unposted(y) => NothingSent(wk[y].c)'
                    /\ wk[y].pc = "post" => RunsOf(wk[y].c)' = {} /\ ~late'[wk[y].c]
                    /\ wk[y].pc \in {"post", "ack"} => receipt'[wk[y].c].st = "open"
                    /\ Told(y) => Held(wk[y].c)'
  BY DEF SentBy, Unposted, Told
<1>1. wk[y].c \in Commands /\ wk[y].pc \in Started
  BY DEF ConnectorInv, WorkerInv, Unposted, Told, Started
<1>2. PICK c \in Commands : c = wk[y].c
  BY <1>1
<1>3. cmd[c].state = "leased"
  <2>1. cmd[c].state \in {"queued", "leased"}
    BY <1>2 DEF RowCalm
  <2>2. ~Unsent(c)
    BY <1>1, <1>2, InHand DEF Started, Free
  <2> QED BY <2>1, <2>2 DEF Unsent
<1> QED BY <1>2, <1>3 DEF SentBy, Speaks, Held

\* What failed bare stays held.
LEMMA HeldStands ==
  ASSUME SentInv, NEW c \in Commands, RowCalm(c), Speaks(c),
         NothingSent(c) => NothingSent(c)'
  PROVE  FailedBare(c)' => Held(c)'
BY DEF SentInv, RowCalm, Speaks, Held

\* The frame of the steps that leave Hermes and the POSTs in flight alone.
LEMMA SentStands ==
  ASSUME ConnectorInv, SentInv, LedgerSteady, NEW x \in Workers, Others(x), SentBy(x)',
         \A c \in Commands : RunsOf(c)' = RunsOf(c) /\ Speaks(c),
         late' = late, wk'[x].pc # "post"
  PROVE  SentInv'
<1>1. \A c \in Commands : NothingSent(c) => NothingSent(c)'
  BY DEF NothingSent, InFlight, At, Others
<1>2. \A y \in Workers : SentBy(y)'
  <2> SUFFICES ASSUME NEW y \in Workers \ {x} PROVE SentBy(y)'
    OBVIOUS
  <2>1. /\ wk'[y] = wk[y] /\ SentBy(y)
        /\ wk[y].c \in Commands => RowCalm(wk[y].c) /\ Speaks(wk[y].c)
    BY DEF Others, SentInv, LedgerSteady
  <2> QED BY <1>1, <2>1, SentByStands
<1>3. \A c \in Commands : Unsent(c)' => NothingSent(c)'
  BY <1>1 DEF LedgerSteady, RowCalm, SentInv
<1>4. \A c \in Commands : FailedBare(c)' => Held(c)'
  BY <1>1, HeldStands DEF LedgerSteady
<1> QED BY <1>2, <1>3, <1>4 DEF SentInv

\* The frame of the steps outside the main threads.
LEMMA SentOutside ==
  ASSUME ConnectorInv, SentInv, LedgerSteady, wk' = wk, receipt' = receipt,
         \A c \in Commands : RunsOf(c)' = RunsOf(c), late' = late
  PROVE  SentInv'
<1>1. \A c \in Commands : (NothingSent(c) => NothingSent(c)') /\ Speaks(c)
  BY DEF NothingSent, InFlight, At, Speaks
<1>2. \A y \in Workers : SentBy(y)'
  <2> SUFFICES ASSUME NEW y \in Workers PROVE SentBy(y)'
    OBVIOUS
  <2>1. /\ wk'[y] = wk[y] /\ SentBy(y)
        /\ wk[y].c \in Commands => RowCalm(wk[y].c) /\ Speaks(wk[y].c)
    BY <1>1 DEF SentInv, LedgerSteady
  <2> QED BY <1>1, <2>1, SentByStands
<1>3. \A c \in Commands : Unsent(c)' => NothingSent(c)'
  BY <1>1 DEF LedgerSteady, RowCalm, SentInv
<1>4. \A c \in Commands : FailedBare(c)' => Held(c)'
  BY <1>1, HeldStands DEF LedgerSteady
<1> QED BY <1>2, <1>3, <1>4 DEF SentInv

\* A worker that drifts sends nothing and records nothing.
LEMMA SentDrifts ==
  ASSUME ConnectorInv, SentInv, NEW x \in Workers, Drifts(x)
  PROVE  SentInv'
<1>1. Others(x) /\ wk'[x].pc # "post" /\ LedgerSteady
  BY DEF Drifts, Moved, Others, Free
<1>2. SentBy(x)'
  BY DEF Drifts, Moved, WorkerInv, SentBy, Unposted, Told, Free
<1>3. late' = late /\ \A c \in Commands : RunsOf(c)' = RunsOf(c) /\ Speaks(c)
  BY DEF Drifts, hermesVars, portVars, RunsOf, Speaks
<1> QED BY <1>1, <1>2, <1>3, SentStands

\* The frame of the steps of a worker that goes on with its command.
LEMMA SentTask ==
  ASSUME ConnectorInv, SentInv, LedgerSteady, NEW x \in Workers, Others(x),
         wk'[x].pc \notin {"post", "ack"}, wk'[x].mode = wk[x].mode,
         UNCHANGED <<hermes, late>>, \A d \in Commands : Speaks(d),
         NEW c \in Commands, wk'[x].c = c,
         wk[x].mode = "dispatch" /\ cmd'[c].state = "leased" =>
           /\ Unposted(x)' => NothingSent(c)
           /\ Told(x)' => NothingSent(c) \/ receipt'[c].st = "open"
  PROVE  SentInv'
<1>1. \A d \in Commands : RunsOf(d)' = RunsOf(d)
  BY DEF RunsOf
<1>2. NothingSent(c) => NothingSent(c)'
  BY <1>1 DEF NothingSent, InFlight, At, Others
<1>3. SentBy(x)'
  BY <1>2 DEF SentBy, Held
<1> QED BY <1>1, <1>3, SentStands

\* From the dispatch mark to the result, off the network.
LEMMA SentStart ==
  ASSUME ConnectorInv, SentInv, NEW x \in Workers,
         StartDispatch(x) \/ ResolveAndBeat(x) \/ ResolveFails(x) \/ ReadLatest(x)
  PROVE  SentInv'
<1>1. /\ wk[x].pc \notin Free /\ wk[x].mode = "dispatch" /\ wk[x] \in Worker
      /\ UNCHANGED <<hermes, late, receipt>> /\ \A d \in Commands : Speaks(d)
  BY InTask DEF StartDispatch, ResolveAndBeat, ResolveFails, ReadLatest, At, Free,
     ConnectorInv, WorkerInv, Recovering, hermesVars, portVars, Speaks
<1>2. PICK c \in Commands : c = wk[x].c
  BY <1>1, InTask
<1>3. LedgerSteady
  BY <1>2, SteadyLease, SteadyStill
     DEF ConnectorInv, StartDispatch, ResolveAndBeat, ResolveFails, ReadLatest
<1>4. CASE StartDispatch(x)
  <2>1. /\ cmd[c].state = "leased" /\ ~cmd[c].dispatched
    BY <1>2, <1>4 DEF StartDispatch, mark_dispatch_started, _lock_active_lease
  <2>2. NothingSent(c)
    BY <2>1 DEF SentInv, Unsent
  <2>3. /\ Others(x) /\ wk'[x].pc \in {"resolve", "done"} /\ wk'[x].mode = wk[x].mode
        /\ wk'[x].c = c
    <3>1. \/ wk' = [wk EXCEPT ![x] = [wk[x] EXCEPT !.pc = "resolve", !.v = @ + 1]]
          \/ \E e \in Result :
               wk' = [wk EXCEPT ![x] = [wk[x] EXCEPT !.pc = "done", !.v = @ + 1, !.res = e]]
      BY <1>4 DEF StartDispatch, Become, Result
    <3>2. \/ wk'[x] = [wk[x] EXCEPT !.pc = "resolve", !.v = @ + 1]
          \/ \E e \in Result :
               wk'[x] = [wk[x] EXCEPT !.pc = "done", !.v = @ + 1, !.res = e]
      BY <3>1, TypesOpen
    <3> QED BY <1>1, <1>2, <3>1, <3>2, TypesOpen DEF Others, Worker
  <2> QED BY <1>1, <1>3, <2>2, <2>3, SentTask
<1>5. CASE ResolveAndBeat(x)
  <2>1. wk'[x] = [wk[x] EXCEPT !.pc = "port", !.v = @ + 1] /\ Others(x)
    BY <1>5, TypesOpen DEF ResolveAndBeat, Become, Others
  <2>2. wk'[x].pc = "port" /\ wk'[x].mode = wk[x].mode /\ wk'[x].c = c
    BY <1>1, <1>2, <2>1 DEF Worker
  <2>3. NothingSent(c)
    BY <1>1, <1>2, <1>5
       DEF ResolveAndBeat, heartbeat_lease, _lock_active_lease, At, SentInv, SentBy, Unposted
  <2> QED BY <1>1, <1>3, <2>1, <2>2, <2>3, SentTask
<1>6. CASE ResolveFails(x)
  <2>1. PICK e \in Result : Finish(x, e, NoRun)
    BY <1>6 DEF ResolveFails, Result
  <2>2. Others(x) /\ wk'[x].pc = "done" /\ wk'[x].mode = wk[x].mode /\ wk'[x].c = c
    BY <1>1, <1>2, <2>1, TaskFields
  <2>3. cmd' = cmd /\ wk[x].pc = "resolve"
    BY <1>6 DEF ResolveFails, ledgerVars, At
  <2>4. cmd'[c].state = "leased" => NothingSent(c)
    BY <1>1, <1>2, <2>3 DEF SentInv, SentBy, Unposted
  <2> QED BY <1>1, <1>3, <2>2, <2>4, SentTask
<1>7. CASE ReadLatest(x)
  <2>1. wk'[x] = [wk[x] EXCEPT !.pc = "record", !.v = Latest(x)] /\ Others(x)
    BY <1>7, TypesOpen DEF ReadLatest, Become, Others
  <2>2. /\ wk'[x].pc = "record" /\ wk'[x].mode = wk[x].mode /\ wk'[x].c = c
        /\ wk'[x].res = wk[x].res
    BY <1>1, <1>2, <2>1 DEF Worker
  <2>3. cmd' = cmd /\ wk[x].pc = "done"
    BY <1>7 DEF ReadLatest, ledgerVars, At
  <2>4. cmd'[c].state = "leased" =>
          /\ Unposted(x)' => NothingSent(c)
          /\ Told(x)' => NothingSent(c) \/ receipt'[c].st = "open"
    BY <1>1, <1>2, <2>2, <2>3 DEF SentInv, SentBy, Unposted, Told, Held
  <2> QED BY <1>1, <1>3, <2>1, <2>2, <2>4, SentTask
<1> QED BY <1>4, <1>5, <1>6, <1>7

\* The frame of the steps that decide a POST of c in flight, or leave it behind.
LEMMA SentPost ==
  ASSUME ConnectorInv, SentInv, UNCHANGED <<ledgerVars, receipt>>, NEW c \in Commands,
         InFlight(c),
         \A d \in Commands \ {c} :
           RunsOf(d)' = RunsOf(d) /\ late'[d] = late[d] /\ (InFlight(d)' => InFlight(d)),
         \A y \in Workers :
           \/ SentBy(y)'
           \/ /\ wk'[y] = wk[y]
              /\ ~(wk[y].pc = "post" /\ wk[y].c = c /\ cmd[c].state = "leased")
  PROVE  SentInv'
<1>1. cmd' = cmd /\ LedgerSteady /\ \A d \in Commands : Speaks(d)
  BY SteadyStill DEF ledgerVars, ConnectorInv, Speaks
<1>2. ~NothingSent(c) /\ \A d \in Commands \ {c} : NothingSent(d) => NothingSent(d)'
  BY DEF NothingSent
<1>3. \A y \in Workers : SentBy(y)'
  <2> SUFFICES ASSUME NEW y \in Workers, wk'[y] = wk[y],
                      ~(wk[y].pc = "post" /\ wk[y].c = c /\ cmd[c].state = "leased")
               PROVE  SentBy(y)'
    OBVIOUS
  <2>1. SentBy(y) /\ (wk[y].c \in Commands => RowCalm(wk[y].c) /\ Speaks(wk[y].c))
    BY <1>1 DEF SentInv, LedgerSteady
  <2> QED BY <1>2, <2>1, SentByStands
<1>4. \A d \in Commands : Unsent(d)' => NothingSent(d)'
  BY <1>1, <1>2 DEF SentInv, Unsent
<1>5. \A d \in Commands : FailedBare(d)' => Held(d)'
  BY <1>1, <1>2, HeldStands DEF LedgerSteady
<1> QED BY <1>3, <1>4, <1>5 DEF SentInv

\* A POST of the holder of the lease is accepted, or nobody knows: its receipt is open.
LEMMA SentPosted ==
  ASSUME ConnectorInv, SentInv, NEW x \in Workers,
         PostAccepted(x) \/ PostAcceptedUnseen(x) \/ PostTimedOut(x)
  PROVE  SentInv'
<1>1. wk[x].pc = "post" /\ wk[x].pc \notin Free \cup {"gate"} /\ wk[x] \in Worker
  BY TypesOpen DEF PostAccepted, PostAcceptedUnseen, PostTimedOut, At, Free
<1>2. PICK c \in Commands : c = wk[x].c
  BY <1>1, InTask
<1>3. InFlight(c) /\ UNCHANGED <<ledgerVars, receipt>> /\ cmd' = cmd
  BY <1>1, <1>2 DEF InFlight, At, PostAccepted, PostAcceptedUnseen, PostTimedOut,
     portVars, ledgerVars
<1>4. /\ Others(x) /\ wk'[x].c = c /\ wk'[x].mode = wk[x].mode
      /\ \/ wk'[x].pc = "ack"
         \/ wk'[x].pc = "done" /\ wk'[x].res \in {"unknown", "rejected"}
  <2>1. CASE PostAccepted(x)
    <3>1. PICK r \in Runs : wk' = [wk EXCEPT ![x].pc = "ack", ![x].run = r]
      BY <2>1 DEF PostAccepted
    <3>2. wk'[x] = [wk[x] EXCEPT !.pc = "ack", !.run = r] /\ Others(x)
      BY <3>1, TypesOpen DEF Others
    <3> QED BY <1>1, <1>2, <3>2 DEF Worker
  <2>2. CASE PostAcceptedUnseen(x) \/ PostTimedOut(x)
    <3>1. \E e \in {"unknown", "rejected"} : Finish(x, e, NoRun)
      BY <2>2 DEF PostAcceptedUnseen, PostTimedOut
    <3> QED BY <1>1, <1>2, <3>1, TaskFields DEF Result
  <2> QED BY <2>1, <2>2
<1>5. SentBy(x)'
  <2>1. wk[x].mode = "dispatch" /\ cmd[c].state = "leased" => receipt[c].st = "open"
    BY <1>1, <1>2 DEF SentInv, SentBy
  <2> QED BY <1>3, <1>4, <2>1 DEF SentBy, Unposted, Told, Held
<1>6. \A d \in Commands \ {c} :
        RunsOf(d)' = RunsOf(d) /\ late'[d] = late[d] /\ (InFlight(d)' => InFlight(d))
  <2>1. \A d \in Commands \ {c} : late'[d] = late[d]
    BY <1>2, TypesOpen DEF PostAccepted, PostAcceptedUnseen, PostTimedOut
  <2>2. \A d \in Commands \ {c} : RunsOf(d)' = RunsOf(d)
    <3>1. \/ \E r \in Runs : TakePost(c, r)
          \/ hermes' = hermes
      BY <1>2 DEF PostAccepted, PostAcceptedUnseen, PostTimedOut
    <3> QED BY <1>3, <3>1, Taken DEF RunsOf
  <2> QED BY <1>4, <2>1, <2>2 DEF InFlight, At, Others
<1>7. \A y \in Workers \ {x} :
        ~(wk[y].pc = "post" /\ wk[y].c = c /\ cmd[c].state = "leased")
  BY <1>1, <1>2, InHand DEF Free
<1> QED BY <1>3, <1>4, <1>5, <1>6, <1>7, SentPost DEF Others

\* A late POST arrives: its command was not taken as unsent.
LEMMA SentLate ==
  ASSUME ConnectorInv, SentInv, NEW c \in Commands, LatePost(c)
  PROVE  SentInv'
<1>1. InFlight(c) /\ late[c] /\ UNCHANGED <<ledgerVars, receipt>> /\ wk' = wk
  BY DEF LatePost, InFlight, portVars
<1>2. \A y \in Workers : ~(wk[y].pc = "post" /\ wk[y].c = c /\ cmd[c].state = "leased")
  BY <1>1, InHand DEF SentInv, SentBy, Free
<1>3. \A d \in Commands \ {c} : late'[d] = late[d]
  BY TypesOpen DEF LatePost
<1>4. \A d \in Commands \ {c} : RunsOf(d)' = RunsOf(d)
  <2>1. \/ \E r \in Runs : TakePost(c, r)
        \/ hermes' = hermes
    BY DEF LatePost
  <2> QED BY <1>1, <2>1, Taken DEF RunsOf
<1>5. \A d \in Commands \ {c} : InFlight(d)' => InFlight(d)
  BY <1>1, <1>3 DEF InFlight, At
<1> QED BY <1>1, <1>2, <1>3, <1>4, <1>5, SentPost

\* A worker dies: its POST was in flight already.
LEMMA SentCrash ==
  ASSUME ConnectorInv, SentInv, NEW x \in Workers, Crash(x)
  PROVE  SentInv'
<1>1. Others(x) /\ wk'[x] = Idle /\ UNCHANGED <<ledgerVars, receipt>> /\ hermes' = hermes
  BY TypesOpen DEF Crash, Become, Others, portVars
<1>2. SentBy(x)' /\ wk'[x].pc # "post"
  BY <1>1, IdleTyped DEF SentBy
<1>3. \A d \in Commands : RunsOf(d)' = RunsOf(d) /\ Speaks(d)
  BY <1>1 DEF RunsOf, Speaks
<1>4. CASE wk[x].pc # "post"
  <2>1. late' = late
    BY <1>4 DEF Crash, At
  <2> QED BY <1>1, <1>2, <1>3, <2>1, SteadyStill, SentStands DEF ConnectorInv
<1>5. CASE wk[x].pc = "post"
  <2>1. PICK c \in Commands : c = wk[x].c
    BY <1>5, InTask DEF Free
  <2>2. InFlight(c)
    BY <1>5, <2>1 DEF InFlight, At
  <2>3. \A d \in Commands \ {c} : late'[d] = late[d]
    BY <1>5, <2>1, TypesOpen DEF Crash, At
  <2>4. \A d \in Commands \ {c} : InFlight(d)' => InFlight(d)
    BY <1>1, <1>2, <2>3 DEF InFlight, At, Others
  <2>5. \A y \in Workers \ {x} :
          ~(wk[y].pc = "post" /\ wk[y].c = c /\ cmd[c].state = "leased")
    BY <1>5, <2>1, InHand DEF Free
  <2> QED BY <1>1, <1>2, <1>3, <2>2, <2>3, <2>4, <2>5, SentPost DEF Others
<1> QED BY <1>4, <1>5

\* A refused POST was not accepted, and the holder of the lease had sent no other.
LEMMA SentRefused ==
  ASSUME ConnectorInv, SentInv, NEW x \in Workers, PostRefused(x)
  PROVE  SentInv'
<1>1. /\ wk[x].pc = "post" /\ wk[x].pc \notin Free \cup {"gate"}
      /\ UNCHANGED <<ledgerVars, receipt>> /\ hermes' = hermes /\ late' = late
  BY DEF PostRefused, At, Free, hermesVars, portVars
<1>2. PICK c \in Commands : c = wk[x].c
  BY <1>1, InTask
<1>3. \/ Go(x, "nack")
      \/ \E e \in {"rejected", "unknown", "unavailable"} : Finish(x, e, NoRun)
  BY DEF PostRefused
<1>4. Others(x) /\ wk'[x].pc \notin {"post", "ack"} /\ wk'[x].mode = wk[x].mode
      /\ wk'[x].c = c
  BY <1>1, <1>2, <1>3, TaskFields DEF PC, Result
<1>5. \A d \in Commands : RunsOf(d)' = RunsOf(d) /\ Speaks(d)
  BY <1>1 DEF RunsOf, Speaks
<1>6. SentBy(x)'
  <2> SUFFICES ASSUME wk[x].mode = "dispatch", cmd[c].state = "leased"
               PROVE  NothingSent(c)'
    BY <1>1, <1>4 DEF SentBy, Held, ledgerVars
  <2>1. RunsOf(c) = {} /\ ~late[c]
    BY <1>1, <1>2 DEF SentInv, SentBy
  <2>2. \A y \in Workers \ {x} : ~(wk[y].pc = "post" /\ wk[y].c = c)
    BY <1>1, <1>2, InHand DEF Free
  <2> QED BY <1>1, <1>4, <1>5, <2>1, <2>2 DEF NothingSent, InFlight, At, Others
<1> QED BY <1>1, <1>4, <1>5, <1>6, SteadyStill, SentStands DEF ConnectorInv

\* The port off the network, and what it makes of an answer it has journalled or not.
LEMMA SentPort ==
  ASSUME ConnectorInv, SentInv, NEW x \in Workers, PortFails(x) \/ Acknowledge(x)
  PROVE  SentInv'
<1>1. /\ wk[x].pc \in {"port", "ack"} /\ wk[x].pc \notin Free
      /\ UNCHANGED <<hermes, late>> /\ cmd' = cmd /\ UNCHANGED ledgerVars
  BY DEF PortFails, Acknowledge, At, Free, hermesVars, ledgerVars
<1>2. PICK c \in Commands : c = wk[x].c
  BY <1>1, InTask
<1>3. \E e \in Result, r \in Runs \cup {NoRun} :
        Finish(x, e, r) /\ (wk[x].pc = "ack" => e \in {"ok", "rejected"})
  <2>1. CASE PortFails(x)
    BY <2>1 DEF PortFails, At, Result
  <2>2. CASE Acknowledge(x)
    <3>1. wk[x].run \in Runs
      BY <2>2 DEF Acknowledge, At, ConnectorInv, WorkerInv, RunsOf
    <3> QED BY <2>2, <3>1 DEF Acknowledge, Result
  <2> QED BY <2>1, <2>2
<1>4. /\ Others(x) /\ wk'[x].pc = "done" /\ wk'[x].mode = wk[x].mode /\ wk'[x].c = c
      /\ wk[x].pc = "ack" => wk'[x].res \in {"ok", "rejected"}
  BY <1>1, <1>2, <1>3, TaskFields
<1>5. \A d \in Commands : receipt'[d].st = receipt[d].st
  <2>1. \/ receipt' = receipt
        \/ receipt' = [receipt EXCEPT ![c].run = IF @ = NoRun THEN wk[x].run ELSE @]
    BY <1>2 DEF PortFails, Acknowledge, Accepted, portVars
  <2> QED BY <2>1, TypesOpen
<1>6. wk[x].mode = "dispatch" /\ cmd'[c].state = "leased" =>
        /\ Unposted(x)' => NothingSent(c)
        /\ Told(x)' => NothingSent(c) \/ receipt'[c].st = "open"
  BY <1>1, <1>2, <1>4, <1>5 DEF SentInv, SentBy, Unposted, Told
<1> QED BY <1>1, <1>4, <1>5, <1>6, SteadyStill, SentTask DEF ConnectorInv, Speaks

\* A refusal leaves a receipt that is no longer open only where nothing was sent, or
\* where somebody else pursues the command.
LEMMA SentSettled ==
  ASSUME ConnectorInv, SentInv, NEW x \in Workers, SettleRefused(x)
  PROVE  SentInv'
<1>1. /\ wk[x].pc = "nack" /\ wk[x].pc \notin Free \cup {"gate"}
      /\ UNCHANGED <<hermes, late>> /\ cmd' = cmd /\ UNCHANGED ledgerVars
  BY DEF SettleRefused, At, Free, hermesVars, ledgerVars
<1>2. PICK c \in Commands : c = wk[x].c
  BY <1>1, InTask
<1>3. Others(x) /\ wk'[x].pc = "done" /\ wk'[x].mode = wk[x].mode /\ wk'[x].c = c
  BY <1>1, <1>2, TaskFields DEF SettleRefused, Result
<1>4. \A d \in Commands \ {c} : receipt'[d] = receipt[d]
  <2>1. receipt' = receipt \/ \E e : receipt' = [receipt EXCEPT ![c] = e]
    <3>1. CASE receipt' = [receipt EXCEPT ![c].st = IF receipt[c].run = NoRun
                                                      THEN "rejected" ELSE @]
      BY <3>1
    <3> QED BY <1>2, <3>1 DEF SettleRefused
  <2> QED BY <2>1, TypesOpen
<1>5. \A d \in Commands : RunsOf(d)' = RunsOf(d) /\ (NothingSent(d) => NothingSent(d)')
  BY <1>1, <1>3 DEF RunsOf, NothingSent, InFlight, At, Others
<1>6. ~FailedBare(c)
  BY <1>1, <1>2, InHand
<1>7. \A d \in Commands \ {c} : Speaks(d)
  BY <1>4 DEF Speaks
<1>8. \A d \in Commands : RowCalm(d)
  BY <1>1, SteadyStill DEF ConnectorInv, LedgerSteady
<1>9. \A y \in Workers : SentBy(y)'
  <2>1. SentBy(x)'
    BY <1>1, <1>2, <1>3, <1>5 DEF SentInv, SentBy, Unposted, Told, Held
  <2>2. ASSUME NEW y \in Workers \ {x}, wk[y].c # c PROVE SentBy(y)'
    <3>1. wk'[y] = wk[y] /\ SentBy(y)
          /\ (wk[y].c \in Commands => RowCalm(wk[y].c) /\ Speaks(wk[y].c))
      BY <1>3, <1>7, <1>8, <2>2 DEF Others, SentInv
    <3> QED BY <1>1, <1>5, <3>1, SentByStands
  <2>3. ASSUME NEW y \in Workers \ {x}, wk[y].c = c PROVE SentBy(y)'
    <3>1. cmd[c].state = "leased" => wk[y].pc \in Free \cup {"gate"}
      BY <1>1, <1>2, <2>3, InHand
    <3> QED BY <1>1, <1>3, <2>3, <3>1 DEF SentBy, Unposted, Told, Free, Others
  <2> QED BY <2>1, <2>2, <2>3
<1>10. \A d \in Commands : Unsent(d)' => NothingSent(d)'
  BY <1>1, <1>5 DEF SentInv, Unsent
<1>11. \A d \in Commands : FailedBare(d)' => Held(d)'
  BY <1>1, <1>4, <1>5, <1>6 DEF SentInv, FailedBare, Held
<1> QED BY <1>9, <1>10, <1>11 DEF SentInv

\* A POST goes out: its command is not taken as unsent.
LEMMA SentReserve ==
  ASSUME ConnectorInv, SentInv, NEW x \in Workers, Reserve(x)
  PROVE  SentInv'
<1>1. /\ wk[x].pc = "port" /\ wk[x].pc \notin Free \cup {"gate"}
      /\ UNCHANGED <<hermes, late>> /\ cmd' = cmd /\ UNCHANGED ledgerVars
  BY DEF Reserve, At, Free, hermesVars, ledgerVars
<1>2. PICK c \in Commands : c = wk[x].c
  BY <1>1, InTask
<1>3. wk[x].mode = "dispatch" /\ cmd[c].state = "leased" => NothingSent(c)
  BY <1>1, <1>2 DEF SentInv, SentBy, Unposted
<1>4. /\ \A d \in Commands : receipt[d].st = "open" => receipt'[d].st = "open"
      /\ Go(x, "post") => receipt'[c].st = "open"
      /\ \/ Go(x, "post")
         \/ \E e \in {"ok", "rejected", "unknown"}, r \in Runs \cup {NoRun} : Finish(x, e, r)
  <2>1. CASE /\ Go(x, "post") /\ receipt' = [receipt EXCEPT ![c].st = "open"]
    BY <2>1, TypesOpen
  <2>2. CASE receipt' = receipt /\ Go(x, "post") /\ receipt[c].st = "open"
    BY <2>2
  <2>3. CASE receipt' = receipt /\ \E e \in {"rejected", "unknown"} : Finish(x, e, NoRun)
    <3>1. ~Go(x, "post")
      BY <1>1, <1>2, <2>3, TaskFields DEF PC, Result
    <3> QED BY <2>3, <3>1
  <2>4. CASE receipt' = receipt /\ Finish(x, "ok", receipt[c].run)
    <3>1. receipt[c].run \in Runs \cup {NoRun}
      BY TypesOpen
    <3>2. ~Go(x, "post")
      BY <1>1, <1>2, <2>4, <3>1, TaskFields DEF PC, Result
    <3> QED BY <2>4, <3>1, <3>2
  <2> QED BY <1>2, <2>1, <2>2, <2>3, <2>4 DEF Reserve
<1>5. \A d \in Commands : Speaks(d) /\ RowCalm(d)
  BY <1>1, <1>4, SteadyStill DEF Speaks, ConnectorInv, LedgerSteady
<1>6. CASE \E e \in {"ok", "rejected", "unknown"}, r \in Runs \cup {NoRun} : Finish(x, e, r)
  <2>1. Others(x) /\ wk'[x].pc = "done" /\ wk'[x].mode = wk[x].mode /\ wk'[x].c = c
    BY <1>1, <1>2, <1>6, TaskFields DEF Result
  <2> QED BY <1>1, <1>3, <1>5, <2>1, SteadyStill, SentTask DEF ConnectorInv
<1>7. CASE Go(x, "post")
  <2>1. Others(x) /\ wk'[x].pc = "post" /\ wk'[x].mode = wk[x].mode /\ wk'[x].c = c
    BY <1>1, <1>2, <1>7, TaskFields DEF PC
  <2>2. \A d \in Commands : RunsOf(d)' = RunsOf(d)
    BY <1>1 DEF RunsOf
  <2>3. SentBy(x)'
    BY <1>1, <1>3, <1>4, <1>7, <2>1, <2>2
       DEF SentBy, NothingSent, InFlight, Unposted, Told
  <2>4. \A d \in Commands \ {c} : NothingSent(d) => NothingSent(d)'
    BY <1>1, <2>1, <2>2 DEF NothingSent, InFlight, At, Others
  <2>5. ~Unsent(c) /\ (cmd[c].state = "leased" =>
          \A y \in Workers \ {x} : wk[y].pc \notin Free \cup {"gate"} => wk[y].c # c)
    BY <1>1, <1>2, InHand
  <2>6. \A y \in Workers : SentBy(y)'
    <3> SUFFICES ASSUME NEW y \in Workers \ {x} PROVE SentBy(y)'
      BY <2>3
    <3>1. /\ wk'[y] = wk[y] /\ SentBy(y)
          /\ wk[y].c \in Commands => RowCalm(wk[y].c) /\ Speaks(wk[y].c)
      BY <1>5, <2>1 DEF Others, SentInv
    <3>2. Unposted(y) \/ Told(y) => wk[y].pc \notin Free \cup {"gate"}
      BY DEF Unposted, Told, Free
    <3>3. \A d \in Commands : wk[y].c = d /\ cmd[d].state = "leased" =>
           /\ (Unposted(y) \/ Told(y)) /\ NothingSent(d) => NothingSent(d)'
           /\ wk[y].pc = "post" /\ RunsOf(d) = {} /\ ~late[d]
              => RunsOf(d)' = {} /\ ~late'[d]
      BY <1>1, <2>2, <2>4, <2>5, <3>2
    <3> QED BY <3>1, <3>3, SentByStands
  <2>7. \A d \in Commands : Unsent(d)' => NothingSent(d)'
    BY <1>1, <2>4, <2>5 DEF SentInv, Unsent
  <2>8. \A d \in Commands : FailedBare(d)' => Held(d)'
    BY <1>1, <1>4, <1>7, <2>4 DEF SentInv, FailedBare, Held
  <2> QED BY <2>6, <2>7, <2>8 DEF SentInv
<1> QED BY <1>4, <1>6, <1>7

\* Every call but this one keeps unsent what was unsent; this one records what the
\* holder of the lease knows.
LEMMA SentRecord ==
  ASSUME ConnectorInv, SentInv, NEW x \in Workers, RecordResult(x)
  PROVE  SentInv'
<1>1. /\ wk[x].pc = "record" /\ wk[x].mode = "dispatch" /\ wk[x].c \in Commands
      /\ UNCHANGED <<hermes, late, receipt>>
  BY InTask DEF RecordResult, At, ConnectorInv, WorkerInv, Free, Recovering, hermesVars,
     portVars
<1>2. PICK c \in Commands : c = wk[x].c
  BY <1>1
<1>3. Others(x) /\ wk'[x] = Idle
  BY TypesOpen DEF RecordResult, Become, Others
<1>4. wk[x].res = "ok" => wk[x].run \in Runs
  BY <1>1 DEF ConnectorInv, WorkerInv, RunsOf
<1>5. /\ Wrote(c) /\ cmd[c].state = "leased"
      /\ \/ Now(c, "outcome_unknown", TRUE, NoRun)
         \/ wk[x].res = "unavailable" /\ Now(c, "queued", FALSE, NoRun)
         \/ wk[x].res = "rejected" /\ Now(c, "failed", TRUE, NoRun)
         \/ Now(c, "delivered", TRUE, wk[x].run)
  BY <1>2, <1>4, LeaseCallRow DEF RecordResult, LeaseCall, ConnectorInv
<1>6. \A d \in Commands : NothingSent(d) => NothingSent(d)'
  BY <1>1, <1>3, IdleTyped DEF NothingSent, InFlight, At, Others, RunsOf
<1>7. (Unsent(c)' => NothingSent(c)) /\ (FailedBare(c)' => Held(c))
  <2>1. /\ Unsent(c)' => wk[x].res = "unavailable"
        /\ FailedBare(c)' => wk[x].res = "rejected"
    BY <1>5 DEF Now, Unsent, FailedBare
  <2> QED BY <1>1, <1>2, <1>5, <2>1 DEF SentInv, SentBy, Unposted, Told
<1>8. \A d \in Commands \ {c} : cmd'[d] = cmd[d] /\ RowCalm(d)
  BY <1>5 DEF Wrote, RowCalm, Unsent, FailedBare
<1>9. \A y \in Workers : SentBy(y)'
  <2> SUFFICES ASSUME NEW y \in Workers \ {x}, wk[y].c # c PROVE SentBy(y)'
    BY <1>2, <1>3, <1>5, IdleTyped DEF SentBy, Now, Others
  <2>1. /\ wk'[y] = wk[y] /\ SentBy(y)
        /\ wk[y].c \in Commands => RowCalm(wk[y].c) /\ Speaks(wk[y].c)
    BY <1>1, <1>3, <1>8 DEF Others, SentInv, Speaks
  <2> QED BY <1>1, <1>6, <2>1, SentByStands DEF RunsOf
<1>10. \A d \in Commands : Unsent(d)' => NothingSent(d)'
  BY <1>6, <1>7, <1>8 DEF SentInv, RowCalm
<1>11. \A d \in Commands : FailedBare(d)' => Held(d)'
  BY <1>1, <1>6, <1>7, <1>8 DEF SentInv, RowCalm, Held
<1> QED BY <1>9, <1>10, <1>11 DEF SentInv

\* Reconciliation never makes a row look unsent.
LEMMA SentRecovery ==
  ASSUME ConnectorInv, SentInv, NEW x \in Workers,
         RecordRecovery(x) \/ Observe(x) \/ Fold(x)
  PROVE  SentInv'
<1>1. /\ wk[x].pc \in {"done", "observe", "fold"} /\ wk[x].mode = "recover"
      /\ wk[x] \in Worker /\ UNCHANGED <<hermes, late>>
      /\ ~Observe(x) => wk[x].run \in Runs
      /\ wk[x].pc = "fold" => wk[x].obs \in Terminal
  BY InTask DEF RecordRecovery, Observe, Fold, At, Free, ConnectorInv, WorkerInv, Started,
     hermesVars, RunsOf
<1>2. PICK c \in Commands : c = wk[x].c
  BY <1>1, InTask DEF Free
<1>3. Others(x) /\ wk'[x].mode # "dispatch" /\ wk'[x].pc # "post"
  <2>1. CASE EndTurn(x)
    <3>1. wk'[x] = [Idle EXCEPT !.pc = "turn", !.todo = wk[x].todo] /\ Others(x)
      BY <2>1, TypesOpen DEF EndTurn, Become, Others
    <3> QED BY <3>1, IdleTyped DEF Worker
  <2>2. CASE RecordRecovery(x)
    <3>1. /\ wk'[x] = [wk[x] EXCEPT !.pc = "observe", !.v = @ + 1, !.res = "none"]
          /\ Others(x)
      BY <2>2, TypesOpen DEF RecordRecovery, Become, Others
    <3> QED BY <1>1, <3>1 DEF Worker
  <2>3. CASE \E s : Become(x, [wk[x] EXCEPT !.pc = "fold", !.obs = s])
    <3>1. PICK s : Become(x, [wk[x] EXCEPT !.pc = "fold", !.obs = s])
      BY <2>3
    <3>2. wk'[x] = [wk[x] EXCEPT !.pc = "fold", !.obs = s] /\ Others(x)
      BY <3>1, TypesOpen DEF Become, Others
    <3> QED BY <1>1, <3>2 DEF Worker
  <2> QED BY <2>1, <2>2, <2>3 DEF Observe, Fold
<1>4. \A d \in Commands :
        RowCalm(d) \/ (d = c /\ ~Unsent(c)' /\ ~FailedBare(c)' /\ cmd'[c].state # "leased")
  <2>1. CASE Observe(x)
    <3>1. LedgerSteady
      BY <2>1, SteadyStill DEF Observe, ConnectorInv
    <3> QED BY <3>1 DEF LedgerSteady
  <2>2. CASE RecordRecovery(x) \/ Fold(x)
    <3>1. PICK r \in Runs, s \in {"delivered"} \cup Terminal : Wrote(c) /\ Now(c, s, TRUE, r)
      <4>1. PICK r \in Runs : r = wk[x].run
        BY <1>1, <2>2 DEF RecordRecovery, Fold, Observe, At
      <4>2. CASE RecordRecovery(x)
        <5>1. Wrote(c) /\ Now(c, "delivered", TRUE, r)
          BY <1>2, <4>1, <4>2, VersionCallRow DEF RecordRecovery, ConnectorInv
        <5> QED BY <5>1
      <4>3. CASE Fold(x)
        <5>1. PICK s \in Terminal : s = wk[x].obs
          BY <1>1, <4>3 DEF Fold, At
        <5>2. Wrote(c) /\ Now(c, s, TRUE, r)
          BY <1>2, <4>1, <4>3, <5>1, VersionCallRow DEF Fold, ConnectorInv
        <5> QED BY <5>2
      <4> QED BY <2>2, <4>2, <4>3
    <3>2. \A d \in Commands \ {c} : RowCalm(d)
      BY <3>1 DEF Wrote, RowCalm, Unsent, FailedBare
    <3>3. ~Unsent(c)' /\ ~FailedBare(c)' /\ cmd'[c].state # "leased"
      BY <3>1, RunsAssumption DEF Now, Unsent, FailedBare, Terminal
    <3> QED BY <3>2, <3>3
  <2> QED BY <2>1, <2>2
<1>5. \A d \in Commands : RunsOf(d)' = RunsOf(d) /\ (NothingSent(d) => NothingSent(d)')
  BY <1>1, <1>3 DEF NothingSent, InFlight, At, Others, RunsOf
<1>6. \A d \in Commands : Speaks(d)
  <2>1. CASE ~Observe(x)
    BY <2>1 DEF RecordRecovery, Fold, portVars, Speaks
  <2>2. CASE Observe(x)
    <3>1. cmd' = cmd /\ wk[x].run \in RunsOf(c) /\ Pursued(c)
      BY <1>1, <1>2, <2>2 DEF Observe, At, ledgerVars, ConnectorInv, WorkerInv
    <3>2. cmd[c].state # "leased" /\ ~FailedBare(c)
      BY <3>1 DEF ConnectorInv, LedgerInv, GoodRow, Pursued, FailedBare, Terminal
    <3>3. \A d \in Commands \ {c} : receipt[d].run # wk[x].run
      BY <3>1, RunsAssumption DEF ConnectorInv, CommandInv, RunsOf
    <3>4. \A d \in Commands \ {c} : receipt'[d] = receipt[d]
      BY <2>2, <3>3, TypesOpen DEF Observe
    <3> QED BY <3>1, <3>2, <3>4 DEF Speaks, FailedBare
  <2> QED BY <2>1, <2>2
<1>7. \A y \in Workers : SentBy(y)'
  <2> SUFFICES ASSUME NEW y \in Workers \ {x}, cmd'[wk[y].c].state = "leased",
                      wk[y].mode = "dispatch"
               PROVE  SentBy(y)'
    BY <1>3 DEF SentBy, Others
  <2>1. PICK d \in Commands : d = wk[y].c
    BY DEF ConnectorInv, WorkerInv
  <2>2. RowCalm(d)
    BY <1>4, <2>1
  <2>3. wk'[y] = wk[y] /\ SentBy(y) /\ RowCalm(wk[y].c) /\ Speaks(wk[y].c)
    BY <1>3, <1>6, <2>1, <2>2 DEF Others, SentInv
  <2> QED BY <1>1, <1>5, <2>3, SentByStands
<1>8. \A d \in Commands : Unsent(d)' => NothingSent(d)'
  BY <1>4, <1>5 DEF RowCalm, SentInv
<1>9. \A d \in Commands : FailedBare(d)' => Held(d)'
  BY <1>4, <1>5, <1>6, HeldStands
<1> QED BY <1>7, <1>8, <1>9 DEF SentInv

\* Nothing is sent at the start.
LEMMA SentInit == Init => SentInv
BY IdleTyped DEF Init, LedgerInit, AbsentRow, SentInv, SentBy, FailedBare, NothingSent,
   RunsOf, InFlight, At

\* Every step keeps unsent what the ledger takes as unsent, and held what failed bare.
LEMMA SentNext == ConnectorInv /\ SentInv /\ [Next]_vars => SentInv'
<1> SUFFICES ASSUME ConnectorInv, SentInv, [Next]_vars PROVE SentInv'
  OBVIOUS
<1>1. ASSUME NEW x \in Workers, Tells(x) PROVE SentInv'
  BY <1>1, SentStart, SentRecord, SentPort, SentSettled, SentReserve, SentPosted,
     SentRefused, SentRecovery, SentCrash DEF Tells, Port
<1>2. CASE Outside
  <2>1. \A c \in Commands : RunsOf(c)' = RunsOf(c)
    BY <1>2 DEF Outside, hermesVars, RunsOf
  <2> QED BY <1>2, <2>1, SentOutside DEF Outside, hermesVars, portVars
<1>3. ASSUME NEW c \in Commands, WindowCloses(c) \/ HermesForgets(c) PROVE SentInv'
  <2>1. UNCHANGED <<ledgerVars, wk, hermes, late, receipt>>
    BY <1>3 DEF WindowCloses, HermesForgets, hermesVars, portVars
  <2> QED BY <2>1, SteadyStill, SentOutside DEF ConnectorInv, RunsOf
<1>4. ASSUME NEW r \in Runs, RunEnds(r) PROVE SentInv'
  <2>1. UNCHANGED <<ledgerVars, wk, late, receipt>>
    BY <1>4 DEF RunEnds, portVars
  <2>2. PICK s \in Ended : hermes' = [hermes EXCEPT ![r] = s] /\ hermes[r] = "live"
    BY <1>4, OutcomesAssumption DEF RunEnds
  <2>3. \A q \in Runs : hermes'[q] # "none" <=> hermes[q] # "none"
    BY <2>2, TypesOpen DEF Ended
  <2>4. \A c \in Commands : RunsOf(c)' = RunsOf(c)
    BY <2>3 DEF RunsOf
  <2> QED BY <2>1, <2>4, SteadyStill, SentOutside DEF ConnectorInv
<1> QED BY <1>1, <1>2, <1>3, <1>4, Shapes, SentDrifts, SentLate

\* Whatever Hermes replies and whether or not the journal can be written, a command
\* that is queued or cancelled without a Run has no Run at Hermes and no POST on its
\* way: mark_dispatch_unavailable is only reached with nothing sent, and the lease
\* fences off whoever else may have sent.  One that mark_dispatch_rejected failed
\* without a Run either has nothing sent, or still has an open receipt, which keeps
\* its session busy.
THEOREM UnsentMeansUnsent == Spec => []UnsentOrHeld
<1>1. Spec => [](ConnectorInv /\ SentInv)
  BY ConnectorInit, ConnectorNext, SentInit, SentNext, PTL DEF Spec
<1>2. SentInv => UnsentOrHeld
  BY DEF SentInv, Unsent, FailedBare, Held, UnsentOrHeld
<1> QED BY <1>1, <1>2, PTL

-----------------------------------------------------------------------------
(* A command that is over has a settled receipt.                           *)

\* The replies after which the receipt of a rejected or requeued command stays
\* unsettled.
Unsettling == {"odd_refusal", "store_down", "garbled", "unjournalled"}

\* The step does not bring c to where its receipt must be unwritten or settled.
RowQuiet(c) ==
  /\ Unsent(c)' => Unsent(c)
  /\ cmd'[c].state \in Terminal => cmd[c].state \in Terminal \/ Unsent(c)
  /\ cmd'[c].run # NoRun => cmd[c].run # NoRun
  /\ cmd'[c].state = "leased" => cmd[c].state \in {"queued", "leased"}

\* What came astride of the end of the retention stays so.
AstrideStays(c) == window[c] = "astride" => window'[c] = "astride"

\* A receipt that has a Run keeps one and is not opened again.
ReceiptGrows(c) ==
  /\ AstrideStays(c)
  /\ receipt[c].run # NoRun =>
       receipt'[c].run # NoRun /\ (receipt'[c].st = "open" => receipt[c].st = "open")

\* No receipt is opened, none is written where there was none.
ReceiptKept(c) ==
  /\ AstrideStays(c)
  /\ receipt'[c].st = "open" => receipt[c].st = "open"
  /\ receipt[c].st = "none" => receipt'[c].st = "none"
  /\ receipt[c].run # NoRun => receipt'[c].run # NoRun

\* A ledger that is steady is quiet.
LEMMA QuietWhenSteady ==
  ASSUME LedgerSteady, NEW c \in Commands
  PROVE  RowQuiet(c)
<1>1. RowCalm(c) /\ NoNews(c)
  BY DEF LedgerSteady
<1> QED BY <1>1 DEF RowCalm, NoNews, RowQuiet, Unsent, Terminal

\* The row of a command says of its receipt what it said.
LEMMA RowStands ==
  ASSUME NEW c \in Commands, SettledRow(c), RowQuiet(c), ReceiptKept(c)
  PROVE  SettledRow(c)'
BY DEF SettledRow, RowQuiet, ReceiptKept, AstrideStays

\* The command in a worker's hands has a receipt, and is over only with a Run.
LEMMA RowInHand ==
  ASSUME ConnectorInv, NEW c \in Commands, SettledRow(c), RowQuiet(c), ~Unsent(c),
         ReceiptGrows(c), cmd'[c].state \in Terminal => cmd[c].run # NoRun
  PROVE  SettledRow(c)'
BY DEF SettledRow, RowQuiet, ReceiptGrows, AstrideStays

\* A worker that stands still knows of its receipt what it knew.
LEMMA SettledByStands ==
  ASSUME ConnectorInv, NEW y \in Workers, SettledBy(y), wk'[y] = wk[y],
         NEW c \in Commands, wk[y].c = c,
         cmd'[c].state = "leased" => cmd[c].state \in {"queued", "leased"},
         ReceiptGrows(c), cmd[c].state = "leased" => ReceiptKept(c)
  PROVE  SettledBy(y)'
<1>1. /\ wk[y].pc \in {"done", "record"} /\ wk[y].res = "ok" => receipt'[c].run # NoRun
      /\ wk[y].pc \in {"observe", "fold"} => receipt'[c].run # NoRun
      /\ wk[y].pc = "fold" => receipt'[c].st # "open" \/ window'[c] = "astride"
  BY DEF SettledBy, ReceiptGrows, AstrideStays
<1>2. ASSUME wk[y].mode = "dispatch", cmd'[c].state = "leased",
             wk[y].pc \in {"resolve", "port", "done", "record"}
      PROVE  cmd[c].state = "leased" /\ ReceiptKept(c)
  <2>1. ~Unsent(c)
    BY <1>2, InHand DEF Free
  <2> QED BY <1>2, <2>1 DEF Unsent
<1> QED BY <1>1, <1>2 DEF SettledBy, ReceiptKept

\* The frame: worker x moves to where it knows what it should; only the receipt of
\* its own command is written anew, and only its own row brings news.
LEMMA SettledStandsBy ==
  ASSUME ConnectorInv, SettledInv, NEW x \in Workers,
         \A y \in Workers \ {x} : wk'[y] = wk[y], SettledBy(x)',
         NEW c \in Commands, \A d \in Commands \ {c} : RowQuiet(d) /\ ReceiptKept(d),
         SettledRow(c)', ReceiptGrows(c),
         cmd'[c].state = "leased" => cmd[c].state \in {"queued", "leased"},
         cmd[c].state = "leased" /\ ~ReceiptKept(c) =>
           wk[x].c = c /\ wk[x].pc \notin Free \cup {"gate"}
  PROVE  SettledInv'
<1>1. \A d \in Commands : SettledRow(d)'
  BY RowStands DEF SettledInv
<1>2. \A y \in Workers : SettledBy(y)'
  <2> SUFFICES ASSUME NEW y \in Workers \ {x} PROVE SettledBy(y)'
    OBVIOUS
  <2>1. CASE wk[y].pc \in Free \cup {"gate"}
    BY <2>1 DEF SettledBy, Free
  <2>2. CASE wk[y].pc \notin Free \cup {"gate"}
    <3>1. PICK d \in Commands : d = wk[y].c
      BY <2>2, InTask
    <3>2. CASE d # c
      BY <3>1, <3>2, SettledByStands DEF SettledInv, RowQuiet, ReceiptGrows, ReceiptKept
    <3>3. CASE d = c
      <4>1. cmd[c].state = "leased" => ReceiptKept(c)
        BY <2>2, <3>1, <3>3, InHand
      <4> QED BY <3>1, <3>3, <4>1, SettledByStands DEF SettledInv
    <3> QED BY <3>2, <3>3
  <2> QED BY <2>1, <2>2
<1> QED BY <1>1, <1>2 DEF SettledInv

\* The same where the ledger is steady and no receipt is written anew.
LEMMA SettledSteady ==
  ASSUME ConnectorInv, SettledInv, LedgerSteady, NEW x \in Workers,
         \A y \in Workers \ {x} : wk'[y] = wk[y], SettledBy(x)',
         \A d \in Commands : ReceiptKept(d)
  PROVE  SettledInv'
<1>1. \A d \in Commands : RowQuiet(d)
  BY QuietWhenSteady
<1>2. \A d \in Commands : SettledRow(d)'
  BY <1>1, RowStands DEF SettledInv
<1>3. \A y \in Workers : SettledBy(y)'
  <2> SUFFICES ASSUME NEW y \in Workers \ {x} PROVE SettledBy(y)'
    OBVIOUS
  <2>1. CASE wk[y].pc \in Free \cup {"gate"}
    BY <2>1 DEF SettledBy, Free
  <2>2. CASE wk[y].pc \notin Free \cup {"gate"}
    <3>1. PICK d \in Commands : d = wk[y].c
      BY <2>2, InTask
    <3> QED BY <1>1, <3>1, SettledByStands DEF SettledInv, RowQuiet, ReceiptGrows, ReceiptKept
  <2> QED BY <2>1, <2>2
<1> QED BY <1>2, <1>3 DEF SettledInv

\* And where the workers stand still.
LEMMA SettledOutside ==
  ASSUME ConnectorInv, SettledInv, LedgerSteady, wk' = wk, receipt' = receipt,
         \A d \in Commands : AstrideStays(d)
  PROVE  SettledInv'
<1>1. \A d \in Commands : ReceiptKept(d) /\ RowQuiet(d)
  BY QuietWhenSteady DEF ReceiptKept
<1>2. \A d \in Commands : SettledRow(d)'
  BY <1>1, RowStands DEF SettledInv
<1>3. ASSUME NEW y \in Workers PROVE SettledBy(y)'
  <2>1. CASE wk[y].pc \in Free \cup {"gate"}
    BY <2>1 DEF SettledBy, Free
  <2>2. CASE wk[y].pc \notin Free \cup {"gate"}
    <3>1. PICK d \in Commands : d = wk[y].c
      BY <2>2, InTask
    <3> QED BY <1>1, <3>1, SettledByStands DEF SettledInv, RowQuiet, ReceiptGrows, ReceiptKept
  <2> QED BY <2>1, <2>2
<1> QED BY <1>2, <1>3 DEF SettledInv

\* A worker that drifts to the observation of a Run finds it journalled.
LEMMA SettledDrifts ==
  ASSUME ConnectorInv, SettledInv, NEW x \in Workers, Drifts(x)
  PROVE  SettledInv'
<1>1. /\ \A y \in Workers \ {x} : wk'[y] = wk[y]
      /\ LedgerSteady /\ receipt' = receipt /\ window' = window
  BY DEF Drifts, Moved, portVars
<1>2. SettledBy(x)'
  <2>1. CASE wk'[x].pc \in Free \cup {"gate"} \/ wk'[x].pc = "port"
    BY <2>1 DEF SettledBy, Free, Drifts, Moved, WorkerInv
  <2>2. CASE wk'[x].mode = "recover" /\ wk'[x].pc = "observe" /\ cmd[wk'[x].c].run # NoRun
    <3>1. PICK c \in Commands : c = wk'[x].c
      BY <2>2 DEF Drifts, Moved, WorkerInv
    <3>2. receipt[c].run # NoRun
      BY <2>2, <3>1 DEF SettledInv, SettledRow
    <3> QED BY <1>1, <2>2, <3>1, <3>2 DEF SettledBy
  <2> QED BY <2>1, <2>2 DEF Drifts
<1>3. \A d \in Commands : ReceiptKept(d)
  BY <1>1 DEF ReceiptKept, AstrideStays
<1> QED BY <1>1, <1>2, <1>3, SettledSteady

\* The steps up to the port and past it that leave the journal alone.
LEMMA SettledStart ==
  ASSUME ConnectorInv, SettledInv, NEW x \in Workers,
         StartDispatch(x) \/ ResolveAndBeat(x) \/ ResolveFails(x) \/ ReadLatest(x)
         \/ PortFails(x)
  PROVE  SettledInv'
<1>1. /\ wk[x].pc \notin Free /\ wk[x] \in Worker /\ receipt' = receipt
      /\ window' = window
      /\ ~PortFails(x) => wk[x].mode = "dispatch"
  BY InTask DEF StartDispatch, ResolveAndBeat, ResolveFails, ReadLatest, PortFails, At, Free,
     ConnectorInv, WorkerInv, Recovering, portVars
<1>2. PICK c \in Commands : c = wk[x].c
  BY <1>1, InTask
<1>3. LedgerSteady
  BY <1>2, SteadyLease, SteadyStill
     DEF ConnectorInv, StartDispatch, ResolveAndBeat, ResolveFails, ReadLatest, PortFails
<1>4. SettledBy(x)' /\ Others(x)
  <2>1. CASE StartDispatch(x)
    <3>1. cmd[c].state = "leased" /\ ~cmd[c].dispatched
      BY <1>2, <2>1 DEF StartDispatch, mark_dispatch_started, _lock_active_lease
    <3>2. receipt[c].st = "none"
      BY <3>1 DEF SettledInv, SettledRow, Unsent
    <3>3. /\ Others(x) /\ wk'[x].c = c
          /\ \/ wk'[x].pc = "resolve"
             \/ wk'[x].pc = "done" /\ wk'[x].res \in {"unavailable", "rejected"}
      <4>1. \/ wk' = [wk EXCEPT ![x] = [wk[x] EXCEPT !.pc = "resolve", !.v = @ + 1]]
            \/ \E e \in {"unavailable", "rejected"} :
                 wk' = [wk EXCEPT ![x] = [wk[x] EXCEPT !.pc = "done", !.v = @ + 1, !.res = e]]
        BY <2>1 DEF StartDispatch, Become
      <4>2. \/ wk'[x] = [wk[x] EXCEPT !.pc = "resolve", !.v = @ + 1]
            \/ \E e \in {"unavailable", "rejected"} :
                 wk'[x] = [wk[x] EXCEPT !.pc = "done", !.v = @ + 1, !.res = e]
        BY <4>1, TypesOpen
      <4> QED BY <1>1, <1>2, <4>1, <4>2, TypesOpen DEF Others, Worker
    <3> QED BY <1>1, <3>2, <3>3 DEF SettledBy
  <2>2. CASE ResolveAndBeat(x)
    <3>1. wk'[x] = [wk[x] EXCEPT !.pc = "port", !.v = @ + 1] /\ Others(x)
      BY <2>2, TypesOpen DEF ResolveAndBeat, Become, Others
    <3>2. wk'[x].pc = "port" /\ wk'[x].c = c
      BY <1>1, <1>2, <3>1 DEF Worker
    <3>3. receipt[c].st = "none"
      <4>1. cmd[c].state = "leased" /\ wk[x].pc = "resolve"
        BY <1>2, <2>2 DEF ResolveAndBeat, heartbeat_lease, _lock_active_lease, At
      <4>2. wk[x].mode = "dispatch"
        BY <1>1, <4>1 DEF PortFails, At
      <4> QED BY <1>2, <4>1, <4>2 DEF SettledInv, SettledBy
    <3> QED BY <1>1, <3>1, <3>2, <3>3 DEF SettledBy
  <2>3. CASE ResolveFails(x) \/ PortFails(x)
    <3>1. PICK e \in {"unavailable", "rejected", "unknown"} : Finish(x, e, NoRun)
      BY <2>3 DEF ResolveFails, PortFails
    <3>2. /\ Others(x) /\ wk'[x].pc = "done" /\ wk'[x].mode = wk[x].mode /\ wk'[x].c = c
          /\ wk'[x].res # "ok"
      BY <1>1, <1>2, <3>1, TaskFields DEF Result
    <3>3. cmd' = cmd /\ wk[x].pc \in {"resolve", "port"}
      BY <2>3 DEF ResolveFails, PortFails, ledgerVars, At
    <3>4. wk'[x].mode = "dispatch" /\ cmd'[c].state = "leased" => receipt[c].st = "none"
      BY <1>1, <1>2, <3>2, <3>3 DEF SettledInv, SettledBy
    <3> QED BY <1>1, <3>2, <3>4 DEF SettledBy
  <2>4. CASE ReadLatest(x)
    <3>1. wk'[x] = [wk[x] EXCEPT !.pc = "record", !.v = Latest(x)] /\ Others(x)
      BY <2>4, TypesOpen DEF ReadLatest, Become, Others
    <3>2. /\ wk'[x].pc = "record" /\ wk'[x].mode = wk[x].mode /\ wk'[x].c = c
          /\ wk'[x].res = wk[x].res
      BY <1>1, <1>2, <3>1 DEF Worker
    <3>3. cmd' = cmd /\ wk[x].pc = "done" /\ SettledBy(x)
      BY <2>4 DEF ReadLatest, ledgerVars, At, SettledInv
    <3> QED BY <1>1, <1>2, <3>1, <3>2, <3>3 DEF SettledBy
  <2> QED BY <2>1, <2>2, <2>3, <2>4
<1>5. \A d \in Commands : ReceiptKept(d)
  BY <1>1 DEF ReceiptKept, AstrideStays
<1> QED BY <1>3, <1>4, <1>5, SettledSteady DEF Others

\* A POST, whatever becomes of it: the journal hears of it later.
LEMMA SettledPosted ==
  ASSUME ConnectorInv, SettledInv, Replies \cap Unsettling = {}, NEW x \in Workers,
         PostAccepted(x) \/ PostAcceptedUnseen(x) \/ PostTimedOut(x) \/ PostRefused(x)
  PROVE  SettledInv'
<1>1. /\ wk[x].pc = "post" /\ wk[x].pc \notin Free /\ wk[x] \in Worker
      /\ receipt' = receipt /\ window' = window /\ UNCHANGED ledgerVars
  BY TypesOpen
     DEF PostAccepted, PostAcceptedUnseen, PostTimedOut, PostRefused, At, Free, portVars
<1>2. PICK c \in Commands : c = wk[x].c
  BY <1>1, InTask
<1>3. Others(x) /\ (wk'[x].pc \in {"ack", "nack"} \/ (wk'[x].pc = "done" /\ wk'[x].res = "unknown"))
  <2>1. CASE PostAccepted(x)
    <3>1. PICK r \in Runs : wk' = [wk EXCEPT ![x].pc = "ack", ![x].run = r]
      BY <2>1 DEF PostAccepted
    <3>2. wk'[x] = [wk[x] EXCEPT !.pc = "ack", !.run = r] /\ Others(x)
      BY <3>1, TypesOpen DEF Others
    <3> QED BY <1>1, <3>2 DEF Worker
  <2>2. CASE ~PostAccepted(x)
    <3>1. Go(x, "nack") \/ Finish(x, "unknown", NoRun)
      BY <2>2 DEF PostAcceptedUnseen, PostTimedOut, PostRefused, Unsettling
    <3> QED BY <1>1, <1>2, <3>1, TaskFields DEF Result, PC
  <2> QED BY <2>1, <2>2
<1>4. SettledBy(x)' /\ \A d \in Commands : ReceiptKept(d)
  BY <1>1, <1>3 DEF SettledBy, ReceiptKept, AstrideStays
<1>5. LedgerSteady
  BY <1>1, SteadyStill DEF ConnectorInv
<1> QED BY <1>3, <1>4, <1>5, SettledSteady DEF Others

\* A worker that dies leaves the journal to the next one.
LEMMA SettledCrash ==
  ASSUME ConnectorInv, SettledInv, NEW x \in Workers, Crash(x)
  PROVE  SettledInv'
<1>1. /\ Others(x) /\ wk'[x] = Idle /\ UNCHANGED ledgerVars
      /\ receipt' = receipt /\ window' = window
  BY TypesOpen DEF Crash, Become, Others, portVars
<1>2. SettledBy(x)' /\ \A d \in Commands : ReceiptKept(d)
  BY <1>1, IdleTyped DEF SettledBy, ReceiptKept, AstrideStays
<1>3. LedgerSteady
  BY <1>1, SteadyStill DEF ConnectorInv
<1> QED BY <1>1, <1>2, <1>3, SettledSteady DEF Others

\* The journal is read, and opened where it had no row of the command.
LEMMA SettledReserve ==
  ASSUME ConnectorInv, SettledInv, NEW x \in Workers, Reserve(x)
  PROVE  SettledInv'
<1>1. /\ wk[x].pc = "port" /\ wk[x].pc \notin Free \cup {"gate"} /\ wk[x] \in Worker
      /\ UNCHANGED ledgerVars /\ cmd' = cmd /\ window' = window
  BY TypesOpen DEF Reserve, At, Free, ledgerVars
<1>2. PICK c \in Commands : c = wk[x].c
  BY <1>1, InTask
<1>3. ~Unsent(c) /\ ~FailedBare(c) /\ SettledRow(c) /\ SettledBy(x)
  BY <1>1, <1>2, InHand DEF SettledInv
<1>4. /\ Others(x)
      /\ \/ wk'[x].pc = "post"
         \/ /\ wk'[x].pc = "done" /\ wk'[x].c = c /\ receipt' = receipt
            /\ \/ wk'[x].res = "ok" /\ receipt[c].run # NoRun
               \/ wk'[x].res = "unknown"
               \/ /\ wk'[x].res = "rejected" /\ wk'[x].mode = wk[x].mode
                  /\ receipt[c].st # "none"
  <2>1. receipt[c].run \in Runs \cup {NoRun}
    BY TypesOpen
  <2>2. \/ Go(x, "post")
        \/ receipt' = receipt /\ receipt[c].run # NoRun /\ Finish(x, "ok", receipt[c].run)
        \/ receipt' = receipt /\ Finish(x, "unknown", NoRun)
        \/ receipt' = receipt /\ receipt[c].st # "none" /\ Finish(x, "rejected", NoRun)
    BY <1>2 DEF Reserve
  <2> QED BY <1>1, <1>2, <2>1, <2>2, TaskFields DEF PC, Result
<1>5. SettledBy(x)'
  BY <1>1, <1>2, <1>3, <1>4 DEF SettledBy
<1>6. /\ \A d \in Commands \ {c} : receipt'[d] = receipt[d]
      /\ \/ receipt' = receipt
         \/ receipt[c].run = NoRun
  BY <1>2, TypesOpen DEF Reserve, NoReceipt
<1>7. \A d \in Commands : RowQuiet(d)
  BY <1>1, SteadyStill, QuietWhenSteady DEF ConnectorInv
<1>8. ReceiptGrows(c) /\ \A d \in Commands \ {c} : ReceiptKept(d)
  BY <1>1, <1>6 DEF ReceiptGrows, ReceiptKept, AstrideStays
<1>9. cmd[c].state \in Terminal => cmd[c].run # NoRun
  <2>1. cmd[c].state = "succeeded" => cmd[c].run # NoRun
    BY DEF ConnectorInv, LedgerInv, GoodRow, Terminal
  <2> QED BY <1>3, <2>1 DEF Unsent, FailedBare, Terminal
<1>10. SettledRow(c)'
  BY <1>1, <1>3, <1>7, <1>8, <1>9, RowInHand
<1> QED BY <1>1, <1>2, <1>4, <1>5, <1>7, <1>8, <1>10, SettledStandsBy DEF Others

\* The Run a POST was answered with is journalled.
LEMMA SettledAcknowledge ==
  ASSUME ConnectorInv, SettledInv, "unjournalled" \notin Replies, NEW x \in Workers,
         Acknowledge(x)
  PROVE  SettledInv'
<1>1. /\ wk[x].pc = "ack" /\ wk[x].pc \notin Free /\ wk[x] \in Worker
      /\ UNCHANGED ledgerVars /\ wk[x].run \in Runs /\ window' = window
  BY TypesOpen DEF Acknowledge, At, Free, ConnectorInv, WorkerInv, RunsOf
<1>2. PICK c \in Commands : c = wk[x].c
  BY <1>1, InTask
<1>3. Finish(x, "ok", wk[x].run) /\ Accepted(x)
  BY DEF Acknowledge
<1>4. Others(x) /\ wk'[x].pc = "done" /\ wk'[x].c = c /\ wk'[x].res = "ok"
  BY <1>1, <1>2, <1>3, TaskFields DEF Result
<1>5. /\ \A d \in Commands : ReceiptKept(d)
      /\ receipt'[c].run # NoRun
  BY <1>1, <1>2, <1>3, RunsAssumption, TypesOpen DEF Accepted, ReceiptKept, AstrideStays
<1>6. SettledBy(x)'
  BY <1>4, <1>5 DEF SettledBy
<1>7. LedgerSteady
  BY <1>1, SteadyStill DEF ConnectorInv
<1> QED BY <1>4, <1>5, <1>6, <1>7, SettledSteady DEF Others

\* A refusal settles the receipt of whoever has sent nothing else.
LEMMA SettledRefused ==
  ASSUME ConnectorInv, SettledInv, SentInv, "unjournalled" \notin Replies,
         NEW x \in Workers, SettleRefused(x)
  PROVE  SettledInv'
<1>1. /\ wk[x].pc = "nack" /\ wk[x].pc \notin Free \cup {"gate"} /\ wk[x] \in Worker
      /\ UNCHANGED ledgerVars /\ cmd' = cmd /\ window' = window
  BY TypesOpen DEF SettleRefused, At, Free, ledgerVars
<1>2. PICK c \in Commands : c = wk[x].c
  BY <1>1, InTask
<1>3. ~Unsent(c) /\ SettledRow(c)
  BY <1>1, <1>2, InHand DEF SettledInv
<1>4. Finish(x, "rejected", NoRun)
  BY DEF SettleRefused
<1>5. /\ Others(x) /\ wk'[x].pc = "done" /\ wk'[x].mode = wk[x].mode /\ wk'[x].c = c
      /\ wk'[x].res = "rejected"
  BY <1>1, <1>2, <1>4, TaskFields DEF Result
<1>6. /\ \A d \in Commands \ {c} : receipt'[d] = receipt[d]
      /\ receipt'[c].run = receipt[c].run
      /\ receipt[c].run # NoRun => receipt'[c] = receipt[c]
      /\ receipt[c].run = NoRun => receipt'[c].st = "rejected"
  BY <1>2, TypesOpen DEF SettleRefused
<1>7. wk[x].mode = "dispatch" /\ cmd[c].state = "leased" => receipt[c].run = NoRun
  BY <1>1, <1>2 DEF SentInv, SentBy, Unposted, NothingSent, ConnectorInv, CommandInv
<1>8. SettledBy(x)'
  BY <1>1, <1>5, <1>6, <1>7 DEF SettledBy
<1>9. \A d \in Commands : RowQuiet(d)
  BY <1>1, SteadyStill, QuietWhenSteady DEF ConnectorInv
<1>10. ReceiptGrows(c) /\ \A d \in Commands \ {c} : ReceiptKept(d)
  BY <1>1, <1>6 DEF ReceiptGrows, ReceiptKept, AstrideStays
<1>11. SettledRow(c)'
  BY <1>1, <1>3, <1>6 DEF SettledRow, Unsent
<1> QED BY <1>1, <1>2, <1>5, <1>8, <1>9, <1>10, <1>11, SettledStandsBy DEF Others

\* The result of a dispatch, and what is known of the receipt by then.
LEMMA SettledRecord ==
  ASSUME ConnectorInv, SettledInv, NEW x \in Workers, RecordResult(x)
  PROVE  SettledInv'
<1>1. /\ wk[x].pc = "record" /\ wk[x].mode = "dispatch" /\ wk[x].c \in Commands
      /\ receipt' = receipt /\ window' = window
  BY InTask DEF RecordResult, At, ConnectorInv, WorkerInv, Free, Recovering, portVars
<1>2. PICK c \in Commands : c = wk[x].c
  BY <1>1
<1>3. Others(x) /\ wk'[x] = Idle
  BY TypesOpen DEF RecordResult, Become, Others
<1>4. wk[x].res = "ok" => wk[x].run \in Runs
  BY <1>1 DEF ConnectorInv, WorkerInv, RunsOf
<1>5. /\ Wrote(c) /\ cmd[c].state = "leased"
      /\ \/ Now(c, "outcome_unknown", TRUE, NoRun)
         \/ wk[x].res = "unavailable" /\ Now(c, "queued", FALSE, NoRun)
         \/ wk[x].res = "rejected" /\ Now(c, "failed", TRUE, NoRun)
         \/ wk[x].res = "ok" /\ Now(c, "delivered", TRUE, wk[x].run)
  BY <1>2, <1>4, LeaseCallRow DEF RecordResult, LeaseCall, ConnectorInv
<1>6. /\ wk[x].res = "unavailable" => receipt[c].st = "none"
      /\ wk[x].res = "rejected" => receipt[c].st # "open"
      /\ wk[x].res = "ok" => receipt[c].run # NoRun
  BY <1>1, <1>2, <1>5 DEF SettledInv, SettledBy
<1>7. SettledRow(c)'
  BY <1>1, <1>5, <1>6 DEF SettledRow, Now, Unsent, Terminal
<1>8. /\ \A d \in Commands : ReceiptKept(d) /\ ReceiptGrows(d)
      /\ \A d \in Commands \ {c} : RowQuiet(d)
  BY <1>1, <1>5 DEF Wrote, RowQuiet, ReceiptKept, ReceiptGrows, AstrideStays, Unsent
<1>9. SettledBy(x)'
  BY <1>3, IdleTyped DEF SettledBy
<1> QED BY <1>3, <1>5, <1>7, <1>8, <1>9, SettledStandsBy DEF Others, Now

\* A recovered Run is recorded from the journal.
LEMMA SettledRecovery ==
  ASSUME ConnectorInv, SettledInv, NEW x \in Workers, RecordRecovery(x)
  PROVE  SettledInv'
<1>1. /\ wk[x].pc = "done" /\ wk[x].mode = "recover" /\ wk[x].res = "ok"
      /\ wk[x] \in Worker /\ wk[x].run \in Runs /\ receipt' = receipt /\ window' = window
  BY InTask DEF RecordRecovery, At, Free, ConnectorInv, WorkerInv, RunsOf, portVars
<1>2. PICK c \in Commands : c = wk[x].c
  BY <1>1, InTask DEF Free
<1>3. receipt[c].run # NoRun
  BY <1>1, <1>2 DEF SettledInv, SettledBy
<1>4. wk'[x] = [wk[x] EXCEPT !.pc = "observe", !.v = @ + 1, !.res = "none"] /\ Others(x)
  BY TypesOpen DEF RecordRecovery, Become, Others
<1>5. wk'[x].pc = "observe" /\ wk'[x].c = c /\ wk'[x].mode = "recover"
  BY <1>1, <1>2, <1>4 DEF Worker
<1>6. SettledBy(x)'
  BY <1>1, <1>3, <1>5 DEF SettledBy
<1>7. Wrote(c) /\ Now(c, "delivered", TRUE, wk[x].run)
  BY <1>1, <1>2, VersionCallRow DEF RecordRecovery, ConnectorInv
<1>8. SettledRow(c)'
  BY <1>1, <1>3, <1>7, RunsAssumption DEF SettledRow, Now, Unsent, Terminal
<1>9. /\ \A d \in Commands : ReceiptKept(d) /\ ReceiptGrows(d)
      /\ \A d \in Commands \ {c} : RowQuiet(d)
  BY <1>1, <1>7 DEF Wrote, RowQuiet, ReceiptKept, ReceiptGrows, AstrideStays, Unsent
<1> QED BY <1>4, <1>6, <1>7, <1>8, <1>9, SettledStandsBy DEF Others, Now

\* The end of a Run is journalled before the ledger is told.
LEMMA SettledObserve ==
  ASSUME ConnectorInv, SettledInv, NEW x \in Workers, Observe(x)
  PROVE  SettledInv'
<1>1. /\ wk[x].pc = "observe" /\ wk[x].mode = "recover" /\ wk[x] \in Worker
      /\ UNCHANGED ledgerVars /\ window' = window
  BY InTask DEF Observe, At, Free, ConnectorInv, WorkerInv, Started
<1>2. PICK c \in Commands : c = wk[x].c
  BY <1>1, InTask DEF Free
<1>3. /\ \A d \in Commands : receipt[d] \in [st : {"none", "open", "rejected", "terminal"},
                                             run : Runs \cup {NoRun}]
      /\ \/ receipt' = receipt
         \/ receipt' = [d \in Commands |->
                 IF receipt[d].run = wk[x].run /\ receipt[d].st = "open"
                   THEN [receipt[d] EXCEPT !.st = "terminal"] ELSE receipt[d]]
  BY TypesOpen DEF Observe
<1>4. \A d \in Commands : ReceiptKept(d)
  BY <1>1, <1>3 DEF ReceiptKept, AstrideStays
<1>5. LedgerSteady
  BY <1>1, SteadyStill DEF ConnectorInv
<1>6. Others(x) /\ SettledBy(x)'
  <2>1. CASE EndTurn(x)
    <3>1. wk'[x] = [Idle EXCEPT !.pc = "turn", !.todo = wk[x].todo] /\ Others(x)
      BY <2>1, TypesOpen DEF EndTurn, Become, Others
    <3>2. wk'[x].pc = "turn"
      BY <3>1, IdleTyped DEF Worker
    <3> QED BY <3>1, <3>2 DEF SettledBy
  <2>2. CASE ~EndTurn(x)
    <3> DEFINE s == ObservedStatus(hermes[wk[x].run])
    <3>1. Become(x, [wk[x] EXCEPT !.pc = "fold", !.obs = s])
      BY <2>2 DEF Observe
    <3> HIDE DEF s
    <3>2. wk'[x] = [wk[x] EXCEPT !.pc = "fold", !.obs = s] /\ Others(x)
      BY <3>1, TypesOpen DEF Become, Others
    <3>3. wk'[x].pc = "fold" /\ wk'[x].mode = "recover" /\ wk'[x].c = c
      BY <1>1, <1>2, <3>2 DEF Worker
    <3>4. receipt[c].run # NoRun /\ (receipt[c].run = wk[x].run \/ window[c] = "astride")
      <4>1. receipt[c].run # NoRun
        BY <1>1, <1>2 DEF SettledInv, SettledBy
      <4>2. receipt[c].run \in RunsOf(c) /\ wk[x].run \in RunsOf(c)
        BY <1>1, <1>2, <4>1 DEF ConnectorInv, CommandInv, WorkerInv
      <4> QED BY <4>1, <4>2 DEF ConnectorInv, CommandInv
    <3>5. receipt' = [d \in Commands |->
                 IF receipt[d].run = wk[x].run /\ receipt[d].st = "open"
                   THEN [receipt[d] EXCEPT !.st = "terminal"] ELSE receipt[d]]
      BY <2>2 DEF Observe
    <3>6. receipt'[c].run # NoRun /\ (receipt'[c].st # "open" \/ window'[c] = "astride")
      BY <1>1, <1>3, <3>4, <3>5
    <3> QED BY <3>2, <3>3, <3>6 DEF SettledBy
  <2> QED BY <2>1, <2>2
<1> QED BY <1>4, <1>5, <1>6, SettledSteady DEF Others

\* The end of a Run is recorded after its receipt is settled.
LEMMA SettledFold ==
  ASSUME ConnectorInv, SettledInv, NEW x \in Workers, Fold(x)
  PROVE  SettledInv'
<1>1. /\ wk[x].pc = "fold" /\ wk[x].mode = "recover" /\ wk[x] \in Worker
      /\ wk[x].run \in Runs /\ wk[x].obs \in Terminal
      /\ receipt' = receipt /\ window' = window
  BY InTask DEF Fold, At, Free, ConnectorInv, WorkerInv, RunsOf, Started, portVars
<1>2. PICK c \in Commands : c = wk[x].c
  BY <1>1, InTask DEF Free
<1>3. receipt[c].run # NoRun /\ (receipt[c].st # "open" \/ window[c] = "astride")
  BY <1>1, <1>2 DEF SettledInv, SettledBy
<1>4. wk'[x] = [Idle EXCEPT !.pc = "turn", !.todo = wk[x].todo] /\ Others(x)
  BY TypesOpen DEF Fold, EndTurn, Become, Others
<1>5. SettledBy(x)'
  <2>1. wk'[x].pc = "turn"
    BY <1>4, IdleTyped DEF Worker
  <2> QED BY <2>1 DEF SettledBy
<1>6. Wrote(c) /\ Now(c, wk[x].obs, TRUE, wk[x].run)
  BY <1>1, <1>2, VersionCallRow DEF Fold, ConnectorInv
<1>7. SettledRow(c)'
  BY <1>1, <1>3, <1>6, RunsAssumption DEF SettledRow, Now, Unsent, Terminal
<1>8. /\ \A d \in Commands : ReceiptKept(d) /\ ReceiptGrows(d)
      /\ \A d \in Commands \ {c} : RowQuiet(d)
  BY <1>1, <1>6 DEF Wrote, RowQuiet, ReceiptKept, ReceiptGrows, AstrideStays, Unsent
<1>9. cmd'[c].state # "leased"
  BY <1>1, <1>6 DEF Now, Terminal
<1> QED BY <1>4, <1>5, <1>7, <1>8, <1>9, SettledStandsBy DEF Others

\* No receipt is written at the start.
LEMMA SettledInit == Init => SettledInv
BY IdleTyped DEF Init, LedgerInit, AbsentRow, NoReceipt, SettledInv, SettledRow, SettledBy,
   Terminal

\* Every step settles the receipt before the command.
LEMMA SettledNext ==
  ASSUME Replies \cap Unsettling = {}
  PROVE  ConnectorInv /\ SentInv /\ SettledInv /\ [Next]_vars => SettledInv'
<1> SUFFICES ASSUME ConnectorInv, SentInv, SettledInv, [Next]_vars PROVE SettledInv'
  OBVIOUS
<1>1. ASSUME NEW x \in Workers, Tells(x) PROVE SettledInv'
  BY <1>1, SettledStart, SettledRecord, SettledReserve, SettledPosted, SettledAcknowledge,
     SettledRefused, SettledRecovery, SettledObserve, SettledFold, SettledCrash
     DEF Tells, Port, Unsettling
<1>2. CASE Outside
  BY <1>2, SettledOutside DEF Outside, portVars, AstrideStays
<1>3. ASSUME NEW c \in Commands, LatePost(c) \/ WindowCloses(c) \/ HermesForgets(c)
      PROVE  SettledInv'
  <2>1. UNCHANGED <<ledgerVars, wk, receipt>> /\ \A d \in Commands : AstrideStays(d)
    <3>1. CASE WindowCloses(c)
      BY <3>1, TypesOpen DEF WindowCloses, AstrideStays
    <3>2. CASE LatePost(c) \/ HermesForgets(c)
      BY <3>2 DEF LatePost, HermesForgets, portVars, AstrideStays
    <3> QED BY <1>3, <3>1, <3>2
  <2> QED BY <2>1, SteadyStill, SettledOutside DEF ConnectorInv
<1>4. ASSUME NEW r \in Runs, RunEnds(r) PROVE SettledInv'
  <2>1. UNCHANGED <<ledgerVars, wk, receipt>> /\ \A d \in Commands : AstrideStays(d)
    BY <1>4 DEF RunEnds, portVars, AstrideStays
  <2> QED BY <2>1, SteadyStill, SettledOutside DEF ConnectorInv
<1> QED BY <1>1, <1>2, <1>3, <1>4, Shapes, SettledDrifts

\* Where every rejection Hermes gives is of a status that settles the receipt and the
\* journal can be written, a command that is over has not left an open row in the
\* native request journal (NativeReceipts.reserve would answer session_busy for it
\* ever after): the worker has settled the receipt when it comes to
\* _record_dispatch_result or _record_terminal_observation, for any workers, lapsed
\* leases, late POSTs and crashes, unless the retention ended with a request of it on
\* its way.
THEOREM OverMeansSettled ==
  ASSUME Replies \cap Unsettling = {}
  PROVE  Spec => []OverReleasesSession
<1>1. Spec => [](ConnectorInv /\ SentInv /\ SettledInv)
  BY ConnectorInit, ConnectorNext, SentInit, SentNext, SettledInit, SettledNext, PTL
     DEF Spec
<1>2. SettledInv => OverReleasesSession
  BY DEF SettledInv, SettledRow, OverReleasesSession
<1> QED BY <1>1, <1>2, PTL

-----------------------------------------------------------------------------
(* The Runs of a session take turns, where one worker at a time is live.   *)

\* A step that starts no Run, opens and closes no receipt, sends no POST and learns
\* of no refusal.
LEMMA SessionStands ==
  ASSUME ConnectorInv, SessionInv, HermesSteady,
         \A c \in Commands : receipt'[c].st = receipt[c].st,
         \A c \in Commands : InFlight(c)' => InFlight(c),
         \A c \in Commands : AstrideStays(c),
         \A c \in Commands : InFlight(c) => key'[c] = key[c] \/ window'[c] = "astride",
         \A y \in Workers : wk'[y].pc = "nack" => wk'[y] = wk[y]
  PROVE  SessionInv'
<1>1. ASSUME NEW r \in Runs, hermes'[r] = "live" PROVE Shown(r[1])'
  <2>1. hermes[r] = "live"
    BY <1>1, TypesOpen DEF HermesSteady, HermesGrows, Ended
  <2>2. r[1] \in Commands
    BY RunIdentityAssumption
  <2> QED BY <2>1, <2>2 DEF SessionInv, Shown, AstrideStays
<1>2. \A c \in Commands : InFlight(c)' => Shown(c)' \/ key'[c] # NoRun
  BY DEF SessionInv, Shown, AstrideStays
<1>3. \A c, d \in Commands : /\ receipt'[c].st = "open" /\ receipt'[d].st = "open"
                             /\ SessionOf[c] = SessionOf[d]
                             => c = d
  BY DEF SessionInv
<1>4. ASSUME NEW y \in Workers, NEW c \in Commands, wk'[y].pc = "nack", wk'[y].c = c
      PROVE  NothingSent(c)'
  <2>1. NothingSent(c)
    BY <1>4 DEF SessionInv
  <2> QED BY <2>1, SameRuns DEF NothingSent
<1> QED BY <1>1, <1>2, <1>3, <1>4 DEF SessionInv

\* A worker moves to where it neither posts nor has been refused.
LEMMA SessionMove ==
  ASSUME ConnectorInv, SessionInv, NEW x \in Workers, Others(x),
         wk'[x].pc \notin {"post", "nack"}, UNCHANGED <<window, hermesVars>>,
         \A c \in Commands : receipt'[c].st = receipt[c].st
  PROVE  SessionInv'
<1>1. HermesSteady
  BY DEF hermesVars, HermesSteady, HermesGrows
<1>2. \A c \in Commands :
        (InFlight(c)' => InFlight(c)) /\ key'[c] = key[c] /\ AstrideStays(c)
  BY DEF InFlight, At, Others, hermesVars, AstrideStays
<1>3. \A y \in Workers : wk'[y].pc = "nack" => wk'[y] = wk[y]
  BY DEF Others
<1> QED BY <1>1, <1>2, <1>3, SessionStands

\* The steps of a worker away from the network.
LEMMA SessionTask ==
  ASSUME ConnectorInv, SessionInv, NEW x \in Workers,
         \/ Drifts(x) \/ StartDispatch(x) \/ ResolveAndBeat(x) \/ ResolveFails(x)
         \/ ReadLatest(x) \/ RecordResult(x) \/ PortFails(x) \/ RecordRecovery(x)
         \/ Fold(x) \/ Acknowledge(x)
  PROVE  SessionInv'
<1>1. CASE Drifts(x)
  BY <1>1, SessionMove DEF Drifts, Moved, Others, Free, portVars
<1>2. CASE ~Drifts(x)
  <2>1. /\ UNCHANGED <<window, hermesVars>>
        /\ \A c \in Commands : receipt'[c].st = receipt[c].st
    <3>1. CASE Acknowledge(x)
      <4>1. Accepted(x) \/ receipt' = receipt
        BY <3>1 DEF Acknowledge
      <4>2. Accepted(x) => \A c \in Commands : receipt'[c].st = receipt[c].st
        BY TypesOpen DEF Accepted
      <4>3. UNCHANGED <<window, hermesVars>>
        BY <3>1 DEF Acknowledge
      <4> QED BY <4>1, <4>2, <4>3
    <3>2. CASE ~Acknowledge(x)
      BY <1>2, <3>2
         DEF StartDispatch, ResolveAndBeat, ResolveFails, ReadLatest, RecordResult,
         PortFails, RecordRecovery, Fold, portVars
    <3> QED BY <3>1, <3>2
  <2>2. wk[x] \in Worker
    BY TypesOpen
  <2>3. Others(x) /\ wk'[x].pc \notin {"post", "nack"}
    <3>1. CASE StartDispatch(x)
      <4>1. \/ wk' = [wk EXCEPT ![x] = [wk[x] EXCEPT !.pc = "resolve", !.v = @ + 1]]
            \/ \E e \in {"unavailable", "rejected"} :
                 wk' = [wk EXCEPT ![x] = [wk[x] EXCEPT !.pc = "done", !.v = @ + 1, !.res = e]]
        BY <3>1 DEF StartDispatch, Become
      <4>2. \/ wk'[x] = [wk[x] EXCEPT !.pc = "resolve", !.v = @ + 1]
            \/ \E e \in {"unavailable", "rejected"} :
                 wk'[x] = [wk[x] EXCEPT !.pc = "done", !.v = @ + 1, !.res = e]
        BY <4>1, TypesOpen
      <4> QED BY <2>2, <4>1, <4>2, TypesOpen DEF Others, Worker
    <3>2. CASE ResolveAndBeat(x)
      <4>1. wk'[x] = [wk[x] EXCEPT !.pc = "port", !.v = @ + 1] /\ Others(x)
        BY <3>2, TypesOpen DEF ResolveAndBeat, Become, Others
      <4> QED BY <2>2, <4>1 DEF Worker
    <3>3. CASE ResolveFails(x) \/ PortFails(x) \/ Acknowledge(x)
      <4>1. wk[x].pc \notin Free
        BY <3>3 DEF ResolveFails, PortFails, Acknowledge, At, Free
      <4>2. PICK c \in Commands : c = wk[x].c
        BY <4>1, InTask
      <4>3. \E e \in Result, r \in Runs \cup {NoRun} : Finish(x, e, r)
        BY <2>2, <3>3 DEF ResolveFails, PortFails, Acknowledge, Worker, Result
      <4> QED BY <4>1, <4>2, <4>3, TaskFields
    <3>4. CASE ReadLatest(x)
      <4>1. wk'[x] = [wk[x] EXCEPT !.pc = "record", !.v = Latest(x)] /\ Others(x)
        BY <3>4, TypesOpen DEF ReadLatest, Become, Others
      <4> QED BY <2>2, <4>1 DEF Worker
    <3>5. CASE RecordResult(x)
      BY <3>5, TypesOpen, IdleTyped DEF RecordResult, Become, Others
    <3>6. CASE RecordRecovery(x)
      <4>1. /\ wk'[x] = [wk[x] EXCEPT !.pc = "observe", !.v = @ + 1, !.res = "none"]
            /\ Others(x)
        BY <3>6, TypesOpen DEF RecordRecovery, Become, Others
      <4> QED BY <2>2, <4>1 DEF Worker
    <3>7. CASE Fold(x)
      <4>1. wk'[x] = [Idle EXCEPT !.pc = "turn", !.todo = wk[x].todo] /\ Others(x)
        BY <3>7, TypesOpen DEF Fold, EndTurn, Become, Others
      <4> QED BY <4>1, IdleTyped DEF Worker
    <3> QED BY <1>2, <3>1, <3>2, <3>3, <3>4, <3>5, <3>6, <3>7
  <2> QED BY <2>1, <2>3, SessionMove
<1> QED BY <1>1, <1>2

\* The steps of the environment that send nothing.
LEMMA SessionOutside ==
  ASSUME ConnectorInv, SessionInv,
         \/ Outside \/ \E c \in Commands : WindowCloses(c) \/ HermesForgets(c)
         \/ \E r \in Runs : RunEnds(r)
  PROVE  SessionInv'
<1>1. wk' = wk /\ late' = late /\ receipt' = receipt
  BY DEF Outside, WindowCloses, HermesForgets, RunEnds, portVars, hermesVars
<1>2. \A c \in Commands : (InFlight(c)' => InFlight(c))
  BY <1>1 DEF InFlight, At
<1>3. HermesSteady
  <2>1. CASE \E r \in Runs : RunEnds(r)
    <3>1. PICK r \in Runs, s \in Ended :
                 hermes' = [hermes EXCEPT ![r] = s] /\ hermes[r] = "live"
      BY <2>1, OutcomesAssumption DEF RunEnds
    <3> QED BY <3>1, TypesOpen DEF HermesSteady, HermesGrows, Ended
  <2>2. CASE hermes' = hermes
    BY <2>2 DEF HermesSteady, HermesGrows
  <2> QED BY <2>1, <2>2 DEF Outside, WindowCloses, HermesForgets, hermesVars
<1>4. \A c \in Commands : AstrideStays(c)
  <2>1. ASSUME NEW d \in Commands, WindowCloses(d), NEW c \in Commands
        PROVE  AstrideStays(c)
    BY <2>1, TypesOpen DEF WindowCloses, AstrideStays
  <2> QED BY <2>1 DEF Outside, HermesForgets, RunEnds, portVars, AstrideStays
<1>5. \A c \in Commands : InFlight(c) => key'[c] = key[c] \/ window'[c] = "astride"
  <2>1. ASSUME NEW d \in Commands, HermesForgets(d), NEW c \in Commands, InFlight(c)
        PROVE  key'[c] = key[c] \/ window'[c] = "astride"
    <3>1. CASE c # d
      BY <2>1, <3>1, TypesOpen DEF HermesForgets
    <3>2. CASE c = d
      <4>1. window[c] \in {"open", "over", "astride"} /\ window' = window
        BY <2>1, TypesOpen DEF HermesForgets, portVars
      <4> QED BY <2>1, <3>2, <4>1 DEF HermesForgets, ConnectorInv, CommandInv
    <3> QED BY <3>1, <3>2
  <2> QED BY <2>1 DEF Outside, WindowCloses, RunEnds, hermesVars
<1> QED BY <1>1, <1>2, <1>3, <1>4, <1>5, SessionStands

\* The journal row the POST is sent under: no other of the session is open.
LEMMA SessionReserve ==
  ASSUME ConnectorInv, SessionInv, \A y, z \in Workers : y = z, NEW x \in Workers,
         Reserve(x)
  PROVE  SessionInv'
<1>1. /\ wk[x].pc = "port" /\ wk[x].pc \notin Free /\ wk[x] \in Worker
      /\ UNCHANGED <<window, hermesVars>>
  BY TypesOpen DEF Reserve, At, Free
<1>2. PICK c \in Commands : c = wk[x].c
  BY <1>1, InTask
<1>3. CASE \E e \in Result, r \in Runs \cup {NoRun} : Finish(x, e, r) /\ receipt' = receipt
  <2>1. Others(x) /\ wk'[x].pc = "done"
    BY <1>1, <1>2, <1>3, TaskFields
  <2> QED BY <1>1, <1>3, <2>1, SessionMove
<1>4. CASE Go(x, "post")
  <2>1. Others(x) /\ wk'[x].pc = "post" /\ wk'[x].c = c
    BY <1>1, <1>2, <1>4, TaskFields DEF PC
  <2>2. /\ receipt'[c].st = "open"
        /\ \A d \in Commands \ {c} : receipt'[d] = receipt[d]
        /\ receipt[c].st = "open" \/ ~SessionBusy(c)
    <3>1. wk'[x].pc # "done"
      BY <2>1
    <3>2. \A e \in Result, r \in Runs \cup {NoRun} : ~Finish(x, e, r)
      BY <1>1, <1>2, <2>1, TaskFields
    <3> QED BY <1>2, <3>2, TypesOpen DEF Reserve, Result
  <2>3. \A d \in Commands : (InFlight(d)' => InFlight(d) \/ d = c) /\ key'[d] = key[d]
    BY <1>1, <2>1 DEF InFlight, At, Others, hermesVars
  <2>4. \A d, e \in Commands : /\ receipt'[d].st = "open" /\ receipt'[e].st = "open"
                               /\ SessionOf[d] = SessionOf[e]
                               => d = e
    BY <2>2 DEF SessionInv, SessionBusy
  <2>5. ASSUME NEW r \in Runs, hermes'[r] = "live" PROVE Shown(r[1])'
    <3>1. r[1] \in Commands /\ hermes[r] = "live"
      BY <1>1, <2>5, RunIdentityAssumption DEF hermesVars
    <3> QED BY <1>1, <2>2, <3>1 DEF SessionInv, Shown
  <2>6. \A y \in Workers : wk'[y].pc # "nack"
    BY <2>1
  <2>7. \A d \in Commands : InFlight(d)' => Shown(d)' \/ key'[d] # NoRun
    BY <1>1, <2>2, <2>3 DEF SessionInv, Shown
  <2> QED BY <2>4, <2>5, <2>6, <2>7 DEF SessionInv
<1>5. receipt[c].run \in Runs \cup {NoRun}
  BY TypesOpen
<1> QED BY <1>2, <1>3, <1>4, <1>5 DEF Reserve, Result

\* A POST of c that Hermes accepts: its receipt is open, or it has its Run.
LEMMA SessionTaken ==
  ASSUME ConnectorInv, SessionInv, NEW c \in Commands, NEW r \in Runs,
         TakePost(c, r), InFlight(c)
  PROVE  /\ \A q \in Runs : hermes'[q] = "live" => Shown(q[1])
         /\ key'[c] # NoRun /\ \A d \in Commands \ {c} : key'[d] = key[d]
<1>1. CASE UNCHANGED hermes
  BY <1>1, Taken, RunsAssumption DEF SessionInv
<1>2. CASE ~UNCHANGED hermes
  <2>1. key[c] = NoRun /\ r[1] = c /\ hermes' = [hermes EXCEPT ![r] = "live"]
    BY <1>2 DEF TakePost
  <2>2. Shown(c)
    BY <2>1 DEF SessionInv
  <2>3. \A q \in Runs : hermes'[q] = "live" => q = r \/ hermes[q] = "live"
    BY <2>1, TypesOpen
  <2> QED BY <2>1, <2>2, <2>3, Taken, RunsAssumption DEF SessionInv
<1> QED BY <1>1, <1>2

\* The POST of the one worker is decided, or is left in flight.
LEMMA SessionPosted ==
  ASSUME ConnectorInv, SessionInv, \A y, z \in Workers : y = z, NEW x \in Workers,
         \/ PostAccepted(x) \/ PostAcceptedUnseen(x) \/ PostTimedOut(x) \/ Crash(x)
  PROVE  SessionInv'
<1>1. CASE ~At(x, "post")
  <2>1. Crash(x) /\ late' = late
    BY <1>1 DEF PostAccepted, PostAcceptedUnseen, PostTimedOut, Crash
  <2>2. Others(x) /\ wk'[x].pc \notin {"post", "nack"}
    BY <2>1, IdleTyped, TypesOpen DEF Crash, Become, Others
  <2> QED BY <2>1, <2>2, SessionMove DEF Crash, hermesVars, portVars
<1>2. CASE At(x, "post")
  <2>1. /\ wk[x].pc = "post" /\ wk[x].pc \notin Free /\ wk[x] \in Worker
        /\ receipt' = receipt /\ window' = window
    BY <1>2, TypesOpen
       DEF PostAccepted, PostAcceptedUnseen, PostTimedOut, Crash, At, Free, portVars
  <2>2. PICK c \in Commands : c = wk[x].c
    BY <2>1, InTask
  <2>3. InFlight(c)
    BY <1>2, <2>2 DEF InFlight
  <2>4. Others(x) /\ wk'[x].pc \notin {"post", "nack"}
    <3>1. CASE PostAccepted(x)
      <4>1. PICK r \in Runs : wk' = [wk EXCEPT ![x].pc = "ack", ![x].run = r]
        BY <3>1 DEF PostAccepted
      <4>2. wk'[x] = [wk[x] EXCEPT !.pc = "ack", !.run = r] /\ Others(x)
        BY <4>1, TypesOpen DEF Others
      <4> QED BY <2>1, <4>2 DEF Worker
    <3>2. CASE PostAcceptedUnseen(x) \/ PostTimedOut(x)
      <4>1. \E e \in Result : Finish(x, e, NoRun)
        BY <3>2 DEF PostAcceptedUnseen, PostTimedOut, Result
      <4> QED BY <2>1, <2>2, <4>1, TaskFields
    <3>3. CASE Crash(x)
      BY <3>3, IdleTyped, TypesOpen DEF Crash, Become, Others
    <3> QED BY <3>1, <3>2, <3>3
  <2>5. \/ UNCHANGED <<hermes, key>>
        \/ \E r \in Runs : TakePost(c, r)
    BY <2>2 DEF PostAccepted, PostAcceptedUnseen, PostTimedOut, Crash
  <2>6. \A d \in Commands \ {c} : late'[d] = late[d]
    BY <2>2, TypesOpen DEF PostAccepted, PostAcceptedUnseen, PostTimedOut, Crash
  <2>7. \A d \in Commands : InFlight(d)' => InFlight(d)
    BY <2>3, <2>4, <2>6 DEF InFlight, At, Others
  <2>8. \A y \in Workers : wk'[y].pc # "nack"
    BY <2>4
  <2>9. /\ \A r \in Runs : hermes'[r] = "live" => Shown(r[1])'
        /\ \A d \in Commands : InFlight(d) => Shown(d)' \/ key'[d] # NoRun
    BY <2>1, <2>3, <2>5, SessionTaken DEF SessionInv, Shown
  <2> QED BY <2>1, <2>7, <2>8, <2>9 DEF SessionInv
<1> QED BY <1>1, <1>2

\* A late POST finds its receipt open, or its Run.
LEMMA SessionLate ==
  ASSUME ConnectorInv, SessionInv, NEW c \in Commands, LatePost(c)
  PROVE  SessionInv'
<1>1. InFlight(c) /\ receipt' = receipt /\ window' = window /\ wk' = wk
  BY DEF LatePost, InFlight, portVars
<1>2. \A d \in Commands : InFlight(d)' => InFlight(d)
  BY <1>1, TypesOpen DEF LatePost, InFlight, At
<1>3. UNCHANGED <<hermes, key>> \/ \E r \in Runs : TakePost(c, r)
  BY DEF LatePost
<1>4. ASSUME NEW y \in Workers, NEW d \in Commands, wk'[y].pc = "nack", wk'[y].c = d
      PROVE  NothingSent(d)'
  <2>1. NothingSent(d) /\ d # c
    BY <1>1, <1>4 DEF SessionInv, NothingSent
  <2>2. RunsOf(d)' = RunsOf(d)
    <3>1. CASE UNCHANGED hermes
      BY <3>1 DEF RunsOf
    <3>2. CASE \E r \in Runs : TakePost(c, r)
      BY <1>1, <2>1, <3>2, Taken
    <3> QED BY <1>3, <3>1, <3>2
  <2> QED BY <1>2, <2>1, <2>2 DEF NothingSent
<1>5. /\ \A r \in Runs : hermes'[r] = "live" => Shown(r[1])'
      /\ \A d \in Commands : InFlight(d) => Shown(d)' \/ key'[d] # NoRun
  BY <1>1, <1>3, SessionTaken DEF SessionInv, Shown
<1> QED BY <1>1, <1>2, <1>4, <1>5 DEF SessionInv

\* The one POST of a key that nobody took is refused: then nothing was sent.
LEMMA SessionRefused ==
  ASSUME ConnectorInv, SessionInv, \A y, z \in Workers : y = z,
         "refused_replay" \notin Replies, NEW x \in Workers, PostRefused(x)
  PROVE  SessionInv'
<1>1. /\ wk[x].pc = "post" /\ wk[x].pc \notin Free /\ wk[x] \in Worker
      /\ UNCHANGED <<window, hermesVars>> /\ receipt' = receipt
  BY TypesOpen DEF PostRefused, At, Free, portVars
<1>2. PICK c \in Commands : c = wk[x].c
  BY <1>1, InTask
<1>3. CASE \E e \in Result : Finish(x, e, NoRun)
  <2>1. Others(x) /\ wk'[x].pc = "done"
    BY <1>1, <1>2, <1>3, TaskFields
  <2> QED BY <1>1, <2>1, SessionMove
<1>4. CASE Go(x, "nack") /\ ~MayBeAccepted(x)
  <2>1. Others(x) /\ wk'[x].pc = "nack" /\ wk'[x].c = c
    BY <1>1, <1>2, <1>4, TaskFields DEF PC
  <2>2. RunsOf(c) = {} /\ ~late[c]
    BY <1>2, <1>4 DEF MayBeAccepted
  <2>3. \A d \in Commands : InFlight(d)' => InFlight(d) /\ d # c
    BY <1>1, <2>1, <2>2 DEF InFlight, At, Others, hermesVars
  <2>4. \A d \in Commands : RunsOf(d)' = RunsOf(d)
    BY <1>1 DEF hermesVars, RunsOf
  <2>5. NothingSent(c)' /\ \A y \in Workers : wk'[y].c = c
    BY <2>1, <2>2, <2>3, <2>4 DEF NothingSent
  <2> QED BY <1>1, <2>3, <2>5 DEF SessionInv, Shown, hermesVars
<1> QED BY <1>3, <1>4 DEF PostRefused, Result

\* A refusal settles the receipt of a command of which nothing is alive.
LEMMA SessionSettled ==
  ASSUME ConnectorInv, SessionInv, \A y, z \in Workers : y = z, NEW x \in Workers,
         SettleRefused(x)
  PROVE  SessionInv'
<1>1. /\ wk[x].pc = "nack" /\ wk[x].pc \notin Free /\ wk[x] \in Worker
      /\ UNCHANGED <<window, hermesVars>>
  BY TypesOpen DEF SettleRefused, At, Free
<1>2. PICK c \in Commands : c = wk[x].c
  BY <1>1, InTask
<1>3. Others(x) /\ wk'[x].pc = "done"
  BY <1>1, <1>2, TaskFields DEF SettleRefused, Result
<1>4. NothingSent(c)
  BY <1>1, <1>2 DEF SessionInv
<1>5. /\ \A d \in Commands \ {c} : receipt'[d] = receipt[d]
      /\ receipt'[c].st \in {receipt[c].st, "rejected"}
  BY <1>2, TypesOpen DEF SettleRefused
<1>6. \A d \in Commands : InFlight(d)' => InFlight(d) /\ d # c
  BY <1>1, <1>3, <1>4 DEF NothingSent, InFlight, At, Others, hermesVars
<1>7. ASSUME NEW r \in Runs, hermes'[r] = "live" PROVE Shown(r[1])'
  <2>1. r[1] \in Commands /\ hermes[r] = "live" /\ r[1] # c
    BY <1>1, <1>4, <1>7, RunIdentityAssumption DEF hermesVars, NothingSent, RunsOf
  <2> QED BY <1>1, <1>5, <2>1 DEF SessionInv, Shown
<1>8. \A d, e \in Commands : /\ receipt'[d].st = "open" /\ receipt'[e].st = "open"
                             /\ SessionOf[d] = SessionOf[e]
                             => d = e
  BY <1>5 DEF SessionInv
<1>9. \A y \in Workers : wk'[y].pc # "nack"
  BY <1>3
<1> QED BY <1>1, <1>5, <1>6, <1>7, <1>8, <1>9 DEF SessionInv, Shown, hermesVars

\* An ended Run settles the receipt that names it, and no other.
LEMMA SessionObserved ==
  ASSUME ConnectorInv, SessionInv, NEW x \in Workers, Observe(x)
  PROVE  SessionInv'
<1>1. /\ wk[x].pc = "observe" /\ wk[x].pc \notin Free /\ wk[x] \in Worker
      /\ UNCHANGED <<window, hermesVars>>
  BY TypesOpen DEF Observe, At, Free
<1>2. PICK c \in Commands : c = wk[x].c
  BY <1>1, InTask
<1>3. wk[x].run \in RunsOf(c)
  BY <1>1, <1>2 DEF ConnectorInv, WorkerInv
<1>4. Others(x) /\ wk'[x].pc \notin {"post", "nack"}
  <2>1. CASE EndTurn(x)
    <3>1. wk'[x] = [Idle EXCEPT !.pc = "turn", !.todo = wk[x].todo] /\ Others(x)
      BY <2>1, TypesOpen DEF EndTurn, Become, Others
    <3> QED BY <3>1, IdleTyped DEF Worker
  <2>2. CASE ~EndTurn(x)
    <3> DEFINE s == ObservedStatus(hermes[wk[x].run])
    <3>1. Become(x, [wk[x] EXCEPT !.pc = "fold", !.obs = s])
      BY <2>2 DEF Observe
    <3> HIDE DEF s
    <3>2. wk'[x] = [wk[x] EXCEPT !.pc = "fold", !.obs = s] /\ Others(x)
      BY <3>1, TypesOpen DEF Become, Others
    <3> QED BY <1>1, <3>2 DEF Worker
  <2> QED BY <2>1, <2>2
<1>5. CASE receipt' = receipt
  BY <1>1, <1>4, <1>5, SessionMove
<1>6. CASE /\ ObservedStatus(hermes[wk[x].run]) \in Terminal
           /\ receipt' = [d \in Commands |->
                IF receipt[d].run = wk[x].run /\ receipt[d].st = "open"
                  THEN [receipt[d] EXCEPT !.st = "terminal"] ELSE receipt[d]]
  <2>1. \A d \in Commands :
          /\ receipt'[d].st = "open" => receipt[d].st = "open"
          /\ receipt[d].st = "open" => receipt'[d].st = "open" \/ receipt[d].run = wk[x].run
    BY <1>6, TypesOpen
  <2>2. hermes[wk[x].run] \in Ended /\ wk[x].run # NoRun
    BY <1>3, <1>6, RunsAssumption DEF ObservedStatus, Terminal, Ended, RunsOf
  <2>3. \A d \in Commands : receipt[d].run = wk[x].run => wk[x].run \in RunsOf(d)
    BY <2>2 DEF ConnectorInv, CommandInv
  <2>4. ASSUME NEW r \in Runs, hermes'[r] = "live" PROVE Shown(r[1])'
    <3>1. PICK d \in Commands : d = r[1]
      BY RunIdentityAssumption
    <3>2. hermes[r] = "live" /\ r \in RunsOf(d)
      BY <1>1, <2>4, <3>1 DEF hermesVars, RunsOf
    <3>3. receipt[d].run # wk[x].run \/ window[d] = "astride"
      <4>1. r # wk[x].run
        BY <2>2, <3>2 DEF Ended
      <4> QED BY <2>3, <3>2, <4>1 DEF ConnectorInv, CommandInv
    <3> QED BY <1>1, <2>1, <3>1, <3>2, <3>3 DEF SessionInv, Shown
  <2>5. ASSUME NEW d \in Commands, InFlight(d)
        PROVE  Shown(d)' \/ key'[d] # NoRun
    <3>1. window[d] \in {"open", "astride"} /\ window' = window /\ key'[d] = key[d]
      BY <1>1, <2>5, TypesOpen DEF ConnectorInv, CommandInv, hermesVars
    <3>2. receipt[d].run = wk[x].run /\ window[d] = "open" => key[d] # NoRun
      BY <2>2, <2>3 DEF ConnectorInv, CommandInv
    <3> QED BY <2>1, <2>5, <3>1, <3>2 DEF SessionInv, Shown
  <2>6. \A d \in Commands : InFlight(d)' => InFlight(d)
    BY <1>1, <1>4 DEF InFlight, At, Others, hermesVars
  <2>7. ASSUME NEW y \in Workers, NEW d \in Commands, wk'[y].pc = "nack", wk'[y].c = d
        PROVE  NothingSent(d)'
    <3>1. wk'[y] = wk[y]
      BY <1>4, <2>7 DEF Others
    <3>2. NothingSent(d)
      BY <2>7, <3>1 DEF SessionInv
    <3> QED BY <1>1, <2>6, <3>2 DEF NothingSent, RunsOf, hermesVars
  <2>8. \A d, e \in Commands : /\ receipt'[d].st = "open" /\ receipt'[e].st = "open"
                               /\ SessionOf[d] = SessionOf[e]
                               => d = e
    BY <2>1 DEF SessionInv
  <2> QED BY <2>4, <2>5, <2>6, <2>7, <2>8 DEF SessionInv
<1> QED BY <1>5, <1>6 DEF Observe

\* No receipt is open at the start.
LEMMA SessionInit == Init => SessionInv
BY IdleTyped DEF Init, NoReceipt, SessionInv, InFlight, At

\* Every step of the one worker keeps the sessions in turn.
LEMMA SessionNext ==
  ASSUME \A y, z \in Workers : y = z, "refused_replay" \notin Replies
  PROVE  ConnectorInv /\ SessionInv /\ [Next]_vars => SessionInv'
<1> SUFFICES ASSUME ConnectorInv, SessionInv, [Next]_vars PROVE SessionInv'
  OBVIOUS
<1>1. ASSUME NEW x \in Workers, Tells(x) PROVE SessionInv'
  BY <1>1, SessionTask, SessionReserve, SessionPosted, SessionRefused, SessionSettled,
     SessionObserved DEF Tells, Port
<1> QED BY <1>1, Shapes, SessionTask, SessionOutside, SessionLate

\* One worker at a time is what the connector's liveness lock lets run.  Where a retry
\* of a POST Hermes has accepted is not refused, the Runs of one managed session never
\* overlap: NativeReceipts.reserve answers session_busy while a receipt of the session
\* is open, and a receipt stays open for as long as its Run is live or its POST may
\* still start one.  The Runs of a command with a request on its way when the retention
\* ended are excepted.
THEOREM SessionsTakeTurns ==
  ASSUME \A y, z \in Workers : y = z, "refused_replay" \notin Replies
  PROVE  Spec => []OneLiveRunPerSession
<1>1. Spec => [](ConnectorInv /\ SessionInv)
  BY ConnectorInit, ConnectorNext, SessionInit, SessionNext, PTL DEF Spec
<1>2. ConnectorInv /\ SessionInv => OneLiveRunPerSession
  <2> SUFFICES ASSUME ConnectorInv, SessionInv, NEW r \in Runs, NEW q \in Runs,
                      hermes[r] = "live", hermes[q] = "live",
                      window[r[1]] # "astride", window[q[1]] # "astride",
                      SessionOf[r[1]] = SessionOf[q[1]]
               PROVE  r = q
    BY DEF OneLiveRunPerSession
  <2>1. r[1] \in Commands /\ q[1] \in Commands
    BY RunIdentityAssumption
  <2>2. r[1] = q[1]
    BY <2>1 DEF SessionInv, Shown
  <2>3. PICK c \in Commands : c = r[1]
    BY <2>1
  <2>4. r \in RunsOf(c) /\ q \in RunsOf(c)
    BY <2>2, <2>3 DEF RunsOf
  <2> QED BY <2>3, <2>4 DEF ConnectorInv, CommandInv
<1> QED BY <1>1, <1>2, PTL

=============================================================================
