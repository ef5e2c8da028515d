-------------------------- MODULE StrategySleeves --------------------------
(***************************************************************************)
(* Paper strategy sleeves: the files of an account and of its sleeves, the *)
(* routes and commands that write them, and the recovery journals that are *)
(* to keep them in step over crashes                                       *)
(* (execution/paper_strategy_{operations,execution_service,sleeves,        *)
(* sleeve_storage}.py, execution/account_storage.py, api/routes/paper.py). *)
(*                                                                         *)
(* Every call that writes holds the account and the sleeve lock, so there  *)
(* is one lock holder `op` with its in-memory account; each of its steps   *)
(* is one durable write, and it can die or raise between any two.  Only    *)
(* the price-evidence phase of a processing run is outside the locks.      *)
(*                                                                         *)
(* Abstraction.  What a fill does to cash and shares is stood for by the   *)
(* plan itself: a book is the set of plans whose fills it contains, so two *)
(* books agree on money and shares exactly when they contain the same      *)
(* fills.  `rev` counts the other changes of an account: _accounts_match   *)
(* compares whole accounts.  File mode only, one account, one symbol list. *)
(***************************************************************************)
EXTENDS Integers, Sequences, FiniteSets

CONSTANTS Sleeves, Plans, SleeveOf, Runners,
          Scoped,        \* sleeves the kill switch may be lifted for (hung or D34)
          LastDay,       \* bound: days, from 1
          MaxRequests,   \* bound: other account calls, status calls, recoveries, dated runs
          MaxAborts      \* bound: crashes, exceptions and failed saves

ASSUME SleeveConstants ==
  /\ SleeveOf \in [Plans -> Sleeves] /\ Scoped \subseteq Sleeves
  /\ LastDay \in Nat \ {0} /\ MaxRequests \in Nat /\ MaxAborts \in Nat

VARIABLES acct,      \* account.json
          archived,  \* the fills of the accounts that resets have archived
          status,    \* status[s] in sleeve.json, "none" before it exists
          cash,      \* cash[s]: the fills in the cash of sleeve.json
          lots,      \* lots[s]: the fills in the lots file
          drafts,    \* sleeves with a sleeve.pending.json
          refused,   \* history: the creation was answered "failed to persist"
          plan,      \* plan[p]: status of the execution plan
          target,    \* target[p]: its target date
          journals,  \* pending execution journals by created_at
          batch,     \* batch[r]: what the lock-free phase of a run prepared
          op,        \* the lock holder
          today,
          requests, aborts

vars == <<acct, archived, status, cash, lots, drafts, refused, plan, target,
          journals, batch, op, today, requests, aborts>>
Past == <<archived, refused>>
Files == <<acct, Past, status, cash, lots, drafts, plan, target, journals>>
World == <<Past, today, requests, aborts>>

Days == 1..LastDay
PlanStatus == {"none", "pending", "filled", "blocked", "no_price", "recovery",
               "skipped", "missed"}
Kinds == {"process", "recover", "pause", "resume", "stop", "create", "plan"}

Account == [rev : Nat, frozen : BOOLEAN, alloc : SUBSET Sleeves, fills : SUBSET Plans]
Journal == [plan : Plans, before : Account, after : Account,
            status : {"running", "paused", "stopped"},
            cash : SUBSET Plans, lots : SUBSET Plans]

NoBatch == [due |-> 0, items |-> {}, bad |-> {}, unpriced |-> {}]
NewAccount == [rev |-> 0, frozen |-> FALSE, alloc |-> {}, fills |-> {}]
Nobody == "nobody"
Idle == [pc |-> "idle", kind |-> "recover", who |-> Nobody, stage |-> "recover",
         acct |-> NewAccount, i |-> 1, todo |-> NoBatch]

Init ==
  /\ acct = NewAccount /\ archived = {} /\ refused = {}
  /\ status = [s \in Sleeves |-> "none"]
  /\ cash = [s \in Sleeves |-> {}] /\ lots = [s \in Sleeves |-> {}]
  /\ drafts = {}
  /\ plan = [p \in Plans |-> "none"] /\ target = [p \in Plans |-> 1]
  /\ journals = <<>>
  /\ batch = [r \in Runners |-> NoBatch]
  /\ op = Idle
  /\ today = 1 /\ requests = MaxRequests /\ aborts = MaxAborts

PlansOf(s) == {p \in Plans : SleeveOf[p] = s}
Request == requests > 0 /\ requests' = requests - 1
Go(pc) == op' = [op EXCEPT !.pc = pc]
Release == op' = Idle

-----------------------------------------------------------------------------
(* Calls that do not reconcile: orders, pending-order checks, the switch,  *)
(* a reset.                                                                *)

AccountRoute ==
  /\ op = Idle /\ Request
  /\ acct' = [acct EXCEPT !.rev = @ + 1]
  /\ UNCHANGED <<Past, status, cash, lots, drafts, plan, target, journals, batch,
                 op, today, aborts>>

\* The account is archived and a fresh one takes its place; no sleeve, plan or
\* journal is looked at.
reset_account ==
  /\ op = Idle /\ Request
  /\ acct' = [NewAccount EXCEPT !.rev = acct.rev + 1]
  /\ archived' = archived \cup acct.fills
  /\ UNCHANGED <<status, cash, lots, drafts, refused, plan, target, journals, batch,
                 op, today, aborts>>

set_account_kill_switch ==
  /\ op = Idle /\ Request
  /\ acct' = [acct EXCEPT !.rev = @ + 1, !.frozen = ~ @]
  /\ UNCHANGED <<Past, status, cash, lots, drafts, plan, target, journals, batch,
                 op, today, aborts>>

DayTick ==
  /\ today < LastDay
  /\ today' = today + 1
  /\ UNCHANGED <<Files, batch, op, requests, aborts>>

(* Phase P of process_pending_executions_once: pending_plans and           *)
(* prepare_with_retries, whose guards on the sleeve come before the quotes. *)
Prepare(r, due) ==
  /\ batch[r] = NoBatch /\ ~ (op.kind = "process" /\ op.who = r)
  /\ (due = today /\ UNCHANGED requests) \/ (due # today /\ Request)
  /\ LET items == {p \in Plans : plan[p] = "pending" /\ target[p] = due}
         bad == {p \in items : status[SleeveOf[p]] # "running"}
     IN  \E unpriced \in SUBSET (items \ bad) :
           batch' = [batch EXCEPT ![r] = [due |-> due, items |-> items, bad |-> bad,
                                          unpriced |-> unpriced]]
  /\ UNCHANGED <<Files, op, today, aborts>>

-----------------------------------------------------------------------------
(* Taking the locks.  Every call below reconciles before its own work.     *)

Begin(kind, who, todo) ==
  /\ op = Idle
  /\ op' = [Idle EXCEPT !.pc = "drafts", !.kind = kind, !.who = who,
                        !.acct = acct, !.todo = todo]
  /\ UNCHANGED <<Files, today, aborts>>

\* Mutant: a run with nothing due returns before it takes the locks.
BeginProcess_early_return(r) ==
  /\ batch[r] # NoBatch
  /\ batch' = [batch EXCEPT ![r] = NoBatch]
  /\ IF batch[r].items = {} THEN UNCHANGED <<Files, op, today, aborts>>
                            ELSE Begin("process", r, batch[r])
  /\ UNCHANGED requests

BeginProcess(r) ==
  /\ batch[r] # NoBatch
  /\ Begin("process", r, batch[r])
  /\ batch' = [batch EXCEPT ![r] = NoBatch]
  /\ UNCHANGED requests

recover_pending_once == Begin("recover", Nobody, NoBatch) /\ Request /\ UNCHANGED batch

\* Mutant: the status calls do not reconcile first.
BeginStatus_direct(kind, s) ==
  /\ kind \in {"pause", "resume", "stop"} /\ status[s] # "none"
  /\ op = Idle /\ Request
  /\ op' = [Idle EXCEPT !.pc = "work", !.kind = kind, !.who = s, !.stage = "work",
                        !.acct = acct]
  /\ UNCHANGED <<Files, batch, today, aborts>>

BeginStatus(kind, s) ==
  /\ kind \in {"pause", "resume", "stop"} /\ status[s] # "none"
  /\ Begin(kind, s, NoBatch) /\ Request /\ UNCHANGED batch

BeginCreate(s) ==
  /\ status[s] = "none" /\ s \notin drafts /\ s \notin acct.alloc
  /\ Begin("create", s, NoBatch) /\ UNCHANGED <<batch, requests>>

\* A call that is bound to be refused does no more than recover_pending_once.
BeginPlan(p) ==
  /\ plan[p] = "none" /\ status[SleeveOf[p]] = "running"
  /\ ~ acct.frozen \/ SleeveOf[p] \in Scoped
  /\ Begin("plan", p, NoBatch) /\ UNCHANGED <<batch, requests>>

(* A crash, or an exception no handler turns into a write: the locks go    *)
(* and so does the in-memory account.                                      *)
Abort ==
  /\ op # Idle /\ aborts > 0
  /\ aborts' = aborts - 1
  /\ Release
  /\ UNCHANGED <<Files, batch, today, requests>>

-----------------------------------------------------------------------------
(* Reconciliation: reconcile_pending_sleeves, reconcile_execution_journals. *)

\* A draft becomes a sleeve only when the account holds its allocation.
reconcile_pending_sleeves ==
  /\ op.pc = "drafts"
  /\ IF drafts = {} THEN Go("journals") /\ UNCHANGED <<status, drafts>>
     ELSE \E s \in drafts :
            /\ drafts' = drafts \ {s}
            /\ status' = IF status[s] = "none" /\ s \in op.acct.alloc
                         THEN [status EXCEPT ![s] = "running"] ELSE status
            /\ UNCHANGED op
  /\ UNCHANGED <<acct, cash, lots, plan, target, journals, batch, World>>

\* Mutant: every journal is finished, whatever the account has become.
reconcile_execution_journals_always ==
  /\ op.pc = "journals"
  /\ IF op.i > Len(journals) THEN Go("save") ELSE Go("write_sleeve")
  /\ UNCHANGED <<Files, batch, World>>

\* One journal: the account has the execution, or is still the one the
\* journal started from, or nothing but the plan is written.
reconcile_execution_journals ==
  /\ op.pc = "journals"
  /\ IF op.i > Len(journals) THEN Go("save") /\ UNCHANGED plan
     ELSE LET j == journals[op.i] IN
       IF j.plan \in op.acct.fills \/ op.acct = j.before
       THEN /\ op' = [op EXCEPT !.pc = "write_sleeve",
                                !.acct = IF j.plan \in @.fills THEN @ ELSE j.after]
            /\ UNCHANGED plan
       ELSE /\ plan' = [plan EXCEPT ![j.plan] = "recovery"]
            /\ op' = [op EXCEPT !.i = @ + 1]
  /\ UNCHANGED <<acct, status, cash, lots, drafts, target, journals, batch, World>>

(* The three writes after a journal entry, in a recovery and in a fill.    *)
save_sleeve ==
  /\ op.pc = "write_sleeve"
  /\ LET j == journals[op.i]
         s == SleeveOf[j.plan]
     IN  /\ status' = [status EXCEPT ![s] = j.status]
         /\ cash' = [cash EXCEPT ![s] = j.cash]
  /\ Go("write_lots")
  /\ UNCHANGED <<acct, lots, drafts, plan, target, journals, batch, World>>

save_sleeve_lots ==
  /\ op.pc = "write_lots"
  /\ LET j == journals[op.i] IN lots' = [lots EXCEPT ![SleeveOf[j.plan]] = j.lots]
  /\ Go("write_plan")
  /\ UNCHANGED <<acct, status, cash, drafts, plan, target, journals, batch, World>>

_replace_execution ==
  /\ op.pc = "write_plan"
  /\ plan' = [plan EXCEPT ![journals[op.i].plan] = "filled"]
  /\ op' = IF op.stage = "recover"
           THEN [op EXCEPT !.pc = "journals", !.i = @ + 1]
           ELSE [op EXCEPT !.pc = "batch"]
  /\ UNCHANGED <<acct, status, cash, lots, drafts, target, journals, batch, World>>

\* _save_account_snapshot when something was recovered or processed.
SaveAccount ==
  /\ op.pc = "save"
  /\ acct' = IF journals = <<>> THEN acct ELSE op.acct
  /\ Go("commit")
  /\ UNCHANGED <<status, cash, lots, drafts, plan, target, journals, batch, World>>

\* Mutant: the journals are committed from the last to the first.
commit_execution_journal_backwards ==
  /\ op.pc = "commit"
  /\ IF journals # <<>>
     THEN journals' = SubSeq(journals, 1, Len(journals) - 1) /\ UNCHANGED op
     ELSE /\ UNCHANGED journals
          /\ IF op.stage = "recover" /\ op.kind # "recover"
             THEN op' = [op EXCEPT !.pc = "work", !.stage = "work", !.i = 1]
             ELSE Release
  /\ UNCHANGED <<acct, status, cash, lots, drafts, plan, target, batch, World>>

\* The journals are committed in the order they were written; then the call
\* does its own work, or ends.
commit_execution_journal ==
  /\ op.pc = "commit"
  /\ IF journals # <<>> THEN journals' = Tail(journals) /\ UNCHANGED op
     ELSE /\ UNCHANGED journals
          /\ IF op.stage = "recover" /\ op.kind # "recover"
             THEN op' = [op EXCEPT !.pc = "work", !.stage = "work", !.i = 1]
             ELSE Release
  /\ UNCHANGED <<acct, status, cash, lots, drafts, plan, target, batch, World>>

-----------------------------------------------------------------------------
(* pause_sleeve, resume_sleeve, stop_sleeve, create_execution_plan.        *)

Working(kind) == op.pc = "work" /\ op.kind = kind

SetStatus ==
  /\ op.pc = "work"
  /\ LET s == op.who
         next == CASE op.kind = "pause" /\ status[s] \in {"running", "paused"} -> "paused"
                   [] op.kind = "resume" /\ status[s] = "paused" -> "running"
                   [] op.kind = "stop" -> "stopped"
                   [] OTHER -> status[s]
     IN  op.kind \in {"pause", "resume", "stop"}
           /\ status' = [status EXCEPT ![s] = next]
  /\ Release
  /\ UNCHANGED <<acct, cash, lots, drafts, plan, target, journals, batch, World>>

create_execution_plan ==
  /\ Working("plan")
  /\ LET p == op.who
         s == SleeveOf[p]
     IN  IF status[s] = "running" /\ (~ op.acct.frozen \/ s \in Scoped)
         THEN /\ plan' = [plan EXCEPT ![p] = "pending"]
              /\ \E day \in Days : target' = [target EXCEPT ![p] = day]
         ELSE UNCHANGED <<plan, target>>
  /\ Release
  /\ UNCHANGED <<acct, status, cash, lots, drafts, journals, batch, World>>

\* Mutant: no draft is written ahead of the allocation.
save_pending_sleeve_undrafted ==
  /\ Working("create")
  /\ op' = [op EXCEPT !.pc = "allocate",
                      !.acct.alloc = @ \cup {op.who}, !.acct.rev = @ + 1]
  /\ UNCHANGED <<Files, batch, World>>

(* create_strategy_sleeve in allocated mode: draft, account, sleeve.       *)
save_pending_sleeve ==
  /\ Working("create")
  /\ drafts' = drafts \cup {op.who} /\ refused' = refused \ {op.who}
  /\ op' = [op EXCEPT !.pc = "allocate",
                      !.acct.alloc = @ \cup {op.who}, !.acct.rev = @ + 1]
  /\ UNCHANGED <<acct, archived, status, cash, lots, plan, target, journals, batch,
                 today, requests, aborts>>

_save_account ==
  /\ op.pc = "allocate"
  /\ acct' = op.acct
  /\ Go("finalize")
  /\ UNCHANGED <<status, cash, lots, drafts, plan, target, journals, batch, World>>

\* The save raised, before account.json was replaced or after it, at the
\* positions file; the call is answered "failed to persist strategy sleeve
\* allocation".
discard_pending_sleeve ==
  /\ op.pc = "allocate" /\ aborts > 0
  /\ aborts' = aborts - 1
  /\ acct' \in {acct, op.acct}
  /\ drafts' = drafts \ {op.who} /\ refused' = refused \cup {op.who}
  /\ Release
  /\ UNCHANGED <<archived, status, cash, lots, plan, target, journals, batch,
                 today, requests>>

finalize_pending_sleeve ==
  /\ op.pc = "finalize"
  /\ status' = [status EXCEPT ![op.who] = "running"]
  /\ drafts' = drafts \ {op.who}
  /\ Release
  /\ UNCHANGED <<acct, cash, lots, plan, target, journals, batch, World>>

-----------------------------------------------------------------------------
(* Phase C of process_pending_executions_once.                             *)

Expired(p) == target[p] < op.todo.due /\ plan[p] \in {"pending", "no_price"}

mark_missed_window ==
  /\ Working("process")
  /\ IF \E p \in Plans : Expired(p)
     THEN \E p \in Plans :
            Expired(p) /\ plan' = [plan EXCEPT ![p] = "missed"] /\ UNCHANGED op
     ELSE Go("batch") /\ UNCHANGED plan
  /\ UNCHANGED <<acct, status, cash, lots, drafts, target, journals, batch, World>>

Done(p) == op' = [op EXCEPT !.todo.items = @ \ {p}]

\* block_plan and _block_plan, or the plan has nothing to trade at the open.
Decide(p, outcome) ==
  /\ Done(p)
  /\ plan' = [plan EXCEPT ![p] = outcome]
  /\ UNCHANGED <<acct, status, cash, lots, drafts, target, journals, batch, World>>

\* _validate_execution_context
Executable(p) ==
  LET s == SleeveOf[p]
  IN  status[s] = "running" /\ (~ op.acct.frozen \/ s \in Scoped)

\* _apply_steps: the account gets the fills and again the cash of the sleeve.
WithFills(a, P) ==
  [a EXCEPT !.fills = @ \cup P, !.alloc = @ \cup {SleeveOf[p] : p \in P}]

\* Mutant: the recovery index is one short.
save_execution_journal_pending_short(p) ==
  LET s == SleeveOf[p]
      after == WithFills(op.acct, {p})
  IN  /\ journals' = Append(journals,
            [plan |-> p, before |-> op.acct, after |-> after, status |-> status[s],
             cash |-> cash[s] \cup {p}, lots |-> lots[s] \cup {p}])
      /\ op' = [op EXCEPT !.pc = "write_sleeve", !.acct = after,
                          !.i = Len(journals), !.todo.items = @ \ {p}]
      /\ UNCHANGED <<acct, status, cash, lots, drafts, plan, target, batch, World>>

\* commit_execution past its guards: the journal, and the account in memory.
save_execution_journal_pending(p) ==
  LET s == SleeveOf[p]
      after == WithFills(op.acct, {p})
  IN  /\ journals' = Append(journals,
            [plan |-> p, before |-> op.acct, after |-> after, status |-> status[s],
             cash |-> cash[s] \cup {p}, lots |-> lots[s] \cup {p}])
      /\ op' = [op EXCEPT !.pc = "write_sleeve", !.acct = after,
                          !.i = Len(journals) + 1, !.todo.items = @ \ {p}]
      /\ UNCHANGED <<acct, status, cash, lots, drafts, plan, target, batch, World>>

\* The reasons a plan may be blocked for: the authority of a D34 sleeve, the
\* error of the lock-free phase, the guards, the policy and the preflight.
BlockedReasons(p) ==
  (IF SleeveOf[p] \in Scoped THEN {"blocked"} ELSE {})
    \cup CASE p \in op.todo.bad -> {"blocked"}
           [] p \in op.todo.unpriced -> {"no_price"}
           [] p \notin op.todo.unpriced /\ ~ Executable(p) -> {"blocked"}
           [] OTHER -> {"blocked", "no_price"}

\* Mutant: the plan is not read again under the locks.
commit_execution_stale(p) ==
  /\ op.pc = "batch" /\ p \in op.todo.items
  /\ IF p \in op.todo.bad \cup op.todo.unpriced \/ ~ Executable(p)
     THEN Done(p) /\ UNCHANGED <<Files, batch, World>>
     ELSE save_execution_journal_pending(p)

commit_execution(p) ==
  /\ op.pc = "batch" /\ p \in op.todo.items
  /\ IF plan[p] # "pending"
     THEN Done(p) /\ UNCHANGED <<Files, batch, World>>
     ELSE \/ \E reason \in BlockedReasons(p) : Decide(p, reason)
          \/ /\ p \notin op.todo.bad \cup op.todo.unpriced
             /\ Executable(p)
             /\ Decide(p, "skipped") \/ save_execution_journal_pending(p)

EndBatch ==
  /\ op.pc = "batch" /\ op.todo.items = {}
  /\ Go("save")
  /\ UNCHANGED <<Files, batch, World>>

-----------------------------------------------------------------------------

LockHolder ==
  \/ reconcile_pending_sleeves \/ reconcile_execution_journals
  \/ save_sleeve \/ save_sleeve_lots \/ _replace_execution
  \/ SaveAccount \/ commit_execution_journal
  \/ SetStatus \/ create_execution_plan
  \/ save_pending_sleeve \/ _save_account \/ finalize_pending_sleeve
  \/ mark_missed_window \/ EndBatch
  \/ \E p \in Plans : commit_execution(p)

Next ==
  \/ AccountRoute \/ set_account_kill_switch \/ reset_account \/ DayTick
  \/ \E r \in Runners : BeginProcess(r) \/ \E due \in Days : Prepare(r, due)
  \/ recover_pending_once
  \/ \E s \in Sleeves : BeginCreate(s) \/ \E kind \in Kinds : BeginStatus(kind, s)
  \/ \E p \in Plans : BeginPlan(p)
  \/ LockHolder \/ Abort \/ discard_pending_sleeve

Spec == Init /\ [][Next]_vars

(* A scheduler runs the processing command again and again, and a call     *)
(* that holds the locks goes on.                                           *)
Fairness ==
  /\ WF_vars(LockHolder)
  /\ WF_vars(DayTick)
  /\ \A r \in Runners : WF_vars(BeginProcess(r)) /\ WF_vars(Prepare(r, today))

FairSpec == Spec /\ Fairness

-----------------------------------------------------------------------------
(* Properties.                                                             *)

(* Files and the lock holder keep their types; a journal being settled is  *)
(* one of the pending ones.                                                *)
TypeOK ==
  /\ acct \in Account /\ archived \subseteq Plans /\ refused \subseteq Sleeves
  /\ status \in [Sleeves -> {"none", "running", "paused", "stopped"}]
  /\ cash \in [Sleeves -> SUBSET Plans] /\ lots \in [Sleeves -> SUBSET Plans]
  /\ drafts \subseteq Sleeves
  /\ plan \in [Plans -> PlanStatus] /\ target \in [Plans -> Days]
  /\ journals \in Seq(Journal)
  /\ op.acct \in Account /\ op.kind \in Kinds
  /\ op.pc \in {"write_sleeve", "write_lots", "write_plan"} => op.i \in DOMAIN journals

Journaled == {journals[i].plan : i \in DOMAIN journals}

\* The fills that the account has or had before it was reset.
AllFills == acct.fills \cup archived

(* The cash and the lots of a sleeve contain exactly the fills that the    *)
(* account, or one it took the place of, has for it, unless a journal of   *)
(* the sleeve waits for recovery or one of its plans was given up as       *)
(* recovery_required.                                                      *)
BooksAgree ==
  \A s \in Sleeves :
    \/ cash[s] = AllFills \cap PlansOf(s) /\ lots[s] = cash[s]
    \/ \E p \in PlansOf(s) : p \in Journaled \/ plan[p] = "recovery"

(* A plan without a waiting journal that says "filled" has its fill in the *)
(* account or in an archived one; a plan with a fill says "filled", or     *)
(* recovery_required if its account was archived before it was settled.    *)
OutcomeTrue ==
  \A p \in Plans \ Journaled :
    /\ plan[p] = "filled" => p \in AllFills
    /\ p \in acct.fills => plan[p] = "filled"
    /\ p \in archived => plan[p] \in {"filled", "recovery"}

(* No plan is executed on an account that has its fill already: not by two *)
(* runs that prepared it, and not by a run after a recovery.               *)
FilledOnce == \A i \in DOMAIN journals : journals[i].plan \notin journals[i].before.fills

(* Cash taken from the account for a sleeve is not stranded: the sleeve    *)
(* exists, or its draft is there to be recovered, or the caller was told   *)
(* that the allocation failed (then it is stranded, for good).             *)
AllocationHasSleeve ==
  \A s \in acct.alloc : status[s] # "none" \/ s \in drafts \cup refused

(* Decisions are final.  A stop that was acknowledged holds: no recovery   *)
(* writes the state of the sleeve that a journal remembers over it.  A     *)
(* plan that was missed, skipped, blocked or given up is never filled, and *)
(* a price failure only turns into a miss.                                 *)
DecidedStays ==
  [][/\ \A s \in Sleeves : status[s] = "stopped" => status'[s] = "stopped"
     /\ \A p \in Plans :
       /\ plan[p] \in {"missed", "skipped", "blocked", "recovery"} => plan'[p] = plan[p]
       /\ plan[p] = "no_price" => plan'[p] \in {"no_price", "missed"}]_vars

(* Crashes stop sooner or later, and then every journal is settled and     *)
(* every plan is filled, skipped, blocked or missed.                       *)
PlansSettle ==
  /\ journals # <<>> ~> journals = <<>>
  /\ \A p \in Plans : plan[p] = "pending" ~> plan[p] # "pending"
=============================================================================
