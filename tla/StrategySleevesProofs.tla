----------------------- MODULE StrategySleevesProofs -----------------------
(***************************************************************************)
(* Proofs about StrategySleeves for any sleeves, plans, processing         *)
(* commands, days and number of crashes.                                   *)
(*                                                                         *)
(* The journals that wait are always in one of three situations, and which *)
(* one it is decides what recovery does with all of them:                  *)
(*   Unsaved    account.json is the account the first of them started      *)
(*              from, and each later one starts where the one before it    *)
(*              ended;                                                     *)
(*   Saved      account.json has all their fills;                          *)
(*   Overtaken  account.json has none of them and was changed since.       *)
(* OpInv says, for each place of the lock holder, which account it has in  *)
(* memory and that the sleeves it is done with agree with that account.    *)
(***************************************************************************)
EXTENDS StrategySleeves, SequenceTheorems, TLAPS

PC == {"idle", "drafts", "journals", "write_sleeve", "write_lots", "write_plan",
       "save", "commit", "work", "batch", "allocate", "finalize"}
Writing == {"write_sleeve", "write_lots", "write_plan"}
BatchType == [due : Nat, items : SUBSET Plans, bad : SUBSET Plans,
              unpriced : SUBSET Plans]
OpType == [pc : PC, kind : Kinds, who : {Nobody} \cup Runners \cup Sleeves \cup Plans,
           stage : {"recover", "work"}, acct : Account, i : Nat, todo : BatchType]

\* The types of the files and of the lock holder.
Typed ==
  /\ acct \in Account
  /\ status \in [Sleeves -> {"none", "running", "paused", "stopped"}]
  /\ cash \in [Sleeves -> SUBSET Plans] /\ lots \in [Sleeves -> SUBSET Plans]
  /\ drafts \subseteq Sleeves
  /\ plan \in [Plans -> PlanStatus] /\ target \in [Plans -> Days]
  /\ archived \subseteq Plans /\ refused \subseteq Sleeves
  /\ journals \in Seq(Journal)
  /\ batch \in [Runners -> BatchType]
  /\ op \in OpType

\* The plans of the journals before and from position n.
PlansTo(n) == {journals[k].plan : k \in {m \in DOMAIN journals : m < n}}
PlansFrom(n) == {journals[k].plan : k \in {m \in DOMAIN journals : m >= n}}

\* A plan of the sleeve was given up as recovery_required.
GivenUp(s) == \E p \in PlansOf(s) : plan[p] = "recovery"

\* The two books of the sleeve contain what the account and the archived ones have
\* for it.
Agree(s, a) ==
  \/ GivenUp(s)
  \/ cash[s] = (a.fills \cup archived) \cap PlansOf(s) /\ lots[s] = cash[s]

Unsaved == \A i \in DOMAIN journals :
  /\ journals[i].before = WithFills(acct, PlansTo(i))
  /\ journals[i].plan \notin acct.fills
  /\ plan[journals[i].plan] # "recovery"

Saved == \A i \in DOMAIN journals :
  /\ journals[i].plan \in acct.fills
  /\ journals[i].after.fills = acct.fills \ PlansFrom(i + 1)
  /\ plan[journals[i].plan] = "filled"

Overtaken == \A i \in DOMAIN journals :
  /\ journals[i].plan \notin acct.fills
  /\ journals[i].before.rev < acct.rev

\* What is true of a journal for as long as it waits.
Entry(i) ==
  LET j == journals[i]
      s == SleeveOf[j.plan]
  IN  /\ j.after = WithFills(j.before, {j.plan})
      /\ j.plan \notin j.before.fills /\ j.before.rev <= acct.rev
      /\ j.status = "running" /\ status[s] = "running"
      /\ plan[j.plan] \in {"pending", "filled", "recovery"}
      /\ \/ Overtaken \/ GivenUp(s)
         \/ j.cash = (j.after.fills \cup archived) \cap PlansOf(s) /\ j.lots = j.cash

JournalInv ==
  /\ \A i \in DOMAIN journals : Entry(i)
  /\ \A i, k \in DOMAIN journals : journals[i].plan = journals[k].plan => i = k
  /\ Unsaved \/ Saved \/ Overtaken

\* The journals before position n are settled, and the sleeves with no journal
\* from n on agree with the account in memory.
Settled(n) ==
  /\ \A k \in DOMAIN journals : k < n =>
       plan[journals[k].plan] = IF Overtaken THEN "recovery" ELSE "filled"
  /\ \A s \in Sleeves :
       (\A k \in DOMAIN journals : k >= n => SleeveOf[journals[k].plan] # s)
         => Agree(s, op.acct)

\* The account in memory: the file's, with the fills applied so far.
InMemory(n) == op.acct = IF Unsaved THEN WithFills(acct, PlansTo(n)) ELSE acct

\* What the lock holder has established, by its place.
AtDrafts == op.stage = "recover" /\ op.i = 1 /\ op.acct = acct
AtJournals ==
  /\ op.stage = "recover" /\ op.i \in 1..Len(journals) + 1
  /\ InMemory(op.i) /\ Settled(op.i)
AtWriting ==
  LET j == journals[op.i]
      s == SleeveOf[j.plan]
  IN  /\ op.i \in DOMAIN journals /\ ~Overtaken
      /\ InMemory(op.i + 1) /\ Settled(op.i)
      /\ op.stage = "work" => Unsaved /\ op.i = Len(journals)
      /\ op.pc \in {"write_lots", "write_plan"} => cash[s] = j.cash
      /\ op.pc = "write_plan" => lots[s] = j.lots
AtBatch ==
  /\ op.stage = "work" /\ Unsaved
  /\ InMemory(Len(journals) + 1) /\ Settled(Len(journals) + 1)
AtSave == InMemory(Len(journals) + 1) /\ Settled(Len(journals) + 1)
AtCommit == op.acct = acct /\ (Saved \/ Overtaken) /\ Settled(Len(journals) + 1)
AtWork == journals = <<>> /\ op.acct = acct /\ op.stage = "work"
AtAllocate ==
  /\ journals = <<>> /\ op.kind = "create"
  /\ op.acct = [acct EXCEPT !.alloc = @ \cup {op.who}, !.rev = @ + 1]
AtFinalize == journals = <<>> /\ op.kind = "create"

OpInv ==
  /\ op.pc = "drafts" => AtDrafts
  /\ op.pc = "journals" => AtJournals
  /\ op.pc \in Writing => AtWriting
  /\ op.pc = "batch" => AtBatch
  /\ op.pc = "save" => AtSave
  /\ op.pc = "commit" => AtCommit
  /\ op.pc = "work" => AtWork
  /\ op.pc = "allocate" => AtAllocate
  /\ op.pc = "finalize" => AtFinalize

\* The target of a call stays what the call was let through for.
CallInv ==
  /\ op.pc = "idle" => op = Idle
  /\ op.kind = "create" =>
       /\ op.who \in Sleeves /\ status[op.who] = "none"
       /\ op.pc # "finalize" => op.who \notin acct.alloc
       /\ op.pc \in {"allocate", "finalize"} <=> op.who \in drafts
  /\ op.kind \in {"pause", "resume", "stop"} => op.who \in Sleeves
  /\ op.kind = "plan" => op.who \in Plans /\ plan[op.who] = "none"

\* The inductive invariant: what the files promise, whoever holds the locks, and
\* what the lock holder knows.
FileInv == JournalInv /\ OutcomeTrue /\ BooksAgree
SleeveInv == Typed /\ FileInv /\ OpInv /\ CallInv

-----------------------------------------------------------------------------
(* Accounts and positions.                                                 *)

USE DEF Past, World

\* Accounts with the same columns are the same account.
LEMMA AccountExt ==
  ASSUME NEW a \in Account, NEW b \in Account, a.rev = b.rev, a.frozen = b.frozen,
         a.alloc = b.alloc, a.fills = b.fills
  PROVE  a = b
BY DEF Account

\* Adding fills touches no columns but the fills and the allocations.
LEMMA WithFields ==
  ASSUME NEW a \in Account, NEW P \in SUBSET Plans
  PROVE  /\ WithFills(a, P) \in Account
         /\ WithFills(a, P).fills = a.fills \cup P
         /\ WithFills(a, P).rev = a.rev /\ WithFills(a, P).frozen = a.frozen
         /\ WithFills(a, P).alloc = a.alloc \cup {SleeveOf[p] : p \in P}
BY SleeveConstants DEF WithFills, Account

\* Fills are added one after another or all at once, and none changes nothing.
LEMMA WithWith ==
  ASSUME NEW a \in Account, NEW P \in SUBSET Plans, NEW Q \in SUBSET Plans
  PROVE  WithFills(WithFills(a, P), Q) = WithFills(a, P \cup Q) /\ WithFills(a, {}) = a
<1> DEFINE Of(R) == {SleeveOf[p] : p \in R}
<1>1. WithFills(WithFills(a, P), Q) = WithFills(a, P \cup Q)
  <2>1. /\ WithFills(a, P) \in Account /\ P \cup Q \in SUBSET Plans
    BY WithFields
  <2> DEFINE x == WithFills(a, P)
             y == WithFills(x, Q)
             z == WithFills(a, P \cup Q)
  <2>2. /\ x.fills = a.fills \cup P /\ x.rev = a.rev /\ x.frozen = a.frozen
        /\ x.alloc = a.alloc \cup Of(P)
    BY WithFields
  <2>3. /\ y \in Account /\ y.fills = x.fills \cup Q
        /\ y.rev = x.rev /\ y.frozen = x.frozen /\ y.alloc = x.alloc \cup Of(Q)
    <3> HIDE DEF x
    <3>1. x \in Account
      BY <2>1 DEF x
    <3> QED BY <3>1, WithFields
  <2>4. /\ z \in Account /\ z.fills = a.fills \cup (P \cup Q)
        /\ z.rev = a.rev /\ z.frozen = a.frozen /\ z.alloc = a.alloc \cup Of(P \cup Q)
    BY <2>1, WithFields
  <2>5. Of(P \cup Q) = Of(P) \cup Of(Q)
    OBVIOUS
  <2> HIDE DEF x, y, z, Of
  <2>6. y.alloc = z.alloc /\ y.fills = z.fills
    BY <2>2, <2>3, <2>4, <2>5
  <2>7. y = z
    BY <2>2, <2>3, <2>4, <2>6, AccountExt
  <2> QED BY <2>7 DEF x, y, z
<1>2. WithFills(a, {}) = a
  <2> DEFINE z == WithFills(a, {})
  <2>1. {} \in SUBSET Plans
    OBVIOUS
  <2>2. /\ z \in Account /\ z.fills = a.fills \cup {}
        /\ z.rev = a.rev /\ z.frozen = a.frozen /\ z.alloc = a.alloc \cup Of({})
    BY <2>1, WithFields
  <2>3. Of({}) = {}
    OBVIOUS
  <2> HIDE DEF z, Of
  <2>4. z = a
    BY <2>2, <2>3, AccountExt
  <2> QED BY <2>4 DEF z
<1> QED BY <1>1, <1>2

\* The plans before a position grow by one at each journal, up to all of them.
LEMMA Positions ==
  ASSUME Typed
  PROVE  /\ PlansTo(1) = {} /\ PlansTo(Len(journals) + 1) = Journaled
         /\ PlansFrom(Len(journals) + 1) = {}
         /\ Journaled \in SUBSET Plans
         /\ \A n \in Nat : PlansTo(n) \in SUBSET Plans
         /\ \A i \in DOMAIN journals :
              /\ i \in Nat /\ i >= 1 /\ i <= Len(journals)
              /\ journals[i] \in Journal
              /\ PlansTo(i + 1) = PlansTo(i) \cup {journals[i].plan}
<1>1. /\ Len(journals) \in Nat /\ DOMAIN journals = 1..Len(journals)
      /\ \A k \in DOMAIN journals : journals[k] \in Journal
  BY DEF Typed
<1>2. \A k \in DOMAIN journals : journals[k].plan \in Plans
  BY <1>1 DEF Journal
<1>3. PlansTo(1) = {} /\ PlansFrom(Len(journals) + 1) = {}
  BY <1>1 DEF PlansTo, PlansFrom
<1>4. PlansTo(Len(journals) + 1) = Journaled
  <2>1. {m \in DOMAIN journals : m < Len(journals) + 1} = DOMAIN journals
    BY <1>1
  <2> QED BY <2>1 DEF PlansTo, Journaled
<1>5. \A n \in Nat : PlansTo(n) \in SUBSET Plans
  BY <1>2 DEF PlansTo
<1>6. ASSUME NEW i \in DOMAIN journals
      PROVE  PlansTo(i + 1) = PlansTo(i) \cup {journals[i].plan}
  <2>1. {m \in DOMAIN journals : m < i + 1} = {m \in DOMAIN journals : m < i} \cup {i}
    BY <1>1
  <2> QED BY <2>1 DEF PlansTo
<1>7. Journaled \in SUBSET Plans
  BY <1>2 DEF Journaled
<1> QED BY <1>1, <1>3, <1>4, <1>5, <1>6, <1>7

\* What a journal in the list is.
LEMMA JournalAt ==
  ASSUME Typed, NEW i \in DOMAIN journals
  PROVE  /\ journals[i].plan \in Plans /\ SleeveOf[journals[i].plan] \in Sleeves
         /\ journals[i].plan \in PlansOf(SleeveOf[journals[i].plan])
         /\ journals[i].before \in Account /\ journals[i].after \in Account
         /\ journals[i].cash \in SUBSET Plans /\ journals[i].lots \in SUBSET Plans
         /\ journals[i].plan \in Journaled
         /\ i \in Nat /\ i + 1 \in Nat /\ i >= 1 /\ i <= Len(journals)
         /\ i + 1 \in 1..Len(journals) + 1
<1>1. journals[i] \in Journal /\ i \in Nat /\ i >= 1 /\ i <= Len(journals)
      /\ Len(journals) \in Nat
  BY Positions DEF Typed
<1>2. journals[i].plan \in Plans
  BY <1>1 DEF Journal
<1> QED BY <1>1, <1>2, SleeveConstants DEF Journal, PlansOf, Journaled

\* While some journal waits, the three situations exclude each other.
LEMMA OneSituation ==
  ASSUME Typed, journals # <<>>
  PROVE  /\ ~ (Unsaved /\ Saved) /\ ~ (Unsaved /\ Overtaken) /\ ~ (Saved /\ Overtaken)
<1>1. 1 \in DOMAIN journals
  BY DEF Typed
<1>2. Unsaved => journals[1].before.rev = acct.rev
  <2>1. PlansTo(1) \in SUBSET Plans /\ acct \in Account
    BY Positions DEF Typed
  <2> QED BY <1>1, <2>1, WithFields DEF Unsaved
<1>3. acct.rev \in Nat
  BY DEF Typed, Account
<1> QED BY <1>1, <1>2, <1>3 DEF Unsaved, Saved, Overtaken

-----------------------------------------------------------------------------
(* The invariant at first, and what it contains.                           *)

\* The invariant contains the state properties that the runs check.
LEMMA SleeveInvImplies == SleeveInv => TypeOK /\ BooksAgree /\ OutcomeTrue /\ FilledOnce
<1> SUFFICES ASSUME SleeveInv PROVE TypeOK /\ FilledOnce
  BY DEF SleeveInv, FileInv
<1>1. op.acct \in Account /\ op.kind \in Kinds
  BY DEF SleeveInv, Typed, OpType
<1>2. op.pc \in Writing => op.i \in DOMAIN journals
  BY DEF SleeveInv, OpInv, AtWriting
<1>3. TypeOK
  BY <1>1, <1>2 DEF SleeveInv, Typed, TypeOK, Writing
<1>4. FilledOnce
  BY DEF SleeveInv, FileInv, JournalInv, Entry, FilledOnce
<1> QED BY <1>3, <1>4

\* At first there is an empty account and nothing else.
LEMMA SleeveInvInit == Init => SleeveInv
<1> SUFFICES ASSUME Init PROVE SleeveInv
  OBVIOUS
<1> USE SleeveConstants DEF Init
<1>1. NewAccount \in Account
  BY DEF NewAccount, Account
<1>2. NoBatch \in BatchType
  BY DEF NoBatch, BatchType
<1>3. Idle \in OpType /\ Idle.pc = "idle" /\ Idle.kind = "recover"
  BY <1>1, <1>2 DEF Idle, OpType, PC, Kinds
<1>4. Typed
  BY <1>1, <1>2, <1>3 DEF Typed, PlanStatus, Days
<1>5. DOMAIN journals = {}
  OBVIOUS
<1>6. FileInv
  <2>1. JournalInv
    BY <1>5 DEF JournalInv, Unsaved
  <2>2. OutcomeTrue
    BY DEF OutcomeTrue, NewAccount, AllFills
  <2>3. BooksAgree
    BY DEF BooksAgree, NewAccount, AllFills
  <2> QED BY <2>1, <2>2, <2>3 DEF FileInv
<1>7. OpInv /\ CallInv
  BY <1>3 DEF OpInv, CallInv, Writing
<1> QED BY <1>4, <1>6, <1>7 DEF SleeveInv

-----------------------------------------------------------------------------
(* What steps have in common.                                              *)

\* The files that the invariant is about.
Kept == <<acct, archived, status, cash, lots, plan, journals>>

\* A step that writes none of these files leaves their part of the invariant, and
\* the knowledge of a lock holder that keeps its account.
LEMMA FilesStill ==
  ASSUME FileInv, UNCHANGED Kept
  PROVE  /\ FileInv' /\ (Unsaved' <=> Unsaved) /\ (Saved' <=> Saved)
         /\ Overtaken' <=> Overtaken
         /\ op'.acct = op.acct =>
              \A n \in Nat : /\ (Settled(n)' <=> Settled(n))
                             /\ (InMemory(n)' <=> InMemory(n))
<1>1. /\ acct' = acct /\ status' = status /\ cash' = cash /\ lots' = lots
      /\ plan' = plan /\ journals' = journals /\ archived' = archived
  BY DEF Kept
<1>2. Journaled' = Journaled
  BY <1>1 DEF Journaled
<1>3. (Unsaved' <=> Unsaved) /\ (Saved' <=> Saved) /\ (Overtaken' <=> Overtaken)
  BY <1>1 DEF Unsaved, Saved, Overtaken, PlansTo, PlansFrom
<1>4. FileInv'
  <2>1. JournalInv'
    <3>1. \A i \in DOMAIN journals : Entry(i)'
      BY <1>1, <1>3 DEF FileInv, JournalInv, Entry, GivenUp
    <3> QED BY <1>1, <1>3, <3>1 DEF FileInv, JournalInv
  <2>2. OutcomeTrue' /\ BooksAgree'
    BY <1>1, <1>2 DEF FileInv, OutcomeTrue, BooksAgree, AllFills
  <2> QED BY <2>1, <2>2 DEF FileInv
<1>5. ASSUME op'.acct = op.acct, NEW n \in Nat
      PROVE  (Settled(n)' <=> Settled(n)) /\ (InMemory(n)' <=> InMemory(n))
  <2>1. Settled(n)' <=> Settled(n)
    BY <1>1, <1>3, <1>5 DEF Settled, Agree, GivenUp
  <2>2. InMemory(n)' <=> InMemory(n)
    BY <1>1, <1>3, <1>5 DEF InMemory, PlansTo
  <2> QED BY <2>1, <2>2
<1> QED BY <1>3, <1>4, <1>5

\* A lock holder that lets go knows nothing.
LEMMA Released == op' = Idle => OpInv' /\ CallInv' /\ op' \in OpType
<1>1. NewAccount \in Account /\ NoBatch \in BatchType
  BY DEF NewAccount, Account, NoBatch, BatchType
<1>2. Idle \in OpType /\ Idle.pc = "idle" /\ Idle.kind = "recover"
  BY <1>1 DEF Idle, OpType, PC, Kinds
<1> QED BY <1>2 DEF OpInv, CallInv, Writing

\* A lock holder that only moves on keeps everything else it has.
LEMMA Moved ==
  ASSUME NEW pc \in PC, op \in OpType, Go(pc)
  PROVE  /\ op' \in OpType /\ op'.pc = pc /\ op'.kind = op.kind /\ op'.who = op.who
         /\ op'.stage = op.stage /\ op'.acct = op.acct /\ op'.i = op.i
         /\ op'.todo = op.todo
BY DEF Go, OpType

\* The invariant holds again where the files keep their part and the lock holder
\* knows what its place requires.
LEMMA Arrived ==
  ASSUME Typed', FileInv', CallInv', op'.pc # "idle",
         op'.pc = "drafts" => AtDrafts', op'.pc = "journals" => AtJournals',
         op'.pc \in Writing => AtWriting', op'.pc = "batch" => AtBatch',
         op'.pc = "save" => AtSave', op'.pc = "commit" => AtCommit',
         op'.pc = "work" => AtWork', op'.pc = "allocate" => AtAllocate',
         op'.pc = "finalize" => AtFinalize'
  PROVE  SleeveInv'
BY DEF SleeveInv, OpInv

\* Without journals all that FileInv says is that the books agree.
LEMMA NoJournals ==
  ASSUME Typed, journals = <<>>
  PROVE  /\ DOMAIN journals = {} /\ Len(journals) = 0 /\ Journaled = {}
         /\ JournalInv /\ Unsaved /\ Saved /\ Overtaken
<1>1. DOMAIN journals = {} /\ Len(journals) = 0
  OBVIOUS
<1> QED BY <1>1 DEF Journaled, JournalInv, Unsaved, Saved, Overtaken

\* When no journal waits, every sleeve agrees with account.json.
LEMMA AllAgree ==
  ASSUME Typed, BooksAgree, journals = <<>>, op.acct = acct
  PROVE  InMemory(1) /\ Settled(1) /\ InMemory(Len(journals) + 1)
         /\ Settled(Len(journals) + 1)
<1>1. DOMAIN journals = {} /\ Len(journals) = 0 /\ Journaled = {}
  BY NoJournals
<1>2. InMemory(1)
  <2>1. PlansTo(1) = {} /\ acct \in Account
    BY Positions DEF Typed
  <2>2. WithFills(acct, {}) = acct
    BY <2>1, WithWith
  <2> QED BY <2>1, <2>2 DEF InMemory
<1>3. Settled(1)
  BY <1>1 DEF Settled, Agree, BooksAgree, GivenUp, AllFills
<1> QED BY <1>1, <1>2, <1>3

-----------------------------------------------------------------------------
(* Steps outside the locks, and steps that take or drop them.              *)

\* Another change of the account: journals that were still to be applied to it
\* are overtaken.
LEMMA AccountMoves ==
  ASSUME Typed, FileInv, acct' \in Account, acct'.fills = acct.fills,
         acct'.rev = acct.rev + 1,
         UNCHANGED <<archived, status, cash, lots, plan, journals>>
  PROVE  FileInv'
<1>1. /\ status' = status /\ cash' = cash /\ lots' = lots /\ archived' = archived
      /\ plan' = plan /\ journals' = journals
  OBVIOUS
<1>2. Journaled' = Journaled
  BY <1>1 DEF Journaled
<1>3. ASSUME NEW i \in DOMAIN journals PROVE journals[i].before.rev <= acct.rev
  BY DEF FileInv, JournalInv, Entry
<1>4. ASSUME NEW i \in DOMAIN journals PROVE journals[i].before.rev < acct'.rev
  <2>1. journals[i].before.rev \in Nat /\ acct.rev \in Nat
    BY JournalAt DEF Typed, Account
  <2> QED BY <1>3, <2>1
<1>5. Unsaved \/ Overtaken => Overtaken'
  BY <1>1, <1>4 DEF Unsaved, Overtaken
<1>6. Saved => Saved'
  BY <1>1 DEF Saved, PlansFrom
<1>7. ASSUME NEW i \in DOMAIN journals PROVE Entry(i)'
  <2>1. GivenUp(SleeveOf[journals[i].plan])' <=> GivenUp(SleeveOf[journals[i].plan])
    BY <1>1 DEF GivenUp
  <2>2. Entry(i)
    BY DEF FileInv, JournalInv
  <2>3. journals[i].before.rev <= acct'.rev
    BY <1>4, JournalAt DEF Account
  <2> QED BY <1>1, <1>5, <2>1, <2>2, <2>3 DEF Entry
<1>8. JournalInv'
  BY <1>1, <1>5, <1>6, <1>7 DEF FileInv, JournalInv
<1>9. OutcomeTrue' /\ BooksAgree'
  BY <1>1, <1>2 DEF FileInv, OutcomeTrue, BooksAgree, AllFills
<1> QED BY <1>8, <1>9 DEF FileInv

\* A fresh account takes the place of the account: all journals are overtaken, and
\* what the account had is archived.
LEMMA AccountResets ==
  ASSUME Typed, FileInv, acct' \in Account, acct'.fills = {},
         acct'.rev = acct.rev + 1, archived' = archived \cup acct.fills,
         UNCHANGED <<status, cash, lots, plan, journals>>
  PROVE  FileInv'
<1>1. /\ status' = status /\ cash' = cash /\ lots' = lots
      /\ plan' = plan /\ journals' = journals
  OBVIOUS
<1>2. Journaled' = Journaled /\ AllFills' = AllFills
  BY <1>1 DEF Journaled, AllFills
<1>3. ASSUME NEW i \in DOMAIN journals PROVE journals[i].before.rev < acct'.rev
  <2>1. journals[i].before.rev \in Nat /\ acct.rev \in Nat
    BY JournalAt DEF Typed, Account
  <2>2. journals[i].before.rev <= acct.rev
    BY DEF FileInv, JournalInv, Entry
  <2> QED BY <2>1, <2>2
<1>4. Overtaken'
  BY <1>1, <1>3 DEF Overtaken
<1>5. ASSUME NEW i \in DOMAIN journals PROVE Entry(i)'
  <2>1. Entry(i)
    BY DEF FileInv, JournalInv
  <2>2. journals[i].before.rev <= acct'.rev
    BY <1>3, JournalAt DEF Account
  <2> QED BY <1>1, <1>4, <2>1, <2>2 DEF Entry
<1>6. JournalInv'
  BY <1>1, <1>4, <1>5 DEF FileInv, JournalInv
<1>7. OutcomeTrue'
  BY <1>1, <1>2 DEF FileInv, OutcomeTrue, AllFills
<1>8. BooksAgree'
  BY <1>1, <1>2 DEF FileInv, BooksAgree, AllFills
<1> QED BY <1>6, <1>7, <1>8 DEF FileInv

\* Orders, the kill switch and a reset, while nobody holds the locks.
LEMMA AccountRouteKeeps ==
  SleeveInv /\ (AccountRoute \/ set_account_kill_switch \/ reset_account) => SleeveInv'
<1> SUFFICES ASSUME SleeveInv, AccountRoute \/ set_account_kill_switch \/ reset_account
             PROVE  SleeveInv'
  OBVIOUS
<1>1. /\ UNCHANGED <<status, cash, lots, drafts, refused, plan, target, journals, batch>>
      /\ op' = Idle
  BY DEF AccountRoute, set_account_kill_switch, reset_account
<1>2. acct \in Account
  BY DEF SleeveInv, Typed
<1>3. acct' \in Account /\ acct'.rev = acct.rev + 1 /\ FileInv' /\ archived' \subseteq Plans
  <2>1. acct.rev + 1 \in Nat /\ (~ acct.frozen) \in BOOLEAN /\ acct.fills \subseteq Plans
    BY <1>2 DEF Account
  <2>2. CASE AccountRoute \/ set_account_kill_switch
    <3>1. \/ acct' = [acct EXCEPT !.rev = @ + 1]
          \/ acct' = [acct EXCEPT !.rev = @ + 1, !.frozen = ~ @]
      BY <2>2 DEF AccountRoute, set_account_kill_switch
    <3>2. acct' \in Account /\ acct'.fills = acct.fills /\ acct'.rev = acct.rev + 1
      BY <1>2, <2>1, <3>1 DEF Account
    <3>3. archived' = archived
      BY <2>2 DEF AccountRoute, set_account_kill_switch
    <3> QED BY <1>1, <3>2, <3>3, AccountMoves DEF SleeveInv, Typed
  <2>3. CASE reset_account
    <3>1. acct' = [NewAccount EXCEPT !.rev = acct.rev + 1]
          /\ archived' = archived \cup acct.fills
      BY <2>3 DEF reset_account
    <3>2. acct' \in Account /\ acct'.fills = {} /\ acct'.rev = acct.rev + 1
      BY <2>1, <3>1 DEF Account, NewAccount
    <3> QED BY <1>1, <2>1, <3>1, <3>2, AccountResets DEF SleeveInv, Typed
  <2> QED BY <1>1, <2>2, <2>3
<1>5. OpInv' /\ CallInv' /\ op' \in OpType
  BY <1>1, Released
<1>6. Typed'
  BY <1>1, <1>3, <1>5 DEF SleeveInv, Typed
<1> QED BY <1>3, <1>5, <1>6 DEF SleeveInv

\* The price phase and the calendar write nothing the invariant is about.
LEMMA OutsideKeeps ==
  ASSUME SleeveInv, UNCHANGED <<Files, op>>, batch' \in [Runners -> BatchType]
  PROVE  SleeveInv'
<1>1. /\ UNCHANGED Kept /\ op' = op /\ drafts' = drafts /\ target' = target
      /\ archived' = archived /\ refused' = refused /\ acct' = acct /\ status' = status
      /\ cash' = cash /\ lots' = lots
      /\ plan' = plan /\ journals' = journals
  BY DEF Files, Kept
<1>2. /\ FileInv' /\ (Unsaved' <=> Unsaved) /\ (Saved' <=> Saved)
      /\ Overtaken' <=> Overtaken
      /\ \A n \in Nat : (Settled(n)' <=> Settled(n)) /\ (InMemory(n)' <=> InMemory(n))
  BY <1>1, FilesStill DEF SleeveInv
<1>3. Typed'
  BY <1>1 DEF SleeveInv, Typed
<1>4. op.i \in Nat /\ op.i + 1 \in Nat /\ Len(journals) + 1 \in Nat
  BY DEF SleeveInv, Typed, OpType
<1>5. OpInv'
  <2>1. OpInv
    BY DEF SleeveInv
  <2>2. /\ AtJournals => AtJournals'
        /\ AtWriting => AtWriting'
        /\ AtBatch => AtBatch'
        /\ AtSave => AtSave'
        /\ AtCommit => AtCommit'
    BY <1>1, <1>2, <1>4 DEF AtJournals, AtWriting, AtBatch, AtSave, AtCommit
  <2>3. /\ AtDrafts => AtDrafts'
        /\ AtWork => AtWork'
        /\ AtAllocate => AtAllocate'
        /\ AtFinalize => AtFinalize'
    BY <1>1 DEF AtDrafts, AtWork, AtAllocate, AtFinalize
  <2> QED BY <1>1, <2>1, <2>2, <2>3 DEF OpInv
<1>6. CallInv'
  BY <1>1 DEF SleeveInv, CallInv
<1> QED BY <1>2, <1>3, <1>5, <1>6 DEF SleeveInv

\* A call takes the locks with a target its guards let through.
LEMMA BeginKeeps ==
  ASSUME SleeveInv, NEW kind \in Kinds, NEW who \in {Nobody} \cup Runners \cup Sleeves \cup Plans,
         NEW todo \in BatchType, Begin(kind, who, todo),
         batch' \in [Runners -> BatchType],
         kind = "create" => who \in Sleeves /\ status[who] = "none"
                              /\ who \notin acct.alloc /\ who \notin drafts,
         kind \in {"pause", "resume", "stop"} => who \in Sleeves,
         kind = "plan" => who \in Plans /\ plan[who] = "none"
  PROVE  SleeveInv'
<1>1. /\ UNCHANGED Kept /\ drafts' = drafts /\ target' = target /\ archived' = archived
      /\ refused' = refused
      /\ acct' = acct /\ status' = status /\ cash' = cash /\ lots' = lots
      /\ plan' = plan /\ journals' = journals
      /\ op' = [Idle EXCEPT !.pc = "drafts", !.kind = kind, !.who = who,
                            !.acct = acct, !.todo = todo]
  BY DEF Begin, Files, Kept
<1>2. /\ op'.pc = "drafts" /\ op'.kind = kind /\ op'.who = who /\ op'.acct = acct
      /\ op'.stage = "recover" /\ op'.i = 1 /\ op' \in OpType
  BY <1>1 DEF Idle, OpType, PC, SleeveInv, Typed
<1>3. FileInv'
  BY <1>1, FilesStill DEF SleeveInv
<1>4. Typed'
  BY <1>1, <1>2 DEF SleeveInv, Typed
<1>5. CallInv'
  BY <1>1, <1>2 DEF CallInv
<1>6. AtDrafts'
  BY <1>1, <1>2 DEF AtDrafts
<1> QED BY <1>2, <1>3, <1>4, <1>5, <1>6, Arrived DEF Writing

\* A crash drops the locks and what was in memory.
LEMMA AbortKeeps == SleeveInv /\ Abort => SleeveInv'
<1> SUFFICES ASSUME SleeveInv, Abort PROVE SleeveInv'
  OBVIOUS
<1>1. /\ UNCHANGED Kept /\ drafts' = drafts /\ target' = target /\ archived' = archived
      /\ refused' = refused /\ op' = Idle
      /\ acct' = acct /\ status' = status /\ cash' = cash /\ lots' = lots
      /\ plan' = plan /\ journals' = journals /\ batch' = batch
  BY DEF Abort, Release, Files, Kept
<1>2. FileInv'
  BY <1>1, FilesStill DEF SleeveInv
<1>3. OpInv' /\ CallInv' /\ op' \in OpType
  BY <1>1, Released
<1>4. Typed'
  BY <1>1, <1>3 DEF SleeveInv, Typed
<1> QED BY <1>2, <1>3, <1>4 DEF SleeveInv

-----------------------------------------------------------------------------
(* Reconciliation.                                                         *)

\* A draft turns into a running sleeve where none is yet; no journal and no book
\* is touched.
LEMMA ReconcileDraftsKeeps == SleeveInv /\ reconcile_pending_sleeves => SleeveInv'
<1> SUFFICES ASSUME SleeveInv, reconcile_pending_sleeves PROVE SleeveInv'
  OBVIOUS
<1>1. /\ op.pc = "drafts" /\ Typed /\ FileInv /\ AtDrafts /\ CallInv
      /\ acct' = acct /\ cash' = cash /\ lots' = lots /\ plan' = plan
      /\ target' = target /\ archived' = archived /\ refused' = refused
      /\ journals' = journals /\ batch' = batch
  BY DEF SleeveInv, OpInv, reconcile_pending_sleeves
<1>2. CASE drafts = {}
  <2>1. Go("journals") /\ status' = status /\ drafts' = drafts
    BY <1>2 DEF reconcile_pending_sleeves
  <2>2. /\ op' \in OpType /\ op'.pc = "journals" /\ op'.kind = op.kind
        /\ op'.who = op.who /\ op'.stage = op.stage /\ op'.acct = op.acct
        /\ op'.i = op.i
    BY <1>1, <2>1, Moved DEF Typed, PC
  <2>3. UNCHANGED Kept
    BY <1>1, <2>1 DEF Kept
  <2>4. /\ FileInv'
        /\ \A n \in Nat : (Settled(n)' <=> Settled(n)) /\ (InMemory(n)' <=> InMemory(n))
    BY <1>1, <2>2, <2>3, FilesStill
  <2>5. Typed'
    BY <1>1, <2>1, <2>2 DEF Typed
  <2>6. CallInv'
    BY <1>1, <2>1, <2>2 DEF CallInv
  <2>7. InMemory(1) /\ Settled(1)
    <3>1. PlansTo(1) = {} /\ acct \in Account /\ op.acct = acct
      BY <1>1, Positions DEF AtDrafts, Typed
    <3>2. WithFills(acct, {}) = acct
      BY <3>1, WithWith
    <3>3. InMemory(1)
      BY <3>1, <3>2 DEF InMemory
    <3>4. \A k \in DOMAIN journals : k >= 1 /\ ~ (k < 1)
      BY <1>1, Positions
    <3>5. ASSUME NEW s \in Sleeves, \A k \in DOMAIN journals : SleeveOf[journals[k].plan] # s
          PROVE  Agree(s, acct)
      <4>1. \A p \in PlansOf(s) : p \notin Journaled
        BY <3>5 DEF PlansOf, Journaled
      <4> QED BY <4>1, <1>1 DEF FileInv, BooksAgree, Agree, GivenUp, AllFills
    <3>6. Settled(1)
      BY <3>1, <3>4, <3>5 DEF Settled
    <3> QED BY <3>3, <3>6
  <2>8. AtJournals'
    <3>1. op'.i = 1 /\ op'.stage = "recover" /\ 1 \in 1..Len(journals') + 1
      BY <1>1, <2>2 DEF AtDrafts, Typed
    <3>2. InMemory(1)' /\ Settled(1)'
      BY <2>4, <2>7
    <3> QED BY <3>1, <3>2 DEF AtJournals
  <2> QED BY <2>2, <2>4, <2>5, <2>6, <2>8, Arrived DEF Writing
<1>3. CASE drafts # {}
  <2>1. PICK d \in drafts :
          /\ drafts' = drafts \ {d} /\ op' = op
          /\ status' = IF status[d] = "none" /\ d \in op.acct.alloc
                       THEN [status EXCEPT ![d] = "running"] ELSE status
    BY <1>3 DEF reconcile_pending_sleeves
  <2>2. /\ status' \in [Sleeves -> {"none", "running", "paused", "stopped"}]
        /\ \A s \in Sleeves : status[s] = "running" => status'[s] = "running"
        /\ \A s \in Sleeves : s # d => status'[s] = status[s]
    BY <1>1, <2>1 DEF Typed
  <2>3. Typed'
    BY <1>1, <2>1, <2>2 DEF Typed
  <2>4. FileInv'
    <3>1. Journaled' = Journaled
      BY <1>1 DEF Journaled
    <3>2. (Unsaved' <=> Unsaved) /\ (Saved' <=> Saved) /\ (Overtaken' <=> Overtaken)
      BY <1>1 DEF Unsaved, Saved, Overtaken, PlansTo, PlansFrom
    <3>3. \A s : GivenUp(s)' <=> GivenUp(s)
      BY <1>1 DEF GivenUp
    <3>4. \A i \in DOMAIN journals : Entry(i)'
      <4>1. \A i \in DOMAIN journals : Entry(i) /\ SleeveOf[journals[i].plan] \in Sleeves
        BY <1>1, Positions, SleeveConstants DEF FileInv, JournalInv, Journal
      <4> QED BY <1>1, <2>2, <3>2, <3>3, <4>1 DEF Entry
    <3>5. JournalInv'
      BY <1>1, <3>2, <3>4 DEF FileInv, JournalInv
    <3>6. OutcomeTrue' /\ BooksAgree'
      BY <1>1, <3>1 DEF FileInv, OutcomeTrue, BooksAgree, AllFills
    <3> QED BY <3>5, <3>6 DEF FileInv
  <2>5. CallInv'
    BY <1>1, <2>1, <2>2 DEF CallInv
  <2>6. AtDrafts'
    BY <1>1, <2>1 DEF AtDrafts
  <2> QED BY <1>1, <2>1, <2>3, <2>4, <2>5, <2>6, Arrived DEF Writing
<1> QED BY <1>2, <1>3

\* A step that changes the status of one plan, which no journal waits for or which
\* is given up, keeps the agreement of sleeves and accounts.
LEMMA GivenUpGrows ==
  ASSUME Typed, NEW p \in Plans, NEW outcome \in PlanStatus,
         plan' = [plan EXCEPT ![p] = outcome],
         plan[p] # "recovery" \/ outcome = "recovery"
  PROVE  /\ plan' \in [Plans -> PlanStatus] /\ plan'[p] = outcome
         /\ \A q \in Plans : q # p => plan'[q] = plan[q]
         /\ \A s : GivenUp(s) => GivenUp(s)'
         /\ outcome = "recovery" => GivenUp(SleeveOf[p])'
         /\ outcome # "recovery" => \A s : GivenUp(s)' => GivenUp(s)
<1>1. /\ plan' \in [Plans -> PlanStatus] /\ plan'[p] = outcome
      /\ \A q \in Plans : q # p => plan'[q] = plan[q]
  BY DEF Typed
<1> QED BY <1>1 DEF GivenUp, PlansOf

\* In memory an unsaved journal starts from the account at hand, and the fills of
\* a saved one are there.
LEMMA AtHand ==
  ASSUME Typed, FileInv, NEW i \in DOMAIN journals, InMemory(i)
  PROVE  /\ Unsaved => /\ op.acct = journals[i].before
                       /\ journals[i].plan \notin op.acct.fills
                       /\ journals[i].after = WithFills(acct, PlansTo(i + 1))
         /\ Saved => journals[i].plan \in op.acct.fills /\ op.acct = acct
         /\ Overtaken => /\ op.acct = acct /\ op.acct # journals[i].before
                         /\ journals[i].plan \notin op.acct.fills
<1>1. journals # <<>> /\ Entry(i) /\ journals[i].plan \in Plans
  BY JournalAt DEF FileInv, JournalInv, Typed
<1>2. CASE Unsaved
  <2>1. op.acct = journals[i].before /\ journals[i].before = WithFills(acct, PlansTo(i))
    BY <1>2 DEF InMemory, Unsaved
  <2>2. journals[i].after = WithFills(WithFills(acct, PlansTo(i)), {journals[i].plan})
        /\ journals[i].plan \notin op.acct.fills
    BY <1>1, <2>1 DEF Entry
  <2>3. /\ acct \in Account /\ PlansTo(i) \in SUBSET Plans
        /\ {journals[i].plan} \in SUBSET Plans
        /\ PlansTo(i + 1) = PlansTo(i) \cup {journals[i].plan}
    BY <1>1, Positions DEF Typed
  <2>4. journals[i].after = WithFills(acct, PlansTo(i + 1))
    BY <2>2, <2>3, WithWith
  <2>5. ~Saved /\ ~Overtaken
    BY <1>1, <1>2, OneSituation
  <2> QED BY <2>1, <2>2, <2>4, <2>5
<1>3. CASE ~Unsaved
  <2>1. op.acct = acct
    BY <1>3 DEF InMemory
  <2>2. Overtaken => op.acct # journals[i].before
    <3>1. acct.rev \in Nat
      BY DEF Typed, Account
    <3> QED BY <2>1, <3>1 DEF Overtaken
  <2> QED BY <1>3, <2>1, <2>2 DEF Saved, Overtaken
<1> QED BY <1>2, <1>3

\* Reconciliation of one journal: it is applied, or known to be in the account, or
\* its plan is given up.
LEMMA ReconcileJournalsKeeps == SleeveInv /\ reconcile_execution_journals => SleeveInv'
<1> SUFFICES ASSUME SleeveInv, reconcile_execution_journals PROVE SleeveInv'
  OBVIOUS
<1>1. /\ op.pc = "journals" /\ Typed /\ FileInv /\ AtJournals /\ CallInv
      /\ acct' = acct /\ status' = status /\ cash' = cash /\ lots' = lots
      /\ drafts' = drafts /\ target' = target /\ archived' = archived
      /\ refused' = refused /\ journals' = journals /\ batch' = batch
  BY DEF SleeveInv, OpInv, reconcile_execution_journals
<1>2. Len(journals) \in Nat /\ DOMAIN journals = 1..Len(journals) /\ op.i \in Nat
  BY <1>1 DEF Typed, OpType
<1>3. CASE op.i > Len(journals)
  <2>1. Go("save") /\ plan' = plan
    BY <1>1, <1>3 DEF reconcile_execution_journals
  <2>2. /\ op' \in OpType /\ op'.pc = "save" /\ op'.kind = op.kind
        /\ op'.who = op.who /\ op'.acct = op.acct
    BY <1>1, <2>1, Moved DEF Typed, PC
  <2>3. UNCHANGED Kept
    BY <1>1, <2>1 DEF Kept
  <2>4. /\ FileInv'
        /\ \A n \in Nat : (Settled(n)' <=> Settled(n)) /\ (InMemory(n)' <=> InMemory(n))
    BY <1>1, <2>2, <2>3, FilesStill
  <2>5. Typed'
    BY <1>1, <2>1, <2>2 DEF Typed
  <2>6. CallInv'
    BY <1>1, <2>1, <2>2 DEF CallInv
  <2>7. op.i = Len(journals) + 1
    BY <1>1, <1>2, <1>3 DEF AtJournals
  <2>8. AtSave'
    <3> DEFINE n == Len(journals) + 1
    <3>1. InMemory(n) /\ Settled(n) /\ n \in Nat
      BY <1>1, <1>2, <2>7 DEF AtJournals
    <3>2. InMemory(n)' /\ Settled(n)'
      BY <1>1, <2>4, <3>1
    <3> QED BY <3>2 DEF AtSave
  <2> QED BY <2>2, <2>4, <2>5, <2>6, <2>8, Arrived DEF Writing
<1>4. CASE ~ (op.i > Len(journals))
  <2>0. PICK i \in Nat : i = op.i
    BY <1>2
  <2> DEFINE j == journals[i]
             s == SleeveOf[j.plan]
  <2>1. i \in DOMAIN journals /\ InMemory(i) /\ Settled(i) /\ op.stage = "recover"
        /\ journals # <<>>
    BY <1>1, <1>2, <1>4, <2>0 DEF AtJournals
  <2>2. /\ j.plan \in Plans /\ s \in Sleeves /\ j.plan \in PlansOf(s)
        /\ j.after \in Account /\ j.plan \in Journaled /\ i + 1 \in Nat
        /\ i + 1 \in 1..Len(journals) + 1
    BY <1>1, <2>1, JournalAt
  <2>3. /\ Unsaved => op.acct = j.before /\ j.plan \notin op.acct.fills
                        /\ j.after = WithFills(acct, PlansTo(i + 1))
        /\ Saved => j.plan \in op.acct.fills /\ op.acct = acct
        /\ Overtaken => op.acct = acct /\ op.acct # j.before /\ j.plan \notin op.acct.fills
    BY <1>1, <2>1, AtHand
  <2>4. Unsaved \/ Saved \/ Overtaken
    BY <1>1 DEF FileInv, JournalInv
  <2>5. CASE j.plan \in op.acct.fills \/ op.acct = j.before
    <3>1. ~Overtaken
      BY <2>3, <2>5
    <3>2. /\ op' = [op EXCEPT !.pc = "write_sleeve",
                              !.acct = IF j.plan \in @.fills THEN @ ELSE j.after]
          /\ plan' = plan
      BY <1>4, <2>0, <2>5 DEF reconcile_execution_journals
    <3>3. /\ op' \in OpType /\ op'.pc = "write_sleeve" /\ op'.kind = op.kind
          /\ op'.who = op.who /\ op'.stage = op.stage /\ op'.i = op.i
          /\ op'.acct = IF j.plan \in op.acct.fills THEN op.acct ELSE j.after
      BY <1>1, <2>0, <2>2, <3>2 DEF Typed, OpType, PC
    <3>4. UNCHANGED Kept
      BY <1>1, <3>2 DEF Kept
    <3>5. /\ FileInv' /\ (Unsaved' <=> Unsaved) /\ (Overtaken' <=> Overtaken)
      BY <1>1, <3>4, FilesStill
    <3>6. Typed'
      BY <1>1, <3>2, <3>3 DEF Typed
    <3>7. CallInv'
      BY <1>1, <3>2, <3>3 DEF CallInv
    <3>8. InMemory(i + 1)'
      <4>1. PlansTo(i + 1)' = PlansTo(i + 1)
        BY <1>1 DEF PlansTo
      <4>2. op'.acct = IF Unsaved THEN WithFills(acct, PlansTo(i + 1)) ELSE acct
        BY <2>1, <2>3, <2>4, <3>1, <3>3, <1>1, OneSituation
      <4> QED BY <1>1, <3>5, <4>1, <4>2 DEF InMemory
    <3>9. Settled(i)'
      <4>1. \A k \in DOMAIN journals : k < i =>
              plan[journals[k].plan] = IF Overtaken THEN "recovery" ELSE "filled"
        BY <2>1 DEF Settled
      <4>2. ASSUME NEW t \in Sleeves, \A k \in DOMAIN journals : k >= i => SleeveOf[journals[k].plan] # t
            PROVE  Agree(t, op'.acct)
        <5>1. s # t /\ Agree(t, op.acct)
          BY <1>2, <2>1, <4>2 DEF Settled
        <5>2. op'.acct.fills \cap PlansOf(t) = op.acct.fills \cap PlansOf(t)
          <6>1. CASE j.plan \in op.acct.fills
            BY <3>3, <6>1
          <6>2. CASE j.plan \notin op.acct.fills
            <7>1. op'.acct = j.after /\ op.acct = j.before
              BY <2>5, <3>3, <6>2
            <7>2. j.after = WithFills(j.before, {j.plan}) /\ j.before \in Account
                  /\ {j.plan} \in SUBSET Plans
              BY <1>1, <2>1, <2>2, JournalAt DEF FileInv, JournalInv, Entry
            <7>3. j.after.fills = j.before.fills \cup {j.plan}
              BY <7>2, WithFields
            <7> QED BY <5>1, <7>1, <7>3 DEF PlansOf
          <6> QED BY <6>1, <6>2
        <5> QED BY <5>1, <5>2 DEF Agree
      <4> QED BY <1>1, <3>2, <3>5, <4>1, <4>2 DEF Settled, Agree, GivenUp
    <3>10. AtWriting'
      BY <1>1, <2>0, <2>1, <3>1, <3>3, <3>5, <3>8, <3>9 DEF AtWriting
    <3> QED BY <3>3, <3>5, <3>6, <3>7, <3>10, Arrived DEF Writing
  <2>6. CASE ~ (j.plan \in op.acct.fills \/ op.acct = j.before)
    <3>1. Overtaken /\ ~Unsaved /\ ~Saved /\ op.acct = acct
      BY <2>3, <2>4, <2>6
    <3>2. /\ plan' = [plan EXCEPT ![j.plan] = "recovery"]
          /\ op' = [op EXCEPT !.i = @ + 1]
      BY <1>4, <2>0, <2>6 DEF reconcile_execution_journals
    <3>3. /\ op' \in OpType /\ op'.pc = "journals" /\ op'.kind = op.kind
          /\ op'.who = op.who /\ op'.stage = op.stage /\ op'.i = i + 1
          /\ op'.acct = op.acct
      BY <1>1, <2>0, <2>2, <3>2 DEF Typed, OpType, PC
    <3>4. /\ plan' \in [Plans -> PlanStatus] /\ plan'[j.plan] = "recovery"
          /\ \A q \in Plans : q # j.plan => plan'[q] = plan[q]
          /\ \A t : GivenUp(t) => GivenUp(t)'
          /\ GivenUp(s)'
      BY <1>1, <2>2, <3>2, GivenUpGrows DEF PlanStatus
    <3>5. Typed'
      BY <1>1, <3>3, <3>4 DEF Typed
    <3>6. Overtaken'
      BY <1>1, <3>1 DEF Overtaken
    <3>7. ~Unsaved'
      BY <1>1, <2>1, <3>4 DEF Unsaved
    <3>8. FileInv'
      <4>1. \A k \in DOMAIN journals : Entry(k)'
        <5>1. \A k \in DOMAIN journals : Entry(k) /\ journals[k].plan \in Plans
          BY <1>1, JournalAt DEF FileInv, JournalInv
        <5> QED BY <1>1, <3>4, <3>6, <5>1 DEF Entry
      <4>2. JournalInv'
        BY <1>1, <3>6, <4>1 DEF FileInv, JournalInv
      <4>3. Journaled' = Journaled
        BY <1>1 DEF Journaled
      <4>4. OutcomeTrue'
        BY <1>1, <2>2, <3>4, <4>3 DEF FileInv, OutcomeTrue, AllFills
      <4>5. BooksAgree'
        <5>1. \A p \in Plans : plan[p] = "recovery" => plan'[p] = "recovery"
          BY <3>4
        <5> QED BY <1>1, <5>1, <4>3 DEF FileInv, BooksAgree, PlansOf, AllFills
      <4> QED BY <4>2, <4>4, <4>5 DEF FileInv
    <3>9. CallInv'
      <4>1. op.kind = "plan" => op.who # j.plan
        BY <1>1, <2>1 DEF CallInv, FileInv, JournalInv, Entry
      <4> QED BY <1>1, <3>3, <3>4, <4>1 DEF CallInv
    <3>10. InMemory(i + 1)'
      BY <1>1, <3>1, <3>3, <3>7 DEF InMemory
    <3>11. Settled(i + 1)'
      <4>1. ASSUME NEW k \in DOMAIN journals, k < i + 1
            PROVE  plan'[journals[k].plan] = "recovery"
        <5>1. k \in Nat /\ journals[k].plan \in Plans /\ (k < i \/ k = i)
          BY <1>1, <1>2, <4>1, JournalAt
        <5>2. k < i => plan[journals[k].plan] = "recovery"
          BY <2>1, <3>1 DEF Settled
        <5> QED BY <3>4, <5>1, <5>2
      <4>2. ASSUME NEW t \in Sleeves,
                   \A k \in DOMAIN journals : k >= i + 1 => SleeveOf[journals[k].plan] # t
            PROVE  Agree(t, op.acct)'
        <5>1. CASE t = s
          BY <1>1, <5>1, <3>4 DEF Agree
        <5>2. CASE t # s
          <6>1. \A k \in DOMAIN journals : k >= i => k >= i + 1 \/ k = i
            BY <1>2
          <6>2. Agree(t, op.acct)
            BY <2>1, <4>2, <5>2, <6>1 DEF Settled
          <6> QED BY <1>1, <3>3, <3>4, <6>2 DEF Agree
        <5> QED BY <5>1, <5>2
      <4> QED BY <1>1, <3>6, <4>1, <4>2 DEF Settled
    <3>12. AtJournals'
      BY <1>1, <2>0, <2>1, <2>2, <3>3, <3>10, <3>11 DEF AtJournals
    <3> QED BY <3>3, <3>5, <3>8, <3>9, <3>12, Arrived DEF Writing
  <2> QED BY <2>5, <2>6
<1> QED BY <1>3, <1>4

\* The books of a sleeve whose journal waits may change.
LEMMA BooksMove ==
  ASSUME Typed, FileInv, NEW i \in DOMAIN journals,
         UNCHANGED <<acct, archived, status, plan, journals>>, op'.acct = op.acct,
         \A t \in Sleeves : t # SleeveOf[journals[i].plan] =>
           cash'[t] = cash[t] /\ lots'[t] = lots[t]
  PROVE  /\ FileInv' /\ (Unsaved' <=> Unsaved) /\ (Overtaken' <=> Overtaken)
         /\ \A n \in Nat : InMemory(n)' <=> InMemory(n)
         /\ Settled(i) => Settled(i)'
<1>1. /\ acct' = acct /\ archived' = archived /\ status' = status /\ plan' = plan
      /\ journals' = journals
  OBVIOUS
<1>2. Journaled' = Journaled
  BY <1>1 DEF Journaled
<1>3. (Unsaved' <=> Unsaved) /\ (Saved' <=> Saved) /\ (Overtaken' <=> Overtaken)
  BY <1>1 DEF Unsaved, Saved, Overtaken, PlansTo, PlansFrom
<1>4. FileInv'
  <2>1. \A t : GivenUp(t)' <=> GivenUp(t)
    BY <1>1 DEF GivenUp
  <2>2. \A k \in DOMAIN journals : Entry(k)'
    <3>1. \A k \in DOMAIN journals : Entry(k)
      BY DEF FileInv, JournalInv
    <3> QED BY <1>1, <1>3, <2>1, <3>1 DEF Entry
  <2>3. JournalInv'
    BY <1>1, <1>3, <2>2 DEF FileInv, JournalInv
  <2>4. OutcomeTrue'
    BY <1>1, <1>2 DEF FileInv, OutcomeTrue, AllFills
  <2>5. BooksAgree'
    <3>1. /\ journals[i].plan \in Journaled
          /\ journals[i].plan \in PlansOf(SleeveOf[journals[i].plan])
      BY JournalAt
    <3> QED BY <1>1, <1>2, <3>1 DEF FileInv, BooksAgree, AllFills
  <2> QED BY <2>3, <2>4, <2>5 DEF FileInv
<1>5. \A n \in Nat : InMemory(n)' <=> InMemory(n)
  BY <1>1, <1>3 DEF InMemory, PlansTo
<1>6. Settled(i) => Settled(i)'
  <2>1. i \in Nat /\ i >= i
    BY JournalAt
  <2> QED BY <1>1, <1>3, <2>1 DEF Settled, Agree, GivenUp
<1> QED BY <1>3, <1>4, <1>5, <1>6

\* The sleeve file and the lots file of a journal are written.
LEMMA SaveSleeveKeeps == SleeveInv /\ (save_sleeve \/ save_sleeve_lots) => SleeveInv'
<1> SUFFICES ASSUME SleeveInv, save_sleeve \/ save_sleeve_lots PROVE SleeveInv'
  OBVIOUS
<1>1. /\ op.pc \in Writing /\ Typed /\ FileInv /\ AtWriting /\ CallInv
      /\ acct' = acct /\ plan' = plan
      /\ drafts' = drafts /\ target' = target /\ archived' = archived
      /\ refused' = refused /\ journals' = journals /\ batch' = batch
  BY DEF SleeveInv, OpInv, save_sleeve, save_sleeve_lots, Writing
<1>2. PICK i \in Nat : i = op.i
  BY <1>1 DEF Typed, OpType
<1> DEFINE j == journals[i]
           s == SleeveOf[j.plan]
<1>3. /\ i \in DOMAIN journals /\ ~Overtaken /\ InMemory(i + 1) /\ Settled(i)
      /\ op.stage = "work" => Unsaved /\ i = Len(journals)
      /\ op.pc \in {"write_lots", "write_plan"} => cash[s] = j.cash
  BY <1>1, <1>2 DEF AtWriting
<1>4. s \in Sleeves /\ j.cash \in SUBSET Plans /\ j.lots \in SUBSET Plans /\ i + 1 \in Nat
  BY <1>1, <1>3, JournalAt
<1>5. /\ status' = status
      /\ cash' \in [Sleeves -> SUBSET Plans] /\ lots' \in [Sleeves -> SUBSET Plans]
      /\ \A t \in Sleeves : t # s => cash'[t] = cash[t] /\ lots'[t] = lots[t]
      /\ cash'[s] = j.cash
      /\ op' \in OpType /\ op'.kind = op.kind /\ op'.who = op.who
      /\ op'.stage = op.stage /\ op'.acct = op.acct /\ op'.i = op.i
      /\ op'.pc \in {"write_lots", "write_plan"}
      /\ op'.pc = "write_plan" => lots'[s] = j.lots
  <2>1. CASE save_sleeve
    <3>1. j.status = "running" /\ status[s] = "running"
      BY <1>1, <1>3 DEF FileInv, JournalInv, Entry
    <3>2. /\ status' = [status EXCEPT ![s] = "running"]
          /\ cash' = [cash EXCEPT ![s] = j.cash] /\ lots' = lots /\ Go("write_lots")
      BY <1>2, <2>1, <3>1 DEF save_sleeve
    <3>3. status' = status
      BY <1>1, <3>1, <3>2 DEF Typed
    <3>4. /\ op' \in OpType /\ op'.kind = op.kind /\ op'.who = op.who
          /\ op'.stage = op.stage /\ op'.acct = op.acct /\ op'.i = op.i
          /\ op'.pc = "write_lots"
      BY <1>1, <3>2, Moved DEF Typed, PC
    <3> QED BY <1>1, <1>4, <3>2, <3>3, <3>4 DEF Typed
  <2>2. CASE save_sleeve_lots
    <3>2. /\ status' = status /\ cash' = cash /\ op.pc = "write_lots"
          /\ lots' = [lots EXCEPT ![s] = j.lots] /\ Go("write_plan")
      BY <1>2, <2>2 DEF save_sleeve_lots
    <3>4. /\ op' \in OpType /\ op'.kind = op.kind /\ op'.who = op.who
          /\ op'.stage = op.stage /\ op'.acct = op.acct /\ op'.i = op.i
          /\ op'.pc = "write_plan"
      BY <1>1, <3>2, Moved DEF Typed, PC
    <3> QED BY <1>1, <1>3, <1>4, <3>2, <3>4 DEF Typed
  <2> QED BY <2>1, <2>2
<1>6. /\ FileInv' /\ (Unsaved' <=> Unsaved) /\ (Overtaken' <=> Overtaken)
      /\ \A n \in Nat : InMemory(n)' <=> InMemory(n)
      /\ Settled(i)'
  BY <1>1, <1>3, <1>5, BooksMove
<1>7. Typed'
  BY <1>1, <1>5 DEF Typed
<1>8. CallInv'
  BY <1>1, <1>5 DEF CallInv, Writing
<1>9. AtWriting'
  BY <1>1, <1>2, <1>3, <1>4, <1>5, <1>6 DEF AtWriting
<1> QED BY <1>5, <1>6, <1>7, <1>8, <1>9, Arrived DEF Writing

\* A sleeve whose journals up to i are the only ones left agrees with the account
\* once what journal i remembers is in its files.
LEMMA BookOfJournal ==
  ASSUME Typed, FileInv, NEW i \in DOMAIN journals, ~Overtaken, InMemory(i + 1),
         NEW s \in Sleeves, s = SleeveOf[journals[i].plan],
         \A k \in DOMAIN journals : k >= i + 1 => SleeveOf[journals[k].plan] # s,
         cash[s] = journals[i].cash, lots[s] = journals[i].lots
  PROVE  Agree(s, op.acct)
<1>1. Entry(i) /\ journals # <<>>
  BY DEF FileInv, JournalInv, Typed
<1>2. op.acct.fills \cap PlansOf(s) = journals[i].after.fills \cap PlansOf(s)
  <2>1. CASE Unsaved
    <3>1. op.acct = WithFills(acct, PlansTo(i + 1))
      BY <2>1 DEF InMemory
    <3>2. /\ journals[i].after = WithFills(WithFills(acct, PlansTo(i)), {journals[i].plan})
      BY <1>1, <2>1 DEF Unsaved, Entry
    <3>3. /\ acct \in Account /\ PlansTo(i) \in SUBSET Plans
          /\ {journals[i].plan} \in SUBSET Plans
          /\ PlansTo(i + 1) = PlansTo(i) \cup {journals[i].plan}
      BY Positions, JournalAt DEF Typed
    <3>4. journals[i].after = op.acct
      BY <3>1, <3>2, <3>3, WithWith
    <3> QED BY <3>4
  <2>2. CASE ~Unsaved
    <3>1. Saved /\ op.acct = acct
      BY <2>2 DEF InMemory, FileInv, JournalInv
    <3>2. journals[i].after.fills = acct.fills \ PlansFrom(i + 1)
      BY <3>1 DEF Saved
    <3>3. PlansFrom(i + 1) \cap PlansOf(s) = {}
      BY DEF PlansFrom, PlansOf
    <3> QED BY <3>1, <3>2, <3>3
  <2> QED BY <2>1, <2>2
<1> QED BY <1>1, <1>2 DEF Entry, Agree

\* The plan of a journal is filled: the sleeve is done with this journal.
LEMMA ReplaceExecutionKeeps == SleeveInv /\ _replace_execution => SleeveInv'
<1> SUFFICES ASSUME SleeveInv, _replace_execution PROVE SleeveInv'
  OBVIOUS
<1>1. /\ op.pc = "write_plan" /\ Typed /\ FileInv /\ AtWriting /\ CallInv
      /\ acct' = acct /\ status' = status /\ cash' = cash /\ lots' = lots
      /\ drafts' = drafts /\ target' = target /\ archived' = archived
      /\ refused' = refused /\ journals' = journals /\ batch' = batch
  BY DEF SleeveInv, OpInv, _replace_execution, Writing
<1>2. PICK i \in Nat : i = op.i
  BY <1>1 DEF Typed, OpType
<1> DEFINE j == journals[i]
           s == SleeveOf[j.plan]
<1>3. /\ i \in DOMAIN journals /\ ~Overtaken /\ InMemory(i + 1) /\ Settled(i)
      /\ op.stage = "work" => Unsaved /\ i = Len(journals)
      /\ cash[s] = j.cash /\ lots[s] = j.lots /\ journals # <<>>
  BY <1>1, <1>2 DEF AtWriting
<1>4. /\ s \in Sleeves /\ j.plan \in Plans /\ j.plan \in Journaled /\ i + 1 \in Nat
      /\ i + 1 \in 1..Len(journals) + 1
  BY <1>1, <1>3, JournalAt
<1>5. plan[j.plan] # "recovery" /\ plan[j.plan] \in {"pending", "filled", "recovery"}
  <2>1. Unsaved \/ Saved
    BY <1>1, <1>3 DEF FileInv, JournalInv
  <2> QED BY <1>1, <1>3, <2>1 DEF Unsaved, Saved, FileInv, JournalInv, Entry
<1>6. plan' = [plan EXCEPT ![j.plan] = "filled"]
  BY <1>1, <1>2 DEF _replace_execution
<1>7. /\ plan' \in [Plans -> PlanStatus] /\ plan'[j.plan] = "filled"
      /\ \A q \in Plans : q # j.plan => plan'[q] = plan[q]
      /\ \A t : GivenUp(t)' <=> GivenUp(t)
  BY <1>1, <1>4, <1>5, <1>6, GivenUpGrows DEF PlanStatus
<1>8. \A k \in DOMAIN journals : journals[k].plan \in Plans /\ k \in Nat /\ k <= Len(journals)
  BY <1>1, JournalAt
<1>9. ~Overtaken' /\ (Unsaved => Unsaved') /\ (Saved => Saved') /\ (Unsaved' => Unsaved)
  <2>1. ~Overtaken'
    BY <1>1, <1>3 DEF Overtaken
  <2>2. Unsaved <=> Unsaved'
    <3>1. \A k : PlansTo(k)' = PlansTo(k)
      BY <1>1 DEF PlansTo
    <3>2. \A p \in Plans : plan'[p] = "recovery" <=> plan[p] = "recovery"
      BY <1>4, <1>5, <1>7
    <3> QED BY <1>1, <1>8, <3>1, <3>2 DEF Unsaved
  <2>3. Saved => Saved'
    BY <1>1, <1>7, <1>8 DEF Saved, PlansFrom
  <2> QED BY <2>1, <2>2, <2>3
<1>10. FileInv'
  <2>1. \A k \in DOMAIN journals : Entry(k)'
    <3>1. \A k \in DOMAIN journals : Entry(k)
      BY <1>1 DEF FileInv, JournalInv
    <3> QED BY <1>1, <1>3, <1>7, <1>8, <3>1 DEF Entry
  <2>2. JournalInv'
    BY <1>1, <1>3, <1>9, <2>1 DEF FileInv, JournalInv
  <2>3. Journaled' = Journaled
    BY <1>1 DEF Journaled
  <2>4. OutcomeTrue'
    BY <1>1, <1>4, <1>7, <2>3 DEF FileInv, OutcomeTrue, AllFills
  <2>5. BooksAgree'
    <3>1. \A p \in Plans : plan[p] = "recovery" => plan'[p] = "recovery"
      BY <1>5, <1>7
    <3> QED BY <1>1, <3>1, <2>3 DEF FileInv, BooksAgree, PlansOf, AllFills
  <2> QED BY <2>2, <2>4, <2>5 DEF FileInv
<1>11. /\ op' \in OpType /\ op'.kind = op.kind /\ op'.who = op.who
       /\ op'.stage = op.stage /\ op'.acct = op.acct
       /\ op.stage = "recover" => op'.pc = "journals" /\ op'.i = i + 1
       /\ op.stage # "recover" => op'.pc = "batch"
  <2>1. CASE op.stage = "recover"
    <3>1. op' = [op EXCEPT !.pc = "journals", !.i = @ + 1]
      BY <2>1 DEF _replace_execution
    <3> QED BY <1>1, <1>2, <1>4, <2>1, <3>1 DEF Typed, OpType, PC
  <2>2. CASE op.stage # "recover"
    <3>1. op' = [op EXCEPT !.pc = "batch"]
      BY <2>2 DEF _replace_execution
    <3> QED BY <1>1, <2>2, <3>1 DEF Typed, OpType, PC
  <2> QED BY <2>1, <2>2
<1>12. Typed'
  BY <1>1, <1>7, <1>11 DEF Typed
<1>13. CallInv'
  <2>1. op.kind = "plan" => op.who # j.plan
    BY <1>1, <1>5 DEF CallInv
  <2>2. op'.pc \notin {"idle", "allocate", "finalize"}
    BY <1>11
  <2> QED BY <1>1, <1>7, <1>11, <2>1, <2>2 DEF CallInv
<1>14. InMemory(i + 1)'
  BY <1>1, <1>3, <1>9, <1>11 DEF InMemory, PlansTo
<1>15. Settled(i + 1)'
  <2>1. ASSUME NEW k \in DOMAIN journals, k < i + 1
        PROVE  plan'[journals[k].plan] = "filled"
    <3>1. k \in Nat /\ journals[k].plan \in Plans /\ (k < i \/ k = i)
      BY <1>8, <2>1
    <3>2. k < i => plan[journals[k].plan] = "filled"
      BY <1>3 DEF Settled
    <3> QED BY <1>7, <3>1, <3>2
  <2>2. ASSUME NEW t \in Sleeves,
               \A k \in DOMAIN journals : k >= i + 1 => SleeveOf[journals[k].plan] # t
        PROVE  Agree(t, op.acct)
    <3>1. CASE t = s
      BY <1>1, <1>3, <2>2, <3>1, BookOfJournal
    <3>2. CASE t # s
      <4>1. \A k \in DOMAIN journals : k >= i => k >= i + 1 \/ k = i
        BY <1>8
      <4> QED BY <1>3, <2>2, <3>2, <4>1 DEF Settled
    <3> QED BY <3>1, <3>2
  <2> QED BY <1>1, <1>7, <1>9, <1>11, <2>1, <2>2 DEF Settled, Agree
<1>16. CASE op.stage = "recover"
  <2>1. AtJournals'
    BY <1>1, <1>4, <1>11, <1>14, <1>15, <1>16 DEF AtJournals
  <2> QED BY <1>10, <1>11, <1>12, <1>13, <1>16, <2>1, Arrived DEF Writing
<1>17. CASE op.stage # "recover"
  <2>1. op.stage = "work" /\ Unsaved' /\ i = Len(journals')
    BY <1>1, <1>3, <1>9, <1>17 DEF Typed, OpType
  <2>2. AtBatch'
    BY <1>11, <1>14, <1>15, <2>1 DEF AtBatch
  <2> QED BY <1>10, <1>11, <1>12, <1>13, <1>17, <2>2, Arrived DEF Writing
<1> QED BY <1>16, <1>17

\* The fills of unsaved journals reach account.json together.
LEMMA SaveAccountKeeps == SleeveInv /\ SaveAccount => SleeveInv'
<1> SUFFICES ASSUME SleeveInv, SaveAccount PROVE SleeveInv'
  OBVIOUS
<1>1. /\ op.pc = "save" /\ Typed /\ FileInv /\ AtSave /\ CallInv
      /\ status' = status /\ cash' = cash /\ lots' = lots /\ plan' = plan
      /\ drafts' = drafts /\ target' = target /\ archived' = archived
      /\ refused' = refused /\ journals' = journals /\ batch' = batch
      /\ acct' = (IF journals = <<>> THEN acct ELSE op.acct) /\ Go("commit")
  BY DEF SleeveInv, OpInv, SaveAccount
<1>2. /\ op' \in OpType /\ op'.pc = "commit" /\ op'.kind = op.kind
      /\ op'.who = op.who /\ op'.acct = op.acct
  BY <1>1, Moved DEF Typed, PC
<1> DEFINE n == Len(journals) + 1
<1>3. n \in Nat /\ PlansTo(n) = Journaled /\ Journaled \in SUBSET Plans
      /\ acct \in Account /\ op.acct \in Account
  BY <1>1, Positions DEF Typed, OpType
<1>4. op.acct = IF Unsaved THEN WithFills(acct, Journaled) ELSE acct
  BY <1>1, <1>3 DEF AtSave, InMemory
<1>5. \A s \in Sleeves : Agree(s, op.acct)
  <2>1. \A k \in DOMAIN journals : ~ (k >= n)
    BY <1>1, JournalAt
  <2> QED BY <1>1, <2>1 DEF AtSave, Settled
<1>6. acct' = op.acct
  <2>1. CASE journals = <<>>
    <3>1. Journaled = {}
      BY <1>1, <2>1, NoJournals
    <3> QED BY <1>1, <1>3, <1>4, <2>1, <3>1, WithWith
  <2>2. CASE journals # <<>>
    BY <1>1, <2>2
  <2> QED BY <2>1, <2>2
<1>7. /\ acct'.alloc = acct.alloc \/ acct'.alloc = acct.alloc \cup {SleeveOf[p] : p \in Journaled}
      /\ acct' \in Account /\ acct'.rev = acct.rev
      /\ acct'.fills = IF Unsaved THEN acct.fills \cup Journaled ELSE acct.fills
  <2>1. CASE Unsaved
    <3>1. acct' = WithFills(acct, Journaled)
      BY <1>4, <1>6, <2>1
    <3> QED BY <1>3, <2>1, <3>1, WithFields
  <2>2. CASE ~Unsaved
    BY <1>3, <1>4, <1>6, <2>2
  <2> QED BY <2>1, <2>2
<1>8. Typed'
  BY <1>1, <1>2, <1>7 DEF Typed
<1>9. CallInv'
  <2>1. \A p \in Journaled : status[SleeveOf[p]] = "running"
    BY <1>1 DEF Journaled, FileInv, JournalInv, Entry
  <2>2. status[op.who] = "none" => op.who \notin {SleeveOf[p] : p \in Journaled}
    BY <2>1
  <2> QED BY <1>1, <1>2, <1>7, <2>2 DEF CallInv
<1>10. /\ Unsaved => Saved'
       /\ ~Unsaved => acct' = acct /\ (Saved' <=> Saved) /\ (Overtaken' <=> Overtaken)
  <2>1. CASE Unsaved
    <3> SUFFICES ASSUME NEW i \in DOMAIN journals
                 PROVE  /\ journals[i].plan \in acct'.fills
                        /\ journals[i].after.fills = acct'.fills \ PlansFrom(i + 1)
                        /\ plan[journals[i].plan] = "filled"
      <4>1. PlansFrom(1)' = PlansFrom(1) /\ \A k : PlansFrom(k)' = PlansFrom(k)
        BY <1>1 DEF PlansFrom
      <4> QED BY <1>1, <2>1, <4>1 DEF Saved
    <3>1. /\ journals[i].plan \in Journaled /\ i \in Nat /\ i <= Len(journals)
          /\ i < n /\ journals # <<>> /\ journals[i].plan \in Plans
      BY <1>1, JournalAt DEF Typed
    <3>2. plan[journals[i].plan] = "filled"
      <4>1. ~Overtaken
        BY <1>1, <2>1, <3>1, OneSituation
      <4> QED BY <1>1, <3>1, <4>1 DEF AtSave, Settled
    <3>3. journals[i].after.fills = acct.fills \cup PlansTo(i + 1)
      <4>1. /\ journals[i].before = WithFills(acct, PlansTo(i))
            /\ journals[i].after = WithFills(journals[i].before, {journals[i].plan})
        BY <1>1, <2>1 DEF Unsaved, FileInv, JournalInv, Entry
      <4>2. /\ PlansTo(i) \in SUBSET Plans /\ {journals[i].plan} \in SUBSET Plans
            /\ PlansTo(i + 1) = PlansTo(i) \cup {journals[i].plan}
        BY <1>1, <3>1, Positions
      <4>3. journals[i].after = WithFills(acct, PlansTo(i + 1))
        BY <1>3, <4>1, <4>2, WithWith
      <4> QED BY <1>3, <4>2, <4>3, WithFields
    <3>4. Journaled = PlansTo(i + 1) \cup PlansFrom(i + 1)
      <4>1. \A k \in DOMAIN journals : k < i + 1 \/ k >= i + 1
        BY <1>1, <3>1, JournalAt
      <4> QED BY <4>1 DEF Journaled, PlansTo, PlansFrom
    <3>5. PlansFrom(i + 1) \cap PlansTo(i + 1) = {}
      <4>1. \A k, m \in DOMAIN journals : k < i + 1 /\ m >= i + 1 => k # m
        BY <1>1, <3>1, JournalAt
      <4> QED BY <1>1, <4>1 DEF PlansTo, PlansFrom, FileInv, JournalInv
    <3>6. PlansFrom(i + 1) \cap acct.fills = {}
      BY <2>1 DEF PlansFrom, Unsaved
    <3> QED BY <1>7, <2>1, <3>1, <3>2, <3>3, <3>4, <3>5, <3>6
  <2>2. CASE ~Unsaved
    <3>1. acct' = acct
      BY <1>4, <1>6, <2>2
    <3> QED BY <1>1, <2>2, <3>1 DEF Saved, Overtaken, PlansFrom
  <2> QED BY <2>1, <2>2
<1>11. Saved' \/ Overtaken'
  BY <1>1, <1>10 DEF FileInv, JournalInv
<1>12. Journaled' = Journaled
  BY <1>1 DEF Journaled
<1>13. FileInv'
  <2>1. \A k \in DOMAIN journals : Entry(k)'
    <3> SUFFICES ASSUME NEW k \in DOMAIN journals PROVE Entry(k)'
      BY <1>1
    <3>1. Entry(k) /\ journals # <<>>
      BY <1>1 DEF FileInv, JournalInv, Typed
    <3>2. Overtaken => Overtaken'
      BY <1>1, <1>10, <3>1, OneSituation
    <3> QED BY <1>1, <1>7, <3>1, <3>2 DEF Entry, GivenUp
  <2>2. JournalInv'
    BY <1>1, <1>11, <2>1 DEF FileInv, JournalInv
  <2>3. OutcomeTrue'
    BY <1>1, <1>7, <1>12 DEF FileInv, OutcomeTrue, AllFills
  <2>4. BooksAgree'
    BY <1>1, <1>5, <1>6, <1>12 DEF BooksAgree, Agree, GivenUp, AllFills
  <2> QED BY <2>2, <2>3, <2>4 DEF FileInv
<1>14. Settled(n)'
  <2>1. ASSUME NEW k \in DOMAIN journals, k < n
        PROVE  plan[journals[k].plan] = IF Overtaken' THEN "recovery" ELSE "filled"
    <3>1. journals # <<>> /\ journals' # <<>>
      BY <1>1 DEF Typed
    <3>2. Overtaken' <=> Overtaken
      <4>1. CASE Unsaved
        BY <1>1, <1>10, <2>1, <3>1, <4>1, OneSituation DEF Saved, Overtaken
      <4>2. CASE ~Unsaved
        BY <1>10, <4>2
      <4> QED BY <4>1, <4>2
    <3>3. plan[journals[k].plan] = IF Overtaken THEN "recovery" ELSE "filled"
      BY <1>1, <2>1 DEF AtSave, Settled
    <3> QED BY <3>2, <3>3
  <2>2. \A s \in Sleeves : Agree(s, op.acct)'
    BY <1>1, <1>2, <1>5 DEF Agree, GivenUp
  <2> QED BY <1>1, <2>1, <2>2 DEF Settled
<1>15. AtCommit'
  BY <1>1, <1>2, <1>6, <1>11, <1>14 DEF AtCommit
<1> QED BY <1>2, <1>8, <1>9, <1>13, <1>15, Arrived DEF Writing

\* A journal is dropped: the ones behind it are where they were.
LEMMA CommitTail ==
  ASSUME Typed, FileInv, AtCommit, journals # <<>>, journals' = Tail(journals),
         UNCHANGED <<acct, archived, status, cash, lots, plan, op>>
  PROVE  journals' \in Seq(Journal) /\ FileInv' /\ AtCommit'
<1>1. /\ acct' = acct /\ status' = status /\ cash' = cash /\ lots' = lots
      /\ plan' = plan /\ op' = op /\ archived' = archived
  OBVIOUS
<1>2. /\ journals' \in Seq(Journal) /\ Len(journals) \in Nat
      /\ Len(journals') = Len(journals) - 1
      /\ DOMAIN journals = 1..Len(journals) /\ DOMAIN journals' = 1..Len(journals')
      /\ \A k \in DOMAIN journals' : journals'[k] = journals[k + 1]
  BY DEF Typed
<1>3. \A k \in DOMAIN journals' : k \in Nat /\ k + 1 \in DOMAIN journals
  BY <1>2
<1>4. \A k \in DOMAIN journals : k # 1 => k - 1 \in DOMAIN journals' /\ (k - 1) + 1 = k
  BY <1>2
<1>5. 1 \in DOMAIN journals
  BY <1>2
<1>6. Journaled' = Journaled \ {journals[1].plan}
  <2>1. \A i, k \in DOMAIN journals : journals[i].plan = journals[k].plan => i = k
    BY DEF FileInv, JournalInv
  <2>2. ASSUME NEW p \in Journaled' PROVE p \in Journaled \ {journals[1].plan}
    <3>1. PICK k \in DOMAIN journals' : p = journals'[k].plan
      BY DEF Journaled
    <3>2. k + 1 \in DOMAIN journals /\ p = journals[k + 1].plan /\ k + 1 # 1
      BY <1>2, <1>3, <3>1
    <3> QED BY <1>5, <2>1, <3>2 DEF Journaled
  <2>3. ASSUME NEW p \in Journaled, p # journals[1].plan PROVE p \in Journaled'
    <3>1. PICK k \in DOMAIN journals : p = journals[k].plan
      BY DEF Journaled
    <3>2. k # 1
      BY <2>3, <3>1
    <3>3. k - 1 \in DOMAIN journals' /\ journals'[k - 1].plan = p
      BY <1>2, <1>4, <3>1, <3>2
    <3> QED BY <3>3 DEF Journaled
  <2> QED BY <2>2, <2>3
<1>7. \A k \in DOMAIN journals' : PlansFrom(k + 1)' = PlansFrom(k + 2)
  <2> SUFFICES ASSUME NEW k \in DOMAIN journals' PROVE PlansFrom(k + 1)' = PlansFrom(k + 2)
    OBVIOUS
  <2>0. k \in Nat
    BY <1>3
  <2>1. ASSUME NEW p \in PlansFrom(k + 1)' PROVE p \in PlansFrom(k + 2)
    <3>1. PICK m \in DOMAIN journals' : m >= k + 1 /\ p = journals'[m].plan
      BY DEF PlansFrom
    <3>2. m + 1 \in DOMAIN journals /\ m + 1 >= k + 2 /\ p = journals[m + 1].plan
      BY <1>2, <1>3, <2>0, <3>1
    <3> QED BY <3>2 DEF PlansFrom
  <2>2. ASSUME NEW p \in PlansFrom(k + 2) PROVE p \in PlansFrom(k + 1)'
    <3>1. PICK m \in DOMAIN journals : m >= k + 2 /\ p = journals[m].plan
      BY DEF PlansFrom
    <3>2. m - 1 \in DOMAIN journals' /\ m - 1 >= k + 1 /\ p = journals'[m - 1].plan
      BY <1>2, <1>4, <2>0, <3>1
    <3> QED BY <3>2 DEF PlansFrom
  <2> QED BY <2>1, <2>2
<1>8. Saved => Saved'
  <2> SUFFICES ASSUME Saved, NEW k \in DOMAIN journals'
               PROVE  /\ journals'[k].plan \in acct.fills
                      /\ journals'[k].after.fills = acct.fills \ PlansFrom(k + 1)'
                      /\ plan[journals'[k].plan] = "filled"
    BY <1>1 DEF Saved
  <2>1. k + 1 \in DOMAIN journals /\ journals'[k] = journals[k + 1] /\ (k + 1) + 1 = k + 2
    BY <1>2, <1>3
  <2>2. /\ journals[k + 1].plan \in acct.fills
        /\ journals[k + 1].after.fills = acct.fills \ PlansFrom((k + 1) + 1)
        /\ plan[journals[k + 1].plan] = "filled"
    BY <2>1 DEF Saved
  <2> QED BY <1>7, <2>1, <2>2
<1>9. Overtaken => Overtaken'
  BY <1>1, <1>2, <1>3 DEF Overtaken
<1>10. \A s : GivenUp(s)' <=> GivenUp(s)
  BY <1>1 DEF GivenUp
<1>11. JournalInv'
  <2>1. \A k \in DOMAIN journals' : Entry(k)'
    <3> SUFFICES ASSUME NEW k \in DOMAIN journals' PROVE Entry(k)'
      OBVIOUS
    <3>1. k + 1 \in DOMAIN journals /\ Entry(k + 1)
      BY <1>3 DEF FileInv, JournalInv
    <3>2. journals'[k] = journals[k + 1]
      BY <1>2
    <3>3. PICK j : j = journals[k + 1]
      OBVIOUS
    <3>4. GivenUp(SleeveOf[j.plan])' <=> GivenUp(SleeveOf[j.plan])
      BY <1>10
    <3> QED BY <1>1, <1>9, <3>1, <3>2, <3>3, <3>4 DEF Entry
  <2>2. \A i, k \in DOMAIN journals' : journals'[i].plan = journals'[k].plan => i = k
    <3>1. \A i, k \in DOMAIN journals : journals[i].plan = journals[k].plan => i = k
      BY DEF FileInv, JournalInv
    <3> SUFFICES ASSUME NEW i \in DOMAIN journals', NEW k \in DOMAIN journals',
                        journals'[i].plan = journals'[k].plan
                 PROVE  i = k
      OBVIOUS
    <3>2. i + 1 = k + 1
      BY <1>2, <1>3, <3>1
    <3> QED BY <1>3, <3>2
  <2>3. Saved' \/ Overtaken'
    BY <1>8, <1>9 DEF AtCommit
  <2> QED BY <2>1, <2>2, <2>3 DEF JournalInv
<1> DEFINE n == Len(journals) + 1
<1>12. /\ op.acct = acct
       /\ \A k \in DOMAIN journals :
            plan[journals[k].plan] = IF Overtaken THEN "recovery" ELSE "filled"
       /\ \A s \in Sleeves : Agree(s, op.acct)
  <2>1. \A k \in DOMAIN journals : k < n /\ ~ (k >= n)
    BY <1>2
  <2> QED BY <2>1 DEF AtCommit, Settled
<1>13. OutcomeTrue'
  <2>1. \/ plan[journals[1].plan] = "filled" /\ journals[1].plan \in acct.fills
        \/ plan[journals[1].plan] = "recovery" /\ journals[1].plan \notin acct.fills
    BY <1>5, <1>12 DEF AtCommit, Saved, Overtaken
  <2> QED BY <1>1, <1>6, <2>1 DEF FileInv, OutcomeTrue, AllFills
<1>14. BooksAgree'
  BY <1>1, <1>12 DEF BooksAgree, Agree, GivenUp, AllFills
<1>15. AtCommit'
  <2>1. ASSUME NEW k \in DOMAIN journals'
        PROVE  plan[journals'[k].plan] = IF Overtaken' THEN "recovery" ELSE "filled"
    <3>1. k + 1 \in DOMAIN journals /\ journals'[k] = journals[k + 1]
      BY <1>2, <1>3
    <3>2. Overtaken' <=> Overtaken
      <4>1. CASE Overtaken
        BY <1>9, <4>1
      <4>2. CASE ~Overtaken
        BY <1>1, <1>8, <2>1, <4>2 DEF AtCommit, Saved, Overtaken
      <4> QED BY <4>1, <4>2
    <3> QED BY <1>12, <3>1, <3>2
  <2>2. \A s \in Sleeves : Agree(s, op.acct)'
    BY <1>1, <1>10, <1>12 DEF Agree
  <2>3. Settled(Len(journals) + 1)'
    BY <1>1, <2>1, <2>2 DEF Settled
  <2> QED BY <1>1, <1>8, <1>9, <1>12, <2>3 DEF AtCommit
<1> QED BY <1>2, <1>11, <1>13, <1>14, <1>15 DEF FileInv

\* Journals are dropped from the first on; then the call goes on or ends.
LEMMA CommitKeeps == SleeveInv /\ commit_execution_journal => SleeveInv'
<1> SUFFICES ASSUME SleeveInv, commit_execution_journal PROVE SleeveInv'
  OBVIOUS
<1>1. /\ op.pc = "commit" /\ Typed /\ FileInv /\ AtCommit /\ CallInv
      /\ acct' = acct /\ status' = status /\ cash' = cash /\ lots' = lots
      /\ plan' = plan /\ drafts' = drafts /\ target' = target /\ archived' = archived
      /\ refused' = refused /\ batch' = batch
  BY DEF SleeveInv, OpInv, commit_execution_journal
<1>2. CASE journals # <<>>
  <2>1. journals' = Tail(journals) /\ op' = op
    BY <1>2 DEF commit_execution_journal
  <2>2. journals' \in Seq(Journal) /\ FileInv' /\ AtCommit'
    BY <1>1, <1>2, <2>1, CommitTail
  <2>3. Typed'
    BY <1>1, <2>1, <2>2 DEF Typed
  <2>4. CallInv'
    BY <1>1, <2>1 DEF CallInv
  <2> QED BY <1>1, <2>1, <2>2, <2>3, <2>4, Arrived DEF Writing
<1>3. CASE journals = <<>>
  <2>1. journals' = journals
    BY <1>3 DEF commit_execution_journal
  <2>2. FileInv'
    BY <1>1, <2>1, FilesStill DEF Kept
  <2>3. CASE op.stage = "recover" /\ op.kind # "recover"
    <3>1. op' = [op EXCEPT !.pc = "work", !.stage = "work", !.i = 1]
      BY <1>3, <2>3 DEF commit_execution_journal
    <3>2. /\ op' \in OpType /\ op'.pc = "work" /\ op'.kind = op.kind
          /\ op'.who = op.who /\ op'.stage = "work" /\ op'.acct = op.acct
      BY <1>1, <3>1 DEF Typed, OpType, PC
    <3>3. Typed'
      BY <1>1, <2>1, <3>2 DEF Typed
    <3>4. CallInv'
      BY <1>1, <3>2 DEF CallInv
    <3>5. AtWork'
      BY <1>1, <1>3, <2>1, <3>2 DEF AtWork, AtCommit
    <3> QED BY <2>2, <3>2, <3>3, <3>4, <3>5, Arrived DEF Writing
  <2>4. CASE ~ (op.stage = "recover" /\ op.kind # "recover")
    <3>1. op' = Idle
      BY <1>3, <2>4 DEF commit_execution_journal, Release
    <3>2. OpInv' /\ CallInv' /\ op' \in OpType
      BY <3>1, Released
    <3>3. Typed'
      BY <1>1, <2>1, <3>2 DEF Typed
    <3> QED BY <2>2, <3>2, <3>3 DEF SleeveInv
  <2> QED BY <2>3, <2>4
<1> QED BY <1>2, <1>3

-----------------------------------------------------------------------------
(* The work of a call.                                                     *)

\* With no journal waiting, a step that keeps fills and books and says "filled"
\* or "recovery" of the same plans keeps what the files promise.
LEMMA QuietFiles ==
  ASSUME Typed, FileInv, journals = <<>>, journals' = <<>>, acct'.fills = acct.fills,
         UNCHANGED <<archived, cash, lots>>,
         \A p \in Plans : /\ plan'[p] = "filled" <=> plan[p] = "filled"
                          /\ plan'[p] = "recovery" <=> plan[p] = "recovery"
  PROVE  FileInv'
<1>1. Journaled = {} /\ Journaled' = {} /\ DOMAIN journals' = {}
  BY DEF Journaled
<1>2. JournalInv'
  BY <1>1 DEF JournalInv, Unsaved
<1>3. OutcomeTrue'
  BY <1>1 DEF FileInv, OutcomeTrue, AllFills
<1>4. BooksAgree'
  BY <1>1 DEF FileInv, BooksAgree, PlansOf, AllFills
<1> QED BY <1>2, <1>3, <1>4 DEF FileInv

\* Pause, resume and stop.
LEMMA SetStatusKeeps == SleeveInv /\ SetStatus => SleeveInv'
<1> SUFFICES ASSUME SleeveInv, SetStatus PROVE SleeveInv'
  OBVIOUS
<1>1. /\ op.pc = "work" /\ Typed /\ FileInv /\ AtWork /\ CallInv
      /\ acct' = acct /\ cash' = cash /\ lots' = lots /\ plan' = plan
      /\ drafts' = drafts /\ target' = target /\ archived' = archived
      /\ refused' = refused /\ journals' = journals /\ batch' = batch
      /\ op' = Idle
  BY DEF SleeveInv, OpInv, SetStatus, Release
<1>2. status' \in [Sleeves -> {"none", "running", "paused", "stopped"}]
  BY <1>1 DEF SetStatus, Typed
<1>3. FileInv'
  BY <1>1, QuietFiles DEF AtWork
<1>4. OpInv' /\ CallInv' /\ op' \in OpType
  BY <1>1, Released
<1>5. Typed'
  BY <1>1, <1>2, <1>4 DEF Typed
<1> QED BY <1>3, <1>4, <1>5 DEF SleeveInv

\* A plan that did not exist becomes a pending one.
LEMMA CreatePlanKeeps == SleeveInv /\ create_execution_plan => SleeveInv'
<1> SUFFICES ASSUME SleeveInv, create_execution_plan PROVE SleeveInv'
  OBVIOUS
<1>1. /\ op.pc = "work" /\ op.kind = "plan" /\ Typed /\ FileInv /\ AtWork /\ CallInv
      /\ acct' = acct /\ status' = status /\ cash' = cash /\ lots' = lots
      /\ drafts' = drafts /\ journals' = journals /\ batch' = batch /\ op' = Idle
      /\ archived' = archived /\ refused' = refused
  BY DEF SleeveInv, OpInv, create_execution_plan, Release, Working
<1>2. op.who \in Plans /\ plan[op.who] = "none"
  BY <1>1 DEF CallInv
<1>3. /\ plan' \in [Plans -> PlanStatus] /\ target' \in [Plans -> Days]
      /\ \A p \in Plans : plan'[p] = plan[p] \/ (plan[p] = "none" /\ plan'[p] = "pending")
  BY <1>1, <1>2 DEF create_execution_plan, Typed, PlanStatus
<1>4. FileInv'
  BY <1>1, <1>3, QuietFiles DEF AtWork
<1>5. OpInv' /\ CallInv' /\ op' \in OpType
  BY <1>1, Released
<1>6. Typed'
  BY <1>1, <1>3, <1>5 DEF Typed
<1> QED BY <1>4, <1>5, <1>6 DEF SleeveInv

\* Plans whose window closed are missed before the batch begins.
LEMMA MarkMissedKeeps == SleeveInv /\ mark_missed_window => SleeveInv'
<1> SUFFICES ASSUME SleeveInv, mark_missed_window PROVE SleeveInv'
  OBVIOUS
<1>1. /\ op.pc = "work" /\ op.kind = "process"
      /\ Typed /\ FileInv /\ AtWork /\ CallInv
      /\ acct' = acct /\ status' = status /\ cash' = cash /\ lots' = lots
      /\ drafts' = drafts /\ target' = target /\ archived' = archived
      /\ refused' = refused /\ journals' = journals /\ batch' = batch
  BY DEF SleeveInv, OpInv, mark_missed_window, Working
<1>2. CASE \E p \in Plans : Expired(p)
  <2>1. PICK p \in Plans : Expired(p) /\ plan' = [plan EXCEPT ![p] = "missed"] /\ op' = op
    BY <1>2 DEF mark_missed_window
  <2>2. /\ plan' \in [Plans -> PlanStatus]
        /\ \A q \in Plans : \/ plan'[q] = plan[q]
                            \/ plan[q] \in {"pending", "no_price"} /\ plan'[q] = "missed"
    BY <1>1, <2>1 DEF Expired, Typed, PlanStatus
  <2>3. FileInv'
    BY <1>1, <2>2, QuietFiles DEF AtWork
  <2>4. Typed'
    BY <1>1, <2>1, <2>2 DEF Typed
  <2>5. CallInv'
    BY <1>1, <2>1 DEF CallInv
  <2>6. AtWork'
    BY <1>1, <2>1 DEF AtWork
  <2> QED BY <1>1, <2>1, <2>3, <2>4, <2>5, <2>6, Arrived DEF Writing
<1>3. CASE ~ \E p \in Plans : Expired(p)
  <2>1. Go("batch") /\ plan' = plan
    BY <1>3 DEF mark_missed_window
  <2>2. /\ op' \in OpType /\ op'.pc = "batch" /\ op'.kind = op.kind
        /\ op'.who = op.who /\ op'.stage = op.stage /\ op'.acct = op.acct
    BY <1>1, <2>1, Moved DEF Typed, PC
  <2>3. UNCHANGED Kept
    BY <1>1, <2>1 DEF Kept
  <2>4. /\ FileInv' /\ (Unsaved' <=> Unsaved)
        /\ \A n \in Nat : (Settled(n)' <=> Settled(n)) /\ (InMemory(n)' <=> InMemory(n))
    BY <1>1, <2>2, <2>3, FilesStill
  <2>5. Typed'
    BY <1>1, <2>1, <2>2 DEF Typed
  <2>6. CallInv'
    BY <1>1, <2>2 DEF CallInv
  <2>7. AtBatch'
    <3> DEFINE n == Len(journals) + 1
    <3>1. n \in Nat /\ InMemory(n) /\ Settled(n) /\ Unsaved
      BY <1>1, AllAgree, NoJournals DEF AtWork, FileInv, Typed
    <3>2. InMemory(n)' /\ Settled(n)'
      BY <1>1, <2>4, <3>1
    <3> QED BY <1>1, <2>2, <2>4, <3>1, <3>2 DEF AtBatch, AtWork
  <2> QED BY <2>2, <2>4, <2>5, <2>6, <2>7, Arrived DEF Writing
<1> QED BY <1>2, <1>3

\* A new sleeve: its draft, the account with its allocation, the sleeve.
LEMMA CreateSleeveKeeps ==
  SleeveInv /\ (save_pending_sleeve \/ _save_account \/ discard_pending_sleeve
                  \/ finalize_pending_sleeve) => SleeveInv'
<1>1. ASSUME SleeveInv, save_pending_sleeve PROVE SleeveInv'
  <2>1. /\ op.pc = "work" /\ op.kind = "create" /\ Typed /\ FileInv /\ AtWork /\ CallInv
        /\ acct' = acct /\ status' = status /\ cash' = cash /\ lots' = lots
        /\ plan' = plan /\ target' = target /\ journals' = journals /\ batch' = batch
        /\ archived' = archived /\ refused' \subseteq refused
        /\ drafts' = drafts \cup {op.who}
        /\ op' = [op EXCEPT !.pc = "allocate",
                            !.acct.alloc = @ \cup {op.who}, !.acct.rev = @ + 1]
    BY <1>1 DEF SleeveInv, OpInv, save_pending_sleeve, Working
  <2>2. op.who \in Sleeves /\ op.acct = acct /\ journals = <<>> /\ acct \in Account
        /\ op \in OpType
    BY <2>1 DEF CallInv, AtWork, Typed
  <2> DEFINE a == [acct EXCEPT !.alloc = @ \cup {op.who}, !.rev = @ + 1]
  <2>3. a \in Account
    <3>1. acct.alloc \cup {op.who} \in SUBSET Sleeves /\ acct.rev + 1 \in Nat
      BY <2>2 DEF Account
    <3> QED BY <2>2, <3>1 DEF Account
  <2>4. op' = [op EXCEPT !.pc = "allocate", !.acct = a]
    BY <2>1, <2>2 DEF OpType, Account
  <2>5. /\ op' \in OpType /\ op'.pc = "allocate" /\ op'.kind = "create"
        /\ op'.who = op.who /\ op'.acct = a
    <3> HIDE DEF a
    <3> QED BY <2>1, <2>2, <2>3, <2>4 DEF OpType, PC
  <2>6. FileInv'
    BY <2>1, <2>2, QuietFiles
  <2>7. Typed'
    BY <2>1, <2>2, <2>5 DEF Typed
  <2>8. CallInv'
    BY <2>1, <2>2, <2>5 DEF CallInv
  <2>9. AtAllocate'
    BY <2>1, <2>2, <2>5 DEF AtAllocate
  <2> QED BY <2>5, <2>6, <2>7, <2>8, <2>9, Arrived DEF Writing
<1>2. ASSUME SleeveInv, op.pc = "allocate"
      PROVE  /\ Typed /\ FileInv /\ CallInv /\ journals = <<>> /\ op.kind = "create"
             /\ op.who \in Sleeves /\ op.acct \in Account /\ op.acct.fills = acct.fills
  <2>1. Typed /\ FileInv /\ AtAllocate /\ CallInv
    BY <1>2 DEF SleeveInv, OpInv
  <2>2. acct \in Account /\ op.acct \in Account
    BY <2>1 DEF Typed, OpType
  <2> QED BY <2>1, <2>2 DEF AtAllocate, CallInv, Account
<1>3. ASSUME SleeveInv, _save_account PROVE SleeveInv'
  <2>1. /\ op.pc = "allocate" /\ acct' = op.acct /\ Go("finalize")
        /\ status' = status /\ cash' = cash /\ lots' = lots /\ drafts' = drafts
        /\ plan' = plan /\ target' = target /\ archived' = archived
        /\ refused' = refused /\ journals' = journals /\ batch' = batch
    BY <1>3 DEF _save_account
  <2>2. /\ Typed /\ FileInv /\ CallInv /\ journals = <<>> /\ op.kind = "create"
        /\ op.acct \in Account /\ op.acct.fills = acct.fills
    BY <1>2, <1>3, <2>1
  <2>3. /\ op' \in OpType /\ op'.pc = "finalize" /\ op'.kind = op.kind
        /\ op'.who = op.who
    BY <2>1, <2>2, Moved DEF Typed, PC
  <2>4. FileInv'
    BY <2>1, <2>2, QuietFiles
  <2>5. Typed'
    BY <2>1, <2>2, <2>3 DEF Typed
  <2>6. CallInv'
    BY <2>1, <2>2, <2>3 DEF CallInv
  <2>7. AtFinalize'
    BY <2>1, <2>2, <2>3 DEF AtFinalize
  <2> QED BY <2>3, <2>4, <2>5, <2>6, <2>7, Arrived DEF Writing
<1>4. ASSUME SleeveInv, discard_pending_sleeve PROVE SleeveInv'
  <2>1. /\ op.pc = "allocate" /\ acct' \in {acct, op.acct} /\ op' = Idle
        /\ status' = status /\ cash' = cash /\ lots' = lots /\ drafts' \subseteq drafts
        /\ archived' = archived /\ refused' = refused \cup {op.who}
        /\ plan' = plan /\ target' = target /\ journals' = journals /\ batch' = batch
    BY <1>4 DEF discard_pending_sleeve, Release
  <2>2. /\ Typed /\ FileInv /\ journals = <<>> /\ op.who \in Sleeves
        /\ op.acct \in Account /\ op.acct.fills = acct.fills
    BY <1>2, <1>4, <2>1
  <2>3. FileInv'
    BY <2>1, <2>2, QuietFiles
  <2>4. OpInv' /\ CallInv' /\ op' \in OpType
    BY <2>1, Released
  <2>5. Typed'
    BY <2>1, <2>2, <2>4 DEF Typed
  <2> QED BY <2>3, <2>4, <2>5 DEF SleeveInv
<1>5. ASSUME SleeveInv, finalize_pending_sleeve PROVE SleeveInv'
  <2>1. /\ op.pc = "finalize" /\ op' = Idle
        /\ Typed /\ FileInv /\ AtFinalize /\ CallInv
        /\ status' = [status EXCEPT ![op.who] = "running"]
        /\ acct' = acct /\ cash' = cash /\ lots' = lots /\ drafts' \subseteq drafts
        /\ plan' = plan /\ target' = target /\ archived' = archived
        /\ refused' = refused /\ journals' = journals /\ batch' = batch
    BY <1>5 DEF SleeveInv, OpInv, finalize_pending_sleeve, Release
  <2>2. status' \in [Sleeves -> {"none", "running", "paused", "stopped"}]
    BY <2>1 DEF Typed
  <2>3. FileInv'
    BY <2>1, QuietFiles DEF AtFinalize
  <2>4. OpInv' /\ CallInv' /\ op' \in OpType
    BY <2>1, Released
  <2>5. Typed'
    BY <2>1, <2>2, <2>4 DEF Typed
  <2> QED BY <2>3, <2>4, <2>5 DEF SleeveInv
<1> QED BY <1>1, <1>3, <1>4, <1>5

\* In the batch all waiting journals are filled ones, so that a pending plan is
\* none of theirs and its fill is nowhere.
LEMMA PendingIsFree ==
  ASSUME Typed, FileInv, AtBatch, NEW p \in Plans, plan[p] = "pending"
  PROVE  /\ p \notin Journaled /\ p \notin acct.fills /\ p \notin op.acct.fills
         /\ op.acct = WithFills(acct, Journaled) /\ op.acct.fills = acct.fills \cup Journaled
         /\ \A k \in DOMAIN journals : plan[journals[k].plan] = "filled"
         /\ \A s \in Sleeves : Agree(s, op.acct)
<1>1. \A k \in DOMAIN journals : k < Len(journals) + 1 /\ ~ (k >= Len(journals) + 1)
  BY JournalAt
<1>2. \A k \in DOMAIN journals : plan[journals[k].plan] = "filled"
  <2> SUFFICES ASSUME NEW k \in DOMAIN journals PROVE plan[journals[k].plan] = "filled"
    OBVIOUS
  <2>1. ~Overtaken
    BY OneSituation DEF AtBatch, Typed
  <2> QED BY <1>1, <2>1 DEF AtBatch, Settled
<1>3. p \notin Journaled /\ p \notin acct.fills
  BY <1>2 DEF Journaled, FileInv, OutcomeTrue
<1>4. op.acct = WithFills(acct, Journaled)
  BY Positions DEF AtBatch, InMemory
<1>5. op.acct.fills = acct.fills \cup Journaled
  BY <1>4, WithFields, Positions DEF Typed
<1> QED BY <1>1, <1>2, <1>3, <1>4, <1>5 DEF AtBatch, Settled

\* A plan of the batch is passed over or gets an outcome without a fill.
LEMMA DecideKeeps ==
  ASSUME SleeveInv, op.pc = "batch", NEW p \in Plans, Done(p),
         UNCHANGED <<Past, acct, status, cash, lots, drafts, target, journals, batch>>,
         plan' = plan \/ (/\ plan[p] = "pending"
                          /\ \E outcome \in {"blocked", "no_price", "skipped"} :
                               plan' = [plan EXCEPT ![p] = outcome])
  PROVE  SleeveInv'
<1>1. /\ Typed /\ FileInv /\ AtBatch /\ CallInv
      /\ acct' = acct /\ status' = status /\ cash' = cash /\ lots' = lots
      /\ drafts' = drafts /\ target' = target /\ archived' = archived
      /\ refused' = refused /\ journals' = journals /\ batch' = batch
  BY DEF SleeveInv, OpInv
<1>2. /\ op' \in OpType /\ op'.pc = "batch" /\ op'.kind = op.kind
      /\ op'.who = op.who /\ op'.stage = op.stage /\ op'.acct = op.acct
  <2>1. op \in OpType /\ op' = [op EXCEPT !.todo = [op.todo EXCEPT !.items = @ \ {p}]]
    BY <1>1 DEF Done, Typed
  <2>2. [op.todo EXCEPT !.items = @ \ {p}] \in BatchType
    BY <2>1 DEF OpType, BatchType
  <2> DEFINE b == [op.todo EXCEPT !.items = @ \ {p}]
  <2> HIDE DEF b
  <2>3. b \in BatchType /\ op' = [op EXCEPT !.todo = b]
    BY <2>1, <2>2 DEF b
  <2> QED BY <2>1, <2>3 DEF OpType
<1>3. /\ plan' \in [Plans -> PlanStatus]
      /\ \A q \in Plans : \/ plan'[q] = plan[q]
                          \/ /\ plan[q] = "pending" /\ q \notin Journaled
                             /\ plan'[q] \in {"blocked", "no_price", "skipped"}
  <2>1. plan \in [Plans -> PlanStatus]
    BY <1>1 DEF Typed
  <2>2. plan[p] = "pending" => p \notin Journaled
    BY <1>1, PendingIsFree
  <2> QED BY <2>1, <2>2 DEF PlanStatus
<1>4. /\ \A q \in Plans : /\ plan'[q] = "recovery" <=> plan[q] = "recovery"
                          /\ plan'[q] = "filled" <=> plan[q] = "filled"
      /\ \A q \in Journaled : plan'[q] = plan[q]
  <2>1. Journaled \in SUBSET Plans
    BY <1>1, Positions
  <2> QED BY <1>3, <2>1
<1>5. \A k \in DOMAIN journals : journals[k].plan \in Journaled /\ journals[k].plan \in Plans
  BY <1>1, JournalAt
<1>6. /\ \A s : GivenUp(s)' <=> GivenUp(s)
      /\ Journaled' = Journaled
  BY <1>1, <1>4 DEF GivenUp, Journaled, PlansOf
<1>7. /\ Unsaved' <=> Unsaved
      /\ Saved' <=> Saved
      /\ Overtaken' <=> Overtaken
  <2>1. \A k : PlansTo(k)' = PlansTo(k) /\ PlansFrom(k)' = PlansFrom(k)
    BY <1>1 DEF PlansTo, PlansFrom
  <2> QED BY <1>1, <1>4, <1>5, <2>1 DEF Unsaved, Saved, Overtaken
<1>8. FileInv'
  <2>1. \A k \in DOMAIN journals : Entry(k)'
    <3> SUFFICES ASSUME NEW k \in DOMAIN journals PROVE Entry(k)'
      OBVIOUS
    <3>1. Entry(k) /\ plan'[journals[k].plan] = plan[journals[k].plan]
      BY <1>1, <1>4, <1>5 DEF FileInv, JournalInv
    <3>2. GivenUp(SleeveOf[journals[k].plan])' <=> GivenUp(SleeveOf[journals[k].plan])
      BY <1>1, <1>6
    <3> QED BY <1>1, <1>7, <3>1, <3>2 DEF Entry
  <2>2. JournalInv'
    BY <1>1, <1>7, <2>1 DEF FileInv, JournalInv
  <2>3. OutcomeTrue'
    BY <1>1, <1>4, <1>6 DEF FileInv, OutcomeTrue, AllFills
  <2>4. BooksAgree'
    BY <1>1, <1>4, <1>6 DEF FileInv, BooksAgree, PlansOf, AllFills
  <2> QED BY <2>2, <2>3, <2>4 DEF FileInv
<1>9. Typed'
  BY <1>1, <1>2, <1>3 DEF Typed
<1>10. CallInv'
  <2>1. \A q \in Plans : plan[q] = "none" => plan'[q] = "none"
    BY <1>3
  <2> QED BY <1>1, <1>2, <2>1 DEF CallInv
<1>11. AtBatch'
  <2> DEFINE n == Len(journals) + 1
  <2>1. InMemory(n)'
    BY <1>1, <1>2, <1>7 DEF AtBatch, InMemory, PlansTo
  <2>2. Settled(n)'
    BY <1>1, <1>2, <1>4, <1>5, <1>6, <1>7 DEF AtBatch, Settled, Agree
  <2> QED BY <1>1, <1>2, <1>7, <2>1, <2>2 DEF AtBatch
<1> QED BY <1>2, <1>8, <1>9, <1>10, <1>11, Arrived DEF Writing

\* A fill: its journal is the last one, and starts where the one before it ended.
LEMMA ExecuteKeeps ==
  ASSUME SleeveInv, op.pc = "batch", NEW p \in Plans, plan[p] = "pending",
         status[SleeveOf[p]] = "running", save_execution_journal_pending(p)
  PROVE  SleeveInv'
<1>0. PICK n \in Nat : n = Len(journals) + 1
  BY DEF SleeveInv, Typed
<1> DEFINE s == SleeveOf[p]
           after == WithFills(op.acct, {p})
           j == [plan |-> p, before |-> op.acct, after |-> after, status |-> status[s],
                 cash |-> cash[s] \cup {p}, lots |-> lots[s] \cup {p}]
<1>1. /\ Typed /\ FileInv /\ AtBatch /\ CallInv /\ s \in Sleeves /\ p \in PlansOf(s)
      /\ acct' = acct /\ status' = status /\ cash' = cash /\ lots' = lots
      /\ drafts' = drafts /\ plan' = plan /\ target' = target /\ archived' = archived
      /\ refused' = refused /\ batch' = batch
      /\ journals' = Append(journals, j)
      /\ op' = [op EXCEPT !.pc = "write_sleeve", !.acct = after, !.i = n,
                          !.todo.items = @ \ {p}]
  BY <1>0, SleeveConstants
  DEF SleeveInv, OpInv, save_execution_journal_pending, PlansOf
<1>2. /\ p \notin Journaled /\ p \notin acct.fills /\ p \notin op.acct.fills
      /\ op.acct = WithFills(acct, Journaled) /\ op.acct.fills = acct.fills \cup Journaled
      /\ \A k \in DOMAIN journals : plan[journals[k].plan] = "filled"
      /\ \A t \in Sleeves : Agree(t, op.acct)
  BY <1>1, PendingIsFree
<1>3. /\ after \in Account /\ after.fills = op.acct.fills \cup {p}
      /\ op.acct \in Account /\ acct \in Account /\ Journaled \in SUBSET Plans
      /\ n \in Nat /\ PlansTo(n) = Journaled
  <2>1. op.acct \in Account
    BY <1>1 DEF Typed, OpType
  <2>2. {p} \in SUBSET Plans
    OBVIOUS
  <2>3. after \in Account /\ after.fills = op.acct.fills \cup {p}
    BY <2>1, <2>2, WithFields
  <2> HIDE DEF after
  <2> QED BY <1>0, <1>1, <2>1, <2>3, Positions DEF Typed
<1>4. j \in Journal
  <2>1. status[s] \in {"running", "paused", "stopped"}
        /\ cash[s] \cup {p} \in SUBSET Plans /\ lots[s] \cup {p} \in SUBSET Plans
    BY <1>1 DEF Typed
  <2> HIDE DEF after
  <2> QED BY <1>3, <2>1 DEF Journal
<1>5. /\ j.plan = p /\ j.before = op.acct /\ j.after = after /\ j.status = "running"
      /\ j.cash = cash[s] \cup {p} /\ j.lots = lots[s] \cup {p}
  OBVIOUS
<1> HIDE DEF j, after
<1>6. /\ journals' \in Seq(Journal) /\ Len(journals') = n
      /\ DOMAIN journals = 1..Len(journals) /\ DOMAIN journals' = DOMAIN journals \cup {n}
      /\ \A k \in DOMAIN journals : journals'[k] = journals[k] /\ k < n
      /\ journals'[n] = j /\ n \notin DOMAIN journals
  BY <1>0, <1>1, <1>4 DEF Typed
<1>7. /\ op' \in OpType /\ op'.pc = "write_sleeve" /\ op'.kind = op.kind
      /\ op'.who = op.who /\ op'.stage = op.stage /\ op'.acct = after /\ op'.i = n
  <2>1. op \in OpType /\ op' = [op EXCEPT !.pc = "write_sleeve", !.acct = after, !.i = n,
                                  !.todo = [op.todo EXCEPT !.items = @ \ {p}]]
    BY <1>1 DEF Typed
  <2> DEFINE b == [op.todo EXCEPT !.items = @ \ {p}]
  <2>2. b \in BatchType
    BY <2>1 DEF OpType, BatchType
  <2> HIDE DEF b
  <2>3. op' = [op EXCEPT !.pc = "write_sleeve", !.acct = after, !.i = n, !.todo = b]
    BY <2>1 DEF b
  <2> QED BY <1>3, <2>1, <2>2, <2>3 DEF OpType, PC
<1>8. Journaled' = Journaled \cup {p}
  BY <1>5, <1>6 DEF Journaled
<1>9. \A k \in DOMAIN journals' : k <= n => PlansTo(k)' = PlansTo(k)
  <2> SUFFICES ASSUME NEW k \in DOMAIN journals', k <= n PROVE PlansTo(k)' = PlansTo(k)
    OBVIOUS
  <2>1. k \in Nat
    BY <1>3, <1>6
  <2>2. {m \in DOMAIN journals' : m < k} = {m \in DOMAIN journals : m < k}
    BY <1>3, <1>6, <2>1
  <2> QED BY <1>6, <2>2 DEF PlansTo
<1>10. PlansTo(n + 1)' = Journaled \cup {p}
  <2>1. \A m \in DOMAIN journals' : m < n + 1
    BY <1>3, <1>6
  <2> QED BY <1>8, <2>1 DEF PlansTo, Journaled
<1>11. Unsaved'
  <2> SUFFICES ASSUME NEW k \in DOMAIN journals'
               PROVE  /\ journals'[k].before = WithFills(acct, PlansTo(k)')
                      /\ journals'[k].plan \notin acct.fills
                      /\ plan[journals'[k].plan] # "recovery"
    BY <1>1 DEF Unsaved
  <2>1. CASE k = n
    <3>1. PlansTo(k)' = Journaled
      BY <1>3, <1>6, <1>9, <2>1
    <3> QED BY <1>2, <1>5, <1>6, <2>1, <3>1
  <2>2. CASE k # n
    <3>1. k \in DOMAIN journals /\ k <= n
      BY <1>3, <1>6, <2>2
    <3>2. /\ journals[k].before = WithFills(acct, PlansTo(k))
          /\ journals[k].plan \notin acct.fills
          /\ plan[journals[k].plan] # "recovery"
      BY <1>1, <3>1 DEF AtBatch, Unsaved
    <3> QED BY <1>6, <1>9, <3>1, <3>2
  <2> QED BY <2>1, <2>2
<1>12. Typed'
  BY <1>1, <1>6, <1>7 DEF Typed
<1>13. ~Overtaken'
  <2>1. n \in DOMAIN journals' /\ j.before.rev = acct.rev /\ acct.rev \in Nat
    BY <1>2, <1>3, <1>5, <1>6, WithFields DEF Account
  <2> QED BY <1>1, <1>6, <2>1 DEF Overtaken
<1>14. JournalInv'
  <2>1. \A k \in DOMAIN journals' : Entry(k)'
    <3> SUFFICES ASSUME NEW k \in DOMAIN journals' PROVE Entry(k)'
      OBVIOUS
    <3>1. \A t : GivenUp(t)' <=> GivenUp(t)
      BY <1>1 DEF GivenUp
    <3>2. CASE k = n
      <4>1. j.after = WithFills(j.before, {j.plan}) /\ j.plan \notin j.before.fills
        BY <1>2, <1>5 DEF after
      <4>2. \/ GivenUp(s)
            \/ j.cash = (j.after.fills \cup archived) \cap PlansOf(s) /\ j.lots = j.cash
        <5>1. \/ GivenUp(s)
              \/ cash[s] = (op.acct.fills \cup archived) \cap PlansOf(s) /\ lots[s] = cash[s]
          BY <1>1, <1>2 DEF Agree
        <5> QED BY <1>1, <1>3, <1>5, <5>1
      <4>3. journals'[k] = j /\ SleeveOf[j.plan] = s /\ status'[s] = "running"
            /\ plan'[j.plan] = "pending" /\ j.status = "running"
        BY <1>1, <1>5, <1>6, <3>2
      <4>4. GivenUp(s)' <=> GivenUp(s)
        BY <3>1
      <4>5. j.before.rev = acct.rev /\ acct.rev \in Nat
        BY <1>2, <1>3, <1>5, WithFields DEF Account
      <4>6. acct' = acct /\ archived' = archived /\ status' = status /\ plan' = plan
        BY <1>1
      <4>7. GivenUp(SleeveOf[journals[k].plan])' <=> GivenUp(s)
        <5>1. PICK t : t = s
          OBVIOUS
        <5>2. SleeveOf[journals[k].plan]' = t
          BY <4>3, <5>1
        <5>3. GivenUp(t)' <=> GivenUp(t)
          BY <3>1
        <5> QED BY <5>1, <5>2, <5>3
      <4>8. j.before.rev <= acct.rev /\ plan[j.plan] = "pending" /\ status[s] = "running"
        BY <4>3, <4>5, <4>6
      <4> HIDE DEF j, s
      <4> QED BY <4>1, <4>2, <4>3, <4>6, <4>7, <4>8 DEF Entry
    <3>3. CASE k # n
      <4>1. k \in DOMAIN journals /\ journals'[k] = journals[k]
        BY <1>6, <3>3
      <4>2. Entry(k) /\ ~Overtaken
        BY <1>1, <4>1, OneSituation DEF FileInv, JournalInv, AtBatch, Typed
      <4>3. GivenUp(SleeveOf[journals[k].plan])' <=> GivenUp(SleeveOf[journals[k].plan])
        <5>1. PICK t : t = SleeveOf[journals[k].plan]
          OBVIOUS
        <5>2. SleeveOf[journals[k].plan]' = t
          BY <4>1, <5>1
        <5>3. GivenUp(t)' <=> GivenUp(t)
          BY <3>1
        <5> QED BY <5>1, <5>2, <5>3
      <4> QED BY <1>1, <4>1, <4>2, <4>3 DEF Entry
    <3> QED BY <3>2, <3>3
  <2>2. \A i, k \in DOMAIN journals' : journals'[i].plan = journals'[k].plan => i = k
    <3>1. \A i, k \in DOMAIN journals : journals[i].plan = journals[k].plan => i = k
      BY <1>1 DEF FileInv, JournalInv
    <3>2. \A k \in DOMAIN journals : journals'[k].plan # p
      BY <1>2, <1>6 DEF Journaled
    <3> QED BY <1>5, <1>6, <3>1, <3>2
  <2> QED BY <1>11, <2>1, <2>2 DEF JournalInv
<1>15. FileInv'
  <2>1. OutcomeTrue'
    BY <1>1, <1>8 DEF FileInv, OutcomeTrue, AllFills
  <2>2. BooksAgree'
    BY <1>1, <1>8 DEF FileInv, BooksAgree, AllFills
  <2> QED BY <1>14, <2>1, <2>2 DEF FileInv
<1>16. CallInv'
  BY <1>1, <1>7 DEF CallInv
<1>17. InMemory(n + 1)'
  <2>1. after = WithFills(acct, Journaled \cup {p})
    BY <1>2, <1>3, WithWith DEF after
  <2> QED BY <1>1, <1>7, <1>10, <1>11, <2>1 DEF InMemory
<1>18. Settled(n)'
  <2>1. \A k \in DOMAIN journals' : k < n => plan[journals'[k].plan] = "filled"
    BY <1>2, <1>3, <1>6
  <2>2. ASSUME NEW t \in Sleeves,
               \A k \in DOMAIN journals' : k >= n => SleeveOf[journals'[k].plan] # t
        PROVE  Agree(t, after)
    <3>1. t # s
      BY <1>3, <1>5, <1>6, <2>2
    <3>2. after.fills \cap PlansOf(t) = op.acct.fills \cap PlansOf(t)
      BY <1>3, <3>1 DEF PlansOf
    <3> QED BY <1>2, <3>2 DEF Agree
  <2>3. \A t \in Sleeves :
          (\A k \in DOMAIN journals' : k >= n => SleeveOf[journals'[k].plan] # t)
            => Agree(t, op.acct)'
    BY <1>1, <1>7, <2>2 DEF Agree, GivenUp
  <2> QED BY <1>1, <1>3, <1>13, <2>1, <2>3 DEF Settled
<1>19. AtWriting'
  BY <1>0, <1>1, <1>3, <1>6, <1>7, <1>11, <1>13, <1>17, <1>18 DEF AtWriting, AtBatch
<1> QED BY <1>7, <1>12, <1>15, <1>16, <1>19, Arrived DEF Writing

\* The batch is worked off one plan after another.
LEMMA BatchKeeps ==
  SleeveInv /\ (EndBatch \/ \E p \in Plans : commit_execution(p)) => SleeveInv'
<1>1. ASSUME SleeveInv, EndBatch PROVE SleeveInv'
  <2>1. /\ op.pc = "batch" /\ Typed /\ FileInv /\ AtBatch /\ CallInv /\ Go("save")
        /\ UNCHANGED Kept /\ acct' = acct /\ status' = status /\ cash' = cash
        /\ lots' = lots /\ plan' = plan /\ journals' = journals
        /\ drafts' = drafts /\ target' = target /\ archived' = archived
        /\ refused' = refused /\ batch' = batch
    BY <1>1 DEF SleeveInv, OpInv, EndBatch, Files, Kept
  <2>2. /\ op' \in OpType /\ op'.pc = "save" /\ op'.kind = op.kind
        /\ op'.who = op.who /\ op'.acct = op.acct
    BY <2>1, Moved DEF Typed, PC
  <2>3. /\ FileInv'
        /\ \A n \in Nat : (Settled(n)' <=> Settled(n)) /\ (InMemory(n)' <=> InMemory(n))
    BY <2>1, <2>2, FilesStill
  <2>4. Typed'
    BY <2>1, <2>2 DEF Typed
  <2>5. CallInv'
    BY <2>1, <2>2 DEF CallInv
  <2>6. AtSave'
    <3> DEFINE n == Len(journals) + 1
    <3>1. n \in Nat /\ InMemory(n) /\ Settled(n)
      BY <2>1 DEF AtBatch, Typed
    <3>2. InMemory(n)' /\ Settled(n)'
      BY <2>1, <2>3, <3>1
    <3> QED BY <3>2 DEF AtSave
  <2> QED BY <2>2, <2>3, <2>4, <2>5, <2>6, Arrived DEF Writing
<1>2. ASSUME SleeveInv, NEW p \in Plans, commit_execution(p) PROVE SleeveInv'
  <2>1. op.pc = "batch"
    BY <1>2 DEF commit_execution
  <2>2. CASE plan[p] # "pending"
    BY <1>2, <2>1, <2>2, DecideKeeps DEF commit_execution, Files
  <2>3. CASE plan[p] = "pending"
    <3>1. CASE \E reason \in BlockedReasons(p) : Decide(p, reason)
      <4>1. PICK reason \in BlockedReasons(p) : Decide(p, reason)
        BY <3>1
      <4>2. reason \in {"blocked", "no_price"}
        BY <4>1 DEF BlockedReasons
      <4> QED BY <1>2, <2>1, <2>3, <4>1, <4>2, DecideKeeps DEF Decide
    <3>2. CASE Decide(p, "skipped")
      BY <1>2, <2>1, <2>3, <3>2, DecideKeeps DEF Decide
    <3>3. CASE Executable(p) /\ save_execution_journal_pending(p)
      BY <1>2, <2>1, <2>3, <3>3, ExecuteKeeps DEF Executable
    <3> QED BY <1>2, <2>3, <3>1, <3>2, <3>3 DEF commit_execution
  <2> QED BY <2>2, <2>3
<1> QED BY <1>1, <1>2

\* Runs take the locks, and calls take them, with targets their guards let through.
LEMMA OutsideStepsKeep ==
  SleeveInv /\ (DayTick \/ (\E r \in Runners : BeginProcess(r) \/ \E due \in Days : Prepare(r, due))
                  \/ recover_pending_once
                  \/ (\E s \in Sleeves : BeginCreate(s) \/ \E kind \in Kinds : BeginStatus(kind, s))
                  \/ \E p \in Plans : BeginPlan(p)) => SleeveInv'
<1>1. NoBatch \in BatchType
  BY DEF NoBatch, BatchType
<1>2. ASSUME SleeveInv, DayTick PROVE SleeveInv'
  <2>1. UNCHANGED <<Files, op>> /\ batch' \in [Runners -> BatchType]
    BY <1>2 DEF DayTick, SleeveInv, Typed
  <2> QED BY <1>2, <2>1, OutsideKeeps
<1>3. ASSUME SleeveInv, NEW r \in Runners, BeginProcess(r) PROVE SleeveInv'
  <2>1. batch \in [Runners -> BatchType]
    BY <1>3 DEF SleeveInv, Typed
  <2>2. batch[r] \in BatchType /\ batch' \in [Runners -> BatchType]
    BY <1>1, <1>3, <2>1 DEF BeginProcess
  <2>3. Begin("process", r, batch[r]) /\ "process" \in Kinds
    BY <1>3 DEF BeginProcess, Kinds
  <2> QED BY <1>3, <2>2, <2>3, BeginKeeps
<1>4. ASSUME SleeveInv, NEW r \in Runners, NEW due \in Days, Prepare(r, due) PROVE SleeveInv'
  <2> DEFINE items == {p \in Plans : plan[p] = "pending" /\ target[p] = due}
             bad == {p \in items : status[SleeveOf[p]] # "running"}
  <2>1. PICK unpriced \in SUBSET (items \ bad) :
          batch' = [batch EXCEPT ![r] = [due |-> due, items |-> items, bad |-> bad,
                                         unpriced |-> unpriced]]
    BY <1>4 DEF Prepare
  <2>2. [due |-> due, items |-> items, bad |-> bad, unpriced |-> unpriced] \in BatchType
    BY SleeveConstants DEF BatchType, Days
  <2>3. UNCHANGED <<Files, op>> /\ batch' \in [Runners -> BatchType]
    <3> HIDE DEF items, bad
    <3> QED BY <1>4, <2>1, <2>2 DEF Prepare, SleeveInv, Typed
  <2> QED BY <1>4, <2>3, OutsideKeeps
<1>5. ASSUME SleeveInv, recover_pending_once PROVE SleeveInv'
  <2>1. /\ Begin("recover", Nobody, NoBatch) /\ "recover" \in Kinds
        /\ batch' \in [Runners -> BatchType]
    BY <1>5 DEF recover_pending_once, SleeveInv, Typed, Kinds
  <2> QED BY <1>1, <1>5, <2>1, BeginKeeps
<1>6. ASSUME SleeveInv, NEW s \in Sleeves, BeginCreate(s) PROVE SleeveInv'
  <2>1. /\ Begin("create", s, NoBatch) /\ "create" \in Kinds
        /\ status[s] = "none" /\ s \notin drafts /\ s \notin acct.alloc
        /\ batch' \in [Runners -> BatchType]
    BY <1>6 DEF BeginCreate, SleeveInv, Typed, Kinds
  <2> QED BY <1>1, <1>6, <2>1, BeginKeeps
<1>7. ASSUME SleeveInv, NEW s \in Sleeves, NEW kind \in Kinds, BeginStatus(kind, s)
      PROVE  SleeveInv'
  <2>1. /\ Begin(kind, s, NoBatch) /\ kind \in {"pause", "resume", "stop"}
        /\ batch' \in [Runners -> BatchType]
    BY <1>7 DEF BeginStatus, SleeveInv, Typed
  <2> QED BY <1>1, <1>7, <2>1, BeginKeeps
<1>8. ASSUME SleeveInv, NEW p \in Plans, BeginPlan(p) PROVE SleeveInv'
  <2>1. /\ Begin("plan", p, NoBatch) /\ "plan" \in Kinds /\ plan[p] = "none"
        /\ batch' \in [Runners -> BatchType]
    BY <1>8 DEF BeginPlan, SleeveInv, Typed, Kinds
  <2> QED BY <1>1, <1>8, <2>1, BeginKeeps
<1> QED BY <1>2, <1>3, <1>4, <1>5, <1>6, <1>7, <1>8

\* Every step keeps the invariant.
LEMMA SleeveInvNext == SleeveInv /\ [Next]_vars => SleeveInv'
<1> SUFFICES ASSUME SleeveInv, [Next]_vars PROVE SleeveInv'
  OBVIOUS
<1>1. CASE Next
  <2>1. CASE LockHolder
    BY <2>1, ReconcileDraftsKeeps, ReconcileJournalsKeeps, SaveSleeveKeeps,
       ReplaceExecutionKeeps, SaveAccountKeeps, CommitKeeps, SetStatusKeeps,
       CreatePlanKeeps, CreateSleeveKeeps, MarkMissedKeeps, BatchKeeps DEF LockHolder
  <2>2. CASE ~LockHolder
    BY <1>1, <2>2, AccountRouteKeeps, OutsideStepsKeep, AbortKeeps, CreateSleeveKeeps
    DEF Next
  <2> QED BY <2>1, <2>2
<1>2. CASE UNCHANGED vars
  <2>1. UNCHANGED <<Files, op>> /\ batch' \in [Runners -> BatchType]
    BY <1>2 DEF vars, Files, SleeveInv, Typed
  <2> QED BY <2>1, OutsideKeeps
<1> QED BY <1>1, <1>2

-----------------------------------------------------------------------------
(* What the files promise.                                                 *)

\* The inductive invariant holds in every reachable state.
THEOREM SleeveInvariant == Spec => []SleeveInv
<1>1. Init => SleeveInv
  BY SleeveInvInit
<1>2. SleeveInv /\ [Next]_vars => SleeveInv'
  BY SleeveInvNext
<1> QED BY <1>1, <1>2, PTL DEF Spec

\* Files and the lock holder keep their types.
THEOREM SleevesTyped == Spec => []TypeOK
<1>1. SleeveInv => TypeOK
  BY SleeveInvImplies
<1> QED BY <1>1, SleeveInvariant, PTL

\* Whatever crashes, however often recovery runs and whenever the account is reset,
\* the cash and the lots of a sleeve contain exactly the fills that the account or
\* one it took the place of has for it, unless a journal waits or a plan was given
\* up as recovery_required.
THEOREM SleeveBooksAgree == Spec => []BooksAgree
<1>1. SleeveInv => BooksAgree
  BY SleeveInvImplies
<1> QED BY <1>1, SleeveInvariant, PTL

\* A plan that no journal waits for and that says "filled" has its fill in the
\* account or in an archived one; one with a fill in the account says "filled", one
\* with a fill in an archived account "filled" or "recovery_required".
THEOREM OutcomesAreTrue == Spec => []OutcomeTrue
<1>1. SleeveInv => OutcomeTrue
  BY SleeveInvImplies
<1> QED BY <1>1, SleeveInvariant, PTL

\* No plan is executed on an account that has its fill already.
THEOREM PlansFillOnce == Spec => []FilledOnce
<1>1. SleeveInv => FilledOnce
  BY SleeveInvImplies
<1> QED BY <1>1, SleeveInvariant, PTL

\* What a step may do to decisions.
StaysDecided ==
  /\ \A s \in Sleeves : status[s] = "stopped" => status'[s] = "stopped"
  /\ \A p \in Plans :
       /\ plan[p] \in {"missed", "skipped", "blocked", "recovery"} => plan'[p] = plan[p]
       /\ plan[p] = "no_price" => plan'[p] \in {"no_price", "missed"}

\* The plan and the sleeve of a waiting journal are undecided, so that settling it
\* reverses nothing.
LEMMA DecidedStep == SleeveInv /\ [Next]_vars => StaysDecided
<1> SUFFICES ASSUME SleeveInv, [Next]_vars PROVE StaysDecided
  OBVIOUS
<1>1. /\ Typed /\ FileInv /\ OpInv /\ CallInv
  BY DEF SleeveInv
<1>2. ASSUME status' = status, plan' = plan PROVE StaysDecided
  BY <1>2 DEF StaysDecided
<1>3. CASE reconcile_pending_sleeves
  <2>1. \A s \in Sleeves : status'[s] = status[s] \/ status[s] = "none"
    BY <1>1, <1>3 DEF reconcile_pending_sleeves, Typed
  <2> QED BY <1>3, <2>1 DEF reconcile_pending_sleeves, StaysDecided
<1>4. CASE reconcile_execution_journals
  <2>1. CASE plan' = plan
    BY <1>2, <1>4, <2>1 DEF reconcile_execution_journals
  <2>2. CASE plan' # plan
    <3>1. PICK i \in DOMAIN journals : plan' = [plan EXCEPT ![journals[i].plan] = "recovery"]
      BY <1>1, <1>4, <2>2 DEF reconcile_execution_journals, OpInv, AtJournals, Typed
    <3>2. plan[journals[i].plan] \in {"pending", "filled", "recovery"}
      BY <1>1 DEF FileInv, JournalInv, Entry
    <3> QED BY <1>1, <1>4, <3>1, <3>2 DEF reconcile_execution_journals, StaysDecided, Typed
  <2> QED BY <2>1, <2>2
<1>5. CASE save_sleeve
  <2>1. PICK i \in DOMAIN journals :
          status' = [status EXCEPT ![SleeveOf[journals[i].plan]] = journals[i].status]
    BY <1>1, <1>5 DEF save_sleeve, OpInv, AtWriting, Writing
  <2>2. journals[i].status = "running" /\ status[SleeveOf[journals[i].plan]] = "running"
    BY <1>1 DEF FileInv, JournalInv, Entry
  <2> QED BY <1>1, <1>5, <2>1, <2>2 DEF save_sleeve, StaysDecided, Typed
<1>6. CASE _replace_execution
  <2>1. PICK i \in DOMAIN journals :
          ~Overtaken /\ plan' = [plan EXCEPT ![journals[i].plan] = "filled"]
    BY <1>1, <1>6 DEF _replace_execution, OpInv, AtWriting, Writing
  <2>2. plan[journals[i].plan] \in {"pending", "filled"}
    BY <1>1, <2>1 DEF FileInv, JournalInv, Entry, Unsaved, Saved
  <2> QED BY <1>1, <1>6, <2>1, <2>2 DEF _replace_execution, StaysDecided, Typed
<1>7. CASE SetStatus
  <2>1. \A s \in Sleeves : status[s] = "stopped" => status'[s] = "stopped"
    BY <1>1, <1>7 DEF SetStatus, Typed
  <2> QED BY <1>7, <2>1 DEF SetStatus, StaysDecided
<1>8. CASE create_execution_plan
  <2>1. \A p \in Plans : plan'[p] = plan[p] \/ plan[p] = "none"
    BY <1>1, <1>8 DEF create_execution_plan, Typed, CallInv, Working
  <2> QED BY <1>8, <2>1 DEF create_execution_plan, StaysDecided
<1>9. CASE finalize_pending_sleeve
  <2>1. \A s \in Sleeves : status'[s] = status[s] \/ status[s] = "none"
    BY <1>1, <1>9 DEF finalize_pending_sleeve, Typed, OpInv, AtFinalize, CallInv
  <2> QED BY <1>9, <2>1 DEF finalize_pending_sleeve, StaysDecided
<1>10. CASE mark_missed_window
  <2>1. \A p \in Plans : \/ plan'[p] = plan[p]
                         \/ plan[p] \in {"pending", "no_price"} /\ plan'[p] = "missed"
    BY <1>1, <1>10 DEF mark_missed_window, Typed, Expired
  <2> QED BY <1>10, <2>1 DEF mark_missed_window, StaysDecided
<1>11. ASSUME NEW p \in Plans, commit_execution(p) PROVE StaysDecided
  <2>1. CASE plan' = plan
    BY <1>2, <1>11, <2>1
    DEF commit_execution, Decide, save_execution_journal_pending, Files
  <2>2. CASE plan' # plan
    <3>1. plan[p] = "pending" /\ \E outcome : Decide(p, outcome)
      BY <1>11, <2>2 DEF commit_execution, save_execution_journal_pending, Files
    <3> QED BY <1>1, <3>1 DEF Decide, StaysDecided, Typed
  <2> QED BY <2>1, <2>2
<1>12. CASE UNCHANGED vars
  BY <1>2, <1>12 DEF vars
<1>13. CASE \/ save_sleeve_lots \/ SaveAccount \/ commit_execution_journal
            \/ save_pending_sleeve \/ _save_account \/ EndBatch \/ discard_pending_sleeve
            \/ AccountRoute \/ set_account_kill_switch \/ reset_account \/ DayTick \/ Abort
            \/ recover_pending_once
  BY <1>2, <1>13 DEF save_sleeve_lots, SaveAccount, commit_execution_journal,
     save_pending_sleeve, _save_account, EndBatch, discard_pending_sleeve, AccountRoute,
     set_account_kill_switch, reset_account, DayTick, Abort, recover_pending_once, Begin,
     Files
<1>14. CASE \/ \E r \in Runners : BeginProcess(r) \/ \E due \in Days : Prepare(r, due)
            \/ \E s \in Sleeves : BeginCreate(s) \/ \E kind \in Kinds : BeginStatus(kind, s)
            \/ \E p \in Plans : BeginPlan(p)
  <2>1. status' = status /\ plan' = plan
    BY <1>14 DEF BeginProcess, Prepare, BeginCreate, BeginStatus, BeginPlan, Begin, Files
  <2> QED BY <1>2, <2>1
<1> QED BY <1>3, <1>4, <1>5, <1>6, <1>7, <1>8, <1>9, <1>10, <1>11, <1>12, <1>13, <1>14
        DEF Next, LockHolder

\* Decisions are final: a stopped sleeve stays stopped through every recovery, a
\* plan that was missed, skipped, blocked or given up is never filled, and a price
\* failure only turns into a miss.
THEOREM DecisionsStand == Spec => DecidedStays
<1>1. SleeveInv /\ [Next]_vars => [StaysDecided]_vars
  BY DecidedStep
<1>2. [][StaysDecided]_vars <=> DecidedStays
  BY DEF StaysDecided, DecidedStays
<1> QED BY <1>1, <1>2, SleeveInvariant, PTL DEF Spec

\* A step leaves no allocation without its sleeve or its draft, but for one whose
\* caller is told that it failed.
LEMMA AllocationStep ==
  ASSUME SleeveInv, AllocationHasSleeve, [Next]_vars
  PROVE  AllocationHasSleeve'
<1>1. /\ Typed /\ FileInv /\ OpInv /\ CallInv
  BY DEF SleeveInv
<1>2. ASSUME acct'.alloc = acct.alloc, drafts' = drafts, refused' = refused,
             \A s \in Sleeves : status[s] # "none" => status'[s] # "none"
      PROVE  AllocationHasSleeve'
  <2>1. acct.alloc \subseteq Sleeves
    BY <1>1 DEF Typed, Account
  <2> QED BY <1>2, <2>1 DEF AllocationHasSleeve
<1>3. CASE reconcile_pending_sleeves
  <2>1. op.acct = acct /\ acct' = acct /\ acct.alloc \subseteq Sleeves
    BY <1>1, <1>3 DEF reconcile_pending_sleeves, OpInv, AtDrafts, Typed, Account
  <2>2. CASE drafts = {}
    BY <1>2, <1>3, <2>1, <2>2 DEF reconcile_pending_sleeves
  <2>3. CASE drafts # {}
    <3>1. PICK d \in drafts :
            /\ drafts' = drafts \ {d}
            /\ status' = IF status[d] = "none" /\ d \in acct.alloc
                         THEN [status EXCEPT ![d] = "running"] ELSE status
            /\ refused' = refused
      BY <1>3, <2>1, <2>3 DEF reconcile_pending_sleeves
    <3> QED BY <1>1, <2>1, <3>1 DEF AllocationHasSleeve, Typed
  <2> QED BY <2>2, <2>3
<1>4. CASE save_sleeve
  <2>1. PICK i \in DOMAIN journals :
          status' = [status EXCEPT ![SleeveOf[journals[i].plan]] = journals[i].status]
    BY <1>1, <1>4 DEF save_sleeve, OpInv, AtWriting, Writing
  <2>2. journals[i].status = "running"
    BY <1>1 DEF FileInv, JournalInv, Entry
  <2>3. \A s \in Sleeves : status[s] # "none" => status'[s] # "none"
    BY <1>1, <2>1, <2>2 DEF Typed
  <2> QED BY <1>2, <1>4, <2>3 DEF save_sleeve
<1>5. CASE SaveAccount
  <2>1. \A s \in acct'.alloc : s \in acct.alloc \/ status[s] = "running"
    <3>1. CASE journals = <<>>
      BY <1>5, <3>1 DEF SaveAccount
    <3>2. CASE journals # <<>>
      <4>1. acct' = op.acct /\ InMemory(Len(journals) + 1)
        BY <1>1, <1>5, <3>2 DEF SaveAccount, OpInv, AtSave
      <4>2. /\ acct \in Account /\ PlansTo(Len(journals) + 1) = Journaled
            /\ Journaled \in SUBSET Plans
        BY <1>1, Positions DEF Typed
      <4>3. op.acct = acct \/ op.acct = WithFills(acct, Journaled)
        BY <4>1, <4>2 DEF InMemory
      <4>4. WithFills(acct, Journaled).alloc = acct.alloc \cup {SleeveOf[p] : p \in Journaled}
        BY <4>2, WithFields
      <4>5. \A p \in Journaled : status[SleeveOf[p]] = "running"
        BY <1>1 DEF Journaled, FileInv, JournalInv, Entry
      <4> QED BY <4>1, <4>3, <4>4, <4>5
    <3> QED BY <3>1, <3>2
  <2>2. status' = status /\ drafts' = drafts /\ refused' = refused
    BY <1>5 DEF SaveAccount
  <2> QED BY <2>1, <2>2 DEF AllocationHasSleeve
<1>6. CASE SetStatus
  <2>1. \A s \in Sleeves : status[s] # "none" => status'[s] # "none"
    BY <1>1, <1>6 DEF SetStatus, Typed
  <2> QED BY <1>2, <1>6, <2>1 DEF SetStatus
<1>7. CASE save_pending_sleeve
  <2>1. /\ acct' = acct /\ drafts' = drafts \cup {op.who} /\ status' = status
        /\ refused' = refused \ {op.who}
    BY <1>7 DEF save_pending_sleeve
  <2> QED BY <2>1 DEF AllocationHasSleeve
<1>8. CASE _save_account
  <2>1. /\ acct' = [acct EXCEPT !.alloc = @ \cup {op.who}, !.rev = @ + 1]
        /\ op.who \in drafts /\ drafts' = drafts /\ status' = status /\ refused' = refused
    BY <1>1, <1>8 DEF _save_account, OpInv, AtAllocate, CallInv
  <2>2. acct'.alloc = acct.alloc \cup {op.who}
    BY <1>1, <2>1 DEF Typed, Account
  <2> QED BY <2>1, <2>2 DEF AllocationHasSleeve
<1>9. CASE discard_pending_sleeve
  <2>1. /\ acct' \in {acct, op.acct} /\ drafts' = drafts \ {op.who} /\ status' = status
        /\ refused' = refused \cup {op.who}
        /\ op.acct = [acct EXCEPT !.alloc = @ \cup {op.who}, !.rev = @ + 1]
    BY <1>1, <1>9 DEF discard_pending_sleeve, OpInv, AtAllocate
  <2>2. acct'.alloc \subseteq acct.alloc \cup {op.who}
    BY <1>1, <2>1 DEF Typed, Account
  <2> QED BY <2>1, <2>2 DEF AllocationHasSleeve
<1>10. CASE finalize_pending_sleeve
  <2>1. /\ acct' = acct /\ drafts' = drafts \ {op.who} /\ refused' = refused
        /\ status' = [status EXCEPT ![op.who] = "running"] /\ op.who \in Sleeves
    BY <1>1, <1>10 DEF finalize_pending_sleeve, OpInv, AtFinalize, CallInv
  <2>2. acct.alloc \subseteq Sleeves
    BY <1>1 DEF Typed, Account
  <2> QED BY <1>1, <2>1, <2>2 DEF AllocationHasSleeve, Typed
<1>11. CASE \/ reconcile_execution_journals \/ save_sleeve_lots \/ _replace_execution
            \/ commit_execution_journal \/ create_execution_plan \/ mark_missed_window
            \/ EndBatch \/ \E p \in Plans : commit_execution(p)
  <2>1. acct' = acct /\ status' = status /\ drafts' = drafts /\ refused' = refused
    BY <1>11 DEF reconcile_execution_journals, save_sleeve_lots, _replace_execution,
       commit_execution_journal, create_execution_plan, mark_missed_window, EndBatch,
       commit_execution, Decide, save_execution_journal_pending, Files
  <2> QED BY <1>2, <2>1
<1>12. CASE AccountRoute \/ set_account_kill_switch \/ reset_account
  <2>1. /\ acct'.alloc = acct.alloc \/ acct'.alloc = {}
        /\ status' = status /\ drafts' = drafts /\ refused' = refused
    BY <1>1, <1>12 DEF AccountRoute, set_account_kill_switch, reset_account, NewAccount,
       Typed, Account
  <2> QED BY <2>1 DEF AllocationHasSleeve
<1>13. CASE \/ DayTick \/ Abort \/ recover_pending_once \/ UNCHANGED vars
            \/ \E r \in Runners : BeginProcess(r) \/ \E due \in Days : Prepare(r, due)
            \/ \E s \in Sleeves : BeginCreate(s) \/ \E kind \in Kinds : BeginStatus(kind, s)
            \/ \E p \in Plans : BeginPlan(p)
  <2>1. acct' = acct /\ status' = status /\ drafts' = drafts /\ refused' = refused
    BY <1>13 DEF DayTick, Abort, recover_pending_once, vars, BeginProcess, Prepare,
       BeginCreate, BeginStatus, BeginPlan, Begin, Files
  <2> QED BY <1>2, <2>1
<1> QED BY <1>3, <1>4, <1>5, <1>6, <1>7, <1>8, <1>9, <1>10, <1>11, <1>12, <1>13
        DEF Next, LockHolder

\* Cash taken from the account for a sleeve is never stranded by a crash, a recovery
\* or a reset: its sleeve or its draft is there, or the creation was answered with
\* "failed to persist strategy sleeve allocation".
THEOREM AllocationsHaveSleeves == Spec => []AllocationHasSleeve
<1>1. Init => AllocationHasSleeve
  BY DEF Init, AllocationHasSleeve, NewAccount
<1>2. SleeveInv /\ AllocationHasSleeve /\ [Next]_vars => AllocationHasSleeve'
  BY AllocationStep
<1> QED BY <1>1, <1>2, SleeveInvariant, PTL DEF Spec

=============================================================================
