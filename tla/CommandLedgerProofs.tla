------------------------ MODULE CommandLedgerProofs ------------------------
(***************************************************************************)
(* Proofs about CommandLedger for any set of commands and Runs and any     *)
(* callers: the invariants the runs check, the action properties, and the  *)
(* refinement of CommandLifecycle.                                         *)
(*                                                                         *)
(* The argument is row by row.  GoodRow states what RowConstraints,        *)
(* WakeUpMatchesState and the types say of one row and its outbox rows; a  *)
(* lemma per row update shows that a good row becomes a good row; WriteRow *)
(* lifts that to the tables.                                               *)
(***************************************************************************)
EXTENDS CommandLedger, TLAPS

\* A well-typed row with outbox rows that match it.
GoodRow(row, rows) ==
  /\ row \in Row
  /\ row.state = "leased" <=> row.token # NoToken
  /\ row.live => row.state = "leased"
  /\ row.token <= row.version
  /\ row.state = "absent" <=> row.version = 0
  /\ row.state \in {"absent", "queued"} => ~ row.dispatched
  /\ row.state \in Active \cup {"succeeded", "failed"} => row.dispatched
  /\ row.run # NoRun => row.state \in {"delivered"} \cup Terminal
  /\ row.state \in {"delivered", "succeeded"} => row.run # NoRun
  /\ row.state = "queued" => rows = {<<row.version, "queued">>}
  /\ row.state = "outcome_unknown" =>
       \E v \in 1..row.version : rows = {<<v, "reconcile">>}
  /\ row.state \notin {"queued", "outcome_unknown"} => rows = {}

\* The columns a call decides: the version advances, the rest is given.
Becomes(row, new, state, dispatched, run) ==
  /\ new.version = row.version + 1
  /\ new.state = state
  /\ new.dispatched = dispatched
  /\ new.run = run

\* A timestamp of the row has passed.
Ticked(row, new) ==
  new = [row EXCEPT !.live = new.live, !.due = new.due, !.eligible = new.eligible]

\* Every move a single row can make.
RowMove(row, new) ==
  \/ Ticked(row, new) /\ (new.due = row.due \/ row.state = "queued")
  \/ row.state = "absent" /\ Becomes(row, new, "queued", FALSE, NoRun)
  \/ row.state = "queued" /\ Becomes(row, new, "leased", FALSE, NoRun)
  \/ row.state = "queued" /\ Becomes(row, new, "cancelled", FALSE, NoRun)
  \/ row.state = "leased" /\ Becomes(row, new, "leased", row.dispatched, NoRun)
  \/ row.state = "leased" /\ Becomes(row, new, "leased", TRUE, NoRun)
  \/ /\ row.state = "leased" /\ row.dispatched
     /\ \/ row.live /\ Becomes(row, new, "queued", FALSE, NoRun)
        \/ Becomes(row, new, "outcome_unknown", TRUE, NoRun)
        \/ Becomes(row, new, "failed", TRUE, NoRun)
        \/ new.run \in Runs /\ Becomes(row, new, "delivered", TRUE, new.run)
  \/ row.state \in Active /\ Becomes(row, new, row.state, TRUE, row.run)
  \/ /\ row.state = "outcome_unknown" /\ new.run \in Runs
     /\ Becomes(row, new, "delivered", TRUE, new.run)
  \/ /\ row.state \in Active /\ row.run \in {NoRun, new.run} /\ new.run \in Runs
     /\ new.state \in Terminal /\ Becomes(row, new, new.state, TRUE, new.run)

\* One row moves, stays good and names no other row's Run; the rest stand still.
RowStep(c) ==
  /\ cmd' = [cmd EXCEPT ![c] = cmd'[c]]
  /\ outbox' = [outbox EXCEPT ![c] = outbox'[c]]
  /\ GoodRow(cmd'[c], outbox'[c])
  /\ RowMove(cmd[c], cmd'[c])
  /\ cmd'[c].run \in {NoRun, cmd[c].run} \/ RunFree(c, cmd'[c].run)

\* The unique index on the Run of a row.
OneCommandPerRun ==
  \A c, d \in Commands : c # d /\ cmd[c].run # NoRun => cmd[c].run # cmd[d].run

\* The inductive invariant: good rows, and no Run in two of them.
LedgerInv ==
  /\ LedgerTypeOK
  /\ \A c \in Commands : GoodRow(cmd[c], outbox[c])
  /\ OneCommandPerRun

\* The invariant contains the properties that the runs check.
LEMMA InvImplies ==
  ASSUME LedgerInv
  PROVE  RowConstraints /\ WakeUpMatchesState
<1>1. RowConstraints
  BY DEF LedgerInv, GoodRow, RowConstraints
<1>2. WakeUpMatchesState
  BY DEF LedgerInv, GoodRow, WakeUpMatchesState, WakeUp
<1> QED BY <1>1, <1>2

\* The outbox rows of a good row are well typed.
LEMMA GoodRowType ==
  ASSUME NEW row, NEW rows, GoodRow(row, rows)
  PROVE  row \in Row /\ rows \in SUBSET (Nat \X Topic)
<1>1. row \in Row /\ row.version \in Nat /\ row.state \in CommandState
  BY DEF GoodRow, Row
<1> QED BY <1>1 DEF GoodRow, Topic

\* Writing a good row that is a move of the old one is a row step.
LEMMA WriteRow ==
  ASSUME LedgerInv,
         NEW c \in Commands, NEW row, NEW rows,
         Write(c, row, rows),
         GoodRow(row, rows),
         RowMove(cmd[c], row),
         row.run \in {NoRun, cmd[c].run} \/ RunFree(c, row.run)
  PROVE  RowStep(c)
<1>1. cmd'[c] = row /\ outbox'[c] = rows
  BY DEF LedgerInv, LedgerTypeOK, Write
<1> QED BY <1>1 DEF RowStep, Write

\* A row step keeps the invariant.
LEMMA InvRowStep ==
  ASSUME LedgerInv, NEW c \in Commands, RowStep(c)
  PROVE  LedgerInv'
<1>1. LedgerTypeOK'
  BY GoodRowType DEF LedgerInv, LedgerTypeOK, RowStep
<1>2. \A d \in Commands : GoodRow(cmd'[d], outbox'[d])
  <2> TAKE d \in Commands
  <2>1. CASE d = c
    BY <2>1 DEF RowStep
  <2>2. CASE d # c
    BY <2>2 DEF LedgerInv, LedgerTypeOK, RowStep
  <2> QED BY <2>1, <2>2
<1>3. OneCommandPerRun'
  BY DEF LedgerInv, LedgerTypeOK, RowStep, OneCommandPerRun, RunFree
<1> QED BY <1>1, <1>2, <1>3 DEF LedgerInv

-----------------------------------------------------------------------------
(* One lemma per row update.  The fields of the two common updates come    *)
(* first, so that the others do not open them.                             *)

\* Advancing the version changes nothing else.
LEMMA NextVersionFields ==
  ASSUME NEW row \in Row
  PROVE  LET n == NextVersion(row) IN
         /\ n \in Row
         /\ n.version = row.version + 1
         /\ n.state = row.state /\ n.token = row.token /\ n.run = row.run
         /\ n.live = row.live /\ n.dispatched = row.dispatched
BY DEF Row, NextVersion

\* Giving up the lease clears its columns.
LEMMA UnleasedFields ==
  ASSUME NEW row \in Row
  PROVE  LET u == Unleased(row) IN
         /\ u \in Row
         /\ u.version = row.version + 1
         /\ u.token = NoToken /\ u.live = FALSE
         /\ u.state = row.state /\ u.run = row.run
         /\ u.dispatched = row.dispatched
<1> DEFINE n == NextVersion(row)
<1>1. /\ n \in Row
      /\ n.version = row.version + 1
      /\ n.state = row.state /\ n.run = row.run
      /\ n.dispatched = row.dispatched
  BY NextVersionFields
<1> HIDE DEF n
<1>2. LET u == [n EXCEPT !.token = NoToken, !.live = FALSE, !.due = FALSE] IN
      /\ u \in Row
      /\ u.version = n.version
      /\ u.token = NoToken /\ u.live = FALSE
      /\ u.state = n.state /\ u.run = n.run
      /\ u.dispatched = n.dispatched
  BY <1>1 DEF Row, NoToken
<1> QED BY <1>1, <1>2 DEF Unleased, n

\* A claim of a queued row, its wake-up consumed.
LEMMA LeasedGood ==
  ASSUME NEW row, NEW rows, GoodRow(row, rows), row.state = "queued"
  PROVE  /\ GoodRow(Leased(row), rows \ {<<row.version, "queued">>})
         /\ Becomes(row, Leased(row), "leased", FALSE, NoRun)
<1> DEFINE n == NextVersion(row)
           l == [n EXCEPT !.state = "leased", !.due = FALSE,
                          !.token = row.version + 1, !.live = TRUE]
<1>1. row \in Row /\ row.version \in Nat
  BY DEF GoodRow, Row
<1>2. /\ n \in Row /\ n.version = row.version + 1 /\ n.run = row.run
      /\ n.dispatched = row.dispatched
  BY <1>1, NextVersionFields
<1> HIDE DEF n
<1>3. /\ l \in Row /\ l.version = n.version /\ l.run = n.run
      /\ l.dispatched = n.dispatched /\ l.state = "leased" /\ l.live = TRUE
      /\ l.token = row.version + 1
  BY <1>1, <1>2 DEF Row, CommandState
<1>4. l = Leased(row)
  BY DEF Leased, n
<1> HIDE DEF l
<1>5. /\ row.run = NoRun /\ row.dispatched = FALSE
      /\ rows \ {<<row.version, "queued">>} = {}
  BY <1>1 DEF GoodRow, Row, Terminal
<1>6. GoodRow(l, {})
  BY <1>1, <1>2, <1>3, <1>5 DEF GoodRow, NoToken, Active, Terminal
<1> QED BY <1>2, <1>3, <1>4, <1>5, <1>6 DEF Becomes

\* The version of a leased row advances, with or without the dispatch mark.
LEMMA LeaseKeptGood ==
  ASSUME NEW row, NEW rows, GoodRow(row, rows), row.state = "leased"
  PROVE  /\ GoodRow(NextVersion(row), rows)
         /\ GoodRow([NextVersion(row) EXCEPT !.dispatched = TRUE], rows)
         /\ Becomes(row, NextVersion(row), "leased", row.dispatched, NoRun)
         /\ Becomes(row, [NextVersion(row) EXCEPT !.dispatched = TRUE],
                    "leased", TRUE, NoRun)
<1> DEFINE n == NextVersion(row)
           d == [n EXCEPT !.dispatched = TRUE]
<1>1. row \in Row /\ row.version \in Nat /\ row.token \in Nat
  BY DEF GoodRow, Row
<1>2. /\ n \in Row /\ n.version = row.version + 1 /\ n.state = row.state
      /\ n.token = row.token /\ n.run = row.run /\ n.live = row.live
      /\ n.dispatched = row.dispatched
  BY <1>1, NextVersionFields
<1> HIDE DEF n
<1>3. GoodRow(n, rows)
  BY <1>1, <1>2 DEF GoodRow, NoToken, Active, Terminal
<1>4. /\ d \in Row /\ d.version = n.version /\ d.state = n.state
      /\ d.token = n.token /\ d.run = n.run /\ d.live = n.live
      /\ d.dispatched = TRUE
  BY <1>2 DEF Row
<1> HIDE DEF d
<1>5. GoodRow(d, rows)
  BY <1>1, <1>2, <1>4 DEF GoodRow, NoToken, Active, Terminal
<1>6. row.run = NoRun
  BY DEF GoodRow, Terminal
<1> QED BY <1>2, <1>3, <1>4, <1>5, <1>6 DEF Becomes, n, d

\* A lease given back to the queue.
LEMMA RequeuedGood ==
  ASSUME NEW row, NEW rows, GoodRow(row, rows), row.state = "leased",
         NEW due \in BOOLEAN
  PROVE  /\ GoodRow(Requeued(row, due),
                    rows \cup WakeUp(Requeued(row, due), "queued"))
         /\ Becomes(row, Requeued(row, due), "queued", FALSE, NoRun)
<1> DEFINE u == Unleased(row)
           q == [u EXCEPT !.state = "queued", !.due = due, !.dispatched = FALSE]
<1>1. row \in Row /\ row.version \in Nat
  BY DEF GoodRow, Row
<1>2. /\ u \in Row /\ u.version = row.version + 1 /\ u.token = NoToken
      /\ u.live = FALSE /\ u.run = row.run
  BY <1>1, UnleasedFields
<1> HIDE DEF u
<1>3. /\ q \in Row /\ q.version = u.version /\ q.token = u.token
      /\ q.live = u.live /\ q.run = u.run /\ q.state = "queued"
      /\ q.dispatched = FALSE
  BY <1>2 DEF Row, CommandState
<1>4. q = Requeued(row, due)
  BY DEF Requeued, u
<1> HIDE DEF q
<1>5. row.run = NoRun /\ rows = {}
  BY DEF GoodRow, Terminal
<1>6. GoodRow(q, {<<q.version, "queued">>})
  BY <1>1, <1>2, <1>3, <1>5 DEF GoodRow, NoToken, Active, Terminal
<1> QED BY <1>2, <1>3, <1>4, <1>5, <1>6 DEF WakeUp, Becomes

\* A dispatched lease that ends without an answer.
LEMMA UnknownGood ==
  ASSUME NEW row, NEW rows, GoodRow(row, rows), row.state = "leased",
         row.dispatched
  PROVE  /\ GoodRow(Unknown(row), rows \cup WakeUp(Unknown(row), "reconcile"))
         /\ Becomes(row, Unknown(row), "outcome_unknown", TRUE, NoRun)
<1> DEFINE u == Unleased(row)
           k == [u EXCEPT !.state = "outcome_unknown"]
<1>1. row \in Row /\ row.version \in Nat
  BY DEF GoodRow, Row
<1>2. /\ u \in Row /\ u.version = row.version + 1 /\ u.token = NoToken
      /\ u.live = FALSE /\ u.run = row.run /\ u.dispatched = row.dispatched
  BY <1>1, UnleasedFields
<1> HIDE DEF u
<1>3. /\ k \in Row /\ k.version = u.version /\ k.token = u.token
      /\ k.live = u.live /\ k.run = u.run /\ k.state = "outcome_unknown"
      /\ k.dispatched = u.dispatched
  BY <1>2 DEF Row, CommandState, Active
<1>4. k = Unknown(row)
  BY DEF Unknown, u
<1> HIDE DEF k
<1>5. row.run = NoRun /\ rows = {} /\ row.dispatched = TRUE
  BY <1>1 DEF GoodRow, Row, Terminal
<1>6. k.version \in 1..k.version
  BY <1>1, <1>2, <1>3
<1>7. GoodRow(k, {<<k.version, "reconcile">>})
  BY <1>1, <1>2, <1>3, <1>5, <1>6 DEF GoodRow, NoToken, Active, Terminal
<1> QED BY <1>2, <1>3, <1>4, <1>5, <1>7 DEF WakeUp, Becomes

\* A lapsed lease recovered either way.
LEMMA ExpiredGood ==
  ASSUME NEW row, NEW rows, GoodRow(row, rows), row.state = "leased"
  PROVE  /\ GoodRow(Expired(row),
                    rows \cup WakeUp(Expired(row),
                      IF row.dispatched THEN "reconcile" ELSE "queued"))
         /\ IF row.dispatched
              THEN Becomes(row, Expired(row), "outcome_unknown", TRUE, NoRun)
              ELSE Becomes(row, Expired(row), "queued", FALSE, NoRun)
<1>1. CASE row.dispatched
  BY <1>1, UnknownGood DEF Expired
<1>2. CASE ~ row.dispatched
  BY <1>2, RequeuedGood DEF Expired
<1> QED BY <1>1, <1>2

\* The row is over, or bound to a Run, and its wake-ups are consumed.
LEMMA ClosedGood ==
  ASSUME NEW row, NEW rows, GoodRow(row, rows), row.version # 0,
         NEW s \in {"delivered"} \cup Terminal, NEW r \in Runs \cup {NoRun},
         s = "cancelled" \/ row.dispatched,
         s \in {"delivered", "succeeded"} => r # NoRun
  PROVE  /\ GoodRow(BoundTo(row, s, r), {})
         /\ Becomes(row, BoundTo(row, s, r), s, row.dispatched, r)
<1> DEFINE u == Unleased(row)
           b == [u EXCEPT !.state = s, !.run = r]
<1>1. row \in Row /\ row.version \in Nat
  BY DEF GoodRow, Row
<1>2. /\ u \in Row /\ u.version = row.version + 1 /\ u.token = NoToken
      /\ u.live = FALSE /\ u.dispatched = row.dispatched
  BY <1>1, UnleasedFields
<1> HIDE DEF u
<1>3. /\ b \in Row /\ b.version = u.version /\ b.token = u.token
      /\ b.live = u.live /\ b.run = r /\ b.state = s
      /\ b.dispatched = u.dispatched
  BY <1>2 DEF Row, CommandState, Active, Terminal
<1>4. b = BoundTo(row, s, r)
  BY DEF BoundTo, u
<1> HIDE DEF b
<1>5. GoodRow(b, {})
  BY <1>1, <1>2, <1>3 DEF GoodRow, NoToken, Active, Terminal
<1> QED BY <1>2, <1>3, <1>4, <1>5 DEF Becomes

\* Consuming the wake-ups of a good row leaves none.
LEMMA ConsumeAll ==
  ASSUME NEW row, NEW rows, GoodRow(row, rows)
  PROVE  /\ row.state = "queued" => Consume(rows, "queued") = {}
         /\ row.state = "outcome_unknown" => Consume(rows, "reconcile") = {}
         /\ row.state \notin {"queued", "outcome_unknown"} => rows = {}
<1>1. ASSUME row.state = "queued" PROVE Consume(rows, "queued") = {}
  <2>1. rows = {<<row.version, "queued">>}
    BY <1>1 DEF GoodRow
  <2> QED BY <2>1 DEF Consume
<1>2. ASSUME row.state = "outcome_unknown" PROVE Consume(rows, "reconcile") = {}
  <2>1. PICK v \in 1..row.version : rows = {<<v, "reconcile">>}
    BY <1>2 DEF GoodRow
  <2> QED BY <2>1 DEF Consume
<1> QED BY <1>1, <1>2 DEF GoodRow

\* A row that is cancelled or refused keeps its Run column, which is empty.
LEMMA DroppedGood ==
  ASSUME NEW row, NEW rows, GoodRow(row, rows), row.version # 0,
         NEW s \in {"failed", "cancelled"}, s = "cancelled" \/ row.dispatched
  PROVE  /\ GoodRow([Unleased(row) EXCEPT !.state = s], {})
         /\ Becomes(row, [Unleased(row) EXCEPT !.state = s], s,
                    row.dispatched, row.run)
<1> DEFINE u == Unleased(row)
           b == [u EXCEPT !.state = s]
<1>1. row \in Row /\ row.version \in Nat
  BY DEF GoodRow, Row
<1>2. /\ u \in Row /\ u.version = row.version + 1 /\ u.token = NoToken
      /\ u.live = FALSE /\ u.dispatched = row.dispatched /\ u.run = row.run
  BY <1>1, UnleasedFields
<1> HIDE DEF u
<1>3. /\ b \in Row /\ b.version = u.version /\ b.token = u.token
      /\ b.live = u.live /\ b.run = u.run /\ b.state = s
      /\ b.dispatched = u.dispatched
  BY <1>2 DEF Row, CommandState, Active, Terminal
<1> HIDE DEF b
<1>4. GoodRow(b, {})
  BY <1>1, <1>2, <1>3 DEF GoodRow, NoToken, Active, Terminal
<1> QED BY <1>2, <1>3, <1>4 DEF Becomes, b, u

\* A new row, with its first wake-up.
LEMMA CreatedGood ==
  ASSUME NEW row, NEW rows, GoodRow(row, rows), row.state = "absent"
  PROVE  LET new == [NextVersion(row) EXCEPT !.state = "queued", !.due = TRUE]
         IN  /\ GoodRow(new, WakeUp(new, "queued"))
             /\ Becomes(row, new, "queued", FALSE, NoRun)
<1> DEFINE n == NextVersion(row)
           q == [n EXCEPT !.state = "queued", !.due = TRUE]
<1>1. /\ row \in Row /\ row.version \in Nat /\ row.run = NoRun
      /\ row.dispatched = FALSE /\ row.live = FALSE /\ row.token = NoToken
  BY DEF GoodRow, Row, Terminal, NoToken
<1>2. /\ n \in Row /\ n.version = row.version + 1 /\ n.token = row.token
      /\ n.live = row.live /\ n.run = row.run /\ n.dispatched = row.dispatched
  BY <1>1, NextVersionFields
<1> HIDE DEF n
<1>3. /\ q \in Row /\ q.version = n.version /\ q.token = n.token
      /\ q.live = n.live /\ q.run = n.run /\ q.state = "queued"
      /\ q.dispatched = n.dispatched
  BY <1>2 DEF Row, CommandState
<1> HIDE DEF q
<1>4. GoodRow(q, {<<q.version, "queued">>})
  BY <1>1, <1>2, <1>3 DEF GoodRow, NoToken, Active, Terminal
<1> QED BY <1>1, <1>2, <1>3, <1>4 DEF WakeUp, Becomes, q, n

\* A reconciliation turn advances the version and nothing else.
LEMMA TurnGood ==
  ASSUME NEW row, NEW rows, GoodRow(row, rows), row.state \in Active
  PROVE  /\ GoodRow(NextVersion(row), rows)
         /\ Becomes(row, NextVersion(row), row.state, TRUE, row.run)
<1> DEFINE n == NextVersion(row)
<1>1. row \in Row /\ row.version \in Nat /\ row.token \in Nat
      /\ row.dispatched = TRUE
  BY DEF GoodRow, Row
<1>2. /\ n \in Row /\ n.version = row.version + 1 /\ n.state = row.state
      /\ n.token = row.token /\ n.run = row.run /\ n.live = row.live
      /\ n.dispatched = row.dispatched
  BY <1>1, NextVersionFields
<1> HIDE DEF n
<1>3. \A v \in 1..row.version : v \in 1..n.version
  BY <1>1, <1>2
<1>4. GoodRow(n, rows)
  BY <1>1, <1>2, <1>3 DEF GoodRow, NoToken, Active, Terminal
<1> QED BY <1>1, <1>2, <1>4 DEF Becomes, n

\* An unknown outcome resolved to a Run.
LEMMA ReconciledGood ==
  ASSUME NEW row, NEW rows, GoodRow(row, rows), row.state = "outcome_unknown",
         NEW r \in Runs
  PROVE  LET new == [NextVersion(row) EXCEPT !.state = "delivered", !.run = r]
         IN  /\ GoodRow(new, {})
             /\ Becomes(row, new, "delivered", TRUE, r)
<1> DEFINE n == NextVersion(row)
           b == [n EXCEPT !.state = "delivered", !.run = r]
<1>1. /\ row \in Row /\ row.version \in Nat /\ row.token = NoToken
      /\ row.live = FALSE /\ row.dispatched = TRUE /\ row.version # 0
  BY DEF GoodRow, Row, Active, NoToken
<1>2. /\ n \in Row /\ n.version = row.version + 1 /\ n.token = row.token
      /\ n.live = row.live /\ n.dispatched = row.dispatched
  BY <1>1, NextVersionFields
<1> HIDE DEF n
<1>3. /\ b \in Row /\ b.version = n.version /\ b.token = n.token
      /\ b.live = n.live /\ b.run = r /\ b.state = "delivered"
      /\ b.dispatched = n.dispatched
  BY <1>2 DEF Row, CommandState, Active
<1> HIDE DEF b
<1>4. GoodRow(b, {})
  BY <1>1, <1>2, <1>3, RunsAssumption DEF GoodRow, NoToken, Active, Terminal
<1> QED BY <1>1, <1>2, <1>3, <1>4 DEF Becomes, b, n

\* A timestamp of the row is passed.
LEMMA TickGood ==
  ASSUME NEW row, NEW rows, GoodRow(row, rows),
         NEW l \in BOOLEAN, l => row.live,
         NEW d \in BOOLEAN, NEW e \in BOOLEAN
  PROVE  LET new == [row EXCEPT !.live = l, !.due = d, !.eligible = e] IN
         /\ GoodRow(new, rows)
         /\ new.run = row.run
         /\ Ticked(row, new)
<1> DEFINE new == [row EXCEPT !.live = l, !.due = d, !.eligible = e]
<1>1. row \in Row
  BY DEF GoodRow
<1>2. /\ new \in Row /\ new.live = l /\ new.due = d /\ new.eligible = e
      /\ new.state = row.state /\ new.version = row.version
      /\ new.token = row.token /\ new.dispatched = row.dispatched
      /\ new.run = row.run
  BY <1>1 DEF Row
<1>3. Ticked(row, new)
  BY <1>2 DEF Ticked
<1> HIDE DEF new
<1>4. GoodRow(new, rows)
  BY <1>2 DEF GoodRow
<1> QED BY <1>2, <1>3, <1>4 DEF new

-----------------------------------------------------------------------------
(* The invariant.                                                          *)

\* An empty ledger satisfies the invariant.
LEMMA InvInit == LedgerInit => LedgerInv
<1> SUFFICES ASSUME LedgerInit PROVE LedgerInv
  OBVIOUS
<1>1. AbsentRow \in Row
  BY DEF AbsentRow, Row, CommandState, NoToken
<1>2. GoodRow(AbsentRow, {})
  BY <1>1 DEF GoodRow, AbsentRow, NoToken, Active, Terminal
<1>3. \A c \in Commands : cmd[c] = AbsentRow /\ outbox[c] = {}
  BY DEF LedgerInit
<1>4. LedgerTypeOK
  BY <1>1 DEF LedgerInit, LedgerTypeOK
<1>5. OneCommandPerRun
  BY <1>3 DEF OneCommandPerRun, AbsentRow
<1> QED BY <1>2, <1>3, <1>4, <1>5 DEF LedgerInv

\* Every call fenced by a lease is a row step.
LEMMA StepLeaseCall ==
  ASSUME LedgerInv, NEW c \in Commands, NEW v, NEW t, LeaseCall(c, v, t)
  PROVE  RowStep(c)
<1>1. GoodRow(cmd[c], outbox[c]) /\ cmd[c].dispatched \in BOOLEAN
  BY DEF LedgerInv, GoodRow, Row
<1>2. /\ cmd[c].state = "leased" /\ cmd[c].live
      /\ cmd[c].version # 0 /\ outbox[c] = {} /\ cmd[c].run = NoRun
  BY <1>1 DEF LeaseCall, heartbeat_lease, mark_dispatch_started, mark_delivered,
     mark_dispatch_timeout, mark_dispatch_unavailable, mark_dispatch_rejected,
     _lock_active_lease, GoodRow, Terminal
<1>3. CASE heartbeat_lease(c, v, t)
  <2> DEFINE new == NextVersion(cmd[c])
  <2>1. /\ GoodRow(new, outbox[c])
        /\ Becomes(cmd[c], new, "leased", cmd[c].dispatched, NoRun)
    BY <1>1, <1>2, LeaseKeptGood
  <2>2. Write(c, new, outbox[c])
    BY <1>3 DEF heartbeat_lease
  <2> HIDE DEF new
  <2> QED BY <1>2, <2>1, <2>2, WriteRow DEF RowMove, Becomes
<1>4. CASE mark_dispatch_started(c, v, t)
  <2> DEFINE new == [NextVersion(cmd[c]) EXCEPT !.dispatched = TRUE]
  <2>1. GoodRow(new, outbox[c]) /\ Becomes(cmd[c], new, "leased", TRUE, NoRun)
    BY <1>1, <1>2, LeaseKeptGood
  <2>2. Write(c, new, outbox[c])
    BY <1>4 DEF mark_dispatch_started
  <2> HIDE DEF new
  <2> QED BY <1>2, <2>1, <2>2, WriteRow DEF RowMove, Becomes
<1>5. CASE mark_dispatch_timeout(c, v, t)
  <2> DEFINE new == Unknown(cmd[c])
             rows == outbox[c] \cup WakeUp(new, "reconcile")
  <2>1. cmd[c].dispatched /\ Write(c, new, rows)
    BY <1>5 DEF mark_dispatch_timeout
  <2>2. GoodRow(new, rows) /\ Becomes(cmd[c], new, "outcome_unknown", TRUE, NoRun)
    BY <1>1, <1>2, <2>1, UnknownGood
  <2> HIDE DEF new, rows
  <2> QED BY <1>2, <2>1, <2>2, WriteRow DEF RowMove, Becomes
<1>6. CASE mark_dispatch_unavailable(c, v, t)
  <2> DEFINE new == Requeued(cmd[c], FALSE)
             rows == outbox[c] \cup WakeUp(new, "queued")
  <2>1. cmd[c].dispatched /\ Write(c, new, rows)
    BY <1>6 DEF mark_dispatch_unavailable
  <2>2. GoodRow(new, rows) /\ Becomes(cmd[c], new, "queued", FALSE, NoRun)
    BY <1>1, <1>2, RequeuedGood
  <2> HIDE DEF new, rows
  <2> QED BY <1>2, <2>1, <2>2, WriteRow DEF RowMove, Becomes
<1>7. CASE mark_dispatch_rejected(c, v, t)
  <2> DEFINE new == [Unleased(cmd[c]) EXCEPT !.state = "failed"]
  <2>1. cmd[c].dispatched /\ Write(c, new, outbox[c])
    BY <1>7 DEF mark_dispatch_rejected
  <2>2. GoodRow(new, {}) /\ Becomes(cmd[c], new, "failed", cmd[c].dispatched, cmd[c].run)
    BY <1>1, <1>2, <2>1, DroppedGood
  <2>3. Becomes(cmd[c], new, "failed", TRUE, NoRun)
    BY <1>1, <1>2, <2>1, <2>2
  <2> HIDE DEF new
  <2> QED BY <1>2, <2>1, <2>2, <2>3, WriteRow DEF RowMove, Becomes
<1>8. ASSUME NEW r \in Runs, mark_delivered(c, v, t, r)
      PROVE  RowStep(c)
  <2> DEFINE new == BoundTo(cmd[c], "delivered", r)
  <2>1. cmd[c].dispatched /\ RunFree(c, r) /\ Write(c, new, outbox[c])
    BY <1>8 DEF mark_delivered
  <2>2. GoodRow(new, {}) /\ Becomes(cmd[c], new, "delivered", cmd[c].dispatched, r)
    BY <1>1, <1>2, <1>8, <2>1, ClosedGood, RunsAssumption
  <2>3. new.run = r /\ Becomes(cmd[c], new, "delivered", TRUE, r)
    BY <1>1, <2>1, <2>2 DEF Becomes
  <2> HIDE DEF new
  <2> QED BY <1>2, <2>1, <2>2, <2>3, WriteRow DEF RowMove
<1> QED BY <1>3, <1>4, <1>5, <1>6, <1>7, <1>8 DEF LeaseCall

\* Every call fenced by a version alone is a row step.
LEMMA StepVersionCall ==
  ASSUME LedgerInv, NEW c \in Commands, NEW v, VersionCall(c, v)
  PROVE  RowStep(c)
<1>1. GoodRow(cmd[c], outbox[c]) /\ cmd[c].dispatched \in BOOLEAN
  BY DEF LedgerInv, GoodRow, Row
<1>2. CASE cancel_queued_command(c, v)
  <2> DEFINE new == [Unleased(cmd[c]) EXCEPT !.state = "cancelled"]
  <2>1. cmd[c].state = "queued" /\ Write(c, new, Consume(outbox[c], "queued"))
    BY <1>2 DEF cancel_queued_command
  <2>2. cmd[c].version # 0 /\ cmd[c].dispatched = FALSE /\ cmd[c].run = NoRun
    BY <1>1, <2>1 DEF GoodRow, Terminal
  <2>3. Consume(outbox[c], "queued") = {}
    BY <1>1, <2>1, ConsumeAll
  <2>4. /\ GoodRow(new, {})
        /\ Becomes(cmd[c], new, "cancelled", cmd[c].dispatched, cmd[c].run)
    BY <1>1, <2>2, DroppedGood
  <2> HIDE DEF new
  <2> QED BY <2>1, <2>2, <2>3, <2>4, WriteRow DEF RowMove, Becomes
<1>3. CASE mark_run_reconciliation_started(c, v)
  <2> DEFINE new == NextVersion(cmd[c])
  <2>1. cmd[c].state \in Active /\ Write(c, new, outbox[c])
    BY <1>3 DEF mark_run_reconciliation_started
  <2>2. /\ GoodRow(new, outbox[c])
        /\ Becomes(cmd[c], new, cmd[c].state, TRUE, cmd[c].run)
    BY <1>1, <2>1, TurnGood
  <2> HIDE DEF new
  <2> QED BY <2>1, <2>2, WriteRow DEF RowMove, Becomes
<1>4. ASSUME NEW r \in Runs, reconcile_outcome_as_delivered(c, v, r)
      PROVE  RowStep(c)
  <2> DEFINE new == [NextVersion(cmd[c]) EXCEPT !.state = "delivered", !.run = r]
  <2>1. cmd[c].state = "outcome_unknown" /\ RunFree(c, r)
        /\ Write(c, new, Consume(outbox[c], "reconcile"))
    BY <1>4 DEF reconcile_outcome_as_delivered
  <2>2. GoodRow(new, {}) /\ Becomes(cmd[c], new, "delivered", TRUE, r)
    BY <1>1, <2>1, ReconciledGood
  <2>3. Consume(outbox[c], "reconcile") = {}
    BY <1>1, <2>1, ConsumeAll
  <2>4. new.run = r
    BY <2>2 DEF Becomes
  <2> HIDE DEF new
  <2> QED BY <2>1, <2>2, <2>3, <2>4, WriteRow DEF RowMove
<1>5. ASSUME NEW r \in Runs, NEW s \in Terminal, _mark_run_terminal(c, v, r, s)
      PROVE  RowStep(c)
  <2> DEFINE new == BoundTo(cmd[c], s, r)
             rows == IF cmd[c].state = "outcome_unknown"
                       THEN Consume(outbox[c], "reconcile") ELSE outbox[c]
  <2>1. /\ cmd[c].state \in Active /\ RunFree(c, r) /\ cmd[c].run \in {NoRun, r}
        /\ Write(c, new, rows)
    BY <1>5 DEF _mark_run_terminal
  <2>2. cmd[c].dispatched = TRUE /\ cmd[c].version # 0
    BY <1>1, <2>1 DEF GoodRow, Active
  <2>3. GoodRow(new, {}) /\ Becomes(cmd[c], new, s, TRUE, r)
    <3>1. s \in {"delivered"} \cup Terminal /\ r \in Runs \cup {NoRun} /\ r # NoRun
      BY <1>5, RunsAssumption
    <3>2. /\ GoodRow(new, {})
          /\ Becomes(cmd[c], new, s, cmd[c].dispatched, r)
      BY <1>1, <2>2, <3>1, ClosedGood
    <3> QED BY <2>2, <3>2
  <2>4. rows = {}
    BY <1>1, <2>1, ConsumeAll DEF Active
  <2>5. new.run = r /\ new.state = s
    BY <2>3 DEF Becomes
  <2> HIDE DEF new, rows
  <2> QED BY <1>5, <2>1, <2>3, <2>4, <2>5, WriteRow DEF RowMove
<1> QED BY <1>2, <1>3, <1>4, <1>5 DEF VersionCall

\* The clock passing a timestamp is a row step.
LEMMA StepClockTick ==
  ASSUME LedgerInv, NEW c \in Commands, ClockTick(c)
  PROVE  RowStep(c)
<1>1. /\ GoodRow(cmd[c], outbox[c]) /\ cmd[c] \in Row
      /\ outbox = [outbox EXCEPT ![c] = outbox[c]]
  BY DEF LedgerInv, LedgerTypeOK
<1>2. cmd[c].live \in BOOLEAN /\ cmd[c].due \in BOOLEAN /\ cmd[c].eligible \in BOOLEAN
  BY <1>1 DEF Row
<1>3. ASSUME NEW l \in BOOLEAN, l => cmd[c].live,
             NEW d \in BOOLEAN, d = cmd[c].due \/ cmd[c].state = "queued",
             NEW e \in BOOLEAN,
             Write(c, [cmd[c] EXCEPT !.live = l, !.due = d, !.eligible = e],
                   outbox[c])
      PROVE  RowStep(c)
  <2> DEFINE new == [cmd[c] EXCEPT !.live = l, !.due = d, !.eligible = e]
  <2>1. GoodRow(new, outbox[c]) /\ new.run = cmd[c].run /\ Ticked(cmd[c], new)
    BY <1>1, <1>3, TickGood
  <2>2. Write(c, new, outbox[c])
    BY <1>3
  <2>3. new.due = cmd[c].due \/ cmd[c].state = "queued"
    BY <1>1, <1>3 DEF Row
  <2> HIDE DEF new
  <2> QED BY <2>1, <2>2, <2>3, WriteRow DEF RowMove
<1>4. CASE LeaseLapses(c)
  <2>1. [cmd[c] EXCEPT !.live = FALSE] =
        [cmd[c] EXCEPT !.live = FALSE, !.due = cmd[c].due, !.eligible = cmd[c].eligible]
    BY <1>1 DEF Row
  <2>2. Write(c, [cmd[c] EXCEPT !.live = FALSE], outbox[c])
    BY <1>1, <1>4 DEF LeaseLapses, Write
  <2> QED BY <1>2, <1>3, <2>1, <2>2
<1>5. CASE RetryComesDue(c)
  <2>1. [cmd[c] EXCEPT !.due = TRUE] =
        [cmd[c] EXCEPT !.live = cmd[c].live, !.due = TRUE, !.eligible = cmd[c].eligible]
    BY <1>1 DEF Row
  <2>2. Write(c, [cmd[c] EXCEPT !.due = TRUE], outbox[c])
    BY <1>1, <1>5 DEF RetryComesDue, Write
  <2>3. cmd[c].state = "queued"
    BY <1>5 DEF RetryComesDue
  <2> QED BY <1>2, <1>3, <2>1, <2>2, <2>3
<1>6. CASE PayloadExpires(c)
  <2>1. [cmd[c] EXCEPT !.eligible = FALSE] =
        [cmd[c] EXCEPT !.live = cmd[c].live, !.due = cmd[c].due, !.eligible = FALSE]
    BY <1>1 DEF Row
  <2>2. Write(c, [cmd[c] EXCEPT !.eligible = FALSE], outbox[c])
    BY <1>1, <1>6 DEF PayloadExpires, Write
  <2> QED BY <1>2, <1>3, <2>1, <2>2
<1> QED BY <1>4, <1>5, <1>6 DEF ClockTick

\* Creating a command and claiming it are row steps.
LEMMA StepOpening ==
  ASSUME LedgerInv, NEW c \in Commands, create_command(c) \/ claim_next_command(c)
  PROVE  RowStep(c)
<1>1. CASE create_command(c)
  <2> DEFINE new == [NextVersion(cmd[c]) EXCEPT !.state = "queued", !.due = TRUE]
  <2>1. cmd[c].state = "absent" /\ Write(c, new, WakeUp(new, "queued"))
    BY <1>1 DEF create_command
  <2>2. /\ GoodRow(new, WakeUp(new, "queued"))
        /\ Becomes(cmd[c], new, "queued", FALSE, NoRun)
    BY <2>1, CreatedGood DEF LedgerInv
  <2> HIDE DEF new
  <2> QED BY <2>1, <2>2, WriteRow DEF RowMove, Becomes
<1>2. CASE claim_next_command(c)
  <2> DEFINE new == Leased(cmd[c])
             rows == outbox[c] \ {<<cmd[c].version, "queued">>}
  <2>1. /\ GoodRow(cmd[c], outbox[c]) /\ cmd[c].state = "queued"
        /\ Write(c, new, rows)
    BY <1>2 DEF LedgerInv, claim_next_command, Claimable
  <2>2. GoodRow(new, rows) /\ Becomes(cmd[c], new, "leased", FALSE, NoRun)
    BY <2>1, LeasedGood
  <2> HIDE DEF new, rows
  <2> QED BY <2>1, <2>2, WriteRow DEF RowMove, Becomes
<1> QED BY <1>1, <1>2

\* Every step of the ledger is a row step, a batch recovery or a stutter.
LEMMA StepForms ==
  ASSUME LedgerInv, [LedgerNext]_ledgerVars
  PROVE  \/ \E c \in Commands : RowStep(c)
         \/ \E S \in SUBSET Commands : reconcile_expired_leases(S)
         \/ UNCHANGED ledgerVars
BY StepOpening, StepLeaseCall, StepVersionCall, StepClockTick DEF LedgerNext

\* The batch recovery moves each row on its own: requeued if it was never
\* dispatched, unknown if it was.
LEMMA BatchRows ==
  ASSUME LedgerInv, NEW S \in SUBSET Commands, reconcile_expired_leases(S),
         NEW c \in Commands
  PROVE  /\ GoodRow(cmd'[c], outbox'[c])
         /\ \/ cmd'[c] = cmd[c]
            \/ /\ cmd[c].state = "leased" /\ ~ cmd[c].live /\ cmd[c].run = NoRun
               /\ IF cmd[c].dispatched
                    THEN Becomes(cmd[c], cmd'[c], "outcome_unknown", TRUE, NoRun)
                    ELSE Becomes(cmd[c], cmd'[c], "queued", FALSE, NoRun)
<1>1. GoodRow(cmd[c], outbox[c])
  BY DEF LedgerInv
<1>2. CASE c \in S
  <2>1. cmd[c].state = "leased" /\ ~ cmd[c].live
    BY <1>2 DEF reconcile_expired_leases, Lapsed
  <2>2. /\ cmd'[c] = Expired(cmd[c])
        /\ outbox'[c] = outbox[c] \cup WakeUp(Expired(cmd[c]),
               IF cmd[c].dispatched THEN "reconcile" ELSE "queued")
    BY <1>2 DEF reconcile_expired_leases
  <2>3. cmd[c].run = NoRun
    BY <1>1, <2>1 DEF GoodRow, Terminal
  <2> QED BY <1>1, <2>1, <2>2, <2>3, ExpiredGood
<1>3. CASE c \notin S
  BY <1>1, <1>3 DEF reconcile_expired_leases
<1> QED BY <1>2, <1>3

\* The batch recovery of lapsed leases keeps the invariant.
LEMMA InvReconcile ==
  ASSUME LedgerInv, NEW S \in SUBSET Commands, reconcile_expired_leases(S)
  PROVE  LedgerInv'
<1>1. \A c \in Commands :
        GoodRow(cmd'[c], outbox'[c]) /\ cmd'[c].run = cmd[c].run
  BY BatchRows DEF Becomes
<1>2. LedgerTypeOK'
  <2>1. \A c \in Commands : /\ cmd'[c] \in Row
                            /\ outbox'[c] \in SUBSET (Nat \X Topic)
    BY <1>1, GoodRowType
  <2>2. /\ cmd' = [c \in Commands |-> cmd'[c]]
        /\ outbox' = [c \in Commands |-> outbox'[c]]
    BY DEF reconcile_expired_leases
  <2> QED BY <2>1, <2>2 DEF LedgerTypeOK
<1>3. OneCommandPerRun'
  BY <1>1 DEF LedgerInv, OneCommandPerRun
<1> QED BY <1>1, <1>2, <1>3 DEF LedgerInv

\* The invariant is inductive.
LEMMA InvNext == LedgerInv /\ [LedgerNext]_ledgerVars => LedgerInv'
<1> SUFFICES ASSUME LedgerInv, [LedgerNext]_ledgerVars PROVE LedgerInv'
  OBVIOUS
<1>1. CASE UNCHANGED ledgerVars
  BY <1>1 DEF ledgerVars, LedgerInv, LedgerTypeOK, OneCommandPerRun
<1> QED BY <1>1, StepForms, InvRowStep, InvReconcile

\* The inductive invariant holds in every reachable state.
THEOREM LedgerInvariant == LedgerSpec => []LedgerInv
BY InvInit, InvNext, PTL DEF LedgerSpec

\* Rows and outbox rows are well typed (the tables of command_ledger.py).
THEOREM LedgerTyped == LedgerSpec => []LedgerTypeOK
<1>1. LedgerInv => LedgerTypeOK
  BY DEF LedgerInv
<1> QED BY <1>1, LedgerInvariant, PTL

\* No callers and no interleaving of command_ledger.py's methods produce a row
\* outside the lifecycle of the schema.
THEOREM RowsAreLawful == LedgerSpec => []RowConstraints
BY InvImplies, LedgerInvariant, PTL

\* claim_next_command always finds the outbox row of the command it picked, and
\* an unknown outcome always has the one reconcile row that will be consumed.
THEOREM WakeUpsMatch == LedgerSpec => []WakeUpMatchesState
BY InvImplies, LedgerInvariant, PTL

-----------------------------------------------------------------------------
(* The action properties.                                                  *)

\* A passed timestamp leaves the other columns alone.
LEMMA TickedFields ==
  ASSUME NEW row \in Row, NEW new \in Row, Ticked(row, new)
  PROVE  /\ new.state = row.state /\ new.version = row.version
         /\ new.token = row.token /\ new.dispatched = row.dispatched
         /\ new.run = row.run
BY DEF Ticked, Row

\* A row that stays as it is has ticked by no time.
LEMMA TickedRefl ==
  ASSUME NEW row \in Row
  PROVE  Ticked(row, row) /\ row = [row EXCEPT !.eligible = row.eligible]
BY DEF Ticked, Row

\* What a ledger step does to each row: a row move, or a recovery, or nothing.
LEMMA EachRow ==
  ASSUME LedgerInv, [LedgerNext]_ledgerVars, NEW c \in Commands
  PROVE  /\ cmd[c] \in Row /\ cmd'[c] \in Row
         /\ GoodRow(cmd[c], outbox[c]) /\ GoodRow(cmd'[c], outbox'[c])
         /\ \/ cmd'[c] = cmd[c]
            \/ RowMove(cmd[c], cmd'[c])
            \/ /\ cmd[c].state = "leased" /\ ~ cmd[c].live
               /\ IF cmd[c].dispatched
                    THEN Becomes(cmd[c], cmd'[c], "outcome_unknown", TRUE, NoRun)
                    ELSE Becomes(cmd[c], cmd'[c], "queued", FALSE, NoRun)
<1>1. LedgerInv'
  BY InvNext
<1>2. /\ cmd[c] \in Row /\ cmd'[c] \in Row
      /\ GoodRow(cmd[c], outbox[c]) /\ GoodRow(cmd'[c], outbox'[c])
  BY <1>1 DEF LedgerInv, LedgerTypeOK
<1>3. ASSUME NEW d \in Commands, RowStep(d)
      PROVE  cmd'[c] = cmd[c] \/ RowMove(cmd[c], cmd'[c])
  BY <1>3 DEF RowStep, LedgerInv, LedgerTypeOK
<1>4. CASE UNCHANGED ledgerVars
  BY <1>2, <1>4 DEF ledgerVars
<1> QED BY <1>2, <1>3, <1>4, StepForms, BatchRows

\* One step changes a row only together with its version.
LEMMA VersionStep ==
  LedgerInv /\ [LedgerNext]_ledgerVars => [VersionCovers]_ledgerVars
<1> SUFFICES ASSUME LedgerInv, [LedgerNext]_ledgerVars, NEW c \in Commands
             PROVE  \/ cmd'[c].version = cmd[c].version + 1
                    \/ Ticked(cmd[c], cmd'[c])
  BY DEF VersionCovers, Ticked
<1> QED BY EachRow, TickedRefl DEF RowMove, Becomes

\* One step undoes nothing.
LEMMA UndoStep ==
  LedgerInv /\ [LedgerNext]_ledgerVars => [NoStepUndoes]_ledgerVars
<1> SUFFICES ASSUME LedgerInv, [LedgerNext]_ledgerVars, NEW c \in Commands
             PROVE  /\ cmd[c].state \in Terminal =>
                         cmd'[c] = [cmd[c] EXCEPT !.eligible = cmd'[c].eligible]
                    /\ cmd[c].run # NoRun => cmd'[c].run = cmd[c].run
                    /\ cmd[c].dispatched /\ ~ cmd'[c].dispatched =>
                         cmd[c].live /\ cmd'[c].state = "queued"
  BY DEF NoStepUndoes
<1> DEFINE row == cmd[c]
           new == cmd'[c]
<1>1. /\ row \in Row /\ new \in Row
      /\ GoodRow(row, outbox[c]) /\ GoodRow(new, outbox'[c])
      /\ \/ new = row
         \/ RowMove(row, new)
         \/ /\ row.state = "leased" /\ ~ row.live
            /\ IF row.dispatched
                 THEN Becomes(row, new, "outcome_unknown", TRUE, NoRun)
                 ELSE Becomes(row, new, "queued", FALSE, NoRun)
  BY EachRow
<1> HIDE DEF row, new
<1>2. Ticked(row, new) =>
        /\ new.state = row.state /\ new.version = row.version
        /\ new.token = row.token /\ new.dispatched = row.dispatched
        /\ new.run = row.run
  BY <1>1, TickedFields
<1>3. row.state \in Terminal =>
        new = row \/ (Ticked(row, new) /\ new.due = row.due)
  BY <1>1 DEF RowMove, Terminal, Active
<1>4. row.state \in Terminal /\ Ticked(row, new) /\ new.due = row.due =>
        new = [row EXCEPT !.eligible = new.eligible]
  <2> SUFFICES ASSUME row.state \in Terminal, Ticked(row, new), new.due = row.due
               PROVE  new = [row EXCEPT !.eligible = new.eligible]
    OBVIOUS
  <2>1. row.live = FALSE /\ new.live = FALSE
    BY <1>1, <1>2 DEF GoodRow, Terminal, Row
  <2> QED BY <1>1, <2>1 DEF Ticked, Row
<1>5. row.run # NoRun => new.run = row.run
  BY <1>1, <1>2 DEF RowMove, Becomes, GoodRow, Terminal, Active
<1>6. row.dispatched /\ ~ new.dispatched => row.live /\ new.state = "queued"
  BY <1>1, <1>2 DEF RowMove, Becomes, GoodRow, Terminal, Active
<1> QED BY <1>1, <1>3, <1>4, <1>5, <1>6, TickedRefl DEF row, new

\* The version of a command_ledger.py row is a complete compare-and-set key:
\* no method changes a column without advancing it.
THEOREM SnapshotsAreVersioned == LedgerSpec => VersionedSnapshots
BY LedgerInvariant, VersionStep, PTL DEF LedgerSpec, VersionedSnapshots

\* No method of command_ledger.py, however stale its caller, reopens a closed
\* command, rebinds a Run or takes a dispatch mark back from a lapsed lease.
THEOREM NothingIsUndone == LedgerSpec => NothingUndone
BY LedgerInvariant, UndoStep, PTL DEF LedgerSpec, NothingUndone

-----------------------------------------------------------------------------
(* The refinement of CommandLifecycle.                                     *)

\* The phase of a row depends on two of its columns.
LEMMA PhaseValues ==
  ASSUME NEW row
  PROVE  /\ row.state = "absent" => PhaseOf(row) = "absent"
         /\ row.state = "queued" => PhaseOf(row) = "pending"
         /\ row.state = "leased" /\ row.dispatched => PhaseOf(row) = "sent"
         /\ row.state = "leased" /\ ~ row.dispatched => PhaseOf(row) = "pending"
         /\ row.state = "outcome_unknown" => PhaseOf(row) = "sent"
         /\ row.state = "delivered" => PhaseOf(row) = "bound"
         /\ row.state \in Terminal => PhaseOf(row) = "closed"
BY DEF PhaseOf, Terminal

\* Moves that the lifecycle does not see.
Invisible(row, new) == PhaseOf(new) = PhaseOf(row) /\ new.run = row.run

\* Moves that it does.
Visible(row, new) ==
  LET p == PhaseOf(row)
      q == PhaseOf(new)
  IN  \/ p = "absent" /\ q = "pending" /\ new.run = NoRun
      \/ p = "pending" /\ q = "sent" /\ new.run = NoRun
      \/ p = "sent" /\ q = "pending" /\ new.run = NoRun
      \/ p = "sent" /\ q = "bound" /\ new.run \in Runs
      \/ p \in {"pending", "sent"} /\ q = "closed" /\ new.run = NoRun
      \/ p = "sent" /\ q = "closed" /\ new.run \in Runs
      \/ p = "bound" /\ q = "closed" /\ new.run \in Runs /\ new.run = row.run

\* Every move of a good row is one or the other.
LEMMA MoveSeen ==
  ASSUME NEW row \in Row, NEW new \in Row, NEW rows, NEW rows2,
         GoodRow(row, rows), GoodRow(new, rows2), RowMove(row, new)
  PROVE  Invisible(row, new) \/ Visible(row, new)
<1>1. CASE Ticked(row, new)
  <2>1. new.state = row.state /\ new.dispatched = row.dispatched /\ new.run = row.run
    BY <1>1, TickedFields
  <2>2. row.state \in CommandState
    BY DEF Row
  <2> QED BY <2>1, <2>2, PhaseValues DEF Invisible, CommandState, Active
<1>2. row.run # NoRun => row.state \in {"delivered"} \cup Terminal
  BY DEF GoodRow
<1>3. row.state = "delivered" => row.run # NoRun
  BY DEF GoodRow
<1>4. CASE row.state \in {"absent", "queued", "leased"}
  <2>1. row.run = NoRun
    BY <1>2, <1>4 DEF Terminal
  <2>2. row.state \in {"absent", "queued"} => ~ row.dispatched
    BY DEF GoodRow
  <2> QED BY <1>1, <1>4, <2>1, <2>2, PhaseValues
        DEF RowMove, Becomes, Invisible, Visible, Active, Terminal
<1>5. CASE row.state \in Active
  BY <1>1, <1>2, <1>3, <1>5, PhaseValues
     DEF RowMove, Becomes, Invisible, Visible, Active, Terminal
<1>6. CASE row.state \in Terminal
  BY <1>1, <1>6 DEF RowMove, Active, Terminal
<1> QED BY <1>4, <1>5, <1>6 DEF Row, CommandState

\* A visible row step is a step of the lifecycle.
LEMMA StepSeen ==
  ASSUME LedgerInv, NEW c \in Commands, RowStep(c), Visible(cmd[c], cmd'[c])
  PROVE  Lifecycle!Next
<1>1. cmd'[c].run \in Runs => RunFree(c, cmd'[c].run)
  BY RunsAssumption DEF RowStep, RunFree, LedgerInv, OneCommandPerRun
<1>2. /\ [d \in Commands |-> PhaseOf(cmd'[d])] =
           [[d \in Commands |-> PhaseOf(cmd[d])] EXCEPT ![c] = PhaseOf(cmd'[c])]
      /\ [d \in Commands |-> cmd'[d].run] =
           [[d \in Commands |-> cmd[d].run] EXCEPT ![c] = cmd'[c].run]
  BY DEF RowStep, LedgerInv, LedgerTypeOK
<1> DEFINE Seen(p, q, r) == /\ PhaseOf(cmd[c]) = p
                            /\ PhaseOf(cmd'[c]) = q
                            /\ cmd'[c].run = r
<1>3. CASE Seen("absent", "pending", NoRun)
  <2>1. Lifecycle!Submit(c)
    BY <1>2, <1>3 DEF Lifecycle!Submit, Lifecycle!Move
  <2> QED BY <2>1 DEF Lifecycle!Next
<1>4. CASE Seen("pending", "sent", NoRun)
  <2>1. Lifecycle!Send(c)
    BY <1>2, <1>4 DEF Lifecycle!Send, Lifecycle!Move
  <2> QED BY <2>1 DEF Lifecycle!Next
<1>5. CASE Seen("sent", "pending", NoRun)
  <2>1. Lifecycle!Retract(c)
    BY <1>2, <1>5 DEF Lifecycle!Retract, Lifecycle!Move
  <2> QED BY <2>1 DEF Lifecycle!Next
<1>6. CASE Seen("pending", "closed", NoRun) \/ Seen("sent", "closed", NoRun)
  <2>1. Lifecycle!Abandon(c)
    BY <1>2, <1>6 DEF Lifecycle!Abandon, Lifecycle!Move
  <2> QED BY <2>1 DEF Lifecycle!Next
<1>7. ASSUME NEW r \in Runs, Seen("sent", "bound", r) PROVE Lifecycle!Next
  <2>1. Lifecycle!Bind(c, r)
    BY <1>1, <1>2, <1>7 DEF Lifecycle!Bind, Lifecycle!Free, Lifecycle!Move, RunFree
  <2> QED BY <2>1 DEF Lifecycle!Next
<1>8. ASSUME NEW r \in Runs,
             Seen("sent", "closed", r) \/ (Seen("bound", "closed", r) /\ cmd[c].run = r)
      PROVE  Lifecycle!Next
  <2>1. Lifecycle!Close(c, r)
    BY <1>1, <1>2, <1>8 DEF Lifecycle!Close, Lifecycle!Free, Lifecycle!Move, RunFree
  <2> QED BY <2>1 DEF Lifecycle!Next
<1> QED BY <1>3, <1>4, <1>5, <1>6, <1>7, <1>8 DEF Visible

\* An invisible step changes neither phase nor Run.
LEMMA StepUnseen ==
  ASSUME \A c \in Commands : Invisible(cmd[c], cmd'[c])
  PROVE  UNCHANGED Lifecycle!vars
BY DEF Invisible, Lifecycle!vars

\* Every step of the ledger is a step of the lifecycle or leaves it alone.
LEMMA LifecycleStep ==
  LedgerInv /\ [LedgerNext]_ledgerVars => [Lifecycle!Next]_Lifecycle!vars
<1> SUFFICES ASSUME LedgerInv, [LedgerNext]_ledgerVars
             PROVE  [Lifecycle!Next]_Lifecycle!vars
  OBVIOUS
<1>1. ASSUME NEW c \in Commands, RowStep(c)
      PROVE  [Lifecycle!Next]_Lifecycle!vars
  <2>1. Invisible(cmd[c], cmd'[c]) \/ Visible(cmd[c], cmd'[c])
    BY <1>1, EachRow, MoveSeen DEF RowStep
  <2>2. ASSUME NEW d \in Commands \ {c} PROVE cmd'[d] = cmd[d]
    BY <1>1, <2>2 DEF RowStep, LedgerInv, LedgerTypeOK
  <2>3. CASE Invisible(cmd[c], cmd'[c])
    BY <2>2, <2>3, StepUnseen DEF Invisible
  <2> QED BY <1>1, <2>1, <2>3, StepSeen
<1>2. ASSUME NEW S \in SUBSET Commands, reconcile_expired_leases(S)
      PROVE  UNCHANGED Lifecycle!vars
  <2>1. ASSUME NEW c \in Commands PROVE Invisible(cmd[c], cmd'[c])
    BY <1>2, BatchRows, PhaseValues DEF Invisible, Becomes
  <2> QED BY <2>1, StepUnseen
<1>3. CASE UNCHANGED ledgerVars
  BY <1>3 DEF ledgerVars, Lifecycle!vars
<1> QED BY <1>1, <1>2, <1>3, StepForms

\* The empty ledger is an initial state of the lifecycle.
LEMMA LifecycleInit == LedgerInit => Lifecycle!Init
BY PhaseValues DEF LedgerInit, AbsentRow, Lifecycle!Init

\* The ledger of command_ledger.py implements CommandLifecycle: whatever the
\* callers do, a command is sent, bound and closed at most once each way.
THEOREM LedgerImplementsLifecycle == LedgerSpec => ImplementsLifecycle
BY LedgerInvariant, LifecycleInit, LifecycleStep, PTL
   DEF LedgerSpec, ImplementsLifecycle, Lifecycle!Spec

=============================================================================
