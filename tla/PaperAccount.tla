---------------------------- MODULE PaperAccount ----------------------------
(***************************************************************************)
(* The persistent paper account (execution/account.py), the service that   *)
(* trades on it (execution/account_service.py over execution/paper_broker  *)
(* and trading_kernel/accounting) and the routes that expose both          *)
(* (api/routes/paper.py, with the pending-order thread of api/server.py).  *)
(*                                                                         *)
(* Every route loads account.json, changes the account in memory and saves *)
(* it under the account locks, so one route call is one action; a call     *)
(* that raises saves nothing and is a stuttering step.  The trades of a    *)
(* strategy sleeve are one action too: module StrategySleeves is about the *)
(* crashes between their writes.                                           *)
(*                                                                         *)
(* Abstractions.  Shares and money are integers; slippage and commission   *)
(* together are Fee for each share, so the product of the two rates, which *)
(* is a millionth of a price, is dropped.  A quote is any member of Prices *)
(* at any time.  Average cost, realised P&L and the ledger are left out.   *)
(***************************************************************************)
EXTENDS Integers, Sequences, FiniteSets, SequencesExt, FiniteSetsExt, Functions

CONSTANTS Symbols, Sleeves,
          Orders,        \* ids of the limit orders that can wait at one time
          InitialCash,   \* DEFAULT_INITIAL_CASH
          Prices, Fee,
          MaxQty,        \* bound: shares of one order
          Mixed,         \* rebalances and resets are also made while sleeves
                         \* exist
          SnapshotPlans  \* sleeves also run plans that were sized by a signal,
                         \* which leaves no room for the fees

ASSUME PaperConstants == /\ InitialCash \in Nat /\ Fee \in Nat /\ MaxQty \in Nat
                         /\ Prices \subseteq Nat \ {0}
                         /\ Mixed \in BOOLEAN /\ SnapshotPlans \in BOOLEAN

\* The ids of sleeves are not among the keys of source_quantity that have a
\* meaning of their own, and no order has the id that stands for none.
ASSUME NamesAssumption == /\ IsFiniteSet(Symbols) /\ IsFiniteSet(Sleeves)
                          /\ {"manual", "legacy"} \cap Sleeves = {}
                          /\ "none" \notin Orders

VARIABLES acct,    \* account.json as its validator returns it
          book,    \* book[s]: cash in sleeve.json, NoSleeve before it exists
          shorted  \* the last pending-order check did not fill the first order
                   \* it executed in full, not counting shared shares

vars == <<acct, book, shorted>>

NoSleeve == -1
NoLimit == 0
Sides == {"buy", "sell"}
Owners == {"manual", "legacy"} \cup Sleeves   \* keys of source_quantity

\* PendingAccountOrder
Waiting == [id : Orders, sym : Symbols, side : Sides, qty : 1..MaxQty,
            limit : Prices]

open_new == [cash |-> InitialCash,
             manual |-> InitialCash,
             alloc |-> [s \in Sleeves |-> 0],
             pos |-> [sym \in Symbols |-> [o \in Owners |-> 0]],
             pending |-> <<>>,
             frozen |-> FALSE]

Init == acct = open_new /\ book = [s \in Sleeves |-> NoSleeve] /\ shorted = FALSE

-----------------------------------------------------------------------------
(* Views of an account.                                                    *)

Larger(x, y) == IF x > y THEN x ELSE y
Smaller(x, y) == IF x < y THEN x ELSE y

\* _ensure_manual_sleeve_cash, run on every load.
ensure_manual_sleeve_cash(a) ==
  [a EXCEPT !.manual = Larger(a.cash - SumFunction(a.alloc), 0)]

position_quantity(a, sym) == SumFunction(a.pos[sym])

\* Mutant: the reservation leaves the costs out.
_reserved_cash_gross(o) == IF o.side = "buy" THEN o.qty * o.limit ELSE 0

_reserved_cash(o) == IF o.side = "buy" THEN o.qty * (o.limit + Fee) ELSE 0
_reserved_quantity(o) == IF o.side = "sell" THEN o.qty ELSE 0

reserved_cash(a, except) ==
  MapThenSumSet(_reserved_cash, {o \in ToSet(a.pending) : o.id # except})

reserved_quantity(a, sym, except) ==
  MapThenSumSet(_reserved_quantity,
                {o \in ToSet(a.pending) : o.id # except /\ o.sym = sym})

\* Mutant: a manual order may spend the cash of the sleeves.
manual_available_cash_whole(a, except) ==
  Larger(a.cash - reserved_cash(a, except), 0)

manual_available_cash(a, except) ==
  Larger(a.manual - reserved_cash(a, except), 0)

manual_available_quantity(a, sym, except) ==
  Larger(a.pos[sym]["manual"] - reserved_quantity(a, sym, except), 0)

\* _available_cash and _available_quantity: what the broker may use.
_available_cash(a, owner, except) ==
  IF owner = "manual" THEN manual_available_cash(a, except)
                      ELSE Larger(a.cash - reserved_cash(a, except), 0)

_available_quantity(a, sym, owner, except) ==
  IF owner = "manual" THEN manual_available_quantity(a, sym, except)
  ELSE Larger(position_quantity(a, sym) - reserved_quantity(a, sym, except), 0)

-----------------------------------------------------------------------------
(* Fills.                                                                  *)

\* Each owner gives up its share of a sale the code splits pro rata.  Only
\* manual and legacy shares are ever sold that way, see RebalanceAllowed.
ProRata(q, owned, sold) ==
  LET manual == (owned["manual"] * sold) \div q
  IN  [owned EXCEPT !["manual"] = @ - manual, !["legacy"] = @ - (sold - manual)]

\* PaperAccount.apply_fill: roll_position_on_fill, _reduce_source_quantity,
\* _sync_manual_sleeve_cash.
apply_fill(a, sym, side, q, price, owner) ==
  LET delta == IF side = "buy" THEN -(q * (price + Fee)) ELSE q * (price - Fee)
      owned == a.pos[sym]
  IN  [a EXCEPT
         !.cash = @ + delta,
         !.manual = IF owner \in Sleeves THEN @ ELSE @ + delta,
         !.pos[sym] =
            CASE side = "buy" -> [owned EXCEPT ![owner] = @ + q]
              [] side = "sell" /\ owner # "legacy" -> [owned EXCEPT ![owner] = @ - q]
              [] OTHER -> ProRata(position_quantity(a, sym), owned, q)]

\* Mutant: the broker sells what was asked for.
_executable_quantity_short(a, sym, side, q, price, owner, except) ==
  IF side = "sell" THEN q
  ELSE Smaller(q, _available_cash(a, owner, except) \div (price + Fee))

\* PaperBroker._executable_quantity, in whole shares.
_executable_quantity(a, sym, side, q, price, owner, except) ==
  Smaller(q, IF side = "buy"
             THEN _available_cash(a, owner, except) \div (price + Fee)
             ELSE _available_quantity(a, sym, owner, except))

_limit_blocks_fill(side, price, limit) ==
  /\ limit # NoLimit
  /\ IF side = "buy" THEN price > limit ELSE price < limit

\* The filling part of _execute_single, once the limit allows it.
Executed(a, sym, side, q, price, owner, except) ==
  LET n == _executable_quantity(a, sym, side, q, price, owner, except)
  IN  [acct |-> IF n = 0 THEN a ELSE apply_fill(a, sym, side, n, price, owner),
       full |-> n = q]

-----------------------------------------------------------------------------
(* Routes of the account.                                                  *)

Save(a) == acct' = ensure_manual_sleeve_cash(a)

\* place_manual_order: a blocked limit order waits when its reservation is
\* available, and any other order fills as far as cash or shares allow.
place_manual_order(sym, side, q, limit, price) ==
  /\ ~ acct.frozen
  /\ IF _limit_blocks_fill(side, price, limit)
     THEN \E id \in Orders \ {o.id : o \in ToSet(acct.pending)} :
            LET o == [id |-> id, sym |-> sym, side |-> side, qty |-> q,
                      limit |-> limit]
            IN  /\ _reserved_cash(o) <= _available_cash(acct, "manual", "none")
                /\ _reserved_quantity(o)
                     <= _available_quantity(acct, sym, "manual", "none")
                /\ acct' = [acct EXCEPT !.pending = Append(@, o)]
     ELSE Save(Executed(acct, sym, side, q, price, "manual", "none").acct)
  /\ shorted' = FALSE
  /\ UNCHANGED book

cancel_pending_order(id) ==
  /\ \E i \in DOMAIN acct.pending :
       /\ acct.pending[i].id = id
       /\ acct' = [acct EXCEPT !.pending = RemoveAt(@, i)]
  /\ shorted' = FALSE
  /\ UNCHANGED book

\* A rebalance has bought shares of the symbol a waiting order is to sell; its
\* later sales are pro rata and take manual shares.
Shared(a, o) == o.side = "sell" /\ a.pos[o.sym]["legacy"] > 0

\* The loop of process_pending_orders over quotes price and the orders whose
\* limit the daily range of earlier days touched.  The queue of the account is
\* replaced after the loop, so an order that has just been filled still holds
\* its reservation while the later ones execute.
OneOrder(price, touched, o, acc) ==
  LET blocked == _limit_blocks_fill(o.side, price[o.sym], o.limit)
      paid == IF blocked THEN o.limit ELSE price[o.sym]
      run == Executed(acc.acct, o.sym, o.side, o.qty, paid, "manual", o.id)
  IN  IF blocked /\ o.id \notin touched
      THEN [acc EXCEPT !.remaining = Append(@, o)]
      ELSE [acct |-> run.acct,
            remaining |-> acc.remaining,
            any |-> TRUE,
            short |-> acc.short \/ (~ run.full /\ ~ acc.any /\ ~ Shared(acc.acct, o))]

process_pending_orders(price, touched) ==
  /\ ~ acct.frozen /\ acct.pending # <<>>
  /\ LET start == [acct |-> acct, remaining |-> <<>>, any |-> FALSE, short |-> FALSE]
         end == FoldLeft(LAMBDA acc, o : OneOrder(price, touched, o, acc),
                         start, acct.pending)
     IN  /\ Save([end.acct EXCEPT !.pending = end.remaining])
         /\ shorted' = end.short
  /\ UNCHANGED book

\* One leg of a rebalance to `target` shares, on a running account.
Leg(target, price, side, sym, acc) ==
  LET held == position_quantity(acc.acct, sym)
      q == IF side = "sell" THEN held - target[sym] ELSE target[sym] - held
      run == Executed(acc.acct, sym, side, q, price[sym], "legacy", "none")
  IN  IF q <= 0 THEN acc ELSE [acct |-> run.acct, full |-> acc.full /\ run.full]

\* The trial of rebalance_to_strategy: every sell, then every buy.
Trial(target, price) ==
  LET sold == FoldSet(LAMBDA sym, acc : Leg(target, price, "sell", sym, acc),
                      [acct |-> acct, full |-> TRUE], Symbols)
  IN  FoldSet(LAMBDA sym, acc : Leg(target, price, "buy", sym, acc), sold, Symbols)

\* _has_strategy_sleeve_positions turns the call down.
RebalanceAllowed ==
  \A sym \in Symbols, s \in Sleeves : book[s] # NoSleeve => acct.pos[sym][s] = 0

\* Targets are worth no more than the account; an aborted trial changes nothing.
rebalance_to_strategy(target, price) ==
  LET value(f) == MapThenSumSet(LAMBDA sym : f[sym] * price[sym], Symbols)
      held == [sym \in Symbols |-> position_quantity(acct, sym)]
      trial == Trial(target, price)
  IN  /\ ~ acct.frozen
      /\ RebalanceAllowed
      /\ value(target) <= acct.cash + value(held)
      /\ trial.full
      /\ Save(trial.acct)
      /\ shorted' = FALSE
      /\ UNCHANGED book

set_account_kill_switch(on) ==
  /\ acct' = [acct EXCEPT !.frozen = on]
  /\ shorted' = FALSE
  /\ UNCHANGED book

\* reset_account opens a new account and leaves the sleeves alone.
reset_account ==
  /\ acct' = open_new
  /\ shorted' = FALSE
  /\ UNCHANGED book

-----------------------------------------------------------------------------
(* Routes of the sleeves that move money.                                  *)

\* Mutant of _allocate_cash: only the sleeves' own cash is out of reach.
_allocate_cash_reserved(s, cash) ==
  /\ book[s] = NoSleeve
  /\ cash <= acct.manual
  /\ Save([acct EXCEPT !.alloc[s] = @ + cash])
  /\ book' = [book EXCEPT ![s] = cash]
  /\ shorted' = FALSE

\* create_strategy_sleeve in allocated mode.
_allocate_cash(s, cash) ==
  /\ book[s] = NoSleeve
  /\ cash <= manual_available_cash(acct, "none")
  /\ Save([acct EXCEPT !.alloc[s] = @ + cash])
  /\ book' = [book EXCEPT ![s] = cash]
  /\ shorted' = FALSE

\* The cash a plan of one order needs in its sleeve: definition_orders sizes a
\* buy with the fees in, a signal sizes it without, and _preflight looks only
\* at the gross value.
Affordable(s, q, price, definition) ==
  q * (IF definition THEN price + Fee ELSE price) <= book[s]

\* commit_execution of a plan with one order: _preflight, then _apply_steps,
\* which rounds an overdrawn sleeve up to zero.
SleeveTrade(s, sym, side, q, price, definition) ==
  LET a == apply_fill(acct, sym, side, q, price, s)
      cash == Larger(book[s] + (a.cash - acct.cash), 0)
  IN  /\ book[s] # NoSleeve /\ ~ acct.frozen
      /\ definition \/ SnapshotPlans
      /\ IF side = "buy" THEN Affordable(s, q, price, definition)
                         ELSE q <= acct.pos[sym][s]
      /\ Save([a EXCEPT !.alloc[s] = cash])
      /\ book' = [book EXCEPT ![s] = cash]
      /\ shorted' = FALSE

-----------------------------------------------------------------------------

Quotes == [Symbols -> Prices]
Targets == [Symbols -> 0..MaxQty]

\* Without Mixed, the calls that treat the account as one whole are not made while
\* sleeves have a part of it.
WholeAccount == Mixed \/ \A s \in Sleeves : book[s] = NoSleeve

Next ==
  \/ \E sym \in Symbols, side \in Sides, q \in 1..MaxQty, price \in Prices :
       \/ \E limit \in Prices \cup {NoLimit} :
            place_manual_order(sym, side, q, limit, price)
       \/ \E s \in Sleeves, definition \in BOOLEAN :
            SleeveTrade(s, sym, side, q, price, definition)
  \/ \E id \in Orders : cancel_pending_order(id)
  \/ \E price \in Quotes, touched \in SUBSET Orders :
       process_pending_orders(price, touched)
  \/ /\ WholeAccount
     /\ \/ \E target \in Targets, price \in Quotes : rebalance_to_strategy(target, price)
        \/ reset_account
  \/ \E on \in BOOLEAN : set_account_kill_switch(on)
  \/ \E s \in Sleeves, cash \in 1..InitialCash : _allocate_cash(s, cash)

Spec == Init /\ [][Next]_vars

-----------------------------------------------------------------------------
(* Properties.                                                             *)

(* No column leaves its range: in particular nothing is ever sold short by *)
(* any owner, and no allocation or manual cash is negative.                *)
TypeOK ==
  /\ acct.cash \in Int /\ acct.manual \in Nat
  /\ acct.alloc \in [Sleeves -> Nat]
  /\ acct.pos \in [Symbols -> [Owners -> Nat]]
  /\ acct.pending \in Seq(Waiting) /\ IsInjective([i \in DOMAIN acct.pending |->
                                                    acct.pending[i].id])
  /\ acct.frozen \in BOOLEAN
  /\ book \in [Sleeves -> Nat \cup {NoSleeve}]
  /\ shorted \in BOOLEAN

(* "Manual cash plus per-sleeve allocated cash must come from the same     *)
(* account" (PaperAccount): the allocations never add up to more cash than *)
(* the account has, whatever trades, allocations and checks come between.  *)
SleevesBacked == SumFunction(acct.alloc) <= acct.cash

(* The cash reserved by waiting buy orders is there, in the manual part of *)
(* the account, until they are cancelled or executed: neither later manual *)
(* orders nor new sleeves nor sleeve trades nor rebalances can take it.    *)
(* The shares that waiting sell orders promise are owned outside of the    *)
(* sleeves: by hand or, after a rebalance, by the whole account.           *)
ReservationsCovered ==
  /\ reserved_cash(acct, "none") <= acct.manual
  /\ \A sym \in Symbols :
       reserved_quantity(acct, sym, "none")
         <= acct.pos[sym]["manual"] + acct.pos[sym]["legacy"]

(* process_pending_orders fills the first order it executes in full: its   *)
(* reservation was enough when it was made and nothing has eaten into it   *)
(* since.  Excepted is a sell order of shares a rebalance holds too, see   *)
(* Shared.  The code reserves the sum of the two rates, so there "in full" *)
(* is up to their product, a few parts in a hundred million.               *)
FirstInLineFills == ~ shorted

=============================================================================
