------------------------- MODULE PaperAccountProofs -------------------------
(***************************************************************************)
(* Proofs about PaperAccount for any symbols, sleeves, orders, prices and  *)
(* amounts, where Regular holds.                                           *)
(*                                                                         *)
(* AccountInv is inductive: the manual cash is what the sleeves do not     *)
(* have, it covers what waiting orders reserve (their shares are covered   *)
(* together with those of rebalances, whose sales are pro rata), and       *)
(* account.json agrees with every sleeve.json.  The loops over waiting     *)
(* orders and over target weights are folds; LoopInv and Trials say what   *)
(* each of their turns keeps, and FoldLemmas carries it to their ends.     *)
(***************************************************************************)
EXTENDS PaperAccount, FoldLemmas, SequenceTheorems, TLAPS

\* Rebalances and resets keep away from sleeves, sleeves run plans sized with the
\* fees in, and no share costs more to sell than it brings.
Regular == ~ Mixed /\ ~ SnapshotPlans /\ \A p \in Prices : Fee <= p

Account == [cash : Int, manual : Nat, alloc : [Sleeves -> Nat],
            pos : [Symbols -> [Owners -> Nat]], pending : Seq(Waiting),
            frozen : BOOLEAN]

\* What waiting orders reserve, as functions.
CashOf == [o \in Waiting |-> _reserved_cash(o)]
SharesOf == [o \in Waiting |-> _reserved_quantity(o)]

\* The waiting orders of a set that are about the symbol.
On(sym, S) == {o \in S : o.sym = sym}

\* No two orders wait under one id.
DistinctIds(queue) ==
  \A i, k \in DOMAIN queue : queue[i].id = queue[k].id => i = k

\* The manual cash is what the sleeves do not have.
Balanced(a) == a.cash = a.manual + Total(a.alloc, Sleeves)

\* The shares no sleeve owns.
Unsleeved(a, sym) == a.pos[sym]["manual"] + a.pos[sym]["legacy"]

\* The account holds, outside of the sleeves, what the orders of S reserve.
Covers(a, S) ==
  /\ Total(CashOf, S) <= a.manual
  /\ \A sym \in Symbols : Total(SharesOf, On(sym, S)) <= Unsleeved(a, sym)

\* account.json and sleeve.json agree, and a sleeve that does not exist owns
\* nothing.
BooksMatch ==
  \A s \in Sleeves :
    IF book[s] = NoSleeve
    THEN acct.alloc[s] = 0 /\ \A sym \in Symbols : acct.pos[sym][s] = 0
    ELSE acct.alloc[s] = book[s]

AccountInv ==
  /\ acct \in Account
  /\ book \in [Sleeves -> Nat \cup {NoSleeve}]
  /\ shorted = FALSE
  /\ DistinctIds(acct.pending)
  /\ Balanced(acct)
  /\ Covers(acct, ToSet(acct.pending))
  /\ BooksMatch

-----------------------------------------------------------------------------
(* Numbers.                                                                *)

(* Products of naturals are natural and grow with their factors. *)
LEMMA Products ==
  /\ \A a, b \in Nat : a * b \in Nat
  /\ \A a, b, c \in Nat : a <= b => a * c <= b * c /\ c * a <= c * b
OBVIOUS

(* What a quotient buys is affordable, and what is affordable it buys. *)
LEMMA Quotients ==
  ASSUME NEW m \in Nat, NEW p \in Nat \ {0}
  PROVE  /\ m \div p \in Nat /\ (m \div p) * p <= m
         /\ \A q \in Nat : q * p <= m => q <= m \div p
OBVIOUS

-----------------------------------------------------------------------------
(* Sums over the waiting orders.                                           *)

(* What an order reserves is a natural number. *)
LEMMA Reserves ==
  ASSUME NEW o \in Waiting
  PROVE  /\ _reserved_cash(o) \in Nat /\ CashOf[o] = _reserved_cash(o)
         /\ _reserved_quantity(o) \in Nat /\ SharesOf[o] = _reserved_quantity(o)
<1>1. o.qty \in Nat /\ o.limit \in Nat /\ o.limit + Fee \in Nat
  <2>1. o.qty \in 1..MaxQty /\ o.limit \in Prices
    BY DEF Waiting
  <2>2. o.limit \in Nat
    BY <2>1, PaperConstants
  <2> QED
    BY <2>1, <2>2, PaperConstants
<1>2. o.qty * (o.limit + Fee) \in Nat
  BY <1>1, Products
<1> QED
  BY <1>1, <1>2 DEF CashOf, SharesOf, _reserved_cash, _reserved_quantity

(* MapThenSumSet of the reserved cash is the total of CashOf. *)
LEMMA CashSum ==
  ASSUME NEW S \in SUBSET Waiting, IsFiniteSet(S)
  PROVE  MapThenSumSet(_reserved_cash, S) = Total(CashOf, S)
<1> DEFINE c == [s \in (SUBSET S) \ {{}} |-> CHOOSE x \in s : TRUE]
           Rec(h) == [s \in SUBSET S |->
                        IF s = {} THEN 0 ELSE CashOf[c[s]] + h[s \ {c[s]}]]
           iter == CHOOSE h : h = Rec(h)
<1>1. \A s \in (SUBSET S) \ {{}} : c[s] \in s
  OBVIOUS
<1>2. /\ \E h : h = Rec(h)
      /\ \A h : h = Rec(h) => h[S] = Total(CashOf, S)
  <2>1. \A x \in S : CashOf[x] \in Nat
    BY Reserves
  <2> HIDE DEF c
  <2> QED
    BY <1>1, <2>1, SumRecursion
<1>3. iter = Rec(iter)
  <2> HIDE DEF Rec
  <2> QED
    BY <1>2
<1>4. MapThenSumSet(_reserved_cash, S) = iter[S]
  <2> DEFINE Body(h) == [s \in SUBSET S |->
               IF s = {} THEN 0
               ELSE _reserved_cash(CHOOSE x \in s : TRUE)
                      + h[s \ {CHOOSE x \in s : TRUE}]]
  <2>1. MapThenSumSet(_reserved_cash, S) = (CHOOSE h : h = Body(h))[S]
    BY Zenon DEF MapThenSumSet, MapThenFoldSet
  <2>2. ASSUME NEW h PROVE Body(h) = Rec(h)
    <3>1. ASSUME NEW s \in SUBSET S
          PROVE  (IF s = {} THEN 0
                  ELSE _reserved_cash(CHOOSE x \in s : TRUE)
                         + h[s \ {CHOOSE x \in s : TRUE}])
                 = IF s = {} THEN 0 ELSE CashOf[c[s]] + h[s \ {c[s]}]
      <4>1. CASE s = {}
        BY <4>1
      <4>2. CASE s # {}
        <5> DEFINE y == CHOOSE x \in s : TRUE
        <5>1. c[s] = y /\ y \in S
          BY <4>2
        <5> HIDE DEF c, y
        <5>2. CashOf[y] = _reserved_cash(y)
          BY <5>1, Reserves
        <5>3. _reserved_cash(y) + h[s \ {y}] = CashOf[c[s]] + h[s \ {c[s]}]
          BY <5>1, <5>2
        <5> QED
          BY <4>2, <5>3 DEF y
      <4> QED
        BY <4>1, <4>2
    <3> HIDE DEF c
    <3> QED
      BY <3>1, Zenon
  <2>3. (CHOOSE h : h = Body(h)) = (CHOOSE h : h = Rec(h))
    <3> HIDE DEF Body, Rec
    <3> QED
      BY <2>2
  <2> QED
    BY <2>1, <2>3
<1> QED
  BY <1>2, <1>3, <1>4

(* MapThenSumSet of the reserved shares is the total of SharesOf. *)
LEMMA SharesSum ==
  ASSUME NEW S \in SUBSET Waiting, IsFiniteSet(S)
  PROVE  MapThenSumSet(_reserved_quantity, S) = Total(SharesOf, S)
<1> DEFINE c == [s \in (SUBSET S) \ {{}} |-> CHOOSE x \in s : TRUE]
           Rec(h) == [s \in SUBSET S |->
                        IF s = {} THEN 0 ELSE SharesOf[c[s]] + h[s \ {c[s]}]]
           iter == CHOOSE h : h = Rec(h)
<1>1. \A s \in (SUBSET S) \ {{}} : c[s] \in s
  OBVIOUS
<1>2. /\ \E h : h = Rec(h)
      /\ \A h : h = Rec(h) => h[S] = Total(SharesOf, S)
  <2>1. \A x \in S : SharesOf[x] \in Nat
    BY Reserves
  <2> HIDE DEF c
  <2> QED
    BY <1>1, <2>1, SumRecursion
<1>3. iter = Rec(iter)
  <2> HIDE DEF Rec
  <2> QED
    BY <1>2
<1>4. MapThenSumSet(_reserved_quantity, S) = iter[S]
  <2> DEFINE Body(h) == [s \in SUBSET S |->
               IF s = {} THEN 0
               ELSE _reserved_quantity(CHOOSE x \in s : TRUE)
                      + h[s \ {CHOOSE x \in s : TRUE}]]
  <2>1. MapThenSumSet(_reserved_quantity, S) = (CHOOSE h : h = Body(h))[S]
    BY Zenon DEF MapThenSumSet, MapThenFoldSet
  <2>2. ASSUME NEW h PROVE Body(h) = Rec(h)
    <3>1. ASSUME NEW s \in SUBSET S
          PROVE  (IF s = {} THEN 0
                  ELSE _reserved_quantity(CHOOSE x \in s : TRUE)
                         + h[s \ {CHOOSE x \in s : TRUE}])
                 = IF s = {} THEN 0 ELSE SharesOf[c[s]] + h[s \ {c[s]}]
      <4>1. CASE s = {}
        BY <4>1
      <4>2. CASE s # {}
        <5> DEFINE y == CHOOSE x \in s : TRUE
        <5>1. c[s] = y /\ y \in S
          BY <4>2
        <5> HIDE DEF c, y
        <5>2. SharesOf[y] = _reserved_quantity(y)
          BY <5>1, Reserves
        <5>3. _reserved_quantity(y) + h[s \ {y}] = SharesOf[c[s]] + h[s \ {c[s]}]
          BY <5>1, <5>2
        <5> QED
          BY <4>2, <5>3 DEF y
      <4> QED
        BY <4>1, <4>2
    <3> HIDE DEF c
    <3> QED
      BY <3>1, Zenon
  <2>3. (CHOOSE h : h = Body(h)) = (CHOOSE h : h = Rec(h))
    <3> HIDE DEF Body, Rec
    <3> QED
      BY <2>2
  <2> QED
    BY <2>1, <2>3
<1> QED
  BY <1>2, <1>3, <1>4

(* Totals over finite sets of waiting orders are natural, and those of a   *)
(* part are no more than those of the whole.                               *)
LEMMA OrderTotals ==
  ASSUME NEW S \in SUBSET Waiting, IsFiniteSet(S)
  PROVE  /\ Total(CashOf, S) \in Nat
         /\ \A y : Total(SharesOf, On(y, S)) \in Nat
         /\ \A R \in SUBSET S :
              /\ IsFiniteSet(R)
              /\ Total(CashOf, R) \in Nat /\ Total(CashOf, R) <= Total(CashOf, S)
              /\ \A y : /\ Total(SharesOf, On(y, R)) \in Nat
                        /\ Total(SharesOf, On(y, R)) <= Total(SharesOf, On(y, S))
<1>1. \A o \in S : CashOf[o] \in Nat /\ SharesOf[o] \in Nat
  BY Reserves
<1>2. Total(CashOf, S) \in Nat
  BY <1>1, LayersFinite
<1>3. ASSUME NEW R \in SUBSET S, NEW y
      PROVE  /\ IsFiniteSet(R)
             /\ Total(CashOf, R) \in Nat /\ Total(CashOf, R) <= Total(CashOf, S)
             /\ Total(SharesOf, On(y, R)) \in Nat
             /\ Total(SharesOf, On(y, S)) \in Nat
             /\ Total(SharesOf, On(y, R)) <= Total(SharesOf, On(y, S))
  <2>1. IsFiniteSet(R) /\ Total(CashOf, R) \in Nat /\ Total(CashOf, R) <= Total(CashOf, S)
    BY <1>1, TotalPart, FS_Subset
  <2>2. On(y, S) \in SUBSET S /\ On(y, R) \in SUBSET On(y, S)
    BY DEF On
  <2>3. IsFiniteSet(On(y, S)) /\ \A o \in On(y, S) : SharesOf[o] \in Nat
    BY <1>1, <2>2, FS_Subset
  <2>4. /\ Total(SharesOf, On(y, R)) \in Nat /\ Total(SharesOf, On(y, S)) \in Nat
        /\ Total(SharesOf, On(y, R)) <= Total(SharesOf, On(y, S))
    BY <2>2, <2>3, TotalPart
  <2> QED
    BY <2>1, <2>4
<1> QED
  BY <1>2, <1>3

(* The orders of a queue are a finite set of waiting orders. *)
LEMMA QueueSet ==
  ASSUME NEW queue \in Seq(Waiting)
  PROVE  /\ ToSet(queue) \in SUBSET Waiting /\ IsFiniteSet(ToSet(queue))
         /\ \A o \in ToSet(queue) : o.id \in Orders /\ o.id # "none"
<1>1. ToSet(queue) \in SUBSET Waiting
  BY DEF ToSet
<1>2. IsFiniteSet(ToSet(queue))
  <2> DEFINE D == 1..Len(queue)
             T == ToSet(queue)
             f == [i \in D |-> queue[i]]
  <2>1. DOMAIN queue = D
    OBVIOUS
  <2>2. f \in [D -> T] /\ \A o \in T : \E i \in D : f[i] = o
    BY <2>1 DEF ToSet
  <2>3. f \in Surjection(D, T)
    <3> HIDE DEF f, D, T
    <3> QED
      BY <2>2 DEF Surjection
  <2>4. IsFiniteSet(D)
    BY FS_Interval
  <2> HIDE DEF f, D, T
  <2>5. IsFiniteSet(T)
    BY <2>3, <2>4, FS_Surjection
  <2> QED
    BY <2>5 DEF T
<1>3. \A o \in ToSet(queue) : o.id \in Orders /\ o.id # "none"
  BY <1>1, NamesAssumption DEF Waiting
<1> QED
  BY <1>1, <1>2, <1>3

(* The reservations of an account, as totals over its waiting orders. *)
LEMMA Reserved ==
  ASSUME NEW a \in Account, NEW except, NEW sym
  PROVE  LET S == {o \in ToSet(a.pending) : o.id # except}
         IN  /\ S \in SUBSET Waiting /\ IsFiniteSet(S)
             /\ On(sym, S) \in SUBSET Waiting /\ IsFiniteSet(On(sym, S))
             /\ reserved_cash(a, except) = Total(CashOf, S)
             /\ reserved_quantity(a, sym, except) = Total(SharesOf, On(sym, S))
             /\ reserved_cash(a, except) \in Nat
             /\ reserved_quantity(a, sym, except) \in Nat
<1> DEFINE W == ToSet(a.pending)
           S == {o \in W : o.id # except}
<1>1. W \in SUBSET Waiting /\ IsFiniteSet(W)
  BY QueueSet DEF Account
<1>2. S \in SUBSET Waiting /\ IsFiniteSet(S)
  BY <1>1, FS_Subset
<1>3. On(sym, S) \in SUBSET Waiting /\ IsFiniteSet(On(sym, S))
  <2> HIDE DEF S
  <2> QED
    BY <1>2, FS_Subset DEF On
<1>4. reserved_cash(a, except) = Total(CashOf, S)
  <2>1. reserved_cash(a, except) = MapThenSumSet(_reserved_cash, S)
    BY Zenon DEF reserved_cash
  <2> QED
    BY <1>2, <2>1, CashSum
<1>5. reserved_quantity(a, sym, except) = Total(SharesOf, On(sym, S))
  <2>1. On(sym, S) = {o \in W : o.id # except /\ o.sym = sym}
    BY DEF On
  <2>2. reserved_quantity(a, sym, except) = MapThenSumSet(_reserved_quantity, On(sym, S))
    BY <2>1, Zenon DEF reserved_quantity
  <2> HIDE DEF S
  <2> QED
    BY <1>3, <2>2, SharesSum
<1>6. Total(CashOf, S) \in Nat /\ Total(SharesOf, On(sym, S)) \in Nat
  <2> HIDE DEF S
  <2>1. \A o \in S : CashOf[o] \in Nat
    BY <1>2, Reserves
  <2>2. \A o \in On(sym, S) : SharesOf[o] \in Nat
    BY <1>3, Reserves
  <2> QED
    BY <1>2, <1>3, <2>1, <2>2, LayersFinite
<1> QED
  BY <1>2, <1>3, <1>4, <1>5, <1>6

-----------------------------------------------------------------------------
(* Fills of the manual part of the account.                                *)

(* The owners of a position are finite, and the fixed ones are no sleeves. *)
LEMMA OwnersFacts ==
  /\ IsFiniteSet(Owners) /\ Sleeves \subseteq Owners
  /\ "manual" \in Owners /\ "legacy" \in Owners
  /\ "manual" \notin Sleeves /\ "legacy" \notin Sleeves
<1>1. IsFiniteSet({"manual", "legacy"})
  <2>1. IsFiniteSet({"manual"} \cup {"legacy"})
    BY FS_Singleton, FS_AddElement
  <2> QED
    BY <2>1
<1> QED
  BY <1>1, NamesAssumption, FS_Union DEF Owners

(* The shares no sleeve owns are no fewer than those owned by hand. *)
LEMMA UnsleevedFacts ==
  ASSUME NEW a \in Account, NEW sym \in Symbols
  PROVE  /\ Unsleeved(a, sym) \in Nat
         /\ a.pos[sym]["manual"] \in Nat /\ a.pos[sym]["legacy"] \in Nat
         /\ a.pos[sym]["manual"] <= Unsleeved(a, sym)
         /\ a.pos[sym]["legacy"] = 0 => Unsleeved(a, sym) = a.pos[sym]["manual"]
<1>1. a.pos[sym]["manual"] \in Nat /\ a.pos[sym]["legacy"] \in Nat
  BY OwnersFacts DEF Account
<1> QED
  BY <1>1 DEF Unsleeved

(* What the broker fills of a manual order leaves the reservations of the  *)
(* other orders alone, and it fills all of an order that does.             *)
LEMMA ManualExecutable ==
  ASSUME NEW a \in Account, NEW sym \in Symbols, NEW side \in Sides,
         NEW q \in Nat, NEW price \in Prices, NEW except
  PROVE  LET n == _executable_quantity(a, sym, side, q, price, "manual", except)
             R == reserved_cash(a, except)
             Q == reserved_quantity(a, sym, except)
         IN  /\ n \in Nat /\ n <= q
             /\ side = "buy" /\ n # 0 => n * (price + Fee) + R <= a.manual
             /\ side = "sell" /\ n # 0 => n + Q <= a.pos[sym]["manual"]
             /\ side = "buy" /\ q * (price + Fee) + R <= a.manual => n = q
             /\ side = "sell" /\ q + Q <= a.pos[sym]["manual"] => n = q
<1> DEFINE n == _executable_quantity(a, sym, side, q, price, "manual", except)
           R == reserved_cash(a, except)
           Q == reserved_quantity(a, sym, except)
           m == a.manual
           own == a.pos[sym]["manual"]
           p == price + Fee
           free == Larger(m - R, 0)
           left == Larger(own - Q, 0)
<1>1. R \in Nat /\ Q \in Nat
  BY Reserved
<1>2. m \in Nat /\ own \in Nat
  BY OwnersFacts DEF Account
<1>3. p \in Nat \ {0}
  BY PaperConstants
<1>4. n = Smaller(q, IF side = "buy" THEN free \div p ELSE left)
  BY DEF _executable_quantity, _available_cash, _available_quantity,
         manual_available_cash, manual_available_quantity
<1>5. free \in Nat /\ left \in Nat
  BY <1>1, <1>2 DEF Larger
<1> HIDE DEF n, R, Q, m, own, p
<1>6. CASE side = "buy"
  <2> DEFINE d == free \div p
  <2>1. d \in Nat /\ d * p <= free /\ (q * p <= free => q <= d)
    BY <1>3, <1>5, Quotients
  <2>2. n = Smaller(q, d)
    BY <1>4, <1>6
  <2> HIDE DEF d, free
  <2>3. n \in Nat /\ n <= q /\ n <= d
    BY <2>1, <2>2 DEF Smaller
  <2>4. n * p <= d * p /\ n * p \in Nat /\ d * p \in Nat
    BY <1>3, <2>1, <2>3, Products
  <2>5. n * p <= free
    BY <1>5, <2>1, <2>4
  <2>6. n # 0 => n * p # 0
    BY <1>3, <2>3
  <2>7. n # 0 => n * p + R <= m
    BY <1>1, <1>2, <2>4, <2>5, <2>6 DEF free, Larger
  <2>8. q * p + R <= m => n = q
    <3>1. q * p \in Nat
      BY <1>3, Products
    <3>2. q * p + R <= m => q * p <= free
      BY <1>1, <1>2, <3>1 DEF free, Larger
    <3> QED
      BY <2>1, <2>2, <3>2 DEF Smaller
  <2> QED
    BY <1>6, <2>3, <2>7, <2>8 DEF n, R, Q, m, own, p
<1>7. CASE side = "sell"
  <2>1. n = Smaller(q, left)
    BY <1>4, <1>7
  <2>2. n \in Nat /\ n <= q /\ (n # 0 => n + Q <= own) /\ (q + Q <= own => n = q)
    BY <1>1, <1>2, <2>1 DEF Smaller, Larger
  <2> QED
    BY <1>7, <2>2 DEF n, R, Q, m, own, p
<1> QED
  BY <1>6, <1>7 DEF Sides

\* b is a with manual cash and manual shares changed by trades that keep
\* the rest, and only what covers the orders of S may have been spent.
Traded(a, b, S) ==
  /\ b \in Account
  /\ b.alloc = a.alloc /\ b.pending = a.pending /\ b.frozen = a.frozen
  /\ b.cash - b.manual = a.cash - a.manual
  /\ \A y \in Symbols, o \in Owners \ {"manual"} : b.pos[y][o] = a.pos[y][o]
  /\ b.manual >= a.manual \/ b.manual >= Total(CashOf, S)
  /\ \A y \in Symbols :
       \/ b.pos[y]["manual"] >= a.pos[y]["manual"]
       \/ b.pos[y]["manual"] >= Total(SharesOf, On(y, S))

(* A manual order that executes spends nothing the other orders reserve;  *)
(* it is filled in full when its own reservation is free as well.          *)
LEMMA ManualExecuted ==
  ASSUME Regular, NEW a \in Account, NEW sym \in Symbols, NEW side \in Sides,
         NEW q \in Nat, NEW price \in Prices, NEW except
  PROVE  LET run == Executed(a, sym, side, q, price, "manual", except)
             R == reserved_cash(a, except)
             Q == reserved_quantity(a, sym, except)
         IN  /\ Traded(a, run.acct, {o \in ToSet(a.pending) : o.id # except})
             /\ run.full \in BOOLEAN
             /\ side = "buy" /\ q * (price + Fee) + R <= a.manual => run.full
             /\ side = "sell" /\ q + Q <= a.pos[sym]["manual"] => run.full
<1> DEFINE n == _executable_quantity(a, sym, side, q, price, "manual", except)
           run == Executed(a, sym, side, q, price, "manual", except)
           S == {o \in ToSet(a.pending) : o.id # except}
           R == reserved_cash(a, except)
           Q == reserved_quantity(a, sym, except)
           b == apply_fill(a, sym, side, n, price, "manual")
           own == a.pos[sym]
<1>1. /\ n \in Nat /\ n <= q
      /\ side = "buy" /\ n # 0 => n * (price + Fee) + R <= a.manual
      /\ side = "sell" /\ n # 0 => n + Q <= own["manual"]
      /\ side = "buy" /\ q * (price + Fee) + R <= a.manual => n = q
      /\ side = "sell" /\ q + Q <= own["manual"] => n = q
  BY ManualExecutable
<1>2. R = Total(CashOf, S) /\ Q = Total(SharesOf, On(sym, S)) /\ R \in Nat /\ Q \in Nat
  BY Reserved
<1>3. run = [acct |-> IF n = 0 THEN a ELSE b, full |-> n = q]
  BY DEF Executed
<1>4. /\ a.cash \in Int /\ a.manual \in Nat /\ a.alloc \in [Sleeves -> Nat]
      /\ a.pos \in [Symbols -> [Owners -> Nat]] /\ own \in [Owners -> Nat]
      /\ a.pending \in Seq(Waiting) /\ a.frozen \in BOOLEAN
  BY DEF Account
<1>5. price \in Nat /\ Fee \in Nat /\ Fee <= price
  BY PaperConstants DEF Regular
<1>6. CASE n = 0
  <2>1. run.acct = a
    BY <1>3, <1>6
  <2>2. Traded(a, a, S)
    <3> HIDE DEF S
    <3> QED
      BY <1>4, OwnersFacts DEF Traded, Account
  <2> HIDE DEF n, S, R, Q, run
  <2>3. run.full = (n = q)
    BY <1>3, <1>6
  <2>4. /\ Traded(a, run.acct, S) /\ run.full \in BOOLEAN
        /\ side = "buy" /\ q * (price + Fee) + R <= a.manual => run.full
        /\ side = "sell" /\ q + Q <= own["manual"] => run.full
    BY <1>1, <2>1, <2>2, <2>3
  <2> QED
    BY <2>4 DEF n, S, R, Q, run
<1>7. CASE n # 0
  <2>1. run.acct = b /\ run.full = (n = q)
    BY <1>3, <1>7
  <2> HIDE DEF n, S, R, Q, run
  <2>2. CASE side = "buy"
    <3> DEFINE x == n * (price + Fee)
               new == [own EXCEPT !["manual"] = @ + n]
    <3>1. x \in Nat /\ x + R <= a.manual
      <4>1. price + Fee \in Nat
        BY <1>5
      <4>2. x \in Nat
        BY <1>1, <4>1, Products
      <4>3. x + R <= a.manual
        BY <1>1, <1>7, <2>2
      <4> QED
        BY <4>2, <4>3
    <3>2. new \in [Owners -> Nat] /\ new["manual"] = own["manual"] + n
          /\ \A o \in Owners \ {"manual"} : new[o] = own[o]
      BY <1>1, <1>4, OwnersFacts
    <3>3. b = [a EXCEPT !.cash = @ + (-x), !.manual = @ + (-x), !.pos[sym] = new]
      BY <2>2, OwnersFacts DEF apply_fill
    <3> HIDE DEF x, new
    <3>4. /\ b \in Account
          /\ b.cash = a.cash - x /\ b.manual = a.manual - x
          /\ b.alloc = a.alloc /\ b.pending = a.pending /\ b.frozen = a.frozen
          /\ b.pos = [a.pos EXCEPT ![sym] = new]
      <4>1. b = [cash |-> a.cash - x, manual |-> a.manual - x, alloc |-> a.alloc,
                 pos |-> [a.pos EXCEPT ![sym] = new], pending |-> a.pending,
                 frozen |-> a.frozen]
        BY <1>4, <3>1, <3>3 DEF Account
      <4>2. a.cash - x \in Int /\ a.manual - x \in Nat
        BY <1>2, <1>4, <3>1
      <4>3. [a.pos EXCEPT ![sym] = new] \in [Symbols -> [Owners -> Nat]]
        BY <1>4, <3>2
      <4> HIDE DEF b
      <4> QED
        BY <1>4, <4>1, <4>2, <4>3 DEF Account
    <3> HIDE DEF b
    <3>5. \A y \in Symbols : /\ b.pos[y]["manual"] >= a.pos[y]["manual"]
                             /\ \A o \in Owners \ {"manual"} : b.pos[y][o] = a.pos[y][o]
      BY <1>1, <1>4, <3>2, <3>4, OwnersFacts
    <3>6. b.manual >= R /\ b.cash - b.manual = a.cash - a.manual
      BY <1>2, <1>4, <3>1, <3>4
    <3>7. Traded(a, b, S)
      BY <1>2, <3>4, <3>5, <3>6 DEF Traded
    <3> QED
      BY <1>1, <2>1, <2>2, <3>7 DEF n, S, R, Q, run
  <2>3. CASE side = "sell"
    <3> DEFINE x == n * (price - Fee)
               new == [own EXCEPT !["manual"] = @ - n]
    <3>1. x \in Nat
      <4>1. price - Fee \in Nat
        BY <1>5
      <4> QED
        BY <1>1, <4>1, Products
    <3>2. new \in [Owners -> Nat] /\ new["manual"] >= Q
          /\ \A o \in Owners \ {"manual"} : new[o] = own[o]
      BY <1>1, <1>2, <1>4, <1>7, <2>3, OwnersFacts
    <3>3. b = [a EXCEPT !.cash = @ + x, !.manual = @ + x, !.pos[sym] = new]
      BY <2>3, OwnersFacts DEF apply_fill
    <3> HIDE DEF x, new
    <3>4. /\ b \in Account
          /\ b.cash = a.cash + x /\ b.manual = a.manual + x
          /\ b.alloc = a.alloc /\ b.pending = a.pending /\ b.frozen = a.frozen
          /\ b.pos = [a.pos EXCEPT ![sym] = new]
      <4>1. b = [cash |-> a.cash + x, manual |-> a.manual + x, alloc |-> a.alloc,
                 pos |-> [a.pos EXCEPT ![sym] = new], pending |-> a.pending,
                 frozen |-> a.frozen]
        BY <1>4, <3>1, <3>3 DEF Account
      <4>2. a.cash + x \in Int /\ a.manual + x \in Nat
        BY <1>4, <3>1
      <4>3. [a.pos EXCEPT ![sym] = new] \in [Symbols -> [Owners -> Nat]]
        BY <1>4, <3>2
      <4> HIDE DEF b
      <4> QED
        BY <1>4, <4>1, <4>2, <4>3 DEF Account
    <3> HIDE DEF b
    <3>5. \A y \in Symbols :
             /\ \/ b.pos[y]["manual"] >= a.pos[y]["manual"]
                \/ y = sym /\ b.pos[y]["manual"] >= Q
             /\ \A o \in Owners \ {"manual"} : b.pos[y][o] = a.pos[y][o]
      BY <1>4, <3>2, <3>4, OwnersFacts
    <3>6. b.manual >= a.manual /\ b.cash - b.manual = a.cash - a.manual
      BY <1>4, <3>1, <3>4
    <3>7. Traded(a, b, S)
      BY <1>2, <3>4, <3>5, <3>6 DEF Traded
    <3> QED
      BY <1>1, <2>1, <2>3, <3>7 DEF n, S, R, Q, run
  <2> QED
    BY <2>2, <2>3 DEF Sides
<1> QED
  BY <1>6, <1>7

-----------------------------------------------------------------------------
(* Saving.                                                                 *)

(* A save takes the manual cash from the account's cash and the sleeves'. *)
LEMMA Saved ==
  ASSUME NEW a \in Account, Total(a.alloc, Sleeves) <= a.cash
  PROVE  /\ ensure_manual_sleeve_cash(a)
              = [a EXCEPT !.manual = a.cash - Total(a.alloc, Sleeves)]
         /\ ensure_manual_sleeve_cash(a) \in Account
         /\ Balanced(ensure_manual_sleeve_cash(a))
<1> DEFINE t == Total(a.alloc, Sleeves)
           b == [a EXCEPT !.manual = a.cash - t]
<1>1. a.alloc \in [Sleeves -> Nat] /\ a.cash \in Int
  BY DEF Account
<1>2. t \in Nat
  BY <1>1, NamesAssumption, LayersFinite
<1>3. SumFunction(a.alloc) = t
  BY <1>1, NamesAssumption, SumFunctionTotal
<1> HIDE DEF t
<1>4. Larger(a.cash - t, 0) = a.cash - t /\ a.cash - t \in Nat
  BY <1>1, <1>2 DEF Larger, t
<1>5. ensure_manual_sleeve_cash(a) = b
  BY <1>3, <1>4 DEF ensure_manual_sleeve_cash
<1>6. b \in Account /\ b.cash = a.cash /\ b.alloc = a.alloc /\ b.manual = a.cash - t
  BY <1>4 DEF Account
<1>7. Balanced(b)
  BY <1>1, <1>2, <1>6 DEF Balanced, t
<1> QED
  BY <1>5, <1>6, <1>7 DEF t

(* An account in balance is saved as it is. *)
LEMMA SavedAsIs ==
  ASSUME NEW a \in Account, Balanced(a)
  PROVE  ensure_manual_sleeve_cash(a) = a
<1>1. a.alloc \in [Sleeves -> Nat] /\ a.cash \in Int /\ a.manual \in Nat
  BY DEF Account
<1>2. Total(a.alloc, Sleeves) \in Nat
  BY <1>1, NamesAssumption, LayersFinite
<1>3. Total(a.alloc, Sleeves) <= a.cash /\ a.cash - Total(a.alloc, Sleeves) = a.manual
  BY <1>1, <1>2 DEF Balanced
<1>4. ensure_manual_sleeve_cash(a) = [a EXCEPT !.manual = a.manual]
  BY <1>3, Saved
<1> QED
  BY <1>4 DEF Account

(* An account that only manual trades changed is in balance when the one  *)
(* before them was, and it covers what both it and the trades have to.     *)
LEMMA TradedFacts ==
  ASSUME NEW a \in Account, Balanced(a), NEW b,
         NEW S \in SUBSET Waiting, IsFiniteSet(S), Traded(a, b, S)
  PROVE  /\ Balanced(b)
         /\ Covers(a, S) => Covers(b, S)
<1>1. /\ a.cash \in Int /\ a.manual \in Nat /\ b.cash \in Int /\ b.manual \in Nat
      /\ a.pos \in [Symbols -> [Owners -> Nat]] /\ b.pos \in [Symbols -> [Owners -> Nat]]
      /\ a.alloc \in [Sleeves -> Nat]
  BY DEF Traded, Account
<1>2. Total(a.alloc, Sleeves) \in Nat
  BY <1>1, NamesAssumption, LayersFinite
<1>3. Balanced(b)
  BY <1>1, <1>2 DEF Traded, Balanced
<1>4. ASSUME Covers(a, S) PROVE Covers(b, S)
  <2>1. Total(CashOf, S) \in Nat /\ \A y : Total(SharesOf, On(y, S)) \in Nat
    BY OrderTotals
  <2>2. Total(CashOf, S) <= b.manual
    BY <1>1, <1>4, <2>1 DEF Covers, Traded
  <2>3. ASSUME NEW y \in Symbols
        PROVE  Total(SharesOf, On(y, S)) <= Unsleeved(b, y)
    <3>1. /\ a.pos[y]["manual"] \in Nat /\ b.pos[y]["manual"] \in Nat
          /\ b.pos[y]["legacy"] \in Nat /\ b.pos[y]["legacy"] = a.pos[y]["legacy"]
      BY <1>1, OwnersFacts DEF Traded
    <3>2. Total(SharesOf, On(y, S)) <= Unsleeved(a, y)
      BY <1>4 DEF Covers
    <3>3. \/ b.pos[y]["manual"] >= a.pos[y]["manual"]
          \/ b.pos[y]["manual"] >= Total(SharesOf, On(y, S))
      BY DEF Traded
    <3> QED
      BY <2>1, <3>1, <3>2, <3>3 DEF Unsleeved
  <2> QED
    BY <2>2, <2>3 DEF Covers
<1> QED
  BY <1>3, <1>4

-----------------------------------------------------------------------------
(* The steps, but for the two loops.                                       *)

(* Every account covers no orders. *)
LEMMA CoversNone ==
  ASSUME NEW a \in Account
  PROVE  Covers(a, {})
<1>1. Total(CashOf, {}) = 0 /\ Total(SharesOf, {}) = 0
  BY TotalEmpty
<1>2. \A y : On(y, {}) = {}
  BY DEF On
<1>3. a.manual >= 0 /\ \A y \in Symbols : Unsleeved(a, y) >= 0
  BY UnsleevedFacts DEF Account
<1> QED
  BY <1>1, <1>2, <1>3 DEF Covers

(* A new account has nothing in any sleeve and nothing waits. *)
LEMMA OpenNew ==
  /\ open_new \in Account /\ DistinctIds(open_new.pending) /\ Balanced(open_new)
  /\ Covers(open_new, ToSet(open_new.pending))
  /\ \A s \in Sleeves : open_new.alloc[s] = 0
  /\ \A s \in Sleeves, sym \in Symbols : open_new.pos[sym][s] = 0
<1>1. open_new \in Account
  BY PaperConstants DEF open_new, Account
<1>2. /\ open_new.pending = <<>> /\ open_new.cash = InitialCash
      /\ open_new.manual = InitialCash /\ open_new.alloc = [s \in Sleeves |-> 0]
      /\ open_new.pos = [sym \in Symbols |-> [o \in Owners |-> 0]]
  BY DEF open_new
<1> HIDE DEF open_new
<1>3. DistinctIds(open_new.pending)
  BY <1>2 DEF DistinctIds
<1>4. Total(open_new.alloc, Sleeves) = 0
  BY <1>2, TotalZero
<1>5. Balanced(open_new)
  BY <1>2, <1>4, PaperConstants DEF Balanced
<1>6. ToSet(open_new.pending) = {}
  BY <1>2 DEF ToSet
<1>7. Covers(open_new, {})
  BY <1>1, CoversNone
<1>8. /\ \A s \in Sleeves : open_new.alloc[s] = 0
      /\ \A s \in Sleeves, sym \in Symbols : open_new.pos[sym][s] = 0
  BY <1>2, OwnersFacts
<1> QED
  BY <1>1, <1>3, <1>5, <1>6, <1>7, <1>8

(* A new account has all its cash in the manual part, no order and no      *)
(* sleeve.                                                                 *)
LEMMA InitInv == Init => AccountInv
<1> SUFFICES ASSUME Init PROVE AccountInv
  OBVIOUS
<1>1. acct = open_new /\ book = [s \in Sleeves |-> NoSleeve] /\ shorted = FALSE
  BY DEF Init
<1>2. BooksMatch
  BY <1>1, OpenNew DEF BooksMatch
<1> QED
  BY <1>1, <1>2, OpenNew DEF AccountInv

(* Manual trades keep the books of the sleeves. *)
LEMMA TradedBooks ==
  ASSUME BooksMatch, UNCHANGED book, acct'.alloc = acct.alloc,
         \A y \in Symbols, o \in Owners \ {"manual"} : acct'.pos[y][o] = acct.pos[y][o]
  PROVE  BooksMatch'
<1>1. \A s \in Sleeves : s \in Owners \ {"manual"}
  BY OwnersFacts
<1> QED
  BY <1>1 DEF BooksMatch

(* Without an exception the reservations are those of all waiting orders. *)
LEMMA AllReserved ==
  ASSUME NEW a \in Account
  PROVE  /\ {o \in ToSet(a.pending) : o.id # "none"} = ToSet(a.pending)
         /\ ToSet(a.pending) \in SUBSET Waiting /\ IsFiniteSet(ToSet(a.pending))
         /\ reserved_cash(a, "none") = Total(CashOf, ToSet(a.pending))
         /\ \A y : reserved_quantity(a, y, "none") = Total(SharesOf, On(y, ToSet(a.pending)))
<1>1. a.pending \in Seq(Waiting)
  BY DEF Account
<1>2. \A o \in ToSet(a.pending) : o.id # "none"
  BY <1>1, QueueSet
<1>3. {o \in ToSet(a.pending) : o.id # "none"} = ToSet(a.pending)
  BY <1>2
<1> QED
  BY <1>1, <1>3, QueueSet, Reserved

(* A manual order that executes at once. *)
LEMMA PlaceFills ==
  ASSUME Regular, AccountInv, NEW sym \in Symbols, NEW side \in Sides,
         NEW q \in 1..MaxQty, NEW price \in Prices,
         Save(Executed(acct, sym, side, q, price, "manual", "none").acct),
         shorted' = FALSE, UNCHANGED book
  PROVE  AccountInv'
<1> DEFINE W == ToSet(acct.pending)
           b == Executed(acct, sym, side, q, price, "manual", "none").acct
<1>1. acct \in Account /\ q \in Nat
  BY PaperConstants DEF AccountInv
<1>2. W \in SUBSET Waiting /\ IsFiniteSet(W)
  BY <1>1, AllReserved
<1>3. Traded(acct, b, W)
  BY <1>1, ManualExecuted, AllReserved
<1> HIDE DEF b
<1>4. Balanced(b) /\ Covers(b, W)
  BY <1>1, <1>2, <1>3, TradedFacts DEF AccountInv
<1>5. acct' = b
  BY <1>3, <1>4, SavedAsIs DEF Save, Traded, b
<1>6. BooksMatch'
  BY <1>3, <1>5, TradedBooks DEF Traded, AccountInv
<1>7. b \in Account /\ b.pending = acct.pending
  BY <1>3 DEF Traded
<1> QED
  BY <1>4, <1>5, <1>6, <1>7 DEF AccountInv

(* One more order in the queue. *)
LEMMA QueueAppend ==
  ASSUME NEW queue \in Seq(Waiting), NEW o \in Waiting, DistinctIds(queue),
         \A w \in ToSet(queue) : w.id # o.id
  PROVE  /\ Append(queue, o) \in Seq(Waiting) /\ DistinctIds(Append(queue, o))
         /\ ToSet(Append(queue, o)) = ToSet(queue) \cup {o} /\ o \notin ToSet(queue)
<1> DEFINE new == Append(queue, o)
<1>1. /\ new \in Seq(Waiting) /\ Len(new) = Len(queue) + 1
      /\ \A i \in 1..Len(queue) : new[i] = queue[i]
      /\ new[Len(queue) + 1] = o
  OBVIOUS
<1>2. DOMAIN new = 1..Len(queue) + 1 /\ DOMAIN queue = 1..Len(queue) /\ Len(queue) \in Nat
  OBVIOUS
<1> HIDE DEF new
<1>3. ToSet(new) = ToSet(queue) \cup {o}
  BY <1>1, <1>2 DEF ToSet
<1>4. \A i \in DOMAIN queue : queue[i].id # o.id
  BY DEF ToSet
<1>5. DistinctIds(new)
  BY <1>1, <1>2, <1>4 DEF DistinctIds
<1> QED
  BY <1>1, <1>3, <1>5 DEF new

(* A manual order that its limit blocks waits under a free id, and the     *)
(* manual part of the account covers its reservation as well.              *)
LEMMA PlaceWaits ==
  ASSUME Regular, AccountInv, NEW o \in Waiting,
         o.id \notin {w.id : w \in ToSet(acct.pending)},
         _reserved_cash(o) <= _available_cash(acct, "manual", "none"),
         _reserved_quantity(o) <= _available_quantity(acct, o.sym, "manual", "none"),
         acct' = [acct EXCEPT !.pending = Append(@, o)],
         shorted' = FALSE, UNCHANGED book
  PROVE  AccountInv'
<1> DEFINE W == ToSet(acct.pending)
           V == W \cup {o}
           queue == Append(acct.pending, o)
<1>1. /\ acct \in Account /\ acct.pending \in Seq(Waiting) /\ acct.manual \in Nat
      /\ acct.pos \in [Symbols -> [Owners -> Nat]]
  BY DEF AccountInv, Account
<1>2. W \in SUBSET Waiting /\ IsFiniteSet(W)
  BY <1>1, AllReserved
<1>3. /\ queue \in Seq(Waiting) /\ DistinctIds(queue) /\ ToSet(queue) = V
      /\ o \notin W
  <2>1. \A w \in W : w.id # o.id
    OBVIOUS
  <2> QED
    BY <1>1, <2>1, QueueAppend DEF AccountInv
<1>4. /\ acct' \in Account /\ acct'.pending = queue /\ acct'.manual = acct.manual
      /\ acct'.cash = acct.cash /\ acct'.alloc = acct.alloc /\ acct'.pos = acct.pos
  <2> HIDE DEF queue
  <2>1. acct' = [acct EXCEPT !.pending = queue]
    BY DEF queue
  <2> QED
    BY <1>1, <1>3, <2>1 DEF Account
<1>5. /\ CashOf[o] = _reserved_cash(o) /\ SharesOf[o] = _reserved_quantity(o)
      /\ CashOf[o] \in Nat /\ SharesOf[o] \in Nat /\ o.sym \in Symbols
  BY Reserves DEF Waiting
<1>6. \A w \in W : CashOf[w] \in Nat /\ SharesOf[w] \in Nat
  BY <1>2, Reserves
<1>7. Total(CashOf, V) <= acct.manual
  <2>1. Total(CashOf, V) = Total(CashOf, W) + CashOf[o]
    BY <1>2, <1>3, <1>5, <1>6, TotalAdd
  <2>2. Total(CashOf, W) <= acct.manual /\ Total(CashOf, W) \in Nat
    BY <1>2, OrderTotals DEF AccountInv, Covers
  <2>3. CashOf[o] <= Larger(acct.manual - Total(CashOf, W), 0)
    BY <1>1, <1>5, AllReserved DEF _available_cash, manual_available_cash
  <2> QED
    BY <1>1, <1>5, <2>1, <2>2, <2>3 DEF Larger
<1>8. ASSUME NEW y \in Symbols
      PROVE  Total(SharesOf, On(y, V)) <= Unsleeved(acct, y)
  <2>1. /\ Total(SharesOf, On(y, W)) <= Unsleeved(acct, y)
        /\ Total(SharesOf, On(y, W)) \in Nat
    BY <1>2, OrderTotals DEF AccountInv, Covers
  <2>2. CASE y # o.sym
    <3>1. On(y, V) = On(y, W)
      BY <2>2 DEF On
    <3> QED
      BY <2>1, <3>1
  <2>3. CASE y = o.sym
    <3>1. /\ On(y, V) = On(y, W) \cup {o} /\ o \notin On(y, W)
          /\ On(y, W) \in SUBSET W
      BY <1>3, <2>3 DEF On
    <3>2. IsFiniteSet(On(y, W)) /\ \A w \in On(y, W) : SharesOf[w] \in Nat
      BY <1>2, <1>6, <3>1, FS_Subset
    <3>3. Total(SharesOf, On(y, V)) = Total(SharesOf, On(y, W)) + SharesOf[o]
      <4> HIDE DEF V, W
      <4>1. Total(SharesOf, On(y, W) \cup {o}) = Total(SharesOf, On(y, W)) + SharesOf[o]
        BY <1>5, <3>1, <3>2, TotalAdd
      <4> QED
        BY <3>1, <4>1
    <3>4. SharesOf[o] <= Larger(acct.pos[y]["manual"] - Total(SharesOf, On(y, W)), 0)
      BY <1>1, <1>5, <2>3, AllReserved
         DEF _available_quantity, manual_available_quantity
    <3>5. /\ acct.pos[y]["manual"] \in Nat /\ Unsleeved(acct, y) \in Nat
          /\ acct.pos[y]["manual"] <= Unsleeved(acct, y)
      BY <1>1, UnsleevedFacts
    <3> QED
      BY <1>5, <2>1, <3>3, <3>4, <3>5 DEF Larger
  <2> QED
    BY <2>2, <2>3
<1> HIDE DEF V, W, queue
<1>9. Covers(acct', ToSet(acct'.pending))
  BY <1>3, <1>4, <1>7, <1>8 DEF Covers, Unsleeved
<1>10. BooksMatch' /\ Balanced(acct')
  BY <1>4 DEF AccountInv, BooksMatch, Balanced
<1> QED
  BY <1>3, <1>4, <1>9, <1>10 DEF AccountInv

(* place_manual_order keeps the invariant. *)
LEMMA PlaceKeeps ==
  ASSUME Regular, AccountInv, NEW sym \in Symbols, NEW side \in Sides,
         NEW q \in 1..MaxQty, NEW limit \in Prices \cup {NoLimit}, NEW price \in Prices,
         place_manual_order(sym, side, q, limit, price)
  PROVE  AccountInv'
<1>1. CASE _limit_blocks_fill(side, price, limit)
  <2>1. limit \in Prices
    BY <1>1 DEF _limit_blocks_fill
  <2>2. PICK id \in Orders \ {o.id : o \in ToSet(acct.pending)} :
          LET o == [id |-> id, sym |-> sym, side |-> side, qty |-> q, limit |-> limit]
          IN  /\ _reserved_cash(o) <= _available_cash(acct, "manual", "none")
              /\ _reserved_quantity(o) <= _available_quantity(acct, sym, "manual", "none")
              /\ acct' = [acct EXCEPT !.pending = Append(@, o)]
    BY <1>1, Zenon DEF place_manual_order
  <2> DEFINE o == [id |-> id, sym |-> sym, side |-> side, qty |-> q, limit |-> limit]
  <2>3. o \in Waiting /\ o.id = id /\ o.sym = sym
    BY <2>1 DEF Waiting
  <2>4. shorted' = FALSE /\ UNCHANGED book
    BY DEF place_manual_order
  <2>5. /\ _reserved_cash(o) <= _available_cash(acct, "manual", "none")
        /\ _reserved_quantity(o) <= _available_quantity(acct, sym, "manual", "none")
        /\ acct' = [acct EXCEPT !.pending = Append(@, o)]
    BY <2>2
  <2>6. o.id \notin {w.id : w \in ToSet(acct.pending)}
    BY <2>3
  <2> HIDE DEF o
  <2> QED
    BY <2>3, <2>4, <2>5, <2>6, PlaceWaits
<1>2. CASE ~ _limit_blocks_fill(side, price, limit)
  <2>1. /\ Save(Executed(acct, sym, side, q, price, "manual", "none").acct)
        /\ shorted' = FALSE /\ UNCHANGED book
    BY <1>2 DEF place_manual_order
  <2> QED
    BY <2>1, PlaceFills
<1> QED
  BY <1>1, <1>2

(* A queue with the element at one place taken out. *)
LEMMA QueueRemove ==
  ASSUME NEW queue \in Seq(Waiting), NEW i \in DOMAIN queue, DistinctIds(queue)
  PROVE  /\ RemoveAt(queue, i) \in Seq(Waiting) /\ DistinctIds(RemoveAt(queue, i))
         /\ ToSet(RemoveAt(queue, i)) \in SUBSET ToSet(queue)
<1> DEFINE n == Len(queue)
           left == SubSeq(queue, 1, i - 1)
           right == SubSeq(queue, i + 1, n)
           new == left \o right
           At(k) == IF k < i THEN k ELSE k + 1
<1>1. n \in Nat /\ DOMAIN queue = 1..n /\ i \in 1..n
  OBVIOUS
<1>2. /\ left \in Seq(Waiting) /\ Len(left) = i - 1
      /\ \A k \in 1..i - 1 : left[k] = queue[k]
  BY <1>1
<1>3. /\ right \in Seq(Waiting) /\ Len(right) = n - i
      /\ \A k \in 1..n - i : right[k] = queue[i + k]
  <2>1. \A k \in i + 1..n : queue[k] \in Waiting
    BY <1>1
  <2> HIDE DEF n
  <2>2. /\ right \in Seq(Waiting)
        /\ Len(right) = IF i + 1 <= n THEN n - (i + 1) + 1 ELSE 0
        /\ \A k \in 1..n - (i + 1) + 1 : right[k] = queue[i + 1 + k - 1]
    BY <1>1, <2>1, SubSeqProperties
  <2> HIDE DEF right
  <2>3. Len(right) = n - i
    BY <1>1, <2>2
  <2>4. \A k \in 1..n - i : k \in 1..n - (i + 1) + 1 /\ i + 1 + k - 1 = i + k
    BY <1>1
  <2> QED
    BY <2>2, <2>3, <2>4
<1> HIDE DEF left, right, n
<1>4. /\ new \in Seq(Waiting) /\ Len(new) = n - 1 /\ DOMAIN new = 1..n - 1
  <2>1. new \in Seq(Waiting) /\ Len(new) = Len(left) + Len(right)
    BY <1>2, <1>3, ConcatProperties
  <2>2. Len(new) = n - 1
    BY <1>1, <1>2, <1>3, <2>1
  <2> HIDE DEF new
  <2> QED
    BY <2>1, <2>2
<1>5. ASSUME NEW k \in 1..n - 1 PROVE new[k] = queue[At(k)] /\ At(k) \in DOMAIN queue
  <2>1. CASE k < i
    <3>1. new[k] = left[k]
      BY <1>1, <1>2, <1>3, <2>1
    <3> QED
      BY <1>1, <1>2, <2>1, <3>1
  <2>2. CASE ~ (k < i)
    <3>1. new[k] = right[k - (i - 1)] /\ k - (i - 1) \in 1..n - i
      BY <1>1, <1>2, <1>3, <2>2
    <3>2. right[k - (i - 1)] = queue[k + 1]
      <4>1. right[k - (i - 1)] = queue[i + (k - (i - 1))]
        BY <1>3, <3>1
      <4>2. i + (k - (i - 1)) = k + 1
        BY <1>1
      <4> HIDE DEF At
      <4> QED
        BY <4>1, <4>2, Zenon
    <3> QED
      BY <1>1, <2>2, <3>1, <3>2
  <2> QED
    BY <2>1, <2>2
<1> HIDE DEF new
<1>6. DistinctIds(new)
  <2> SUFFICES ASSUME NEW j \in DOMAIN new, NEW k \in DOMAIN new, new[j].id = new[k].id
               PROVE  j = k
    BY DEF DistinctIds
  <2>1. At(j) = At(k)
    <3>1. queue[At(j)].id = queue[At(k)].id /\ At(j) \in DOMAIN queue /\ At(k) \in DOMAIN queue
      BY <1>4, <1>5
    <3> HIDE DEF At
    <3> QED
      BY <3>1 DEF DistinctIds
  <2> QED
    BY <1>1, <1>4, <2>1
<1>7. ToSet(new) \in SUBSET ToSet(queue)
  <2> HIDE DEF At
  <2> QED
    BY <1>4, <1>5 DEF ToSet
<1>8. RemoveAt(queue, i) = new
  BY DEF RemoveAt, new, left, right, n
<1> QED
  BY <1>4, <1>6, <1>7, <1>8

(* An account covers the orders of a part of the queue. *)
LEMMA CoversPart ==
  ASSUME NEW a \in Account, NEW S \in SUBSET Waiting, IsFiniteSet(S), NEW R \in SUBSET S,
         Covers(a, S)
  PROVE  Covers(a, R)
<1>1. a.manual \in Nat /\ \A y \in Symbols : Unsleeved(a, y) \in Nat
  BY UnsleevedFacts DEF Account
<1>2. /\ Total(CashOf, R) \in Nat /\ Total(CashOf, S) \in Nat
      /\ Total(CashOf, R) <= Total(CashOf, S)
  BY OrderTotals
<1>3. \A y : /\ Total(SharesOf, On(y, R)) \in Nat /\ Total(SharesOf, On(y, S)) \in Nat
             /\ Total(SharesOf, On(y, R)) <= Total(SharesOf, On(y, S))
  BY OrderTotals
<1> QED
  BY <1>1, <1>2, <1>3 DEF Covers

(* cancel_pending_order keeps the invariant. *)
LEMMA CancelKeeps ==
  ASSUME AccountInv, NEW id \in Orders, cancel_pending_order(id)
  PROVE  AccountInv'
<1>1. PICK i \in DOMAIN acct.pending : acct' = [acct EXCEPT !.pending = RemoveAt(@, i)]
  BY DEF cancel_pending_order
<1> DEFINE queue == RemoveAt(acct.pending, i)
<1>2. acct \in Account /\ acct.pending \in Seq(Waiting) /\ DistinctIds(acct.pending)
  BY DEF AccountInv, Account
<1>3. /\ queue \in Seq(Waiting) /\ DistinctIds(queue)
      /\ ToSet(queue) \in SUBSET ToSet(acct.pending)
  BY <1>2, QueueRemove
<1> HIDE DEF queue
<1>4. acct' = [acct EXCEPT !.pending = queue]
  BY <1>1 DEF queue
<1>5. /\ acct' \in Account /\ acct'.pending = queue /\ acct'.manual = acct.manual
      /\ acct'.cash = acct.cash /\ acct'.alloc = acct.alloc /\ acct'.pos = acct.pos
  BY <1>2, <1>3, <1>4 DEF Account
<1>6. Covers(acct, ToSet(queue))
  BY <1>2, <1>3, QueueSet, CoversPart DEF AccountInv
<1>7. Covers(acct', ToSet(acct'.pending)) /\ BooksMatch' /\ Balanced(acct')
  <2>1. UNCHANGED book
    BY DEF cancel_pending_order
  <2> QED
    BY <1>5, <1>6, <2>1 DEF AccountInv, Covers, Unsleeved, BooksMatch, Balanced
<1> QED
  BY <1>3, <1>5, <1>7 DEF AccountInv, cancel_pending_order

(* _allocate_cash keeps the invariant: what the new sleeve gets comes out  *)
(* of the manual cash that no order reserves.                              *)
LEMMA AllocateKeeps ==
  ASSUME AccountInv, NEW s \in Sleeves, NEW cash \in 1..InitialCash,
         _allocate_cash(s, cash)
  PROVE  AccountInv'
<1> DEFINE W == ToSet(acct.pending)
           R == Total(CashOf, W)
           T == Total(acct.alloc, Sleeves)
           alloc == [acct.alloc EXCEPT ![s] = @ + cash]
           a == [acct EXCEPT !.alloc[s] = @ + cash]
<1>1. /\ acct \in Account /\ acct.manual \in Nat /\ acct.cash \in Int
      /\ acct.alloc \in [Sleeves -> Nat] /\ book[s] = NoSleeve
      /\ cash \in Nat /\ cash > 0
  BY PaperConstants DEF AccountInv, Account, _allocate_cash
<1>2. acct.alloc[s] = 0
  BY <1>1 DEF AccountInv, BooksMatch
<1>3. R \in Nat /\ R + cash <= acct.manual
  <2>1. cash <= Larger(acct.manual - R, 0)
    BY <1>1, AllReserved DEF _allocate_cash, manual_available_cash
  <2>2. R \in Nat
    BY <1>1, AllReserved, OrderTotals
  <2> QED
    BY <1>1, <2>1, <2>2 DEF Larger
<1>4. /\ alloc \in [Sleeves -> Nat] /\ alloc[s] = cash
      /\ \A r \in Sleeves : r # s => alloc[r] = acct.alloc[r]
  BY <1>1, <1>2
<1> HIDE DEF alloc
<1>5. T \in Nat /\ Total(alloc, Sleeves) = T + cash
  <2>1. T \in Nat
    BY <1>1, NamesAssumption, LayersFinite
  <2>2. Total(alloc, Sleeves) = (T - acct.alloc[s]) + alloc[s]
    BY <1>1, <1>4, NamesAssumption, TotalBut
  <2> QED
    BY <1>1, <1>2, <1>4, <2>1, <2>2
<1>6. acct.cash = acct.manual + T
  BY DEF AccountInv, Balanced
<1>7. /\ a \in Account /\ a.alloc = alloc /\ a.cash = acct.cash
      /\ a.pos = acct.pos /\ a.pending = acct.pending
  <2>1. a = [acct EXCEPT !.alloc = alloc]
    BY DEF alloc
  <2> HIDE DEF a
  <2> QED
    BY <1>1, <1>4, <2>1 DEF Account
<1> HIDE DEF W, R, T, a
<1>8. /\ acct' = [a EXCEPT !.manual = a.cash - Total(a.alloc, Sleeves)]
      /\ acct' \in Account /\ Balanced(acct')
  <2>1. Total(a.alloc, Sleeves) <= a.cash
    BY <1>1, <1>3, <1>5, <1>6, <1>7
  <2>2. acct' = ensure_manual_sleeve_cash(a)
    BY DEF _allocate_cash, Save, a
  <2> QED
    BY <1>7, <2>1, <2>2, Saved
<1>9. /\ acct'.manual = acct.manual - cash /\ acct'.alloc = alloc
      /\ acct'.pos = acct.pos /\ acct'.pending = acct.pending
  BY <1>1, <1>5, <1>6, <1>7, <1>8 DEF Account
<1>10. Covers(acct', ToSet(acct'.pending))
  BY <1>1, <1>3, <1>9 DEF Covers, Unsleeved, AccountInv, W, R
<1>11. book' = [book EXCEPT ![s] = cash] /\ book' \in [Sleeves -> Nat \cup {NoSleeve}]
  BY <1>1 DEF _allocate_cash, AccountInv
<1>12. BooksMatch'
  <2> SUFFICES ASSUME NEW r \in Sleeves
               PROVE  IF book'[r] = NoSleeve
                      THEN acct'.alloc[r] = 0 /\ \A y \in Symbols : acct'.pos[y][r] = 0
                      ELSE acct'.alloc[r] = book'[r]
    BY DEF BooksMatch
  <2>1. CASE r = s
    <3>1. book'[r] = cash /\ cash # NoSleeve
      BY <1>1, <1>11, <2>1 DEF AccountInv, NoSleeve
    <3> QED
      BY <1>4, <1>9, <2>1, <3>1
  <2>2. CASE r # s
    <3>1. book'[r] = book[r]
      BY <1>11, <2>2 DEF AccountInv
    <3> QED
      BY <1>4, <1>9, <2>2, <3>1 DEF AccountInv, BooksMatch
  <2> QED
    BY <2>1, <2>2
<1> QED
  BY <1>8, <1>9, <1>10, <1>11, <1>12 DEF AccountInv, _allocate_cash

(* The fill of a sleeve's trade, and what it costs the sleeve, who pays    *)
(* with its own cash and sells its own shares.                             *)
LEMMA SleeveFill ==
  ASSUME Regular, NEW a \in Account, NEW s \in Sleeves, NEW sym \in Symbols,
         NEW side \in Sides, NEW q \in Nat, NEW price \in Prices, NEW cash \in Nat,
         IF side = "buy" THEN q * (price + Fee) <= cash ELSE q <= a.pos[sym][s]
  PROVE  LET b == apply_fill(a, sym, side, q, price, s)
         IN  /\ b \in Account /\ b.manual = a.manual /\ b.alloc = a.alloc
             /\ b.pending = a.pending
             /\ cash + (b.cash - a.cash) \in Nat
             /\ \A y \in Symbols, o \in Owners : o # s => b.pos[y][o] = a.pos[y][o]
<1> DEFINE delta == IF side = "buy" THEN -(q * (price + Fee)) ELSE q * (price - Fee)
           own == a.pos[sym]
           new == IF side = "buy" THEN [own EXCEPT ![s] = @ + q] ELSE [own EXCEPT ![s] = @ - q]
           b == apply_fill(a, sym, side, q, price, s)
<1>1. /\ a.cash \in Int /\ a.manual \in Nat /\ a.alloc \in [Sleeves -> Nat]
      /\ a.pos \in [Symbols -> [Owners -> Nat]] /\ own \in [Owners -> Nat]
      /\ a.pending \in Seq(Waiting) /\ a.frozen \in BOOLEAN
  BY DEF Account
<1>2. s \in Owners /\ s # "legacy"
  BY OwnersFacts
<1>3. price + Fee \in Nat /\ price - Fee \in Nat
  BY PaperConstants DEF Regular
<1>4. delta \in Int /\ cash + delta \in Nat
  <2>1. q * (price + Fee) \in Nat /\ q * (price - Fee) \in Nat
    BY <1>3, Products
  <2> QED
    BY <2>1
<1>5. new \in [Owners -> Nat] /\ \A o \in Owners : o # s => new[o] = own[o]
  BY <1>1, <1>2
<1>6. b = [a EXCEPT !.cash = @ + delta, !.manual = @, !.pos[sym] = new]
  <2>1. side = "buy" \/ side = "sell"
    BY DEF Sides
  <2> QED
    BY <1>2, <2>1 DEF apply_fill
<1> HIDE DEF delta, new
<1>7. b = [cash |-> a.cash + delta, manual |-> a.manual, alloc |-> a.alloc,
           pos |-> [a.pos EXCEPT ![sym] = new], pending |-> a.pending,
           frozen |-> a.frozen]
  BY <1>1, <1>6 DEF Account
<1>8. [a.pos EXCEPT ![sym] = new] \in [Symbols -> [Owners -> Nat]]
  BY <1>1, <1>5
<1> HIDE DEF b
<1>9. b \in Account /\ b.cash - a.cash = delta
  BY <1>1, <1>4, <1>7, <1>8 DEF Account
<1>10. \A y \in Symbols, o \in Owners : o # s => b.pos[y][o] = a.pos[y][o]
  BY <1>1, <1>5, <1>7
<1> QED
  BY <1>4, <1>7, <1>9, <1>10 DEF b

(* SleeveTrade keeps the invariant: account and sleeve change by the same  *)
(* amount, so the manual part of the account does not change.              *)
LEMMA SleeveTradeKeeps ==
  ASSUME Regular, AccountInv, NEW s \in Sleeves, NEW sym \in Symbols,
         NEW side \in Sides, NEW q \in 1..MaxQty, NEW price \in Prices,
         NEW definition \in BOOLEAN, SleeveTrade(s, sym, side, q, price, definition)
  PROVE  AccountInv'
<1> DEFINE b == apply_fill(acct, sym, side, q, price, s)
           cash == Larger(book[s] + (b.cash - acct.cash), 0)
           alloc == [acct.alloc EXCEPT ![s] = cash]
           a == [b EXCEPT !.alloc[s] = cash]
           T == Total(acct.alloc, Sleeves)
<1>1. /\ acct \in Account /\ acct.manual \in Nat /\ acct.cash \in Int
      /\ acct.alloc \in [Sleeves -> Nat] /\ book[s] # NoSleeve /\ q \in Nat
      /\ definition
  BY PaperConstants DEF AccountInv, Account, SleeveTrade, Regular
<1>2. book[s] \in Nat /\ acct.alloc[s] = book[s]
  BY <1>1 DEF AccountInv, BooksMatch
<1>3. IF side = "buy" THEN q * (price + Fee) <= book[s] ELSE q <= acct.pos[sym][s]
  BY <1>1 DEF SleeveTrade, Affordable
<1>4. /\ b \in Account /\ b.manual = acct.manual /\ b.alloc = acct.alloc
      /\ b.pending = acct.pending
      /\ book[s] + (b.cash - acct.cash) \in Nat
      /\ \A y \in Symbols, o \in Owners : o # s => b.pos[y][o] = acct.pos[y][o]
  BY <1>1, <1>2, <1>3, SleeveFill
<1>5. /\ acct' = ensure_manual_sleeve_cash(a) /\ shorted' = FALSE
      /\ book' = [book EXCEPT ![s] = cash]
  BY Zenon DEF SleeveTrade, Save
<1> HIDE DEF b
<1>6. cash = book[s] + (b.cash - acct.cash) /\ cash \in Nat
  BY <1>4 DEF Larger
<1> HIDE DEF cash
<1>7. /\ alloc \in [Sleeves -> Nat] /\ alloc[s] = cash
      /\ \A r \in Sleeves : r # s => alloc[r] = acct.alloc[r]
  BY <1>1, <1>6
<1>8. a = [b EXCEPT !.alloc = alloc]
  BY <1>4
<1> HIDE DEF alloc, a
<1>9. /\ a \in Account /\ a.alloc = alloc /\ a.cash = b.cash /\ a.pos = b.pos
      /\ a.pending = acct.pending /\ b.cash \in Int
  BY <1>4, <1>7, <1>8 DEF Account
<1>10. T \in Nat /\ Total(alloc, Sleeves) = T + (b.cash - acct.cash)
  <2>1. T \in Nat
    BY <1>1, NamesAssumption, LayersFinite
  <2>2. Total(alloc, Sleeves) = (T - acct.alloc[s]) + alloc[s]
    BY <1>1, <1>7, NamesAssumption, TotalBut
  <2> QED
    BY <1>1, <1>2, <1>6, <1>7, <1>9, <2>1, <2>2
<1>11. acct.cash = acct.manual + T
  BY DEF AccountInv, Balanced
<1> HIDE DEF T
<1>12. a.cash - Total(a.alloc, Sleeves) = acct.manual
  BY <1>1, <1>9, <1>10, <1>11
<1>13. /\ acct' = [a EXCEPT !.manual = acct.manual]
       /\ acct' \in Account /\ Balanced(acct')
  <2>1. Total(a.alloc, Sleeves) \in Int /\ Total(a.alloc, Sleeves) <= a.cash
    BY <1>1, <1>9, <1>10, <1>11, <1>12
  <2> QED
    BY <1>5, <1>9, <1>12, <2>1, Saved
<1>14. /\ acct'.manual = acct.manual /\ acct'.alloc = alloc
       /\ acct'.pos = b.pos /\ acct'.pending = acct.pending
  BY <1>9, <1>13 DEF Account
<1>15. Covers(acct', ToSet(acct'.pending))
  <2>1. "manual" \in Owners /\ "manual" # s /\ "legacy" \in Owners /\ "legacy" # s
    BY OwnersFacts
  <2>2. \A y \in Symbols : Unsleeved(acct', y) = Unsleeved(acct, y)
    BY <1>4, <1>14, <2>1 DEF Unsleeved
  <2> QED
    BY <1>14, <2>2 DEF Covers, AccountInv
<1>16. book' \in [Sleeves -> Nat \cup {NoSleeve}]
  BY <1>5, <1>6 DEF AccountInv
<1>17. BooksMatch'
  <2> SUFFICES ASSUME NEW r \in Sleeves
               PROVE  IF book'[r] = NoSleeve
                      THEN acct'.alloc[r] = 0 /\ \A y \in Symbols : acct'.pos[y][r] = 0
                      ELSE acct'.alloc[r] = book'[r]
    BY DEF BooksMatch
  <2>1. CASE r = s
    <3>1. book'[r] = cash /\ cash # NoSleeve
      BY <1>5, <1>6, <2>1 DEF AccountInv, NoSleeve
    <3> QED
      BY <1>7, <1>14, <2>1, <3>1
  <2>2. CASE r # s
    <3>1. book'[r] = book[r] /\ r \in Owners
      BY <1>5, <2>2, OwnersFacts DEF AccountInv
    <3>2. \A y \in Symbols : acct'.pos[y][r] = acct.pos[y][r]
      BY <1>4, <1>14, <2>2, <3>1
    <3> QED
      BY <1>7, <1>14, <2>2, <3>1, <3>2 DEF AccountInv, BooksMatch
  <2> QED
    BY <2>1, <2>2
<1> QED
  BY <1>5, <1>13, <1>14, <1>15, <1>16, <1>17 DEF AccountInv

(* The kill switch and a reset without sleeves keep the invariant. *)
LEMMA SwitchAndResetKeep ==
  ASSUME Regular, AccountInv,
         \/ \E on \in BOOLEAN : set_account_kill_switch(on)
         \/ WholeAccount /\ reset_account
  PROVE  AccountInv'
<1>1. ASSUME NEW on \in BOOLEAN, set_account_kill_switch(on) PROVE AccountInv'
  <2>1. /\ acct' \in Account /\ acct'.cash = acct.cash /\ acct'.manual = acct.manual
        /\ acct'.alloc = acct.alloc /\ acct'.pos = acct.pos
        /\ acct'.pending = acct.pending
    BY <1>1 DEF set_account_kill_switch, AccountInv, Account
  <2> QED
    BY <1>1, <2>1
       DEF set_account_kill_switch, AccountInv, Balanced, Covers, Unsleeved, BooksMatch
<1>2. ASSUME WholeAccount, reset_account PROVE AccountInv'
  <2>1. acct' = open_new /\ UNCHANGED book /\ shorted' = FALSE
        /\ \A s \in Sleeves : book[s] = NoSleeve
    BY <1>2 DEF reset_account, WholeAccount, Regular
  <2>2. BooksMatch'
    BY <2>1, OpenNew DEF BooksMatch
  <2> QED
    BY <2>1, <2>2, OpenNew DEF AccountInv
<1> QED
  BY <1>1, <1>2

-----------------------------------------------------------------------------
(* The loop over the waiting orders.                                       *)

Acc == [acct : Account, remaining : Seq(Waiting), any : BOOLEAN, short : BOOLEAN]

\* What the turn of order o makes of acc: the order stays, or it executes and
\* spends nothing that the others reserve.
Turned(acc, o, next) ==
  LET S == {w \in ToSet(acc.acct.pending) : w.id # o.id}
  IN  /\ next \in Acc
      /\ \/ next = [acc EXCEPT !.remaining = Append(@, o)]
         \/ /\ Traded(acc.acct, next.acct, S)
            /\ next.remaining = acc.remaining /\ next.any
            /\ acc.any => next.short = acc.short
            /\ \/ next.short = acc.short
               \/ /\ o.side = "buy" =>
                       o.qty * (o.limit + Fee) + Total(CashOf, S) > acc.acct.manual
                  /\ o.side = "sell" =>
                       o.qty + Total(SharesOf, On(o.sym, S)) > Unsleeved(acc.acct, o.sym)

(* One turn of the loop: an order stays, or it executes as a manual order  *)
(* whose own reservation does not stand in its way.                        *)
LEMMA OneTurn ==
  ASSUME Regular, NEW price \in Quotes, NEW touched, NEW o \in Waiting, NEW acc \in Acc
  PROVE  Turned(acc, o, OneOrder(price, touched, o, acc))
<1> DEFINE blocked == _limit_blocks_fill(o.side, price[o.sym], o.limit)
           paid == IF blocked THEN o.limit ELSE price[o.sym]
           run == Executed(acc.acct, o.sym, o.side, o.qty, paid, "manual", o.id)
           next == OneOrder(price, touched, o, acc)
           S == {w \in ToSet(acc.acct.pending) : w.id # o.id}
           a == acc.acct
<1>1. /\ o.sym \in Symbols /\ o.side \in Sides /\ o.limit \in Prices
      /\ o.qty \in Nat /\ o.limit # NoLimit
  <2>1. o.qty \in 1..MaxQty /\ o.limit \in Prices /\ o.sym \in Symbols /\ o.side \in Sides
    BY DEF Waiting
  <2> QED
    BY <2>1, PaperConstants DEF NoLimit
<1>2. paid \in Prices /\ (o.side = "buy" => paid <= o.limit)
  <2>1. price[o.sym] \in Prices
    BY <1>1 DEF Quotes
  <2>2. o.limit \in Nat /\ price[o.sym] \in Nat
    BY <1>1, <2>1, PaperConstants
  <2>3. CASE blocked
    BY <1>1, <2>2, <2>3
  <2>4. CASE ~ blocked
    <3>1. o.side = "buy" => ~ (price[o.sym] > o.limit)
      BY <1>1, <2>4 DEF _limit_blocks_fill
    <3> QED
      BY <2>1, <2>2, <2>4, <3>1
  <2> QED
    BY <2>3, <2>4
<1>3. /\ a \in Account /\ acc.remaining \in Seq(Waiting) /\ acc.any \in BOOLEAN
      /\ acc.short \in BOOLEAN
  BY DEF Acc
<1>4. CASE blocked /\ o.id \notin touched
  <2>1. next = [acc EXCEPT !.remaining = Append(@, o)]
    BY <1>4 DEF OneOrder
  <2>2. next \in Acc
    <3> HIDE DEF next
    <3>1. Append(acc.remaining, o) \in Seq(Waiting)
      BY <1>3
    <3> QED
      BY <2>1, <3>1 DEF Acc
  <2> QED
    BY <2>1, <2>2 DEF Turned
<1>5. CASE ~ (blocked /\ o.id \notin touched)
  <2>1. next = [acct |-> run.acct, remaining |-> acc.remaining, any |-> TRUE,
                short |-> acc.short \/ (~ run.full /\ ~ acc.any /\ ~ Shared(a, o))]
    BY <1>5 DEF OneOrder
  <2> HIDE DEF blocked, paid
  <2>2. /\ Traded(a, run.acct, S) /\ run.full \in BOOLEAN
        /\ o.side = "buy" /\ o.qty * (paid + Fee) + reserved_cash(a, o.id) <= a.manual
             => run.full
        /\ o.side = "sell" /\ o.qty + reserved_quantity(a, o.sym, o.id)
                                <= a.pos[o.sym]["manual"] => run.full
    <3> DEFINE sym == o.sym
               side == o.side
               q == o.qty
               id == o.id
    <3>1. sym \in Symbols /\ side \in Sides /\ q \in Nat /\ paid \in Prices /\ a \in Account
      BY <1>1, <1>2, <1>3
    <3> HIDE DEF sym, side, q, id, a
    <3>2. LET r == Executed(a, sym, side, q, paid, "manual", id)
          IN  /\ Traded(a, r.acct, {w \in ToSet(a.pending) : w.id # id})
              /\ r.full \in BOOLEAN
              /\ side = "buy" /\ q * (paid + Fee) + reserved_cash(a, id) <= a.manual
                   => r.full
              /\ side = "sell" /\ q + reserved_quantity(a, sym, id) <= a.pos[sym]["manual"]
                   => r.full
      BY <3>1, ManualExecuted
    <3> QED
      BY <3>2 DEF sym, side, q, id, a
  <2>3. /\ reserved_cash(a, o.id) = Total(CashOf, S) /\ Total(CashOf, S) \in Nat
        /\ reserved_quantity(a, o.sym, o.id) = Total(SharesOf, On(o.sym, S))
        /\ Total(SharesOf, On(o.sym, S)) \in Nat
    BY <1>3, Reserved
  <2> HIDE DEF S, run, next
  <2>4. next \in Acc
    BY <1>3, <2>1, <2>2 DEF Acc, Traded
  <2>5. /\ next.acct = run.acct /\ next.remaining = acc.remaining /\ next.any
        /\ next.short = (acc.short \/ (~ run.full /\ ~ acc.any /\ ~ Shared(a, o)))
    BY <2>1
  <2>6. acc.any => next.short = acc.short
    BY <1>3, <2>5
  <2>7. ASSUME ~ run.full, o.side = "buy"
        PROVE  o.qty * (o.limit + Fee) + Total(CashOf, S) > a.manual
    <3> DEFINE x == o.qty * (paid + Fee)
               y == o.qty * (o.limit + Fee)
    <3>1. x \in Nat /\ y \in Nat /\ x <= y
      <4>1. /\ paid + Fee \in Nat /\ o.limit + Fee \in Nat
            /\ paid + Fee <= o.limit + Fee
        <5>1. paid \in Nat /\ o.limit \in Nat /\ Fee \in Nat /\ paid <= o.limit
          BY <1>1, <1>2, <2>7, PaperConstants
        <5> QED
          BY <5>1
      <4> QED
        BY <1>1, <4>1, Products
    <3>2. ~ (x + Total(CashOf, S) <= a.manual)
      BY <2>2, <2>3, <2>7
    <3>3. a.manual \in Nat
      BY <1>3 DEF Account
    <3> HIDE DEF x, y
    <3>4. y + Total(CashOf, S) > a.manual
      BY <2>3, <3>1, <3>2, <3>3
    <3> QED
      BY <3>4 DEF y
  <2>8. ASSUME ~ run.full, o.side = "sell", ~ Shared(a, o)
        PROVE  o.qty + Total(SharesOf, On(o.sym, S)) > Unsleeved(a, o.sym)
    <3>1. a.pos[o.sym]["manual"] \in Nat /\ a.pos[o.sym]["legacy"] \in Nat
      BY <1>1, <1>3, UnsleevedFacts
    <3>2. a.pos[o.sym]["legacy"] = 0
      BY <2>8, <3>1 DEF Shared
    <3>3. Unsleeved(a, o.sym) = a.pos[o.sym]["manual"]
      BY <1>1, <1>3, <3>2, UnsleevedFacts
    <3> QED
      BY <1>1, <2>2, <2>3, <2>8, <3>1, <3>3
  <2>9. CASE run.full \/ Shared(a, o)
    <3>1. next.short = acc.short
      BY <1>3, <2>5, <2>9
    <3> QED
      BY <2>2, <2>4, <2>5, <3>1 DEF S, next, Turned
  <2>10. CASE ~ (run.full \/ Shared(a, o))
    BY <2>2, <2>4, <2>5, <2>6, <2>7, <2>8, <2>10 DEF S, next, Turned
  <2> QED
    BY <2>9, <2>10
<1> QED
  BY <1>4, <1>5

(* Max of a part of 1..n is in it, and Max of 1..k is k. *)
LEMMA MaxFacts ==
  ASSUME NEW n \in Nat
  PROVE  /\ \A s \in (SUBSET (1..n)) \ {{}} : Max(s) \in s
         /\ \A k \in 1..n : Max(1..k) = k
<1>1. ASSUME NEW s \in (SUBSET (1..n)) \ {{}} PROVE Max(s) \in s
  <2> DEFINE T == {n - i : i \in s}
  <2>1. T \subseteq Nat /\ T # {}
    OBVIOUS
  <2>2. PICK m \in T : \A y \in T : ~ (<<y, m>> \in OpToRel(<, Nat))
    <3> HIDE DEF T
    <3> QED
      BY <2>1, NatLessThanWellFounded, WFMin
  <2>3. PICK x \in s : m = n - x
    OBVIOUS
  <2>4. ASSUME NEW y \in s PROVE x >= y
    <3>1. n - y \in T /\ n - y \in Nat /\ m \in Nat
      BY <2>1
    <3>2. ~ (n - y < m)
      <4>1. n - y < m => <<n - y, m>> \in OpToRel(<, Nat)
        BY <3>1 DEF OpToRel
      <4> QED
        BY <2>2, <3>1, <4>1
    <3> QED
      BY <2>3, <3>1, <3>2
  <2>5. \E z \in s : \A y \in s : z >= y
    BY <2>4
  <2> QED
    BY <2>5 DEF Max
<1>2. ASSUME NEW k \in 1..n PROVE Max(1..k) = k
  <2>1. k \in 1..k /\ \A y \in 1..k : k >= y
    OBVIOUS
  <2>2. \A z \in 1..k : (\A y \in 1..k : z >= y) => z = k
    BY <2>1
  <2> QED
    BY <2>1, <2>2 DEF Max
<1> QED
  BY <1>1, <1>2

\* The start and the end of the loop.
LoopStart == [acct |-> acct, remaining |-> <<>>, any |-> FALSE, short |-> FALSE]
LoopEnd(price, touched) ==
  FoldLeft(LAMBDA acc, o : OneOrder(price, touched, o, acc), LoopStart, acct.pending)

(* The states of the loop: it starts from the account, turn k is OneOrder  *)
(* with order k of the queue, and the last state is what the fold returns. *)
LEMMA LoopStates ==
  ASSUME Regular, acct \in Account, NEW price \in Quotes, NEW touched
  PROVE  LET n == Len(acct.pending)
         IN  \E st : /\ st[0] = LoopStart /\ st[n] = LoopEnd(price, touched)
                     /\ \A k \in 0..n : st[k] \in Acc
                     /\ \A k \in 1..n :
                          st[k] = OneOrder(price, touched, acct.pending[k], st[k - 1])
<1> DEFINE n == Len(acct.pending)
           D == 1..n
           start == LoopStart
           Turn(x, a) == OneOrder(price, touched, acct.pending[x], a)
           c == [s \in (SUBSET D) \ {{}} |-> Max(s)]
           G == [x \in D |-> [a \in Acc |-> Turn(x, a)]]
           Body(h) == [s \in SUBSET D |->
                         IF s = {} THEN start ELSE Turn(Max(s), h[s \ {Max(s)}])]
           iter == CHOOSE h : h = Body(h)
<1>1. n \in Nat /\ D = DOMAIN acct.pending /\ acct.pending \in Seq(Waiting)
  BY DEF Account
<1>2. IsFiniteSet(D)
  BY <1>1, FS_Interval
<1>3. start \in Acc
  BY DEF Acc, LoopStart
<1>4. ASSUME NEW x \in D, NEW a \in Acc PROVE Turn(x, a) \in Acc
  <2>1. acct.pending[x] \in Waiting
    BY <1>1
  <2> QED
    BY <2>1, OneTurn DEF Turned
<1>5. ASSUME NEW s \in (SUBSET D) \ {{}} PROVE Max(s) \in s
  BY <1>1, MaxFacts
<1> HIDE DEF D, start, Turn, n
<1>6. \E h \in [SUBSET D -> Acc] : h = Body(h)
  <2>1. Choice(c, D)
    BY <1>5 DEF Choice
  <2>2. G \in [D -> [Acc -> Acc]]
    BY <1>4
  <2>3. PICK h : IsFold(h, D, c, Acc, start, G)
    <3> HIDE DEF c, G
    <3> QED
      BY <1>2, <1>3, <2>1, <2>2, FoldRecursion
  <2>4. ASSUME NEW s \in SUBSET D
        PROVE  h[s] = IF s = {} THEN start ELSE Turn(Max(s), h[s \ {Max(s)}])
    <3>1. CASE s = {}
      BY <2>3, <3>1 DEF IsFold
    <3>2. CASE s # {}
      <4> DEFINE x == Max(s)
      <4>1. c[s] = x /\ x \in D /\ s \ {x} \in SUBSET D
        BY <1>5, <3>2
      <4> HIDE DEF x, c
      <4>2. h[s] = G[x][h[s \ {x}]] /\ h[s \ {x}] \in Acc
        BY <2>3, <3>2, <4>1 DEF IsFold
      <4>3. h[s] = Turn(x, h[s \ {x}])
        BY <4>1, <4>2
      <4> QED
        BY <3>2, <4>3 DEF x
    <3> QED
      BY <3>1, <3>2
  <2>5. h \in [SUBSET D -> Acc] /\ h = Body(h)
    BY <2>3, <2>4 DEF IsFold
  <2> QED
    BY <2>5
<1>7. iter = Body(iter)
  <2> HIDE DEF Body
  <2> QED
    BY <1>6
<1>8. LoopEnd(price, touched) = iter[D]
  BY <1>1, Zenon DEF LoopEnd, FoldLeft, MapThenFoldSet, Turn, start
<1> HIDE DEF iter
<1> DEFINE st == [k \in 0..n |-> iter[1..k]]
<1>9. st[0] = start
  <2>1. 1..0 = {} /\ {} \in SUBSET D /\ 0 \in 0..n
    BY <1>1
  <2> QED
    BY <1>7, <2>1
<1>10. ASSUME NEW k \in 1..n PROVE st[k] = Turn(k, st[k - 1])
  <2>1. /\ 1..k \in SUBSET D /\ 1..k # {} /\ (1..k) \ {k} = 1..(k - 1)
        /\ k - 1 \in 0..n /\ k \in 0..n
    <3>1. k \in Nat /\ k >= 1 /\ k <= n /\ n \in Nat
      BY <1>1
    <3>2. \A i \in 1..k : i \in 1..n
      BY <3>1
    <3>3. k \in 1..k /\ k - 1 \in 0..n /\ k \in 0..n
      BY <3>1
    <3>4. (1..k) \ {k} = 1..(k - 1)
      BY <3>1
    <3> QED
      BY <3>2, <3>3, <3>4 DEF D
  <2>2. Max(1..k) = k
    BY <1>1, MaxFacts
  <2>3. iter[1..k] = Turn(Max(1..k), iter[(1..k) \ {Max(1..k)}])
    <3> DEFINE s == 1..k
    <3>1. s \in SUBSET D /\ s # {}
      BY <2>1
    <3> HIDE DEF s
    <3>2. iter[s] = Turn(Max(s), iter[s \ {Max(s)}])
      BY <1>7, <3>1
    <3> QED
      BY <3>2 DEF s
  <2>4. iter[1..k] = Turn(k, iter[1..(k - 1)])
    BY <2>1, <2>2, <2>3
  <2> QED
    BY <2>1, <2>4
<1>11. ASSUME NEW k \in 0..n PROVE st[k] \in Acc
  <2> DEFINE N == {m \in Nat : m \in 0..n => st[m] \in Acc}
  <2> HIDE DEF st
  <2>1. 0 \in N
    BY <1>3, <1>9
  <2>2. ASSUME NEW m \in N \cap Nat PROVE m + 1 \in N
    <3> SUFFICES ASSUME m + 1 \in 0..n PROVE st[m + 1] \in Acc
      OBVIOUS
    <3>1. m + 1 \in 1..n /\ m \in 0..n /\ (m + 1) - 1 = m
      BY <1>1
    <3>2. st[m] \in Acc
      BY <3>1
    <3>3. st[m + 1] = Turn(m + 1, st[m])
      BY <1>10, <3>1
    <3> QED
      BY <1>4, <3>1, <3>2, <3>3 DEF D
  <2>3. Nat \subseteq N
    <3> HIDE DEF N
    <3> QED
      BY <2>1, <2>2, NaturalsByStep
  <2> QED
    BY <1>1, <2>3
<1>12. st[n] = iter[D]
  BY <1>1 DEF D
<1> HIDE DEF st
<1>13. /\ st[0] = start
       /\ st[n] = LoopEnd(price, touched)
       /\ \A k \in 0..n : st[k] \in Acc
       /\ \A k \in 1..n : st[k] = OneOrder(price, touched, acct.pending[k], st[k - 1])
  BY <1>8, <1>9, <1>10, <1>11, <1>12, Zenon DEF Turn
<1> QED
  BY <1>13, Zenon DEF n, start

(* Trades that spare the orders of S leave the orders of a part covered. *)
LEMMA TradedCovers ==
  ASSUME NEW a \in Account, NEW b, NEW S \in SUBSET Waiting, IsFiniteSet(S),
         Traded(a, b, S), NEW R \in SUBSET S, Covers(a, R)
  PROVE  Covers(b, R)
<1>1. /\ a.manual \in Nat /\ b.manual \in Nat /\ b \in Account
      /\ \A y \in Symbols : a.pos[y]["manual"] \in Nat /\ b.pos[y]["manual"] \in Nat
  BY OwnersFacts DEF Traded, Account
<1>2. /\ Total(CashOf, R) \in Nat /\ Total(CashOf, S) \in Nat
      /\ Total(CashOf, R) <= Total(CashOf, S)
  BY OrderTotals
<1>3. \A y : /\ Total(SharesOf, On(y, R)) \in Nat /\ Total(SharesOf, On(y, S)) \in Nat
             /\ Total(SharesOf, On(y, R)) <= Total(SharesOf, On(y, S))
  BY OrderTotals
<1>4. Total(CashOf, R) <= b.manual
  BY <1>1, <1>2 DEF Covers, Traded
<1>5. ASSUME NEW y \in Symbols PROVE Total(SharesOf, On(y, R)) <= Unsleeved(b, y)
  <2>1. b.pos[y]["legacy"] = a.pos[y]["legacy"] /\ b.pos[y]["legacy"] \in Nat
    BY <1>1, OwnersFacts, UnsleevedFacts DEF Traded
  <2>2. \/ b.pos[y]["manual"] >= a.pos[y]["manual"]
        \/ b.pos[y]["manual"] >= Total(SharesOf, On(y, S))
    BY DEF Traded
  <2>3. Total(SharesOf, On(y, R)) <= Unsleeved(a, y)
    BY DEF Covers
  <2> QED
    BY <1>1, <1>3, <2>1, <2>2, <2>3 DEF Unsleeved
<1> QED
  BY <1>4, <1>5 DEF Covers

(* With its own reservation set aside, a waiting order fits into what the  *)
(* sleeves do not have beside all the others.                              *)
LEMMA OrderFits ==
  ASSUME AccountInv, NEW o \in ToSet(acct.pending)
  PROVE  LET S == {w \in ToSet(acct.pending) : w.id # o.id}
         IN  /\ o.side = "buy" =>
                  o.qty * (o.limit + Fee) + Total(CashOf, S) <= acct.manual
             /\ o.side = "sell" =>
                  o.qty + Total(SharesOf, On(o.sym, S)) <= Unsleeved(acct, o.sym)
<1> DEFINE W == ToSet(acct.pending)
           S == {w \in W : w.id # o.id}
<1>1. W \in SUBSET Waiting /\ IsFiniteSet(W) /\ o \in Waiting
  BY QueueSet DEF AccountInv, Account
<1>2. ASSUME NEW w \in W, w.id = o.id PROVE w = o
  BY <1>2 DEF ToSet, AccountInv, DistinctIds
<1>3. S \in SUBSET W /\ W = S \cup {o} /\ o \notin S
  BY <1>2
<1>4. /\ CashOf[o] \in Nat /\ SharesOf[o] \in Nat
      /\ CashOf[o] = _reserved_cash(o) /\ SharesOf[o] = _reserved_quantity(o)
      /\ \A w \in W : CashOf[w] \in Nat /\ SharesOf[w] \in Nat
      /\ o.sym \in Symbols
  BY <1>1, Reserves DEF Waiting
<1> HIDE DEF S
<1>5. IsFiniteSet(S) /\ \A w \in S : CashOf[w] \in Nat
  BY <1>1, <1>3, <1>4, FS_Subset
<1>6. CashOf[o] + Total(CashOf, S) <= acct.manual
  <2>1. Total(CashOf, S \cup {o}) = Total(CashOf, S) + CashOf[o]
    BY <1>3, <1>4, <1>5, TotalAdd
  <2>2. Total(CashOf, W) <= acct.manual /\ Total(CashOf, S) \in Nat
    BY <1>1, <1>3, OrderTotals DEF AccountInv, Covers
  <2> HIDE DEF W
  <2> QED
    BY <1>3, <1>4, <2>1, <2>2
<1>7. SharesOf[o] + Total(SharesOf, On(o.sym, S)) <= Unsleeved(acct, o.sym)
  <2> HIDE DEF W
  <2>1. On(o.sym, W) = On(o.sym, S) \cup {o} /\ o \notin On(o.sym, S)
    BY <1>3 DEF On
  <2>2. On(o.sym, S) \in SUBSET W
    BY <1>3 DEF On
  <2>3. IsFiniteSet(On(o.sym, S)) /\ \A w \in On(o.sym, S) : SharesOf[w] \in Nat
    BY <1>1, <1>4, <2>2, FS_Subset
  <2>4. Total(SharesOf, On(o.sym, S) \cup {o}) = Total(SharesOf, On(o.sym, S)) + SharesOf[o]
    BY <1>4, <2>1, <2>3, TotalAdd
  <2>5. Total(SharesOf, On(o.sym, W)) <= Unsleeved(acct, o.sym)
    BY <1>4 DEF AccountInv, Covers, W
  <2>6. Total(SharesOf, On(o.sym, S)) \in Nat
    BY <2>3, LayersFinite
  <2> QED
    BY <1>4, <2>1, <2>4, <2>5, <2>6
<1>8. /\ o.side = "buy" => CashOf[o] = o.qty * (o.limit + Fee)
      /\ o.side = "sell" => SharesOf[o] = o.qty
  BY <1>4 DEF _reserved_cash, _reserved_quantity
<1> QED
  BY <1>6, <1>7, <1>8 DEF S

\* What the loop has established after its first k turns, in state x.
\* Left: the orders that stay, and those whose turn is still to come.
From(k) == {acct.pending[j] : j \in k + 1..Len(acct.pending)}
Left(x, k) == ToSet(x.remaining) \cup From(k)

LoopInv(x, k) ==
  /\ x \in Acc /\ ~ x.short
  /\ x.acct.alloc = acct.alloc /\ x.acct.pending = acct.pending
  /\ \A y \in Symbols, o \in Owners \ {"manual"} : x.acct.pos[y][o] = acct.pos[y][o]
  /\ Balanced(x.acct) /\ Covers(x.acct, Left(x, k))
  /\ DistinctIds(x.remaining)
  /\ \A o \in ToSet(x.remaining) : \E j \in 1..k : o = acct.pending[j]
  /\ x.any \/ x.acct = acct

(* One more turn of the loop keeps what it has established. *)
LEMMA LoopTurn ==
  ASSUME Regular, AccountInv, NEW price \in Quotes, NEW touched,
         NEW k \in Nat, k + 1 \in 1..Len(acct.pending), NEW x, LoopInv(x, k)
  PROVE  LoopInv(OneOrder(price, touched, acct.pending[k + 1], x), k + 1)
<1> DEFINE n == Len(acct.pending)
           o == acct.pending[k + 1]
           z == OneOrder(price, touched, o, x)
           W == ToSet(acct.pending)
           S == {w \in W : w.id # o.id}
<1>1. /\ acct \in Account /\ acct.pending \in Seq(Waiting) /\ n \in Nat
      /\ DOMAIN acct.pending = 1..n /\ DistinctIds(acct.pending)
  BY DEF AccountInv, Account
<1>2. o \in Waiting /\ o \in W
  BY <1>1 DEF ToSet
<1>3. W \in SUBSET Waiting /\ IsFiniteSet(W) /\ S \in SUBSET W
  BY <1>1, QueueSet
<1>4. IsFiniteSet(S) /\ S \in SUBSET Waiting
  <2> HIDE DEF S
  <2> QED
    BY <1>3, FS_Subset
<1>5. /\ x.acct \in Account /\ x.remaining \in Seq(Waiting) /\ x.any \in BOOLEAN
      /\ x.acct.pending = acct.pending /\ x.acct.alloc = acct.alloc
      /\ x \in Acc /\ x.short = FALSE
  BY DEF LoopInv, Acc
<1>6. /\ z \in Acc
      /\ \/ z = [x EXCEPT !.remaining = Append(@, o)]
         \/ /\ Traded(x.acct, z.acct, S)
            /\ z.remaining = x.remaining /\ z.any
            /\ x.any => z.short = x.short
            /\ \/ z.short = x.short
               \/ /\ o.side = "buy" =>
                       o.qty * (o.limit + Fee) + Total(CashOf, S) > x.acct.manual
                  /\ o.side = "sell" =>
                       o.qty + Total(SharesOf, On(o.sym, S)) > Unsleeved(x.acct, o.sym)
  <2> HIDE DEF o, z
  <2>1. Turned(x, o, z)
    BY <1>2, <1>5, OneTurn DEF z
  <2>2. S = {w \in ToSet(x.acct.pending) : w.id # o.id}
    BY <1>5
  <2> HIDE DEF S
  <2> QED
    BY <2>1, <2>2 DEF Turned
<1>7. From(k) = {o} \cup From(k + 1)
  <2>1. k + 1..n = {k + 1} \cup (k + 1 + 1..n)
    BY <1>1
  <2> QED
    BY <2>1 DEF From
<1>8. ASSUME NEW w \in Left(x, k + 1) PROVE w \in W /\ w.id # o.id
  <2>1. PICK j \in 1..n : w = acct.pending[j] /\ j # k + 1
    <3>1. CASE w \in ToSet(x.remaining)
      <4>1. PICK j \in 1..k : w = acct.pending[j]
        BY <3>1 DEF LoopInv
      <4>2. j \in 1..n /\ j # k + 1
        BY <1>1, <4>1
      <4> QED
        BY <4>1, <4>2
    <3>2. CASE w \in From(k + 1)
      <4>1. PICK j \in k + 1 + 1..n : w = acct.pending[j]
        BY <3>2 DEF From
      <4>2. j \in 1..n /\ j # k + 1
        BY <1>1, <4>1
      <4> QED
        BY <4>1, <4>2
    <3> QED
      BY <1>8, <3>1, <3>2 DEF Left
  <2> QED
    BY <1>1, <2>1 DEF DistinctIds, ToSet
<1>9. CASE z = [x EXCEPT !.remaining = Append(@, o)]
  <2> HIDE DEF o, S
  <2>1. /\ z.acct = x.acct /\ z.any = x.any /\ z.short = x.short
        /\ z.remaining = Append(x.remaining, o)
    BY <1>5, <1>9 DEF Acc
  <2>2. \A w \in ToSet(x.remaining) : w.id # o.id
    BY <1>8 DEF Left
  <2>3. /\ DistinctIds(z.remaining)
        /\ ToSet(z.remaining) = ToSet(x.remaining) \cup {o}
    BY <1>2, <1>5, <2>1, <2>2, QueueAppend DEF LoopInv
  <2>4. Left(z, k + 1) = Left(x, k)
    BY <1>7, <2>3 DEF Left
  <2>5. ASSUME NEW w \in ToSet(z.remaining) PROVE \E j \in 1..k + 1 : w = acct.pending[j]
    <3>1. CASE w = o
      BY <3>1 DEF o
    <3>2. CASE w \in ToSet(x.remaining)
      <4>1. PICK j \in 1..k : w = acct.pending[j]
        BY <3>2 DEF LoopInv
      <4>2. j \in 1..k + 1
        OBVIOUS
      <4> QED
        BY <4>1, <4>2
    <3> QED
      BY <2>3, <3>1, <3>2
  <2> HIDE DEF z
  <2>6. LoopInv(z, k + 1)
    BY <1>6, <2>1, <2>3, <2>4, <2>5 DEF LoopInv
  <2> QED
    BY <2>6 DEF z, o
<1>10. CASE /\ Traded(x.acct, z.acct, S)
            /\ z.remaining = x.remaining /\ z.any
            /\ x.any => z.short = x.short
            /\ \/ z.short = x.short
               \/ /\ o.side = "buy" =>
                       o.qty * (o.limit + Fee) + Total(CashOf, S) > x.acct.manual
                  /\ o.side = "sell" =>
                       o.qty + Total(SharesOf, On(o.sym, S)) > Unsleeved(x.acct, o.sym)
  <2>1. Left(z, k + 1) = Left(x, k + 1) /\ Left(x, k + 1) \in SUBSET S
    BY <1>8, <1>10 DEF Left
  <2>2. Left(x, k + 1) \in SUBSET Left(x, k) /\ Left(x, k) \in SUBSET W
    <3>1. Left(x, k) = Left(x, k + 1) \cup {o}
      BY <1>7 DEF Left
    <3> QED
      BY <1>2, <1>8, <3>1
  <2>3. z.short = FALSE
    <3>1. CASE x.any
      BY <1>5, <1>10, <3>1
    <3>2. CASE ~ x.any
      <4>1. x.acct = acct
        BY <3>2 DEF LoopInv
      <4>2. /\ o.side = "buy" =>
                  o.qty * (o.limit + Fee) + Total(CashOf, S) <= acct.manual
            /\ o.side = "sell" =>
                  o.qty + Total(SharesOf, On(o.sym, S)) <= Unsleeved(acct, o.sym)
        BY <1>2, OrderFits
      <4>3. /\ o.qty * (o.limit + Fee) \in Nat /\ o.qty \in Nat
            /\ Total(CashOf, S) \in Nat /\ Total(SharesOf, On(o.sym, S)) \in Nat
            /\ acct.manual \in Nat /\ Unsleeved(acct, o.sym) \in Nat
            /\ (o.side = "buy" \/ o.side = "sell")
        <5>1. /\ o.qty \in 1..MaxQty /\ o.limit \in Prices /\ o.sym \in Symbols
              /\ o.side \in Sides
          BY <1>2 DEF Waiting
        <5>2. o.qty \in Nat /\ o.limit \in Nat /\ o.limit + Fee \in Nat
          <6> HIDE DEF o
          <6>1. o.limit \in Nat
            BY <5>1, PaperConstants
          <6> QED
            BY <5>1, <6>1, PaperConstants
        <5>3. o.qty * (o.limit + Fee) \in Nat
          BY <5>2, Products
        <5>4. Total(CashOf, S) \in Nat /\ Total(SharesOf, On(o.sym, S)) \in Nat
          <6> HIDE DEF S, o
          <6> QED
            BY <1>4, OrderTotals
        <5>5. acct.manual \in Nat /\ Unsleeved(acct, o.sym) \in Nat
          BY <1>1, <5>1, UnsleevedFacts DEF Account
        <5> QED
          BY <5>1, <5>2, <5>3, <5>4, <5>5 DEF Sides
      <4> DEFINE cost == o.qty * (o.limit + Fee)
      <4> HIDE DEF S, o, z, cost
      <4>4. z.short = x.short
        BY <1>10, <4>1, <4>2, <4>3 DEF cost
      <4> QED
        BY <1>5, <4>4
    <3> QED
      BY <1>5, <3>1, <3>2
  <2> HIDE DEF S, o, z, W
  <2>4. Balanced(z.acct)
    BY <1>4, <1>5, <1>10, TradedFacts DEF LoopInv
  <2>5. Covers(z.acct, Left(z, k + 1))
    <3>1. IsFiniteSet(Left(x, k)) /\ Left(x, k) \in SUBSET Waiting
      BY <1>3, <2>2, FS_Subset
    <3>2. Covers(x.acct, Left(x, k + 1))
      BY <1>5, <2>2, <3>1, CoversPart DEF LoopInv
    <3> QED
      BY <1>4, <1>5, <1>10, <2>1, <3>2, TradedCovers
  <2>6. \A w \in ToSet(z.remaining) : \E j \in 1..k + 1 : w = acct.pending[j]
    <3> SUFFICES ASSUME NEW w \in ToSet(x.remaining)
                 PROVE  \E j \in 1..k + 1 : w = acct.pending[j]
      BY <1>10
    <3>1. PICK j \in 1..k : w = acct.pending[j]
      BY DEF LoopInv
    <3>2. j \in 1..k + 1
      OBVIOUS
    <3> QED
      BY <3>1, <3>2
  <2>7. /\ z.acct.alloc = acct.alloc /\ z.acct.pending = acct.pending
        /\ \A y \in Symbols, w \in Owners \ {"manual"} : z.acct.pos[y][w] = acct.pos[y][w]
        /\ DistinctIds(z.remaining) /\ z.any
    BY <1>5, <1>10 DEF Traded, LoopInv
  <2>8. LoopInv(z, k + 1)
    BY <1>6, <2>3, <2>4, <2>5, <2>6, <2>7 DEF LoopInv
  <2> QED
    BY <2>8 DEF z, o
<1> QED
  BY <1>6, <1>9, <1>10

(* process_pending_orders keeps the invariant: the orders that stay are    *)
(* covered, and the first one that executed was filled in full.            *)
LEMMA ProcessKeeps ==
  ASSUME Regular, AccountInv, NEW price \in Quotes, NEW touched,
         process_pending_orders(price, touched)
  PROVE  AccountInv'
<1> DEFINE n == Len(acct.pending)
           start == LoopStart
           end == LoopEnd(price, touched)
           a == [end.acct EXCEPT !.pending = end.remaining]
<1>1. /\ acct \in Account /\ acct.pending \in Seq(Waiting) /\ n \in Nat
      /\ DOMAIN acct.pending = 1..n
  BY DEF AccountInv, Account
<1>2. PICK st : /\ st[0] = start /\ st[n] = end
                /\ \A k \in 0..n : st[k] \in Acc
                /\ \A k \in 1..n :
                     st[k] = OneOrder(price, touched, acct.pending[k], st[k - 1])
  BY <1>1, LoopStates
<1>3. Save(a) /\ shorted' = end.short /\ UNCHANGED book
  BY Zenon DEF process_pending_orders, LoopEnd, LoopStart
<1> HIDE DEF end
<1>4. LoopInv(st[0], 0)
  <2>1. /\ start \in Acc /\ start.acct = acct /\ start.remaining = <<>>
        /\ start.short = FALSE
    BY <1>1 DEF Acc, LoopStart
  <2> HIDE DEF start
  <2>2. ToSet(<<>>) = {} /\ DistinctIds(<<>>)
    BY DEF ToSet, DistinctIds
  <2>3. From(0) = ToSet(acct.pending)
    <3>1. 0 + 1..n = 1..n
      BY <1>1
    <3> QED
      BY <1>1, <3>1 DEF From, ToSet
  <2>4. Left(start, 0) = ToSet(acct.pending)
    BY <2>1, <2>2, <2>3 DEF Left
  <2> QED
    BY <1>2, <2>1, <2>2, <2>4 DEF LoopInv, AccountInv
<1>5. LoopInv(st[n], n)
  <2> DEFINE N == {k \in Nat : k <= n => LoopInv(st[k], k)}
  <2>1. 0 \in N
    BY <1>4
  <2>2. ASSUME NEW k \in N \cap Nat PROVE k + 1 \in N
    <3> SUFFICES ASSUME k + 1 <= n PROVE LoopInv(st[k + 1], k + 1)
      OBVIOUS
    <3>1. k + 1 \in 1..n /\ (k + 1) - 1 = k /\ k <= n
      BY <1>1
    <3>2. LoopInv(st[k], k)
      BY <3>1
    <3>3. st[k + 1] = OneOrder(price, touched, acct.pending[k + 1], st[k])
      BY <1>2, <3>1
    <3> QED
      BY <3>1, <3>2, <3>3, LoopTurn
  <2>3. Nat \subseteq N
    <3> HIDE DEF N
    <3> QED
      BY <2>1, <2>2, NaturalsByStep
  <2> QED
    BY <1>1, <2>3
<1>6. LoopInv(end, n)
  BY <1>2, <1>5
<1>7. /\ end.acct \in Account /\ end.remaining \in Seq(Waiting) /\ end.short = FALSE
      /\ end.acct.alloc = acct.alloc /\ Balanced(end.acct)
  BY <1>6 DEF LoopInv, Acc
<1>8. /\ a \in Account /\ a.pending = end.remaining /\ a.alloc = end.acct.alloc
      /\ a.manual = end.acct.manual /\ a.cash = end.acct.cash /\ a.pos = end.acct.pos
  BY <1>7 DEF Account
<1> HIDE DEF a
<1>9. Covers(a, ToSet(a.pending))
  <2>1. From(n) = {}
    BY <1>1 DEF From
  <2>2. Left(end, n) = ToSet(end.remaining)
    BY <2>1 DEF Left
  <2> QED
    BY <1>6, <1>8, <2>2 DEF LoopInv, Covers, Unsleeved
<1>10. Balanced(a)
  BY <1>7, <1>8 DEF Balanced
<1>11. acct' = a
  BY <1>3, <1>8, <1>10, SavedAsIs DEF Save
<1>12. BooksMatch'
  <2>1. \A y \in Symbols, o \in Owners \ {"manual"} : acct'.pos[y][o] = acct.pos[y][o]
    BY <1>6, <1>8, <1>11 DEF LoopInv
  <2> QED
    BY <1>3, <1>7, <1>8, <1>11, <2>1, TradedBooks DEF AccountInv
<1>13. DistinctIds(a.pending)
  BY <1>6, <1>8 DEF LoopInv
<1> QED
  BY <1>3, <1>7, <1>8, <1>9, <1>10, <1>11, <1>12, <1>13 DEF AccountInv

-----------------------------------------------------------------------------
(* The trial of a rebalance.                                               *)

(* A pro rata sale takes from each owner no more than it owns. *)
LEMMA ProRataShares ==
  ASSUME NEW m \in Nat, NEW l \in Nat, NEW sold \in 1..m + l
  PROVE  LET part == (m * sold) \div (m + l)
         IN  part \in Nat /\ part <= m /\ sold - part <= l
<1> DEFINE q == m + l
           x == m * sold
           part == x \div q
<1>1. q \in Nat \ {0} /\ x \in Nat
  BY Products
<1>2. part \in Nat /\ part * q <= x /\ \A i \in Nat : i * q <= x => i <= part
  <2> HIDE DEF q, x
  <2> QED
    BY <1>1, Quotients
<1>3. part <= m
  <2>1. x <= m * q
    BY Products
  <2>2. m * q < (m + 1) * q /\ (m + 1) * q = m * q + q
    BY <1>1
  <2> HIDE DEF x, part
  <2>3. ~ (m + 1 <= part)
    <3>1. m + 1 <= part => (m + 1) * q <= part * q
      BY <1>1, <1>2, Products
    <3>2. m * q \in Int /\ (m + 1) * q \in Int /\ part * q \in Int
      BY <1>1, <1>2
    <3> QED
      BY <1>1, <1>2, <2>1, <2>2, <3>1, <3>2
  <2> QED
    BY <1>2, <2>3
<1>4. sold - part <= l
  <2>1. CASE sold <= l
    BY <1>2, <2>1
  <2>2. CASE ~ (sold <= l)
    <3> DEFINE i == sold - l
    <3>1. i \in Nat /\ i <= m
      BY <2>2
    <3>2. i * q = sold * m + (sold * l - l * m) - l * l
      OBVIOUS
    <3>3. sold * l <= l * m + l * l
      <4>1. sold * l <= q * l
        BY Products
      <4>2. q * l = l * m + l * l
        OBVIOUS
      <4> QED
        BY <4>1, <4>2
    <3>4. i * q <= x
      BY <3>2, <3>3
    <3>5. i <= part
      BY <1>2, <3>1, <3>4
    <3> QED
      BY <1>2, <3>5
  <2> QED
    BY <2>1, <2>2
<1> QED
  BY <1>2, <1>3, <1>4

\* An account without sleeves that covers the orders that wait now, and the trial's
\* accumulators.
Bare == {a \in Account : /\ a.pending = acct.pending /\ a.cash = a.manual
                         /\ \A s \in Sleeves : a.alloc[s] = 0
                         /\ \A s \in Sleeves, y \in Symbols : a.pos[y][s] = 0
                         /\ Covers(a, ToSet(acct.pending))}
Trials == [acct : Bare, full : BOOLEAN]

(* Without sleeves a position is what the manual and the legacy part own. *)
LEMMA BarePosition ==
  ASSUME NEW a \in Bare, NEW sym \in Symbols
  PROVE  position_quantity(a, sym) = a.pos[sym]["manual"] + a.pos[sym]["legacy"]
<1> DEFINE f == a.pos[sym]
           M == Sleeves \cup {"manual"}
<1>1. f \in [Owners -> Nat] /\ \A s \in Sleeves : f[s] = 0
  BY DEF Bare, Account
<1>2. f["manual"] \in Nat /\ f["legacy"] \in Nat
  BY <1>1, OwnersFacts
<1>3. position_quantity(a, sym) = Total(f, Owners)
  BY <1>1, OwnersFacts, SumFunctionTotal DEF position_quantity
<1> HIDE DEF f
<1>4. Total(f, Sleeves) = 0
  BY <1>1, TotalZero
<1>5. Total(f, M) = Total(f, Sleeves) + f["manual"]
  BY <1>1, <1>2, OwnersFacts, NamesAssumption, TotalAdd
<1>6. IsFiniteSet(M) /\ "legacy" \notin M /\ \A o \in M : f[o] \in Nat
  BY <1>1, <1>2, OwnersFacts, NamesAssumption, FS_AddElement
<1> HIDE DEF M
<1>7. Total(f, M \cup {"legacy"}) = Total(f, M) + f["legacy"]
  BY <1>2, <1>6, TotalAdd
<1>8. M \cup {"legacy"} = Owners
  BY DEF M, Owners
<1>9. Total(f, Owners) = f["manual"] + f["legacy"]
  <2>1. Total(f, M) = f["manual"]
    BY <1>2, <1>4, <1>5
  <2>2. Total(f, Owners) = Total(f, M) + f["legacy"]
    BY <1>7, <1>8, Zenon
  <2> QED
    BY <2>1, <2>2
<1> QED
  BY <1>3, <1>9 DEF f

(* What a leg executes leaves the account without a debt, and the waiting  *)
(* orders covered.                                                         *)
LEMMA LegacyExecuted ==
  ASSUME Regular, NEW a \in Bare, NEW sym \in Symbols, NEW side \in Sides,
         NEW q \in Nat, NEW price \in Prices,
         side = "sell" => q <= position_quantity(a, sym)
  PROVE  Executed(a, sym, side, q, price, "legacy", "none") \in Trials
<1> DEFINE n == _executable_quantity(a, sym, side, q, price, "legacy", "none")
           run == Executed(a, sym, side, q, price, "legacy", "none")
           b == apply_fill(a, sym, side, n, price, "legacy")
           held == position_quantity(a, sym)
           p == price + Fee
           own == a.pos[sym]
           m == own["manual"]
           l == own["legacy"]
           W == ToSet(a.pending)
           R == Total(CashOf, W)
           Q == Total(SharesOf, On(sym, W))
<1>1. /\ a \in Account /\ a.cash \in Nat /\ a.manual = a.cash
      /\ a.alloc \in [Sleeves -> Nat] /\ a.pos \in [Symbols -> [Owners -> Nat]]
      /\ a.pending \in Seq(Waiting) /\ a.frozen \in BOOLEAN /\ own \in [Owners -> Nat]
      /\ m \in Nat /\ l \in Nat /\ held = m + l
      /\ a.pending = acct.pending /\ Covers(a, W)
  BY BarePosition, OwnersFacts DEF Bare, Account
<1>2. /\ reserved_cash(a, "none") = R /\ reserved_quantity(a, sym, "none") = Q
      /\ R \in Nat /\ Q \in Nat /\ R <= a.cash /\ Q <= held
  <2>1. W \in SUBSET Waiting /\ IsFiniteSet(W)
    BY <1>1, AllReserved
  <2>2. R \in Nat /\ Q \in Nat
    BY <2>1, OrderTotals
  <2>3. R <= a.cash /\ Q <= Unsleeved(a, sym)
    BY <1>1 DEF Covers
  <2> QED
    BY <1>1, <2>2, <2>3, AllReserved DEF Unsleeved
<1>3. p \in Nat \ {0} /\ price \in Nat /\ price - Fee \in Nat
  BY PaperConstants DEF Regular
<1>4. n = Smaller(q, IF side = "buy" THEN (a.cash - R) \div p ELSE held - Q)
  <2>1. Larger(a.cash - R, 0) = a.cash - R /\ Larger(held - Q, 0) = held - Q
    <3> HIDE DEF held, R, Q
    <3>1. \A i, k \in Nat : k <= i => Larger(i - k, 0) = i - k
      BY DEF Larger
    <3>2. held \in Nat
      BY <1>1 DEF held
    <3> QED
      BY <1>1, <1>2, <3>1, <3>2
  <2> QED
    BY <1>2, <2>1 DEF _executable_quantity, _available_cash, _available_quantity
<1>5. run = [acct |-> IF n = 0 THEN a ELSE b, full |-> n = q]
  BY DEF Executed
<1>6. ASSUME n = 0 \/ b \in Bare PROVE run \in Trials
  <2> HIDE DEF n, b, run
  <2> QED
    BY <1>5, <1>6 DEF Trials
\* The new account is bare when it is one, and spares what is reserved.
<1>7. ASSUME NEW new \in [Owners -> Nat], NEW cash \in Nat, R <= cash,
             \A s \in Sleeves : new[s] = own[s],
             Q <= new["manual"] + new["legacy"],
             b = [cash |-> cash, manual |-> cash, alloc |-> a.alloc,
                  pos |-> [a.pos EXCEPT ![sym] = new], pending |-> a.pending,
                  frozen |-> a.frozen]
      PROVE  b \in Bare
  <2> HIDE DEF b, R, Q, held, own, m, l
  <2>1. [a.pos EXCEPT ![sym] = new] \in [Symbols -> [Owners -> Nat]]
    BY <1>1, <1>7
  <2>2. b \in Account
    BY <1>1, <1>7, <2>1 DEF Account
  <2>3. /\ b.pos[sym] = new /\ \A y \in Symbols \ {sym} : b.pos[y] = a.pos[y]
        /\ b.pending = a.pending /\ b.cash = cash /\ b.manual = cash /\ b.alloc = a.alloc
    BY <1>1, <1>7
  <2>4. \A s \in Sleeves, y \in Symbols : b.pos[y][s] = 0
    BY <1>7, <2>3 DEF Bare, own
  <2>5. \A y \in Symbols : Total(SharesOf, On(y, W)) <= Unsleeved(b, y)
    <3> SUFFICES ASSUME NEW y \in Symbols
                 PROVE  Total(SharesOf, On(y, W)) <= Unsleeved(b, y)
      OBVIOUS
    <3>1. CASE y = sym
      BY <1>7, <2>3, <3>1 DEF Unsleeved, Q
    <3>2. CASE y # sym
      BY <1>1, <2>3, <3>2 DEF Unsleeved, Covers
    <3> QED
      BY <3>1, <3>2
  <2>6. Covers(b, ToSet(acct.pending))
    BY <1>1, <1>7, <2>3, <2>5 DEF Covers, R
  <2> QED
    BY <1>1, <2>2, <2>3, <2>4, <2>6 DEF Bare
<1>8. CASE side = "buy"
  <2> DEFINE x == n * p
             d == (a.cash - R) \div p
             new == [own EXCEPT !["legacy"] = @ + n]
  <2>1. n \in Nat /\ n <= d /\ d \in Nat /\ d * p <= a.cash - R
    <3>1. a.cash - R \in Nat
      <4> HIDE DEF R
      <4> QED
        BY <1>1, <1>2
    <3>2. d \in Nat /\ d * p <= a.cash - R
      <4> DEFINE i == a.cash - R
      <4> HIDE DEF i, p
      <4>1. (i \div p) \in Nat /\ (i \div p) * p <= i
        BY <1>3, <3>1, Quotients DEF i
      <4> QED
        BY <4>1 DEF i
    <3> HIDE DEF d, n
    <3> QED
      BY <1>4, <1>8, <3>2 DEF Smaller, d
  <2>2. x \in Nat /\ x <= a.cash - R
    <3> HIDE DEF n, d, R
    <3>1. x <= d * p /\ x \in Nat /\ d * p \in Nat
      BY <1>3, <2>1, Products
    <3> QED
      BY <1>1, <1>2, <2>1, <3>1
  <2>3. /\ new \in [Owners -> Nat] /\ new["manual"] = m /\ new["legacy"] = l + n
        /\ \A o \in Owners : o # "legacy" => new[o] = own[o]
    <3> HIDE DEF n
    <3> QED
      BY <1>1, <2>1, OwnersFacts
  <2>4. b = [a EXCEPT !.cash = @ + (-x), !.manual = @ + (-x), !.pos[sym] = new]
    <3> HIDE DEF n
    <3> QED
      BY <1>8, OwnersFacts DEF apply_fill
  <2> HIDE DEF n, x, d, new, b, R, Q, held
  <2>5. b = [cash |-> a.cash - x, manual |-> a.cash - x, alloc |-> a.alloc,
             pos |-> [a.pos EXCEPT ![sym] = new], pending |-> a.pending,
             frozen |-> a.frozen]
    BY <1>1, <2>2, <2>4 DEF Account
  <2>6. a.cash - x \in Nat /\ R <= a.cash - x
    BY <1>1, <1>2, <2>2
  <2>7. Q <= new["manual"] + new["legacy"]
    BY <1>1, <1>2, <2>1, <2>3 DEF held
  <2>8. \A s \in Sleeves : new[s] = own[s]
    BY <2>3, OwnersFacts
  <2>9. b \in Bare
    BY <1>7, <2>3, <2>5, <2>6, <2>7, <2>8
  <2> QED
    BY <1>6, <2>9
<1>9. CASE side = "sell"
  <2> DEFINE x == n * (price - Fee)
             part == (m * n) \div held
             new == ProRata(held, own, n)
  <2>1. n <= held - Q /\ n <= held /\ n \in Nat
    <3> HIDE DEF n, held, Q
    <3>1. held \in Nat
      BY <1>1 DEF held
    <3> QED
      BY <1>1, <1>2, <1>4, <1>9, <3>1 DEF Smaller
  <2>2. CASE n = 0
    BY <1>6, <2>2
  <2>3. CASE n # 0
    <3>1. x \in Nat
      <4> HIDE DEF n
      <4> QED
        BY <1>3, <2>1, Products
    <3>2. part \in Nat /\ part <= m /\ n - part <= l
      <4>1. n \in 1..m + l
        <5> HIDE DEF n, held, Q
        <5> QED
          BY <1>1, <2>1, <2>3
      <4> HIDE DEF n, held, m, l
      <4> QED
        BY <1>1, <4>1, ProRataShares
    <3>3. /\ new \in [Owners -> Nat]
          /\ new["manual"] = m - part /\ new["legacy"] = l - (n - part)
          /\ \A s \in Sleeves : new[s] = own[s]
      <4>1. new = [own EXCEPT !["manual"] = @ - part, !["legacy"] = @ - (n - part)]
        BY DEF ProRata
      <4> HIDE DEF n, part, new, held
      <4>2. m - part \in Nat /\ l - (n - part) \in Nat
        BY <1>1, <2>1, <3>2
      <4> QED
        BY <1>1, <4>1, <4>2, OwnersFacts
    <3>4. b = [a EXCEPT !.cash = @ + x, !.manual = @ + x, !.pos[sym] = new]
      <4> HIDE DEF n
      <4> QED
        BY <1>9, OwnersFacts DEF apply_fill
    <3> HIDE DEF n, x, part, new, b, held, R, Q
    <3>5. b = [cash |-> a.cash + x, manual |-> a.cash + x, alloc |-> a.alloc,
               pos |-> [a.pos EXCEPT ![sym] = new], pending |-> a.pending,
               frozen |-> a.frozen]
      BY <1>1, <3>1, <3>4 DEF Account
    <3>6. a.cash + x \in Nat /\ R <= a.cash + x
      BY <1>1, <1>2, <3>1
    <3>7. Q <= new["manual"] + new["legacy"]
      <4> HIDE DEF own, m, l
      <4>1. m \in Nat /\ l \in Nat /\ held = m + l
        BY <1>1
      <4>2. new["manual"] = m - part /\ new["legacy"] = l - (n - part)
        BY <3>3
      <4>3. \A i, k, u, v \in Nat : (i - u) + (k - (v - u)) = (i + k) - v
        OBVIOUS
      <4>4. new["manual"] + new["legacy"] = held - n
        BY <2>1, <3>2, <4>1, <4>2, <4>3
      <4>5. held \in Nat /\ Q \in Nat /\ n \in Nat /\ n <= held - Q
        BY <1>2, <2>1, <4>1
      <4> QED
        BY <4>4, <4>5
    <3>8. b \in Bare
      BY <1>7, <3>3, <3>5, <3>6, <3>7
    <3> QED
      BY <1>6, <3>8
  <2> QED
    BY <2>2, <2>3
<1> QED
  BY <1>8, <1>9 DEF Sides

(* A leg of the trial. *)
LEMMA LegKeeps ==
  ASSUME Regular, NEW target \in Targets, NEW price \in Quotes, NEW side \in Sides,
         NEW sym \in Symbols, NEW acc \in Trials
  PROVE  Leg(target, price, side, sym, acc) \in Trials
<1> DEFINE held == position_quantity(acc.acct, sym)
           q == IF side = "sell" THEN held - target[sym] ELSE target[sym] - held
           run == Executed(acc.acct, sym, side, q, price[sym], "legacy", "none")
<1>1. acc.acct \in Bare /\ acc.full \in BOOLEAN
  BY DEF Trials
<1>2. held \in Nat
  <2>1. /\ acc.acct.pos[sym]["manual"] \in Nat /\ acc.acct.pos[sym]["legacy"] \in Nat
    BY <1>1, OwnersFacts DEF Bare, Account
  <2> QED
    BY <1>1, <2>1, BarePosition
<1>3. target[sym] \in Nat /\ price[sym] \in Prices
  BY PaperConstants DEF Targets, Quotes
<1>4. CASE q <= 0
  BY <1>4 DEF Leg
<1>5. CASE ~ (q <= 0)
  <2>1. q \in Nat /\ (side = "sell" => q <= held)
    <3> HIDE DEF held
    <3> QED
      BY <1>2, <1>3, <1>5
  <2>2. Leg(target, price, side, sym, acc) = [acct |-> run.acct, full |-> acc.full /\ run.full]
    BY <1>5 DEF Leg
  <2> HIDE DEF q
  <2>3. run \in Trials
    BY <1>1, <1>3, <2>1, LegacyExecuted
  <2> HIDE DEF run
  <2> QED
    BY <1>1, <2>2, <2>3 DEF Trials
<1> QED
  BY <1>4, <1>5

\* One of the two loops of the trial, over all symbols.
Round(target, price, side, base) ==
  FoldSet(LAMBDA sym, acc : Leg(target, price, side, sym, acc), base, Symbols)

(* A round of legs. *)
LEMMA RoundKeeps ==
  ASSUME Regular, NEW target \in Targets, NEW price \in Quotes, NEW side \in Sides,
         NEW base \in Trials
  PROVE  Round(target, price, side, base) \in Trials
<1> DEFINE One(x, a) == Leg(target, price, side, x, a)
           c == [s \in (SUBSET Symbols) \ {{}} |-> CHOOSE x \in s : TRUE]
           G == [x \in Symbols |-> [a \in Trials |-> One(x, a)]]
           Body(h) == [s \in SUBSET Symbols |->
                         IF s = {} THEN base
                         ELSE One(CHOOSE x \in s : TRUE, h[s \ {CHOOSE x \in s : TRUE}])]
           iter == CHOOSE h : h = Body(h)
<1>1. IsFiniteSet(Symbols)
  BY NamesAssumption
<1>2. ASSUME NEW x \in Symbols, NEW a \in Trials PROVE One(x, a) \in Trials
  BY LegKeeps
<1>3. ASSUME NEW s \in (SUBSET Symbols) \ {{}}
      PROVE  c[s] = (CHOOSE x \in s : TRUE) /\ c[s] \in s
  OBVIOUS
<1> HIDE DEF One
<1>4. ASSUME NEW h, NEW s \in (SUBSET Symbols) \ {{}}
      PROVE  Body(h)[s] = One(c[s], h[s \ {c[s]}])
  <2> DEFINE x == CHOOSE y \in s : TRUE
  <2>1. Body(h)[s] = One(x, h[s \ {x}])
    OBVIOUS
  <2>2. c[s] = x
    BY <1>3
  <2> HIDE DEF x, c, Body
  <2> QED
    BY <2>1, <2>2
<1>5. \E h : h = Body(h)
  <2>1. Choice(c, Symbols)
    BY <1>3 DEF Choice
  <2>2. G \in [Symbols -> [Trials -> Trials]]
    BY <1>2
  <2>3. PICK h : IsFold(h, Symbols, c, Trials, base, G)
    <3> HIDE DEF c, G
    <3> QED
      BY <1>1, <2>1, <2>2, FoldRecursion
  <2>4. ASSUME NEW s \in SUBSET Symbols PROVE h[s] = Body(h)[s]
    <3>1. CASE s = {}
      BY <2>3, <3>1 DEF IsFold
    <3>2. CASE s # {}
      <4> DEFINE x == c[s]
      <4>1. x \in Symbols /\ s \ {x} \in SUBSET Symbols
        BY <1>3, <3>2
      <4>2. Body(h)[s] = One(x, h[s \ {x}])
        BY <1>4, <3>2
      <4> HIDE DEF c, x, Body
      <4>3. h[s] = G[x][h[s \ {x}]] /\ h[s \ {x}] \in Trials
        BY <2>3, <3>2, <4>1 DEF IsFold, x
      <4> QED
        BY <4>1, <4>2, <4>3
    <3> QED
      BY <3>1, <3>2
  <2>5. h = [s \in SUBSET Symbols |-> h[s]] /\ Body(h) = [s \in SUBSET Symbols |-> Body(h)[s]]
    BY <2>3 DEF IsFold
  <2> HIDE DEF Body
  <2> QED
    BY <2>4, <2>5
<1>6. iter = Body(iter)
  <2> HIDE DEF Body
  <2> QED
    BY <1>5
<1>7. Round(target, price, side, base) = iter[Symbols]
  BY Zenon DEF Round, FoldSet, MapThenFoldSet, One
<1> DEFINE T == {s \in SUBSET Symbols : iter[s] \in Trials}
<1>8. {} \in T
  <2>1. iter[{}] = base
    <3> HIDE DEF iter
    <3> QED
      BY <1>6
  <2> HIDE DEF iter
  <2> QED
    BY <2>1
<1>9. ASSUME NEW s \in (SUBSET Symbols) \ {{}}, s \ {c[s]} \in T PROVE s \in T
  <2>1. iter[s] = One(c[s], iter[s \ {c[s]}])
    <3> HIDE DEF iter, Body, c
    <3> QED
      BY <1>4, <1>6
  <2>2. c[s] \in Symbols
    BY <1>3
  <2> HIDE DEF iter, c
  <2> QED
    BY <1>2, <1>9, <2>1, <2>2
<1>10. SUBSET Symbols \subseteq T
  <2> HIDE DEF T, c
  <2> QED
    BY <1>1, <1>3, <1>8, <1>9, SubsetsByChoice
<1> HIDE DEF iter
<1> QED
  BY <1>7, <1>10

(* rebalance_to_strategy keeps the invariant. *)
LEMMA RebalanceKeeps ==
  ASSUME Regular, AccountInv, WholeAccount, NEW target \in Targets,
         NEW price \in Quotes, rebalance_to_strategy(target, price)
  PROVE  AccountInv'
<1> DEFINE start == [acct |-> acct, full |-> TRUE]
           a == Trial(target, price).acct
<1>1. \A s \in Sleeves : book[s] = NoSleeve
  BY DEF WholeAccount, Regular
<1>2. /\ acct \in Account /\ acct.alloc \in [Sleeves -> Nat] /\ acct.cash \in Int
      /\ acct.manual \in Nat
  BY DEF AccountInv, Account
<1>3. acct \in Bare
  <2>1. /\ \A s \in Sleeves : acct.alloc[s] = 0
        /\ \A s \in Sleeves, y \in Symbols : acct.pos[y][s] = 0
    BY <1>1 DEF AccountInv, BooksMatch
  <2>2. Total(acct.alloc, Sleeves) = 0
    BY <2>1, TotalZero
  <2>3. acct.cash = acct.manual
    BY <1>2, <2>2 DEF AccountInv, Balanced
  <2> QED
    BY <1>1, <1>2, <2>1, <2>3 DEF Bare, AccountInv
<1>4. Trial(target, price) \in Trials
  <2>1. "sell" \in Sides /\ "buy" \in Sides /\ start \in Trials
    BY <1>3 DEF Sides, Trials
  <2> HIDE DEF start
  <2>2. Round(target, price, "sell", start) \in Trials
    BY <2>1, RoundKeeps
  <2>3. Round(target, price, "buy", Round(target, price, "sell", start)) \in Trials
    BY <2>1, <2>2, RoundKeeps
  <2>4. Trial(target, price)
          = Round(target, price, "buy", Round(target, price, "sell", start))
    BY Zenon DEF Trial, Round, start
  <2> QED
    BY <2>3, <2>4
<1>5. a \in Bare
  BY <1>4 DEF Trials
<1>6. Save(a) /\ shorted' = FALSE /\ UNCHANGED book
  BY Zenon DEF rebalance_to_strategy
<1> HIDE DEF a
<1>7. /\ a \in Account /\ a.pending = acct.pending /\ a.cash = a.manual /\ a.manual \in Nat
      /\ \A s \in Sleeves : a.alloc[s] = 0
      /\ \A s \in Sleeves, y \in Symbols : a.pos[y][s] = 0
      /\ \A y \in Symbols : a.pos[y]["manual"] \in Nat
  BY <1>5, OwnersFacts DEF Bare, Account
<1>8. Balanced(a)
  <2>1. Total(a.alloc, Sleeves) = 0
    BY <1>7, TotalZero
  <2> QED
    BY <1>7, <2>1 DEF Balanced
<1>9. acct' = a
  BY <1>6, <1>7, <1>8, SavedAsIs DEF Save
<1>10. DistinctIds(a.pending) /\ Covers(a, ToSet(a.pending))
  BY <1>5, <1>7 DEF Bare, AccountInv
<1>11. BooksMatch'
  BY <1>1, <1>6, <1>7, <1>9 DEF BooksMatch
<1> QED
  BY <1>6, <1>7, <1>8, <1>9, <1>10, <1>11 DEF AccountInv

-----------------------------------------------------------------------------
(* The theorems.                                                           *)

(* Every route keeps the invariant. *)
LEMMA NextInv == Regular /\ AccountInv /\ [Next]_vars => AccountInv'
<1> SUFFICES ASSUME Regular, AccountInv, [Next]_vars PROVE AccountInv'
  OBVIOUS
<1>1. ASSUME NEW sym \in Symbols, NEW side \in Sides, NEW q \in 1..MaxQty,
             NEW price \in Prices, NEW limit \in Prices \cup {NoLimit},
             place_manual_order(sym, side, q, limit, price)
      PROVE  AccountInv'
  BY <1>1, PlaceKeeps
<1>2. ASSUME NEW sym \in Symbols, NEW side \in Sides, NEW q \in 1..MaxQty,
             NEW price \in Prices, NEW s \in Sleeves, NEW definition \in BOOLEAN,
             SleeveTrade(s, sym, side, q, price, definition)
      PROVE  AccountInv'
  BY <1>2, SleeveTradeKeeps
<1>3. ASSUME NEW id \in Orders, cancel_pending_order(id) PROVE AccountInv'
  BY <1>3, CancelKeeps
<1>4. ASSUME NEW price \in Quotes, NEW touched \in SUBSET Orders,
             process_pending_orders(price, touched)
      PROVE  AccountInv'
  BY <1>4, ProcessKeeps
<1>5. ASSUME WholeAccount, NEW target \in Targets, NEW price \in Quotes,
             rebalance_to_strategy(target, price)
      PROVE  AccountInv'
  BY <1>5, RebalanceKeeps
<1>6. CASE \/ \E on \in BOOLEAN : set_account_kill_switch(on)
           \/ WholeAccount /\ reset_account
  BY <1>6, SwitchAndResetKeep
<1>7. ASSUME NEW s \in Sleeves, NEW cash \in 1..InitialCash, _allocate_cash(s, cash)
      PROVE  AccountInv'
  BY <1>7, AllocateKeeps
<1>8. CASE UNCHANGED vars
  BY <1>8 DEF vars, AccountInv, BooksMatch
<1> QED
  BY <1>1, <1>2, <1>3, <1>4, <1>5, <1>6, <1>7, <1>8 DEF Next

(* In every state that is reached account and sleeves agree, and the       *)
(* manual cash is what the sleeves do not have and covers every waiting    *)
(* buy order, as the shares outside of the sleeves do every sell order.    *)
THEOREM AccountsAgree == Regular /\ Spec => []AccountInv
<1>1. SUFFICES ASSUME Regular PROVE Spec => []AccountInv
  OBVIOUS
<1>2. AccountInv /\ [Next]_vars => AccountInv'
  BY <1>1, NextInv
<1> QED
  BY <1>2, InitInv, PTL DEF Spec

(* No column of the account leaves its range: nothing is sold short by any *)
(* owner, and no allocation and no manual cash is negative.                *)
THEOREM AccountTyped == Regular /\ Spec => []TypeOK
<1>1. AccountInv => TypeOK
  BY DEF AccountInv, Account, TypeOK, DistinctIds, IsInjective
<1> QED
  BY <1>1, AccountsAgree, PTL

(* The allocations of the sleeves never add up to more than the account's  *)
(* cash.                                                                   *)
THEOREM AllocationsBacked == Regular /\ Spec => []SleevesBacked
<1>1. AccountInv => SleevesBacked
  <2> SUFFICES ASSUME AccountInv PROVE SleevesBacked
    OBVIOUS
  <2>1. acct.alloc \in [Sleeves -> Nat] /\ acct.manual \in Nat
    BY DEF AccountInv, Account
  <2>2. SumFunction(acct.alloc) = Total(acct.alloc, Sleeves)
    BY <2>1, NamesAssumption, SumFunctionTotal
  <2>3. Total(acct.alloc, Sleeves) \in Nat
    BY <2>1, NamesAssumption, LayersFinite
  <2> QED
    BY <2>1, <2>2, <2>3 DEF AccountInv, Balanced, SleevesBacked
<1> QED
  BY <1>1, AccountsAgree, PTL

(* Until waiting orders are cancelled or executed, the cash they reserve   *)
(* stays in the manual part of the account and the shares they reserve     *)
(* stay outside of the sleeves, also when the account is rebalanced.       *)
THEOREM ReservationsHold == Regular /\ Spec => []ReservationsCovered
<1>1. AccountInv => ReservationsCovered
  <2> SUFFICES ASSUME AccountInv PROVE ReservationsCovered
    OBVIOUS
  <2>1. /\ reserved_cash(acct, "none") = Total(CashOf, ToSet(acct.pending))
        /\ \A y : reserved_quantity(acct, y, "none")
                    = Total(SharesOf, On(y, ToSet(acct.pending)))
    BY AllReserved DEF AccountInv
  <2> QED
    BY <2>1 DEF AccountInv, Covers, Unsleeved, ReservationsCovered
<1> QED
  BY <1>1, AccountsAgree, PTL

(* process_pending_orders fills the first order it executes in full, but   *)
(* for a sell order of a symbol that a rebalance has bought too (Shared).  *)
THEOREM FirstOrderFills == Regular /\ Spec => []FirstInLineFills
<1>1. AccountInv => FirstInLineFills
  BY DEF AccountInv, FirstInLineFills
<1> QED
  BY <1>1, AccountsAgree, PTL

=============================================================================
