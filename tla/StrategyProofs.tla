--------------------------- MODULE StrategyProofs ---------------------------
(***************************************************************************)
(* Theorems about Strategy, for any quotes, point values, widths of the    *)
(* numbers and limit of the position.                                      *)
(*                                                                         *)
(* The accumulated totals may have wrapped around any number of times; the *)
(* invariant says that their difference is what the trades brought in but  *)
(* for a multiple of the modulus (Congruent), and that pnl_ is what  *)
(* calculate_pnl makes of the members and the quote (ProfitCurrent).  That *)
(* the result is exact follows once it fits.                               *)
(***************************************************************************)
EXTENDS Strategy, SequenceTheorems, WellFoundedInduction, TLAPS

-----------------------------------------------------------------------------
(* Induction, and the running total of the trades. *)

\* Induction over the numbers, as a fact about sets.
LEMMA NatIsReached ==
  ASSUME NEW P \in SUBSET Nat, 0 \in P, \A n \in P : n + 1 \in P
  PROVE  P = Nat
<1> DEFINE S == Nat \ P
<1>1. SUFFICES ASSUME S # {} PROVE FALSE
  OBVIOUS
<1>2. PICK m \in S : \A e \in S : ~(<<e, m>> \in OpToRel(<, Nat))
  BY <1>1, NatLessThanWellFounded, WFMin, Zenon
<1>3. \A x \in S : ~(x < m)
  BY <1>2 DEF OpToRel
<1>4. m # 0 /\ m \in Nat
  OBVIOUS
<1>5. m - 1 \in P
  BY <1>3, <1>4
<1>6. (m - 1) + 1 = m
  BY <1>4
<1> QED BY <1>5, <1>6

TradesMade == [is_buy : BOOLEAN, price : Nat]

\* c is the cash after each trade behind the first from ones.
IsCash(trades, from, c) ==
  c = [k \in from..Len(trades) |->
         IF k = from THEN 0 ELSE c[k - 1] + Brought(trades[k])]

\* What a trade brings in is a number.
LEMMA BroughtFacts == \A t \in TradesMade : Brought(t) \in Int
BY DEF TradesMade, Brought

\* The cash after each trade is well defined.
LEMMA CashExists ==
  ASSUME NEW trades \in Seq(TradesMade), NEW from \in 0..Len(trades)
  PROVE  \E c : IsCash(trades, from, c) /\ c \in [from..Len(trades) -> Int]
<1> DEFINE B(k) == Brought(trades[k])
           Upto(n, c) == /\ c \in [from..(from + n) -> Int] /\ c[from] = 0
                         /\ \A k \in (from + 1)..(from + n) : c[k] = c[k - 1] + B(k)
           P == {n \in Nat : from + n <= Len(trades) => \E c : Upto(n, c)}
<1>1. Len(trades) \in Nat /\ from \in Nat /\ from <= Len(trades)
  OBVIOUS
<1>2. \A k \in 1..Len(trades) : B(k) \in Int
  BY BroughtFacts
<1> HIDE DEF B
<1>3. 0 \in P
  <2>1. Upto(0, [k \in from..(from + 0) |-> 0])
    BY <1>1
  <2> HIDE DEF Upto
  <2> QED BY <2>1
<1>4. ASSUME NEW n \in Nat, from + (n + 1) <= Len(trades), NEW c, Upto(n, c)
      PROVE  \E d : Upto(n + 1, d)
  <2> DEFINE m == from + n
             d == [k \in from..(m + 1) |-> IF k = m + 1 THEN c[m] + B(k) ELSE c[k]]
  <2>1. /\ m \in Nat /\ from <= m /\ m + 1 = from + (n + 1) /\ B(m + 1) \in Int
        /\ \A k \in from..(m + 1) : k # m + 1 => k \in from..m
    BY <1>1, <1>2, <1>4
  <2>2. /\ c \in [from..m -> Int] /\ c[from] = 0
        /\ \A k \in (from + 1)..m : c[k] = c[k - 1] + B(k)
    BY <1>4
  <2> HIDE DEF m
  <2>3. /\ c[m] \in Int /\ d[m + 1] = c[m] + B(m + 1)
        /\ \A k \in from..m : d[k] = c[k] /\ d[k] \in Int
    BY <1>1, <2>1, <2>2
  <2>4. d \in [from..(m + 1) -> Int]
    <3>2. d = [k \in from..(m + 1) |-> d[k]]
      OBVIOUS
    <3> HIDE DEF d
    <3>1. \A k \in from..(m + 1) : d[k] \in Int
      BY <2>1, <2>3
    <3> QED BY <3>1, <3>2
  <2> HIDE DEF d
  <2>5. \A k \in (from + 1)..(m + 1) : d[k] = d[k - 1] + B(k)
    <3>1. SUFFICES ASSUME NEW k \in (from + 1)..(m + 1) PROVE d[k] = d[k - 1] + B(k)
      OBVIOUS
    <3>2. CASE k = m + 1
      BY <1>1, <2>1, <2>3, <3>2
    <3>3. CASE k # m + 1
      <4>1. k \in (from + 1)..m /\ k \in from..m /\ k - 1 \in from..m
        BY <1>1, <2>1, <3>3
      <4> QED BY <2>2, <2>3, <4>1
    <3> QED BY <3>2, <3>3
  <2>6. d[from] = 0
    BY <1>1, <2>1, <2>2, <2>3
  <2>7. Upto(n + 1, d)
    BY <2>1, <2>4, <2>5, <2>6
  <2> HIDE DEF Upto
  <2> QED BY <2>7
<1>5. P = Nat
  <2>1. ASSUME NEW n \in P PROVE n + 1 \in P
    <3>1. n \in Nat /\ (from + (n + 1) <= Len(trades) => from + n <= Len(trades))
      BY <1>1
    <3>2. from + (n + 1) <= Len(trades) => \E c : Upto(n, c)
      BY <3>1
    <3> HIDE DEF Upto
    <3>3. from + (n + 1) <= Len(trades) => \E d : Upto(n + 1, d)
      BY <1>4, <3>1, <3>2
    <3> QED BY <3>1, <3>3
  <2> HIDE DEF P
  <2>2. P \subseteq Nat
    BY DEF P
  <2> QED BY <1>3, <2>1, <2>2, NatIsReached
<1>6. Len(trades) - from \in Nat /\ from + (Len(trades) - from) = Len(trades)
  BY <1>1
<1>7. PICK c : Upto(Len(trades) - from, c)
  <2> HIDE DEF P, Upto
  <2>1. Len(trades) - from \in P
    BY <1>5, <1>6
  <2>2. \E c : Upto(Len(trades) - from, c)
    BY <1>6, <2>1 DEF P
  <2> QED BY <2>2
<1>8. /\ c \in [from..Len(trades) -> Int] /\ c[from] = 0
      /\ \A k \in (from + 1)..Len(trades) : c[k] = c[k - 1] + B(k)
  BY <1>1, <1>6, <1>7
<1>9. c = [k \in from..Len(trades) |-> IF k = from THEN 0 ELSE c[k - 1] + B(k)]
  <2>1. c = [k \in from..Len(trades) |-> c[k]]
    BY <1>8
  <2>2. \A k \in from..Len(trades) : c[k] = IF k = from THEN 0 ELSE c[k - 1] + B(k)
    BY <1>1, <1>8
  <2> QED BY <2>1, <2>2
<1> QED BY <1>8, <1>9 DEF IsCash, B

\* c is the cash after each trade behind the first from ones, up to the top-th.
AddsUp(trades, from, top, c) ==
  c[from] = 0 /\ \A k \in (from + 1)..top : c[k] = c[k - 1] + Brought(trades[k])

\* The trades leave no choice.
LEMMA CashAgrees ==
  ASSUME NEW trades, NEW from, NEW top \in Nat, from \in 0..top, NEW c, NEW d,
         AddsUp(trades, from, top, c), AddsUp(trades, from, top, d)
  PROVE  c[top] = d[top]
<1> DEFINE P == {n \in Nat : from + n <= top => c[from + n] = d[from + n]}
<1>1. 0 \in P
  BY DEF AddsUp
<1>2. ASSUME NEW n \in P PROVE n + 1 \in P
  <2>1. SUFFICES ASSUME from + (n + 1) <= top PROVE c[from + (n + 1)] = d[from + (n + 1)]
    OBVIOUS
  <2> DEFINE k == from + (n + 1)
  <2>2. k \in (from + 1)..top /\ k - 1 = from + n /\ from + n <= top
    BY <2>1
  <2>3. c[k - 1] = d[k - 1]
    BY <2>2
  <2>4. c[k] = c[k - 1] + Brought(trades[k]) /\ d[k] = d[k - 1] + Brought(trades[k])
    BY <2>2 DEF AddsUp
  <2> HIDE DEF k
  <2>5. c[k] = d[k]
    BY Zenon, <2>3, <2>4
  <2> QED BY <2>5 DEF k
<1>3. P = Nat
  <2> HIDE DEF P
  <2>1. P \subseteq Nat
    BY DEF P
  <2> QED BY <1>1, <1>2, <2>1, NatIsReached
<1>4. top - from \in P /\ from + (top - from) = top
  <2> HIDE DEF P
  <2> QED BY <1>3
<1> QED BY <1>4

\* Cash is the last of the running totals.
LEMMA CashIsLast ==
  ASSUME NEW trades \in Seq(TradesMade), NEW from \in 0..Len(trades)
  PROVE  /\ Cash(trades, from) \in Int
         /\ \E c : /\ IsCash(trades, from, c) /\ c \in [from..Len(trades) -> Int]
                   /\ Cash(trades, from) = c[Len(trades)]
<1> DEFINE c == CHOOSE c : IsCash(trades, from, c)
<1>1. Cash(trades, from) = c[Len(trades)]
  BY DEF Cash, IsCash
<1>2. PICK d : IsCash(trades, from, d) /\ d \in [from..Len(trades) -> Int]
  BY CashExists
<1>3. IsCash(trades, from, c)
  BY Zenon, <1>2
<1> HIDE DEF c
<1>4. c[Len(trades)] = d[Len(trades)]
  <2>1. AddsUp(trades, from, Len(trades), c) /\ AddsUp(trades, from, Len(trades), d)
    <3>1. \A k \in from..Len(trades) :
            /\ c[k] = IF k = from THEN 0 ELSE c[k - 1] + Brought(trades[k])
            /\ d[k] = IF k = from THEN 0 ELSE d[k - 1] + Brought(trades[k])
      BY Zenon, <1>2, <1>3 DEF IsCash
    <3> QED BY <3>1 DEF AddsUp
  <2> QED BY <2>1, CashAgrees
<1>5. d[Len(trades)] \in Int
  BY <1>2
<1> QED BY <1>1, <1>2, <1>4, <1>5

\* No trade, no cash; one more trade adds what it brings in.
LEMMA CashFacts ==
  ASSUME NEW trades \in Seq(TradesMade)
  PROVE  /\ Cash(trades, Len(trades)) = 0
         /\ \A from \in 0..Len(trades), t \in TradesMade :
              /\ Cash(trades, from) \in Int
              /\ Cash(Append(trades, t), from) = Cash(trades, from) + Brought(t)
<1>1. Cash(trades, Len(trades)) = 0
  <2>1. Len(trades) \in 0..Len(trades)
    OBVIOUS
  <2>2. PICK c : IsCash(trades, Len(trades), c) /\ Cash(trades, Len(trades)) = c[Len(trades)]
    BY <2>1, CashIsLast
  <2> QED BY <2>1, <2>2 DEF IsCash
<1>2. ASSUME NEW from \in 0..Len(trades), NEW t \in TradesMade
      PROVE  /\ Cash(trades, from) \in Int
             /\ Cash(Append(trades, t), from) = Cash(trades, from) + Brought(t)
  <2> DEFINE more == Append(trades, t)
             n == Len(trades)
  <2>1. /\ more \in Seq(TradesMade) /\ Len(more) = n + 1 /\ n \in Nat
        /\ \A k \in 1..n : more[k] = trades[k]
        /\ more[n + 1] = t
    BY AppendProperties
  <2> HIDE DEF more
  <2>2. PICK c : IsCash(trades, from, c) /\ Cash(trades, from) = c[n]
    BY CashIsLast
  <2>3. PICK d : IsCash(more, from, d) /\ Cash(more, from) = d[n + 1]
    <3>1. from \in 0..Len(more)
      BY <2>1
    <3> QED BY <2>1, <3>1, CashIsLast
  <2>4. /\ \A k \in from..n : c[k] = IF k = from THEN 0 ELSE c[k - 1] + Brought(trades[k])
        /\ \A k \in from..(n + 1) : d[k] = IF k = from THEN 0 ELSE d[k - 1] + Brought(more[k])
    BY Zenon, <2>1, <2>2, <2>3 DEF IsCash
  <2>5. c[n] = d[n] /\ d[n + 1] = d[n] + Brought(t)
    <3>1. from \in Nat /\ n \in Nat /\ from \in 0..n
      BY <2>1
    <3> HIDE DEF n
    <3>2. /\ from \in from..n /\ from \in from..(n + 1)
          /\ \A k \in (from + 1)..n : k \in from..n /\ k \in from..(n + 1) /\ k # from /\ k \in 1..n
          /\ n + 1 \in from..(n + 1) /\ n + 1 # from /\ (n + 1) - 1 = n
      BY <3>1
    <3>3. c[from] = 0 /\ d[from] = 0
      BY Zenon, <2>4, <3>2
    <3>4. \A k \in (from + 1)..n : /\ c[k] = c[k - 1] + Brought(trades[k])
                                   /\ d[k] = d[k - 1] + Brought(trades[k])
      BY Zenon, <2>1, <2>4, <3>2
    <3>5. c[n] = d[n]
      <4>1. AddsUp(trades, from, n, c) /\ AddsUp(trades, from, n, d)
        BY Zenon, <3>3, <3>4 DEF AddsUp
      <4> QED BY <3>1, <4>1, CashAgrees
    <3>6. d[n + 1] = d[n] + Brought(t)
      BY <2>1, <2>4, <3>2
    <3> QED BY <3>5, <3>6
  <2>6. Cash(trades, from) \in Int
    BY CashIsLast
  <2> QED BY <2>2, <2>3, <2>5, <2>6 DEF more
<1> QED BY <1>1, <1>2
-----------------------------------------------------------------------------
(* Numbers that wrap around. *)

LEMMA ModulusFacts ==
  /\ Int32Max \in Nat /\ Modulus \in Int /\ Modulus > 0 /\ Modulus = 2 * (Int32Max + 1)
  /\ \A x : x \in Int32 <=> x \in Int /\ -(Int32Max + 1) <= x /\ x <= Int32Max
BY StrategyAssumption DEF Modulus, Int32

\* Two numbers below m that differ by a multiple of m are one.
LEMMA SameResidue ==
  ASSUME NEW m \in Int, m > 0, NEW x \in 0..(m - 1), NEW y \in 0..(m - 1),
         NEW j \in Int, x = y + m * j
  PROVE  x = y
<1>1. CASE j > 0
  <2>1. m * j >= m
    BY <1>1
  <2> QED BY <2>1
<1>2. CASE j < 0
  <2>1. m * j <= -m
    BY <1>2
  <2> QED BY <2>1
<1>3. CASE j = 0
  BY <1>3
<1> QED BY <1>1, <1>2, <1>3

\* Wrap takes a number to the one of int32_t that differs by a multiple of the
\* modulus, and there is no other.
LEMMA WrapFacts ==
  ASSUME NEW x \in Int
  PROVE  /\ Wrap(x) \in Int32
         /\ \E j \in Int : Wrap(x) = x + Modulus * j
         /\ \A y \in Int32, j \in Int : x = y + Modulus * j => Wrap(x) = y
<1> DEFINE m == Modulus
           h == Int32Max + 1
           q == (x + h) \div m
           r == (x + h) % m
<1>1. m \in Int /\ m > 0 /\ h \in Int /\ m = 2 * h /\ x + h \in Int
  BY ModulusFacts
<1>2. Wrap(x) = r - h
  BY ModulusFacts DEF Wrap
<1>3. q \in Int /\ r \in 0..(m - 1) /\ x + h = m * q + r
  <2> HIDE DEF m, h
  <2>1. \A z \in Int : z \div m \in Int /\ z % m \in 0..(m - 1) /\ z = m * (z \div m) + (z % m)
    BY <1>1
  <2> QED BY <1>1, <2>1
<1>4. \A y : y \in Int32 <=> y \in Int /\ -h <= y /\ y <= h - 1
  BY ModulusFacts
<1> HIDE DEF m, h, q, r
<1>5. Wrap(x) \in Int32
  BY <1>1, <1>2, <1>3, <1>4
<1>6. -q \in Int /\ Wrap(x) = x + m * (-q)
  BY <1>1, <1>2, <1>3
<1>7. ASSUME NEW y \in Int32, NEW j \in Int, x = y + m * j PROVE Wrap(x) = y
  <2>1. y + h \in 0..(m - 1) /\ y \in Int
    BY <1>1, <1>4
  <2>2. y + h = r + m * (q - j) /\ q - j \in Int
    BY <1>1, <1>3, <1>7, <2>1
  <2>3. y + h = r
    BY <1>1, <1>3, <2>1, <2>2, SameResidue
  <2> QED BY <1>1, <1>2, <1>3, <2>1, <2>3
<1> QED BY <1>5, <1>6, <1>7 DEF m

\* Conversions.
LEMMA ConversionFacts ==
  /\ \A x : ToInt32(x) \in Int32 /\ (x \in Int32 => ToInt32(x) = x)
  /\ \A x \in -FloatMax..FloatMax : AsFloat(x) = x
<1>1. ASSUME NEW x PROVE ToInt32(x) \in Int32 /\ (x \in Int32 => ToInt32(x) = x)
  BY ModulusFacts DEF ToInt32
<1>2. ASSUME NEW x \in -FloatMax..FloatMax PROVE AsFloat(x) = x
  <2>1. x \in Int /\ FloatMax \in Nat /\ (IF x < 0 THEN -x ELSE x) <= FloatMax
    BY StrategyAssumption
  <2> QED BY Zenon, <2>1 DEF AsFloat
<1> QED BY <1>1, <1>2
-----------------------------------------------------------------------------
(* What the methods do to the members. *)

Kinds == {"imbalance", "linear"}

Members ==
  [kind : Kinds, POINT_VALUE : PointValues \cup Garbage, trade_queue : Seq(TradesMade),
   position : Int, buy_qty : Nat, sell_qty : Nat,
   real_total_buy_px : Int32, real_total_sell_px : Int32,
   theo_total_buy_px : Int, theo_total_sell_px : Int, fees : Nat, pnl : Int32]

\* The open position at a quote, and the profit as calculate_pnl works it out.
Worth(s, q) == IF s.position > 0 THEN q.bid * s.position ELSE q.ask * s.position
Gross(s, q) ==
  s.POINT_VALUE * (s.real_total_sell_px - s.real_total_buy_px + Worth(s, q))
Profit(s, q) ==
  ToInt32(IF s.kind = "imbalance" THEN AsFloat(AsFloat(Wrap(Gross(s, q))) - s.fees)
                                  ELSE Wrap(Gross(s, q)) - s.fees)

LEMMA MemberTypes ==
  ASSUME NEW s \in Members
  PROVE  /\ s.kind \in Kinds /\ s.POINT_VALUE \in PointValues \cup Garbage /\ s.POINT_VALUE \in Int
         /\ s.trade_queue \in Seq(TradesMade) /\ Len(s.trade_queue) \in Nat
         /\ s.position \in Int /\ s.buy_qty \in Nat /\ s.sell_qty \in Nat
         /\ s.real_total_buy_px \in Int32 /\ s.real_total_sell_px \in Int32
         /\ s.real_total_buy_px \in Int /\ s.real_total_sell_px \in Int
         /\ s.fees \in Nat /\ s.pnl \in Int32
<1>1. s.POINT_VALUE \in PointValues \cup Garbage /\ PointValues \subseteq Int /\ Garbage \subseteq Int
  BY StrategyAssumption DEF Members
<1>2. s.real_total_buy_px \in Int32 /\ s.real_total_sell_px \in Int32 /\ Int32 \subseteq Int
  BY ModulusFacts DEF Members
<1>3. s.trade_queue \in Seq(TradesMade) /\ Len(s.trade_queue) \in Nat
  BY DEF Members
<1> QED BY <1>1, <1>2, <1>3 DEF Members

LEMMA QuoteTypes ==
  ASSUME NEW q \in Quotes
  PROVE  q.bid \in Nat /\ q.ask \in Nat
<1>1. q.bid \in Bids /\ q.ask \in Asks
  BY DEF Quotes
<1>2. Bids \subseteq Nat /\ Asks \subseteq Nat
  BY Zenon, StrategyAssumption
<1> QED BY <1>1, <1>2

\* Theoretical values and profit follow from the rest, which stays.
LEMMA ValuedFacts ==
  ASSUME NEW s \in Members, NEW q \in Quotes,
         NEW u, u = calculate_pnl(update_theo_values(s, q))
  PROVE  /\ u \in Members
         /\ u.kind = s.kind /\ u.POINT_VALUE = s.POINT_VALUE /\ u.trade_queue = s.trade_queue
         /\ u.position = s.position /\ u.buy_qty = s.buy_qty /\ u.sell_qty = s.sell_qty
         /\ u.real_total_buy_px = s.real_total_buy_px
         /\ u.real_total_sell_px = s.real_total_sell_px
         /\ u.fees = s.fees
         /\ u.pnl = Profit(s, q) /\ u.pnl = Profit(u, q)
<1> DEFINE v == update_theo_values(s, q)
           sold == IF s.position > 0 THEN q.bid * s.position ELSE 0
           bought == IF s.position < 0 THEN q.ask * (-s.position) ELSE 0
<1>1. q.bid \in Int /\ q.ask \in Int
  BY QuoteTypes
<1>2. s.position \in Int
  BY MemberTypes
<1>3. sold \in Int /\ bought \in Int /\ sold - bought = Worth(s, q)
  BY <1>1, <1>2 DEF Worth
<1>4. v = [s EXCEPT !.theo_total_sell_px = sold, !.theo_total_buy_px = bought]
  BY DEF update_theo_values
<1> HIDE DEF sold, bought
<1>5. /\ v \in Members
      /\ v.kind = s.kind /\ v.POINT_VALUE = s.POINT_VALUE /\ v.trade_queue = s.trade_queue
      /\ v.position = s.position /\ v.buy_qty = s.buy_qty /\ v.sell_qty = s.sell_qty
      /\ v.real_total_buy_px = s.real_total_buy_px
      /\ v.real_total_sell_px = s.real_total_sell_px
      /\ v.fees = s.fees
      /\ v.theo_total_sell_px = sold /\ v.theo_total_buy_px = bought
  BY <1>3, <1>4 DEF Members
<1> HIDE DEF v
<1>6. v.real_total_sell_px + v.theo_total_sell_px - v.real_total_buy_px - v.theo_total_buy_px
        = s.real_total_sell_px - s.real_total_buy_px + Worth(s, q)
  BY <1>3, <1>5, MemberTypes
<1>7. u = [v EXCEPT !.pnl = Profit(s, q)]
  <2>1. u = calculate_pnl(v)
    BY DEF v
  <2>2. v.POINT_VALUE * (v.real_total_sell_px + v.theo_total_sell_px
                         - v.real_total_buy_px - v.theo_total_buy_px) = Gross(s, q)
    BY Zenon, <1>5, <1>6 DEF Gross
  <2> DEFINE g == Wrap(v.POINT_VALUE * (v.real_total_sell_px + v.theo_total_sell_px
                                        - v.real_total_buy_px - v.theo_total_buy_px))
  <2>3. u = [v EXCEPT !.pnl = ToInt32(IF v.kind = "imbalance" THEN AsFloat(AsFloat(g) - v.fees)
                                                              ELSE g - v.fees)]
    BY Zenon, <2>1 DEF calculate_pnl
  <2>4. g = Wrap(Gross(s, q))
    BY Zenon, <2>2
  <2> HIDE DEF g
  <2> QED BY Zenon, <1>5, <2>3, <2>4 DEF Profit
<1>8. Profit(s, q) \in Int32
  BY Zenon, ConversionFacts DEF Profit
<1>9. /\ u \in Members
      /\ u.kind = s.kind /\ u.POINT_VALUE = s.POINT_VALUE /\ u.trade_queue = s.trade_queue
      /\ u.position = s.position /\ u.buy_qty = s.buy_qty /\ u.sell_qty = s.sell_qty
      /\ u.real_total_buy_px = s.real_total_buy_px
      /\ u.real_total_sell_px = s.real_total_sell_px
      /\ u.fees = s.fees /\ u.pnl = Profit(s, q)
  BY <1>5, <1>7, <1>8 DEF Members
<1>10. Profit(u, q) = Profit(s, q)
  BY Zenon, <1>9 DEF Profit, Gross, Worth
<1> QED BY <1>9, <1>10

LEMMA Settled ==
  \A m, r, b, p, i \in Int :
    /\ -i \in Int /\ r - (b + p + m * i) = r - b + (-p) + m * (-i)
    /\ r + p + m * i - b = r - b + p + m * i
OBVIOUS

Bought(s, price) == execute_trade(s, TRUE, price)
Sold(s, price)   == execute_trade(s, FALSE, price)

\* t is s after a trade that moved the position by step.
Traded(s, t, trade, step) ==
  /\ t \in Members /\ t.kind = s.kind
  /\ t.trade_queue = Append(s.trade_queue, trade) /\ t.fees = s.fees + 1
  /\ t.position = s.position + step
  /\ \/ step = 1 /\ t.buy_qty = s.buy_qty + 1 /\ t.sell_qty = s.sell_qty
     \/ step = -1 /\ t.sell_qty = s.sell_qty + 1 /\ t.buy_qty = s.buy_qty
  /\ \E j \in Int : t.real_total_sell_px - t.real_total_buy_px
       = s.real_total_sell_px - s.real_total_buy_px + Brought(trade) + Modulus * j

\* A trade costs a fee, is counted and remembered, and moves the position by one; a
\* purchase is paid for.
LEMMA BuyFacts ==
  ASSUME NEW s \in Members, NEW price \in Nat, NEW t, t = Bought(s, price)
  PROVE  \E trade \in TradesMade : Traded(s, t, trade, 1)
<1>0. PICK trade : trade = [is_buy |-> TRUE, price |-> price]
  OBVIOUS
<1> DEFINE w == Wrap(s.real_total_buy_px + price)
<1>1. trade \in TradesMade /\ Brought(trade) = -price /\ Append(s.trade_queue, trade) \in Seq(TradesMade)
  <2>1. trade \in TradesMade /\ Brought(trade) = -price
    BY <1>0 DEF TradesMade, Brought
  <2> HIDE DEF TradesMade
  <2> QED BY <2>1, MemberTypes, AppendProperties
<1>2. w \in Int32 /\ w \in Int /\ \E j \in Int : w = s.real_total_buy_px + price + Modulus * j
  <2>1. s.real_total_buy_px + price \in Int
    BY MemberTypes
  <2> QED BY <2>1, WrapFacts, ModulusFacts
<1>3. t = [s EXCEPT !.trade_queue = Append(s.trade_queue, trade), !.fees = s.fees + 1,
                    !.position = s.position + 1, !.buy_qty = s.buy_qty + 1,
                    !.real_total_buy_px = w]
  <2> DEFINE v == [s EXCEPT !.trade_queue = Append(s.trade_queue, trade), !.fees = s.fees + 1]
  <2>1. /\ v.position = s.position /\ v.buy_qty = s.buy_qty
        /\ v.real_total_buy_px = s.real_total_buy_px
    BY DEF Members
  <2>2. t = [v EXCEPT !.position = v.position + 1, !.buy_qty = v.buy_qty + 1,
                      !.real_total_buy_px = Wrap(v.real_total_buy_px + price)]
    BY Zenon, <1>0 DEF Bought, execute_trade, FEES_PER_SIDE
  <2>3. t = [v EXCEPT !.position = s.position + 1, !.buy_qty = s.buy_qty + 1,
                      !.real_total_buy_px = w]
    BY Zenon, <2>1, <2>2
  <2> QED BY <2>3
<1> HIDE DEF w
<1>4. /\ t \in Members /\ t.kind = s.kind /\ t.POINT_VALUE = s.POINT_VALUE
      /\ t.trade_queue = Append(s.trade_queue, trade) /\ t.fees = s.fees + 1
      /\ t.position = s.position + 1 /\ t.buy_qty = s.buy_qty + 1 /\ t.sell_qty = s.sell_qty
      /\ t.real_total_buy_px = w /\ t.real_total_sell_px = s.real_total_sell_px
  <2> DEFINE tq == Append(s.trade_queue, trade)
  <2>1. tq \in Seq(TradesMade)
    BY <1>1
  <2>2. /\ s.fees + 1 \in Nat /\ s.position + 1 \in Int /\ s.buy_qty + 1 \in Nat
    BY MemberTypes
  <2>3. t = [s EXCEPT !.trade_queue = tq, !.fees = s.fees + 1,
                      !.position = s.position + 1, !.buy_qty = s.buy_qty + 1, !.real_total_buy_px = w]
    BY <1>3
  <2> HIDE DEF tq
  <2>4. /\ t \in Members /\ t.kind = s.kind /\ t.POINT_VALUE = s.POINT_VALUE
        /\ t.trade_queue = tq /\ t.fees = s.fees + 1
        /\ t.position = s.position + 1 /\ t.buy_qty = s.buy_qty + 1 /\ t.sell_qty = s.sell_qty
        /\ t.real_total_buy_px = w /\ t.real_total_sell_px = s.real_total_sell_px
    BY <1>2, <2>1, <2>2, <2>3 DEF Members
  <2> QED BY <2>4 DEF tq
<1>5. PICK i \in Int : w = s.real_total_buy_px + price + Modulus * i
  BY <1>2
<1>6. -i \in Int /\ t.real_total_sell_px - t.real_total_buy_px
        = s.real_total_sell_px - s.real_total_buy_px + Brought(trade) + Modulus * (-i)
  <2>1. price \in Int /\ Modulus \in Int /\ s.real_total_sell_px \in Int /\ s.real_total_buy_px \in Int /\ w \in Int
    BY <1>2, MemberTypes, ModulusFacts
  <2>2. /\ t.real_total_buy_px = s.real_total_buy_px + price + Modulus * i
        /\ t.real_total_sell_px = s.real_total_sell_px /\ Brought(trade) = -price
    BY Zenon, <1>1, <1>4, <1>5
  <2>3. -i \in Int /\ s.real_total_sell_px - (s.real_total_buy_px + price + Modulus * i)
         = s.real_total_sell_px - s.real_total_buy_px + (-price) + Modulus * (-i)
    BY <2>1, Settled
  <2> QED BY Zenon, <2>2, <2>3
<1>7. t.position = s.position + (1) /\ 1 = 1
  BY <1>4, MemberTypes
<1> QED BY Zenon, <1>1, <1>4, <1>6, <1>7 DEF Traded

\* What a sale brings in is added to what was received.
LEMMA SellFacts ==
  ASSUME NEW s \in Members, NEW price \in Nat, NEW t, t = Sold(s, price)
  PROVE  \E trade \in TradesMade : Traded(s, t, trade, -1)
<1>0. PICK trade : trade = [is_buy |-> FALSE, price |-> price]
  OBVIOUS
<1> DEFINE w == Wrap(s.real_total_sell_px + price)
<1>1. trade \in TradesMade /\ Brought(trade) = price /\ Append(s.trade_queue, trade) \in Seq(TradesMade)
  <2>1. trade \in TradesMade /\ Brought(trade) = price
    BY <1>0 DEF TradesMade, Brought
  <2> HIDE DEF TradesMade
  <2> QED BY <2>1, MemberTypes, AppendProperties
<1>2. w \in Int32 /\ w \in Int /\ \E j \in Int : w = s.real_total_sell_px + price + Modulus * j
  <2>1. s.real_total_sell_px + price \in Int
    BY MemberTypes
  <2> QED BY <2>1, WrapFacts, ModulusFacts
<1>3. t = [s EXCEPT !.trade_queue = Append(s.trade_queue, trade), !.fees = s.fees + 1,
                    !.position = s.position - 1, !.sell_qty = s.sell_qty + 1,
                    !.real_total_sell_px = w]
  <2> DEFINE v == [s EXCEPT !.trade_queue = Append(s.trade_queue, trade), !.fees = s.fees + 1]
  <2>1. /\ v.position = s.position /\ v.sell_qty = s.sell_qty
        /\ v.real_total_sell_px = s.real_total_sell_px
    BY DEF Members
  <2>2. t = [v EXCEPT !.position = v.position - 1, !.sell_qty = v.sell_qty + 1,
                      !.real_total_sell_px = Wrap(v.real_total_sell_px + price)]
    BY Zenon, <1>0 DEF Sold, execute_trade, FEES_PER_SIDE
  <2>3. t = [v EXCEPT !.position = s.position - 1, !.sell_qty = s.sell_qty + 1,
                      !.real_total_sell_px = w]
    BY Zenon, <2>1, <2>2
  <2> QED BY <2>3
<1> HIDE DEF w
<1>4. /\ t \in Members /\ t.kind = s.kind /\ t.POINT_VALUE = s.POINT_VALUE
      /\ t.trade_queue = Append(s.trade_queue, trade) /\ t.fees = s.fees + 1
      /\ t.position = s.position - 1 /\ t.sell_qty = s.sell_qty + 1 /\ t.buy_qty = s.buy_qty
      /\ t.real_total_sell_px = w /\ t.real_total_buy_px = s.real_total_buy_px
  <2> DEFINE tq == Append(s.trade_queue, trade)
  <2>1. tq \in Seq(TradesMade)
    BY <1>1
  <2>2. /\ s.fees + 1 \in Nat /\ s.position - 1 \in Int /\ s.sell_qty + 1 \in Nat
    BY MemberTypes
  <2>3. t = [s EXCEPT !.trade_queue = tq, !.fees = s.fees + 1,
                      !.position = s.position - 1, !.sell_qty = s.sell_qty + 1, !.real_total_sell_px = w]
    BY <1>3
  <2> HIDE DEF tq
  <2>4. /\ t \in Members /\ t.kind = s.kind /\ t.POINT_VALUE = s.POINT_VALUE
        /\ t.trade_queue = tq /\ t.fees = s.fees + 1
        /\ t.position = s.position - 1 /\ t.sell_qty = s.sell_qty + 1 /\ t.buy_qty = s.buy_qty
        /\ t.real_total_sell_px = w /\ t.real_total_buy_px = s.real_total_buy_px
    BY <1>2, <2>1, <2>2, <2>3 DEF Members
  <2> QED BY <2>4 DEF tq
<1>5. PICK i \in Int : w = s.real_total_sell_px + price + Modulus * i
  BY <1>2
<1>6. i \in Int /\ t.real_total_sell_px - t.real_total_buy_px
        = s.real_total_sell_px - s.real_total_buy_px + Brought(trade) + Modulus * i
  <2>1. price \in Int /\ Modulus \in Int /\ s.real_total_sell_px \in Int /\ s.real_total_buy_px \in Int /\ w \in Int
    BY <1>2, MemberTypes, ModulusFacts
  <2> DEFINE x == s.real_total_sell_px + price + Modulus * i
  <2>2. /\ t.real_total_sell_px = x
        /\ t.real_total_buy_px = s.real_total_buy_px /\ Brought(trade) = price
    BY Zenon, <1>1, <1>4, <1>5
  <2>3. i \in Int /\ x - s.real_total_buy_px
         = s.real_total_sell_px - s.real_total_buy_px + price + Modulus * i
    BY <2>1, Settled
  <2> HIDE DEF x
  <2> QED BY Zenon, <2>2, <2>3
<1>7. t.position = s.position + (-1) /\ -1 = -1
  BY <1>4, MemberTypes
<1> QED BY Zenon, <1>1, <1>4, <1>6, <1>7 DEF Traded
-----------------------------------------------------------------------------
(* The invariant. *)

\* Trades, fees and position tell the same number of trades since the last reset.
Counted(s, from) ==
  /\ s.buy_qty + s.sell_qty = Len(s.trade_queue) - from
  /\ s.position = s.buy_qty - s.sell_qty
  /\ s.fees = Len(s.trade_queue) - from

\* However often the totals wrapped around, their difference is off by a multiple
\* of the modulus.
Congruent(s, from) ==
  \E j \in Int : s.real_total_sell_px - s.real_total_buy_px
                   = Cash(s.trade_queue, from) + Modulus * j

Sound(s, from) ==
  /\ s \in Members /\ from \in 0..Len(s.trade_queue)
  /\ Counted(s, from) /\ Congruent(s, from)

\* The last row is the last trade's, or a later one.
Logged ==
  TradeCount > 0 =>
    row.position = strat.position /\ row.trade_count = strat.buy_qty + strat.sell_qty

\* The row that close_positions ended with is the last one.
ClosedRow ==
  pc = "closed" => strat.position = 0 /\ row.position = 0 /\ row.pnl = strat.pnl

ProfitCurrent ==
  ~(pc = "closing" /\ strat.position # 0) => strat.pnl = Profit(strat, quote)

IInv ==
  /\ Sound(strat, base) /\ strat.position \in -max_pos..max_pos
  /\ quote \in Quotes
  /\ samples \in 0..(MAX_LAG + 1) /\ fitted \in BOOLEAN
  /\ pc \in {"idle", "closing", "closed"}
  /\ Logged /\ ClosedRow /\ ProfitCurrent

\* The totals stay congruent to what the trades bring in.
LEMMA CongruentKept ==
  ASSUME NEW s \in Members, NEW from \in 0..Len(s.trade_queue), Congruent(s, from),
         NEW trade \in TradesMade, NEW t \in Members,
         t.trade_queue = Append(s.trade_queue, trade),
         \E j \in Int : t.real_total_sell_px - t.real_total_buy_px
           = s.real_total_sell_px - s.real_total_buy_px + Brought(trade) + Modulus * j
  PROVE  Congruent(t, from)
<1>1. PICK i \in Int : s.real_total_sell_px - s.real_total_buy_px
                         = Cash(s.trade_queue, from) + Modulus * i
  BY DEF Congruent
<1>2. PICK j \in Int : t.real_total_sell_px - t.real_total_buy_px
        = s.real_total_sell_px - s.real_total_buy_px + Brought(trade) + Modulus * j
  OBVIOUS
<1>3. /\ Cash(s.trade_queue, from) \in Int
      /\ Cash(t.trade_queue, from) = Cash(s.trade_queue, from) + Brought(trade)
  BY MemberTypes, CashFacts
<1>4. Brought(trade) \in Int /\ Modulus \in Int
  BY BroughtFacts, ModulusFacts
<1>5. i + j \in Int /\ t.real_total_sell_px - t.real_total_buy_px
        = Cash(t.trade_queue, from) + Modulus * (i + j)
  BY <1>1, <1>2, <1>3, <1>4
<1> QED BY <1>5 DEF Congruent

\* A trade is counted once, whatever its side.
LEMMA CountedKept ==
  ASSUME NEW s \in Members, NEW from \in 0..Len(s.trade_queue), Counted(s, from),
         NEW t, Len(t.trade_queue) = Len(s.trade_queue) + 1, t.fees = s.fees + 1,
         \/ /\ t.position = s.position + 1
            /\ t.buy_qty = s.buy_qty + 1 /\ t.sell_qty = s.sell_qty
         \/ /\ t.position = s.position - 1
            /\ t.sell_qty = s.sell_qty + 1 /\ t.buy_qty = s.buy_qty
  PROVE  Counted(t, from) /\ from \in 0..Len(t.trade_queue) /\ Len(t.trade_queue) > from
<1> DEFINE n == Len(s.trade_queue)
<1>1. n \in Nat /\ from \in Nat /\ from <= n
  BY MemberTypes
<1>2. /\ s.buy_qty + s.sell_qty = n - from /\ s.position = s.buy_qty - s.sell_qty
      /\ s.fees = n - from
  BY DEF Counted
<1>3. s.position \in Int /\ s.buy_qty \in Int /\ s.sell_qty \in Int
  BY MemberTypes
<1>4. Len(t.trade_queue) = n + 1
  OBVIOUS
<1> HIDE DEF n
<1> DEFINE m == Len(t.trade_queue)
<1>5. t.fees = m - from /\ from \in 0..m /\ m > from
  BY <1>1, <1>2, <1>4
<1>6. \A b, e \in Int : /\ (b + 1) - e = (b - e) + 1 /\ b - (e + 1) = (b - e) - 1
                        /\ (b + 1) + e = (b + e) + 1 /\ b + (e + 1) = (b + e) + 1
  OBVIOUS
<1>7. (n - from) + 1 = m - from
  BY <1>1, <1>4
<1> HIDE DEF m
<1> DEFINE b == s.buy_qty
           e == s.sell_qty
<1>8. /\ (b + 1) - e = s.position + 1 /\ b - (e + 1) = s.position - 1
      /\ (b + 1) + e = m - from /\ b + (e + 1) = m - from
  <2>1. b \in Int /\ e \in Int
    BY <1>3
  <2>2. /\ (b + 1) - e = (b - e) + 1 /\ b - (e + 1) = (b - e) - 1
        /\ (b + 1) + e = (b + e) + 1 /\ b + (e + 1) = (b + e) + 1
    BY Zenon, <1>6, <2>1
  <2>3. b + e = n - from /\ s.position = b - e
    BY <1>2
  <2> QED BY Zenon, <1>7, <2>2, <2>3
<1>9. t.buy_qty + t.sell_qty = m - from /\ t.position = t.buy_qty - t.sell_qty
  <2>1. CASE t.position = s.position + 1 /\ t.buy_qty = b + 1 /\ t.sell_qty = e
    BY Zenon, <1>8, <2>1
  <2>2. CASE t.position = s.position - 1 /\ t.buy_qty = b /\ t.sell_qty = e + 1
    BY Zenon, <1>8, <2>2
  <2> QED BY Zenon, <2>1, <2>2
<1> QED BY Zenon, <1>5, <1>9 DEF Counted, m

\* One more trade, counted and paid for, keeps the members sound.
LEMMA TradeSound ==
  ASSUME NEW s, NEW from, Sound(s, from), NEW t, NEW trade \in TradesMade,
         NEW step \in {1, -1}, Traded(s, t, trade, step)
  PROVE  Sound(t, from) /\ Len(t.trade_queue) > from
<1> DEFINE n == Len(s.trade_queue)
<1>1. s \in Members /\ from \in 0..n /\ Counted(s, from) /\ Congruent(s, from)
  BY Zenon DEF Sound
<1>2. Congruent(t, from) /\ t \in Members
  BY Zenon, <1>1, CongruentKept DEF Traded
<1>3. Len(t.trade_queue) = n + 1
  BY <1>1, MemberTypes, AppendProperties DEF Traded
<1>4. Counted(t, from) /\ from \in 0..Len(t.trade_queue) /\ Len(t.trade_queue) > from
  <2>1. /\ t.fees = s.fees + 1
        /\ \/ /\ t.position = s.position + 1
              /\ t.buy_qty = s.buy_qty + 1 /\ t.sell_qty = s.sell_qty
           \/ /\ t.position = s.position - 1
              /\ t.sell_qty = s.sell_qty + 1 /\ t.buy_qty = s.buy_qty
    BY <1>1, MemberTypes DEF Traded
  <2> QED BY Zenon, <1>1, <1>3, <2>1, CountedKept
<1> QED BY Zenon, <1>2, <1>4 DEF Sound

\* A purchase keeps the members sound.
LEMMA BuyKeeps ==
  ASSUME NEW s, NEW from, Sound(s, from), NEW price \in Nat,
         NEW t, t = Bought(s, price)
  PROVE  /\ Sound(t, from) /\ Len(t.trade_queue) > from
         /\ t.position = s.position + 1 /\ t.kind = s.kind
<1>1. s \in Members
  BY Zenon DEF Sound
<1>2. PICK trade \in TradesMade : Traded(s, t, trade, 1)
  BY Zenon, <1>1, BuyFacts
<1>3. Sound(t, from) /\ Len(t.trade_queue) > from
  BY Zenon, <1>2, TradeSound
<1> QED BY <1>1, <1>2, <1>3, MemberTypes DEF Traded

\* So does a sale.
LEMMA SellKeeps ==
  ASSUME NEW s, NEW from, Sound(s, from), NEW price \in Nat,
         NEW t, t = Sold(s, price)
  PROVE  /\ Sound(t, from) /\ Len(t.trade_queue) > from
         /\ t.position = s.position - 1 /\ t.kind = s.kind
<1>1. s \in Members
  BY Zenon DEF Sound
<1>2. PICK trade \in TradesMade : Traded(s, t, trade, -1)
  BY Zenon, <1>1, SellFacts
<1>3. Sound(t, from) /\ Len(t.trade_queue) > from
  BY Zenon, <1>2, TradeSound
<1> QED BY <1>1, <1>2, <1>3, MemberTypes DEF Traded

\* So do new theoretical values and a new profit.
LEMMA ValuedKeeps ==
  ASSUME NEW s, NEW from, Sound(s, from), NEW q \in Quotes,
         NEW u, u = calculate_pnl(update_theo_values(s, q))
  PROVE  /\ Sound(u, from) /\ u.pnl = Profit(u, q)
         /\ u.kind = s.kind /\ u.trade_queue = s.trade_queue /\ u.position = s.position
         /\ u.buy_qty = s.buy_qty /\ u.sell_qty = s.sell_qty
<1>1. s \in Members
  BY DEF Sound
<1>2. /\ u \in Members
      /\ u.kind = s.kind /\ u.trade_queue = s.trade_queue
      /\ u.position = s.position /\ u.buy_qty = s.buy_qty /\ u.sell_qty = s.sell_qty
      /\ u.real_total_buy_px = s.real_total_buy_px
      /\ u.real_total_sell_px = s.real_total_sell_px
      /\ u.fees = s.fees /\ u.pnl = Profit(u, q)
  BY <1>1, ValuedFacts
<1> QED BY Zenon, <1>2 DEF Sound, Counted, Congruent

\* Without a trade and a position there is nothing to account for.
LEMMA ClearedFacts ==
  ASSUME NEW kind \in Kinds, NEW pv \in PointValues \cup Garbage,
         NEW trades \in Seq(TradesMade), NEW q \in Quotes,
         NEW u, u = Cleared(kind, pv, trades)
  PROVE  /\ Sound(u, Len(trades)) /\ u.pnl = Profit(u, q) /\ u.position = 0
         /\ u.trade_queue = trades /\ u.kind = kind
<1>1. Len(trades) \in Nat /\ 0 \in Int32 /\ pv \in Int
  BY StrategyAssumption, ModulusFacts
<1>2. /\ u \in Members /\ u.kind = kind /\ u.POINT_VALUE = pv /\ u.trade_queue = trades
      /\ u.position = 0 /\ u.buy_qty = 0 /\ u.sell_qty = 0 /\ u.fees = 0 /\ u.pnl = 0
      /\ u.real_total_buy_px = 0 /\ u.real_total_sell_px = 0
  BY <1>1 DEF Cleared, Members
<1>3. Counted(u, Len(trades))
  BY <1>1, <1>2 DEF Counted
<1>4. Congruent(u, Len(trades))
  <2>1. Cash(trades, Len(trades)) = 0
    BY CashFacts
  <2>2. 0 \in Int /\ 0 - 0 = 0 + Modulus * 0
    BY ModulusFacts
  <2> QED BY Zenon, <1>2, <2>1, <2>2 DEF Congruent
<1>5. Profit(u, q) = 0
  <2>1. Worth(u, q) = 0
    BY <1>2, QuoteTypes DEF Worth
  <2>2. Gross(u, q) = 0
    BY <1>1, <1>2, <2>1 DEF Gross
  <2>3. Wrap(0) = 0
    <3>1. 0 \in Int /\ 0 = 0 + Modulus * 0
      BY ModulusFacts
    <3> QED BY <1>1, <3>1, WrapFacts
  <2>4. AsFloat(0) = 0 /\ ToInt32(0) = 0
    <3>1. 0 \in -FloatMax..FloatMax
      BY StrategyAssumption
    <3> QED BY <1>1, <3>1, ConversionFacts
  <2>5. 0 - 0 = 0
    OBVIOUS
  <2> QED BY Zenon, <1>2, <2>2, <2>3, <2>4, <2>5 DEF Profit
<1>6. Len(trades) \in 0..Len(trades)
  BY <1>1
<1> QED BY Zenon, <1>2, <1>3, <1>4, <1>5, <1>6 DEF Sound

\* With no position the quote does not matter.
LEMMA FlatProfit ==
  ASSUME NEW s \in Members, s.position = 0, NEW p \in Quotes, NEW q \in Quotes
  PROVE  Profit(s, p) = Profit(s, q)
<1>1. Worth(s, p) = 0 /\ Worth(s, q) = 0
  BY QuoteTypes DEF Worth
<1>2. Gross(s, p) = Gross(s, q)
  BY Zenon, <1>1 DEF Gross
<1> QED BY Zenon, <1>2 DEF Profit
-----------------------------------------------------------------------------
(* The steps. *)

\* A row of the log shows the position and the number of trades.
LEMMA RowFacts ==
  ASSUME NEW s, NEW q
  PROVE  /\ Row(s, q).position = s.position /\ Row(s, q).pnl = s.pnl
         /\ Row(s, q).trade_count = s.buy_qty + s.sell_qty
BY DEF Row

\* The members after a trade, or after none, are valued at the quote: what was
\* logged before that is still what the members say.
LEMMA Valuation ==
  ASSUME NEW traded, Sound(traded, base), NEW q \in Quotes,
         \/ row' = Row(traded, q)
         \/ row' = row /\ traded = strat /\ Logged,
         strat' = calculate_pnl(update_theo_values(traded, q)),
         quote' = q, base' = base
  PROVE  /\ Sound(strat', base') /\ strat'.position = traded.position
         /\ Logged' /\ ProfitCurrent'
<1>1. /\ Sound(strat', base) /\ strat'.pnl = Profit(strat', q)
      /\ strat'.trade_queue = traded.trade_queue /\ strat'.position = traded.position
      /\ strat'.buy_qty = traded.buy_qty /\ strat'.sell_qty = traded.sell_qty
  <2>1. PICK u : u = calculate_pnl(update_theo_values(traded, q))
    OBVIOUS
  <2>2. /\ Sound(u, base) /\ u.pnl = Profit(u, q)
        /\ u.trade_queue = traded.trade_queue /\ u.position = traded.position
        /\ u.buy_qty = traded.buy_qty /\ u.sell_qty = traded.sell_qty
    BY <2>1, ValuedKeeps
  <2>3. strat' = u
    BY Zenon, <2>1
  <2> QED BY Zenon, <2>2, <2>3
<1>2. ProfitCurrent'
  BY Zenon, <1>1 DEF ProfitCurrent
<1>3. CASE row' = Row(traded, q)
  <2>1. row'.position = strat'.position /\ row'.trade_count = strat'.buy_qty + strat'.sell_qty
    BY Zenon, <1>1, <1>3, RowFacts
  <2>2. Logged'
    BY Zenon, <2>1 DEF Logged
  <2> QED BY Zenon, <1>1, <1>2, <2>2
<1>4. CASE row' = row /\ traded = strat /\ Logged
  <2>1. TradeCount' = TradeCount
    BY Zenon, <1>1, <1>4 DEF TradeCount
  <2>2. Logged'
    BY Zenon, <1>1, <1>4, <2>1 DEF Logged
  <2> QED BY Zenon, <1>1, <1>2, <2>2
<1> QED BY Zenon, <1>3, <1>4

\* A position inside its limit that a signal or a closing trade moves stays there.
LEMMA Limits ==
  /\ max_pos \in Nat
  /\ \A p \in -max_pos..max_pos :
       /\ p < max_pos => p + 1 \in -max_pos..max_pos
       /\ p > -max_pos => p - 1 \in -max_pos..max_pos
       /\ p > 0 => p - 1 \in -max_pos..max_pos
       /\ p < 0 => p + 1 \in -max_pos..max_pos
BY StrategyAssumption

\* The parts of the invariant that no trade touches.
Rest ==
  /\ quote \in Quotes
  /\ samples \in 0..(MAX_LAG + 1) /\ fitted \in BOOLEAN
  /\ pc \in {"idle", "closing", "closed"}

\* on_book_update: buys, sells or leaves it, and works out the profit.
LEMMA UpdateKeeps ==
  ASSUME IInv, NEW q \in Quotes, on_book_update(q)
  PROVE  IInv'
<1>1. /\ quote' = q /\ pc' = "idle" /\ base' = base /\ fitted' = fitted
      /\ samples' = IF strat.kind = "linear" /\ samples <= MAX_LAG THEN samples + 1 ELSE samples
  BY DEF on_book_update
<1>2. /\ Sound(strat, base) /\ strat.position \in -max_pos..max_pos /\ Logged
      /\ samples \in 0..(MAX_LAG + 1) /\ fitted \in BOOLEAN
  BY Zenon DEF IInv
<1>3. q.bid \in Nat /\ q.ask \in Nat
  BY QuoteTypes
<1>4. PICK signal \in Signals(strat, q, samples') :
        LET buys   == Buys(strat, q, signal)
            sells  == Sells(strat, q, signal)
            traded == IF buys THEN Bought(strat, q.ask)
                      ELSE IF sells THEN Sold(strat, q.bid) ELSE strat
        IN  /\ row' = IF buys \/ sells THEN Row(traded, q) ELSE row
            /\ strat' = calculate_pnl(update_theo_values(traded, q))
  BY Zenon DEF on_book_update, Bought, Sold
<1> DEFINE buys  == Buys(strat, q, signal)
           sells == Sells(strat, q, signal)
<1>5. /\ buys => strat.position < max_pos
      /\ sells => strat.position > -max_pos
  BY Zenon DEF Buys, Sells
<1> HIDE DEF buys, sells
<1>6. PICK traded :
        /\ Sound(traded, base) /\ traded.position \in -max_pos..max_pos
        /\ row' = Row(traded, q) \/ (row' = row /\ traded = strat)
        /\ strat' = calculate_pnl(update_theo_values(traded, q))
  <2>1. CASE buys
    <3>1. PICK t : t = Bought(strat, q.ask)
      OBVIOUS
    <3>2. Sound(t, base) /\ t.position = strat.position + 1
      BY Zenon, <1>2, <1>3, <3>1, BuyKeeps
    <3>3. t.position \in -max_pos..max_pos
      BY Zenon, <1>2, <1>5, <2>1, <3>2, Limits
    <3>4. row' = Row(t, q) /\ strat' = calculate_pnl(update_theo_values(t, q))
      BY Zenon, <1>4, <2>1, <3>1 DEF buys, sells
    <3> QED BY Zenon, <3>2, <3>3, <3>4
  <2>2. CASE ~buys /\ sells
    <3>1. PICK t : t = Sold(strat, q.bid)
      OBVIOUS
    <3>2. Sound(t, base) /\ t.position = strat.position - 1
      BY Zenon, <1>2, <1>3, <3>1, SellKeeps
    <3>3. t.position \in -max_pos..max_pos
      BY Zenon, <1>2, <1>5, <2>2, <3>2, Limits
    <3>4. row' = Row(t, q) /\ strat' = calculate_pnl(update_theo_values(t, q))
      BY Zenon, <1>4, <2>2, <3>1 DEF buys, sells
    <3> QED BY Zenon, <3>2, <3>3, <3>4
  <2>3. CASE ~buys /\ ~sells
    <3>1. row' = row /\ strat' = calculate_pnl(update_theo_values(strat, q))
      BY Zenon, <1>4, <2>3 DEF buys, sells
    <3> QED BY Zenon, <1>2, <3>1
  <2> QED BY Zenon, <2>1, <2>2, <2>3
<1>7. /\ Sound(strat', base') /\ strat'.position = traded.position
      /\ Logged' /\ ProfitCurrent'
  BY Zenon, <1>1, <1>2, <1>6, Valuation
<1>8. Rest'
  <2>1. samples' \in 0..(MAX_LAG + 1)
    BY <1>1, <1>2, StrategyAssumption
  <2> QED BY <1>1, <1>2, <2>1 DEF Rest
<1>9. ClosedRow'
  BY <1>1 DEF ClosedRow
<1> QED BY Zenon, <1>6, <1>7, <1>8, <1>9 DEF IInv, Rest

\* One trade of close_positions.
LEMMA CloseTradeKeeps ==
  ASSUME IInv, pc = "closing", CloseLong \/ CloseShort
  PROVE  IInv'
<1>1. /\ Sound(strat, base) /\ strat.position \in -max_pos..max_pos /\ quote \in Quotes
      /\ samples \in 0..(MAX_LAG + 1) /\ fitted \in BOOLEAN
  BY Zenon DEF IInv
<1>2. quote.bid \in Nat /\ quote.ask \in Nat
  BY <1>1, QuoteTypes
<1>3. /\ quote' = quote /\ samples' = samples /\ fitted' = fitted /\ base' = base /\ pc' = pc
  BY DEF CloseLong, CloseShort, CloseTrade
<1>4. PICK traded :
        /\ Sound(traded, base) /\ traded.position \in -max_pos..max_pos
        /\ row' = Row(traded, quote)
        /\ strat' = calculate_pnl(update_theo_values(traded, quote))
  <2>1. CASE CloseLong
    <3>1. PICK t : t = Sold(strat, quote.bid)
      OBVIOUS
    <3>2. Sound(t, base) /\ t.position = strat.position - 1
      BY Zenon, <1>1, <1>2, <3>1, SellKeeps
    <3>3. /\ strat.position > 0
          /\ row' = Row(t, quote) /\ strat' = calculate_pnl(update_theo_values(t, quote))
      BY Zenon, <2>1, <3>1 DEF CloseLong, CloseTrade, Sold
    <3>4. t.position \in -max_pos..max_pos
      BY Zenon, <1>1, <3>2, <3>3, Limits
    <3> QED BY Zenon, <3>2, <3>3, <3>4
  <2>2. CASE CloseShort
    <3>1. PICK t : t = Bought(strat, quote.ask)
      OBVIOUS
    <3>2. Sound(t, base) /\ t.position = strat.position + 1
      BY Zenon, <1>1, <1>2, <3>1, BuyKeeps
    <3>3. /\ strat.position < 0
          /\ row' = Row(t, quote) /\ strat' = calculate_pnl(update_theo_values(t, quote))
      BY Zenon, <2>2, <3>1 DEF CloseShort, CloseTrade, Bought
    <3>4. t.position \in -max_pos..max_pos
      BY Zenon, <1>1, <3>2, <3>3, Limits
    <3> QED BY Zenon, <3>2, <3>3, <3>4
  <2> QED BY Zenon, <2>1, <2>2
<1>5. /\ Sound(strat', base') /\ strat'.position = traded.position
      /\ Logged' /\ ProfitCurrent'
  BY Zenon, <1>1, <1>3, <1>4, Valuation
<1>6. Rest' /\ ClosedRow'
  BY <1>1, <1>3 DEF Rest, ClosedRow
<1> QED BY Zenon, <1>4, <1>5, <1>6 DEF IInv, Rest

\* close_positions leaves the profit as it is: it is worked out after every trade,
\* and with no position the new quote does not matter.
LEMMA CloseBeginsKeeps ==
  ASSUME IInv, NEW q \in Quotes, close_positions(q)
  PROVE  IInv'
<1>1. /\ Sound(strat, base) /\ strat.position \in -max_pos..max_pos /\ quote \in Quotes
      /\ samples \in 0..(MAX_LAG + 1) /\ fitted \in BOOLEAN
      /\ Logged /\ ProfitCurrent
  BY Zenon DEF IInv
<1>2. /\ quote' = q /\ strat' = strat /\ row' = row /\ samples' = samples
      /\ fitted' = fitted /\ base' = base /\ pc \in {"idle", "closed"}
      /\ pc' = IF strat.position # 0 THEN "closing" ELSE "idle"
  BY DEF close_positions, Callable
<1>3. Sound(strat', base') /\ strat'.position \in -max_pos..max_pos
  BY Zenon, <1>1, <1>2
<1>4. Logged'
  BY Zenon, <1>1, <1>2 DEF Logged, TradeCount
<1>5. Rest' /\ ClosedRow'
  BY <1>1, <1>2 DEF Rest, ClosedRow
<1>6. ProfitCurrent'
  <2>1. SUFFICES ASSUME strat.position = 0 PROVE strat.pnl = Profit(strat, q)
    BY <1>2 DEF ProfitCurrent
  <2>2. strat.pnl = Profit(strat, quote)
    BY <1>1, <2>1 DEF ProfitCurrent
  <2>3. strat \in Members
    BY Zenon, <1>1 DEF Sound
  <2> QED BY Zenon, <1>1, <2>1, <2>2, <2>3, FlatProfit
<1> QED BY Zenon, <1>3, <1>4, <1>5, <1>6 DEF IInv, Rest

\* The row that close_positions ends with shows the final profit.
LEMMA CloseDoneKeeps ==
  ASSUME IInv, CloseDone
  PROVE  IInv'
<1>1. /\ Sound(strat, base) /\ strat.position \in -max_pos..max_pos /\ quote \in Quotes
      /\ samples \in 0..(MAX_LAG + 1) /\ fitted \in BOOLEAN /\ ProfitCurrent
  BY Zenon DEF IInv
<1>2. /\ quote' = quote /\ strat' = strat /\ samples' = samples
      /\ fitted' = fitted /\ base' = base /\ pc' = "closed"
      /\ strat.position = 0 /\ row' = Row(strat, quote)
  BY DEF CloseDone
<1>3. /\ row'.position = strat.position /\ row'.pnl = strat.pnl
      /\ row'.trade_count = strat.buy_qty + strat.sell_qty
  BY Zenon, <1>2, RowFacts
<1>4. Sound(strat', base') /\ strat'.position \in -max_pos..max_pos
  BY Zenon, <1>1, <1>2
<1>5. Logged' /\ ClosedRow'
  BY Zenon, <1>2, <1>3 DEF Logged, ClosedRow
<1>6. ProfitCurrent'
  BY Zenon, <1>1, <1>2 DEF ProfitCurrent
<1>7. Rest'
  BY <1>1, <1>2 DEF Rest
<1> QED BY Zenon, <1>4, <1>5, <1>6, <1>7 DEF IInv, Rest

\* reset forgets the trades, their count and the profit together.
LEMMA ResetKeeps ==
  ASSUME IInv, reset
  PROVE  IInv'
<1>1. Sound(strat, base) /\ quote \in Quotes /\ samples \in 0..(MAX_LAG + 1)
  BY Zenon DEF IInv
<1>2. /\ strat' = Cleared(strat.kind, strat.POINT_VALUE, strat.trade_queue)
      /\ base' = Len(strat.trade_queue) /\ fitted' = FALSE /\ pc' = "idle"
      /\ quote' = quote /\ samples' = samples
  BY DEF reset
<1>3. /\ strat.kind \in Kinds /\ strat.POINT_VALUE \in PointValues \cup Garbage
      /\ strat.trade_queue \in Seq(TradesMade)
  BY <1>1, MemberTypes DEF Sound
<1>4. /\ Sound(strat', Len(strat.trade_queue)) /\ strat'.pnl = Profit(strat', quote)
      /\ strat'.position = 0 /\ strat'.trade_queue = strat.trade_queue
  <2>1. PICK u : u = Cleared(strat.kind, strat.POINT_VALUE, strat.trade_queue)
    OBVIOUS
  <2>2. /\ Sound(u, Len(strat.trade_queue)) /\ u.pnl = Profit(u, quote)
        /\ u.position = 0 /\ u.trade_queue = strat.trade_queue
    BY <1>1, <1>3, <2>1, ClearedFacts
  <2>3. strat' = u
    BY Zenon, <1>2, <2>1
  <2> QED BY Zenon, <2>2, <2>3
<1>5. Sound(strat', base') /\ ProfitCurrent'
  BY Zenon, <1>2, <1>4 DEF ProfitCurrent
<1>6. strat'.position \in -max_pos..max_pos
  BY <1>4, Limits
<1>7. Logged'
  <2>1. Len(strat.trade_queue) - Len(strat.trade_queue) = 0 /\ ~(0 > 0)
    BY <1>3
  <2>2. TradeCount' = 0
    BY Zenon, <1>2, <1>4, <2>1 DEF TradeCount
  <2> QED BY Zenon, <2>1, <2>2 DEF Logged
<1>8. Rest' /\ ClosedRow'
  BY <1>1, <1>2 DEF Rest, ClosedRow
<1> QED BY Zenon, <1>5, <1>6, <1>7, <1>8 DEF IInv, Rest
-----------------------------------------------------------------------------
(* The theorems. *)

\* Every initial state satisfies the invariant.
LEMMA InitHolds == Init => IInv
<1>1. SUFFICES ASSUME Init PROVE IInv
  OBVIOUS
<1>2. PICK kind \in Kinds :
        \E point_value \in IF kind = "linear" THEN PointValues ELSE Garbage :
          strat = Cleared(kind, point_value, << >>)
  BY <1>1 DEF Init, Kinds
<1>3. PICK point_value \in PointValues \cup Garbage : strat = Cleared(kind, point_value, << >>)
  BY <1>2
<1>4. /\ quote = [bid |-> 0, ask |-> 0] /\ samples = 0 /\ fitted = FALSE
      /\ base = 0 /\ pc = "idle"
  BY <1>1 DEF Init
<1>5. quote \in Quotes
  BY <1>4, StrategyAssumption DEF Quotes
<1>6. << >> \in Seq(TradesMade) /\ Len(<< >>) = 0
  OBVIOUS
<1>7. /\ Sound(strat, 0) /\ strat.pnl = Profit(strat, quote)
      /\ strat.position = 0 /\ strat.trade_queue = << >>
  <2>1. PICK none : none = << >>
    OBVIOUS
  <2>2. none \in Seq(TradesMade) /\ strat = Cleared(kind, point_value, none)
    BY Zenon, <1>3, <1>6, <2>1
  <2>3. /\ Sound(strat, Len(none)) /\ strat.pnl = Profit(strat, quote)
        /\ strat.position = 0 /\ strat.trade_queue = none
    BY <1>5, <2>2, ClearedFacts
  <2> QED BY Zenon, <1>6, <2>1, <2>3
<1>8. Sound(strat, base) /\ ProfitCurrent
  BY Zenon, <1>4, <1>7 DEF ProfitCurrent
<1>9. strat.position \in -max_pos..max_pos
  BY <1>7, Limits
<1>10. Logged
  <2>1. TradeCount = 0
    BY <1>4, <1>6, <1>7 DEF TradeCount
  <2> QED BY <2>1 DEF Logged
<1>11. Rest /\ ClosedRow
  <2>1. 0 \in 0..(MAX_LAG + 1)
    BY StrategyAssumption
  <2> QED BY <1>4, <1>5, <2>1 DEF Rest, ClosedRow
<1> QED BY Zenon, <1>8, <1>9, <1>10, <1>11 DEF IInv, Rest

\* Fitting the model trades nothing.
LEMMA FitKeeps ==
  ASSUME IInv, fit_model
  PROVE  IInv'
<1>1. /\ strat' = strat /\ row' = row /\ quote' = quote /\ samples' = samples
      /\ base' = base /\ pc' = pc /\ fitted' = TRUE
  BY DEF fit_model
<1>2. fitted' \in BOOLEAN
  BY <1>1
<1> QED BY Zenon, <1>1, <1>2 DEF IInv, Logged, TradeCount, ClosedRow, ProfitCurrent

\* Every step preserves the invariant.
LEMMA NextKeeps == IInv /\ [Next]_vars => IInv'
<1>1. SUFFICES ASSUME IInv, [Next]_vars PROVE IInv'
  OBVIOUS
<1>2. CASE fit_model
  BY Zenon, <1>1, <1>2, FitKeeps
<1>3. CASE reset
  BY Zenon, <1>1, <1>3, ResetKeeps
<1>4. ASSUME NEW q \in Quotes, on_book_update(q) PROVE IInv'
  BY Zenon, <1>1, <1>4, UpdateKeeps
<1>5. ASSUME NEW q \in Quotes, close_positions(q) PROVE IInv'
  BY Zenon, <1>1, <1>5, CloseBeginsKeeps
<1>6. CASE CloseLong \/ CloseShort
  <2>1. pc = "closing"
    BY Zenon, <1>6 DEF CloseLong, CloseShort
  <2> QED BY Zenon, <1>1, <1>6, <2>1, CloseTradeKeeps
<1>7. CASE CloseDone
  BY Zenon, <1>1, <1>7, CloseDoneKeeps
<1>8. CASE UNCHANGED vars
  BY Zenon, <1>1, <1>8
     DEF vars, IInv, Logged, TradeCount, ClosedRow, ProfitCurrent
<1> QED BY Zenon, <1>1, <1>2, <1>3, <1>4, <1>5, <1>6, <1>7, <1>8 DEF Next

\* The invariant holds in every reachable state: the members count the same
\* trades, the totals are congruent to the cash, the profit is that of the quote.
THEOREM Inductive == Spec => []IInv
<1>1. Init => IInv
  BY InitHolds
<1>2. IInv /\ [Next]_vars => IInv'
  BY NextKeeps
<1> QED BY <1>1, <1>2, PTL DEF Spec

\* Whatever the quotes and signals, the position keeps to its limit, and the last
\* row logged shows the position and the number of trades since the last reset.
THEOREM LogMissesNoTrade == Spec => []EveryTradeLogged
<1>1. IInv => EveryTradeLogged
  <2>1. SUFFICES ASSUME IInv PROVE EveryTradeLogged
    OBVIOUS
  <2>2. /\ strat \in Members /\ base \in 0..Len(strat.trade_queue) /\ Counted(strat, base)
        /\ strat.position \in -max_pos..max_pos /\ Logged /\ Rest
    BY Zenon, <2>1 DEF IInv, Sound, Rest
  <2>3. /\ Len(strat.trade_queue) \in Nat /\ strat.buy_qty \in Nat /\ strat.sell_qty \in Nat
        /\ strat.fees \in Nat
    BY <2>2, MemberTypes
  <2>4. strat.buy_qty + strat.sell_qty = TradeCount /\ strat.fees = TradeCount
    BY Zenon, <2>2 DEF Counted, TradeCount
  <2>5. {strat.buy_qty, strat.sell_qty, strat.fees, base} \subseteq 0..Len(strat.trade_queue)
    BY <2>2, <2>3, <2>4 DEF TradeCount
  <2>6. TypeOK
    <3>1. /\ strat.kind \in Kinds /\ strat.POINT_VALUE \in PointValues \cup Garbage
          /\ {strat.real_total_buy_px, strat.real_total_sell_px, strat.pnl} \subseteq Int32
      BY <2>2, MemberTypes
    <3> QED BY Zenon, <2>2, <2>5, <3>1 DEF TypeOK, Kinds, Rest
  <2> QED BY Zenon, <2>2, <2>4, <2>6 DEF EveryTradeLogged, Logged
<1> QED BY <1>1, Inductive, PTL

\* Totals that are congruent and a profit worked out from them give the exact one.
LEMMA ExactProfit == IInv => PnlExact
<1>1. SUFFICES ASSUME IInv PROVE PnlExact
  OBVIOUS
<1> DEFINE cash == Cash(strat.trade_queue, base)
           worth == Worth(strat, quote)
           pv == strat.POINT_VALUE
           gross == pv * (cash + AtMarket)
           net == gross - FEES_PER_SIDE * TradeCount
<1>2. SUFFICES ASSUME {gross, net} \subseteq Int32,
                      strat.kind = "imbalance" => {gross, net} \subseteq -FloatMax..FloatMax,
                      ~(pc = "closing" /\ strat.position # 0)
               PROVE  strat.pnl = net
  BY Zenon DEF PnlExact, Fit
<1>3. /\ strat \in Members /\ base \in 0..Len(strat.trade_queue) /\ quote \in Quotes
      /\ Counted(strat, base) /\ Congruent(strat, base) /\ ProfitCurrent
  BY Zenon, <1>1 DEF IInv, Sound
<1>4. AtMarket = worth
  BY Zenon DEF AtMarket, Worth
<1>5. cash \in Int /\ worth \in Int /\ pv \in Int
  <2>1. cash \in Int
    BY <1>3, MemberTypes, CashFacts
  <2>2. worth \in Int
    BY <1>3, MemberTypes, QuoteTypes DEF Worth
  <2> QED BY <1>3, <2>1, <2>2, MemberTypes
<1>6. gross \in Int32 /\ net \in Int32 /\ net = gross - strat.fees /\ gross \in Int
  <2>1. strat.fees = TradeCount
    BY Zenon, <1>3 DEF Counted, TradeCount
  <2>2. TradeCount \in Int
    <3>1. strat.fees \in Int
      BY <1>3, MemberTypes
    <3> QED BY Zenon, <2>1, <3>1
  <2>3. FEES_PER_SIDE * TradeCount = TradeCount
    BY <2>2 DEF FEES_PER_SIDE
  <2>4. gross \in Int32 /\ net \in Int32
    BY Zenon, <1>2
  <2>5. net = gross - strat.fees
    BY Zenon, <2>1, <2>3
  <2>6. gross \in Int
    BY Zenon, <2>4, ModulusFacts
  <2> QED BY Zenon, <2>4, <2>5, <2>6
<1>7. PICK j \in Int : strat.real_total_sell_px - strat.real_total_buy_px = cash + Modulus * j
  BY Zenon, <1>3 DEF Congruent
<1>8. Gross(strat, quote) = gross + Modulus * (pv * j) /\ pv * j \in Int
  <2>1. \A p, c, w, m, i \in Int : p * (c + m * i + w) = p * (c + w) + m * (p * i) /\ p * i \in Int
    OBVIOUS
  <2>2. Gross(strat, quote) = pv * (cash + Modulus * j + worth)
    BY Zenon, <1>7 DEF Gross
  <2>3. Modulus \in Int
    BY ModulusFacts
  <2>4. gross = pv * (cash + worth)
    BY Zenon, <1>4
  <2> HIDE DEF gross, pv, cash, worth
  <2>5. /\ pv * (cash + Modulus * j + worth) = pv * (cash + worth) + Modulus * (pv * j)
        /\ pv * j \in Int
    BY <1>5, <2>3
  <2> QED BY Zenon, <2>2, <2>4, <2>5
<1> HIDE DEF gross, net, pv, cash, worth
<1>9. Wrap(Gross(strat, quote)) = gross
  <2>1. Gross(strat, quote) \in Int
    BY <1>6, <1>8, ModulusFacts
  <2> QED BY Zenon, <1>6, <1>8, <2>1, WrapFacts
<1>10. Profit(strat, quote) = net
  <2>1. CASE strat.kind = "imbalance"
    <3>1. AsFloat(gross) = gross /\ AsFloat(net) = net
      BY Zenon, <1>2, <2>1, ConversionFacts
    <3> QED BY Zenon, <1>6, <1>9, <2>1, <3>1, ConversionFacts DEF Profit
  <2>2. CASE strat.kind # "imbalance"
    BY Zenon, <1>6, <1>9, <2>2, ConversionFacts DEF Profit
  <2> QED BY Zenon, <2>1, <2>2
<1> QED BY Zenon, <1>2, <1>3, <1>10 DEF ProfitCurrent

\* However often the totals wrapped around, a profit that fits is the value of all
\* trades and of the open position less the fees, to the unit.
THEOREM ProfitIsExact == Spec => []PnlExact
<1> QED BY ExactProfit, Inductive, PTL

\* The row that close_positions logs last shows no position and, however often the
\* totals wrapped around since the last reset, what the trades brought in less
\* the fees: nothing is left in it of what the open position was valued at.
THEOREM CloseAlwaysSettles == Spec => []CloseSettles
<1>1. IInv => CloseSettles
  <2>1. SUFFICES ASSUME IInv PROVE CloseSettles
    OBVIOUS
  <2> DEFINE cash == Cash(strat.trade_queue, base)
             gross == strat.POINT_VALUE * cash
             net == gross - FEES_PER_SIDE * TradeCount
  <2>2. SUFFICES ASSUME pc = "closed", Fit(gross, net) PROVE row.position = 0 /\ row.pnl = net
    BY Zenon DEF CloseSettles
  <2>3. /\ strat.position = 0 /\ row.position = 0 /\ row.pnl = strat.pnl
        /\ strat \in Members /\ base \in 0..Len(strat.trade_queue) /\ quote \in Quotes
    BY Zenon, <2>1, <2>2 DEF IInv, ClosedRow, Sound
  <2>4. cash + AtMarket = cash
    <3>1. cash \in Int
      BY <2>3, MemberTypes, CashFacts
    <3>2. AtMarket = 0
      BY <2>3, QuoteTypes DEF AtMarket
    <3> HIDE DEF cash
    <3> QED BY <3>1, <3>2
  <2>5. strat.POINT_VALUE * (Cash(strat.trade_queue, base) + AtMarket) = gross
    BY Zenon, <2>4
  <2>6. strat.pnl = net
    <3>1. PnlExact /\ ~(pc = "closing" /\ strat.position # 0)
      BY <2>1, <2>2, ExactProfit
    <3> QED BY Zenon, <2>2, <2>5, <3>1 DEF PnlExact
  <2> QED BY Zenon, <2>3, <2>6
<1> QED BY <1>1, Inductive, PTL
=============================================================================
