------------------------------ MODULE Strategy ------------------------------
(***************************************************************************)
(* include/strategy.h with the two strategies that derive from it,         *)
(* ImbalanceStrat (strategies/imbalance_strat.cpp) and LinearModelStrategy *)
(* (strategies/linear_model_strat.cpp): what one does with its position,   *)
(* its profit and loss and the rows it logs, whoever calls it.             *)
(*                                                                         *)
(* Members that calls update together are one record, strat.  The book is  *)
(* external here: each call finds it at some quote, 0 for a side that is   *)
(* empty.  What the signals are computed from is left out: a signal is     *)
(* positive, zero or negative, as far as the quote and the number of       *)
(* samples permit.  int32_t wraps around, which is what the signed overflow *)
(* of the accumulators compiles to; a float has every integer up to        *)
(* FloatMax, and of the larger ones those with enough zero bits.           *)
(***************************************************************************)
EXTENDS Integers, Sequences

CONSTANTS
  Bids, Asks,      \* what the two sides of the book may quote; 0: empty
  Centi,           \* 100, by which get_mid_price divides
  PointValues,     \* of the linear model: 5 for es and 2 for the others
  Garbage,         \* what POINT_VALUE_ may hold when nothing has set it
  MAX_LAG,
  max_pos,
  Int32Max,        \* 2^31 - 1
  FloatMax,        \* 2^24
  MaxTrades        \* bound: trades on signals

ASSUME StrategyAssumption ==
  /\ Bids \subseteq Nat /\ Asks \subseteq Nat /\ 0 \in Bids /\ 0 \in Asks
  /\ Centi \in Nat \ {0} /\ MAX_LAG \in Nat /\ max_pos \in Nat \ {0}
  /\ PointValues \subseteq Nat /\ Garbage \subseteq Int
  /\ Int32Max \in Nat /\ FloatMax \in Nat \ {0} /\ MaxTrades \in Nat

Quotes == [bid : Bids, ask : Asks]   \* crossed ones included: the book matches nothing
FEES_PER_SIDE == 1

VARIABLES
  strat,     \* the members of the Strategy that trades change
  row,       \* the last row given to the logger
  quote,     \* the book's best prices at the last call
  samples,   \* length of voi_history_curr_ of the book, up to MAX_LAG + 1
  fitted,    \* model_coefficients_ are not all zero
  base,      \* trades that had been made at the last reset (trade_queue_ keeps them)
  pc         \* idle, or how far close_positions is
vars == <<strat, row, quote, samples, fitted, base, pc>>
-----------------------------------------------------------------------------
(* Numbers *)

Int32    == -(Int32Max + 1) .. Int32Max
Modulus  == 2 * (Int32Max + 1)
Wrap(x)  == ((x + Int32Max + 1) % Modulus) - (Int32Max + 1)

\* The nearest float, ties to even.
AsFloat(x) ==
  LET abs  == IF x < 0 THEN -x ELSE x
      k    == CHOOSE e \in 1..(Int32Max + 1) :
                FloatMax * 2^(e - 1) <= abs /\ abs < FloatMax * 2^e
      unit == 2^k
      low  == x \div unit
      rest == 2 * (x % unit)
  IN  IF abs <= FloatMax THEN x
      ELSE unit * IF rest < unit \/ (rest = unit /\ low % 2 = 0) THEN low ELSE low + 1

\* Conversion to int32_t; what does not fit becomes the least number (x86).
ToInt32(x) == IF x \in Int32 THEN x ELSE -(Int32Max + 1)
-----------------------------------------------------------------------------
(* The members *)

Cleared(kind, point_value, trades) ==
  [kind |-> kind, POINT_VALUE |-> point_value, trade_queue |-> trades,
   position |-> 0, buy_qty |-> 0, sell_qty |-> 0,
   real_total_buy_px |-> 0, real_total_sell_px |-> 0,
   theo_total_buy_px |-> 0, theo_total_sell_px |-> 0, fees |-> 0, pnl |-> 0]

\* Mutant: a sale is added to what was paid.
execute_trade_OneTotal(s, is_buy, price) ==
  LET t == [s EXCEPT !.trade_queue = Append(@, [is_buy |-> is_buy, price |-> price]),
                     !.fees = @ + FEES_PER_SIDE,
                     !.real_total_buy_px = Wrap(@ + price)] IN
  IF is_buy THEN [t EXCEPT !.position = @ + 1, !.buy_qty = @ + 1]
            ELSE [t EXCEPT !.position = @ - 1, !.sell_qty = @ + 1]

execute_trade(s, is_buy, price) ==
  LET t == [s EXCEPT !.trade_queue = Append(@, [is_buy |-> is_buy, price |-> price]),
                     !.fees = @ + FEES_PER_SIDE] IN
  IF is_buy
  THEN [t EXCEPT !.position = @ + 1, !.buy_qty = @ + 1,
                 !.real_total_buy_px = Wrap(@ + price)]
  ELSE [t EXCEPT !.position = @ - 1, !.sell_qty = @ + 1,
                 !.real_total_sell_px = Wrap(@ + price)]

\* What it would take to close the position at the quote.
update_theo_values(s, q) ==
  [s EXCEPT !.theo_total_sell_px = IF s.position > 0 THEN q.bid * s.position ELSE 0,
            !.theo_total_buy_px  = IF s.position < 0 THEN q.ask * (-s.position) ELSE 0]

\* fees_ is a float in Strategy, and a double of its own in LinearModelStrategy.
calculate_pnl(s) ==
  LET gross == Wrap(s.POINT_VALUE * (s.real_total_sell_px + s.theo_total_sell_px
                                     - s.real_total_buy_px - s.theo_total_buy_px))
      net   == IF s.kind = "imbalance" THEN AsFloat(AsFloat(gross) - s.fees)
                                       ELSE gross - s.fees
  IN  [s EXCEPT !.pnl = ToInt32(net)]

\* log_stats
Row(s, q) == [bid |-> q.bid, ask |-> q.ask, position |-> s.position,
              trade_count |-> s.buy_qty + s.sell_qty, pnl |-> s.pnl]
-----------------------------------------------------------------------------
(* Signals *)

get_mid_price(q) == ((q.bid + q.ask) \div 2) \div Centi

\* calculate_vwap is never called: vwap_ keeps the 0 it was constructed with.
vwap == 0

\* The sign of the imbalance, which is 0 while a side is empty, or of the
\* prediction where it passes the threshold: none before there are MAX_LAG + 1
\* samples, or with coefficients that are zero.
Signals(s, q, n) ==
  IF s.kind = "imbalance"
  THEN IF q.bid = 0 \/ q.ask = 0 THEN {0} ELSE {-1, 0, 1}
  ELSE IF fitted /\ n = MAX_LAG + 1 THEN {-1, 0, 1} ELSE {0}

Buys(s, q, signal) ==
  signal > 0 /\ s.position < max_pos /\ (s.kind = "imbalance" => get_mid_price(q) < vwap)
Sells(s, q, signal) ==
  signal < 0 /\ s.position > -max_pos /\ (s.kind = "imbalance" => get_mid_price(q) > vwap)
-----------------------------------------------------------------------------
Init ==
  /\ \E kind \in {"imbalance", "linear"} :
       \E point_value \in IF kind = "linear" THEN PointValues ELSE Garbage :
         strat = Cleared(kind, point_value, << >>)
  /\ row = Row(strat, [bid |-> 0, ask |-> 0])
  /\ quote = [bid |-> 0, ask |-> 0]
  /\ samples = 0 /\ fitted = FALSE /\ base = 0 /\ pc = "idle"

Callable == pc \in {"idle", "closed"}

fit_model ==
  /\ Callable /\ strat.kind = "linear"
  /\ fitted' = TRUE
  /\ UNCHANGED <<strat, row, quote, samples, base, pc>>

\* A trade is logged before the profit is worked out again.
on_book_update(q) ==
  /\ Callable
  /\ quote' = q /\ pc' = "idle"
  /\ samples' = IF strat.kind = "linear" /\ samples <= MAX_LAG THEN samples + 1 ELSE samples
  /\ \E signal \in Signals(strat, q, samples') :
       LET buys   == Buys(strat, q, signal)
           sells  == Sells(strat, q, signal)
           traded == IF buys THEN execute_trade(strat, TRUE, q.ask)
                     ELSE IF sells THEN execute_trade(strat, FALSE, q.bid) ELSE strat
       IN  /\ buys \/ sells => Len(strat.trade_queue) < MaxTrades
           /\ row' = IF buys \/ sells THEN Row(traded, q) ELSE row
           /\ strat' = calculate_pnl(update_theo_values(traded, q))
  /\ UNCHANGED <<fitted, base>>

\* close_positions: one trade after the other, each logged and accounted for,
\* then a row with the result.
close_positions(q) ==
  /\ Callable
  /\ quote' = q
  /\ pc' = IF strat.position # 0 THEN "closing" ELSE "idle"
  /\ UNCHANGED <<strat, row, samples, fitted, base>>

\* Mutant: the closing trade is not followed by update_theo_values.
CloseTrade_KeepsTheo(is_buy, price) ==
  LET traded == execute_trade(strat, is_buy, price) IN
  /\ row' = Row(traded, quote)
  /\ strat' = calculate_pnl(traded)
  /\ UNCHANGED <<quote, samples, fitted, base, pc>>

CloseTrade(is_buy, price) ==
  LET traded == execute_trade(strat, is_buy, price) IN
  /\ row' = Row(traded, quote)
  /\ strat' = calculate_pnl(update_theo_values(traded, quote))
  /\ UNCHANGED <<quote, samples, fitted, base, pc>>

CloseLong  == pc = "closing" /\ strat.position > 0 /\ CloseTrade(FALSE, quote.bid)
CloseShort == pc = "closing" /\ strat.position < 0 /\ CloseTrade(TRUE, quote.ask)

CloseDone ==
  /\ pc = "closing" /\ strat.position = 0
  /\ row' = Row(strat, quote)
  /\ pc' = "closed"
  /\ UNCHANGED <<strat, quote, samples, fitted, base>>

\* Mutant: the numbers of trades are not reset.
reset_KeepsCounts ==
  /\ Callable
  /\ strat' = [Cleared(strat.kind, strat.POINT_VALUE, strat.trade_queue) EXCEPT
                 !.buy_qty = strat.buy_qty, !.sell_qty = strat.sell_qty]
  /\ base' = Len(strat.trade_queue)
  /\ fitted' = FALSE /\ pc' = "idle"
  /\ UNCHANGED <<row, quote, samples>>

\* reset: trade_queue_ and the book's samples stay, the coefficients do not.
reset ==
  /\ Callable
  /\ strat' = Cleared(strat.kind, strat.POINT_VALUE, strat.trade_queue)
  /\ base' = Len(strat.trade_queue)
  /\ fitted' = FALSE /\ pc' = "idle"
  /\ UNCHANGED <<row, quote, samples>>

Next ==
  \/ fit_model \/ reset
  \/ \E q \in Quotes : on_book_update(q) \/ close_positions(q)
  \/ CloseLong \/ CloseShort \/ CloseDone

Spec == Init /\ [][Next]_vars
-----------------------------------------------------------------------------
(* Properties *)

\* The members are well typed, and the position keeps to its limit.
TypeOK ==
  /\ strat.kind \in {"imbalance", "linear"}
  /\ strat.POINT_VALUE \in PointValues \cup Garbage
  /\ strat.position \in -max_pos..max_pos
  /\ {strat.real_total_buy_px, strat.real_total_sell_px, strat.pnl} \subseteq Int32
  /\ {strat.buy_qty, strat.sell_qty, strat.fees, base} \subseteq 0..Len(strat.trade_queue)
  /\ quote \in Quotes
  /\ samples \in 0..(MAX_LAG + 1) /\ fitted \in BOOLEAN
  /\ pc \in {"idle", "closing", "closed"}

\* The trades since the last reset, what they brought in, and what the open
\* position would at the quote.
TradeCount == Len(strat.trade_queue) - base
Brought(t) == IF t.is_buy THEN -t.price ELSE t.price
Cash(trades, from) ==
  LET cash[k \in from..Len(trades)] ==
        IF k = from THEN 0 ELSE cash[k - 1] + Brought(trades[k])
  IN  cash[Len(trades)]
AtMarket ==
  IF strat.position > 0 THEN quote.bid * strat.position ELSE quote.ask * strat.position

\* Amounts that the members and the conversions between them can hold.
Fit(gross, net) ==
  /\ {gross, net} \subseteq Int32
  /\ strat.kind = "imbalance" => {gross, net} \subseteq -FloatMax..FloatMax

\* Except while a position is about to be closed at a new quote, pnl_ is the value of
\* all trades and of the open position less a fee for each trade, exactly: the
\* totals may have wrapped around, their difference has not, as long as the
\* result fits (and, for ImbalanceStrat, is small enough for a float).
PnlExact ==
  LET gross == strat.POINT_VALUE * (Cash(strat.trade_queue, base) + AtMarket)
      net   == gross - FEES_PER_SIDE * TradeCount
  IN  Fit(gross, net) /\ ~(pc = "closing" /\ strat.position # 0) => strat.pnl = net

\* The log misses no trade: its last row shows the position and the number of
\* trades since the last reset.  (The members are well typed, and the position
\* keeps to its limit.)
EveryTradeLogged ==
  /\ TypeOK
  /\ TradeCount > 0 =>
       row.position = strat.position /\ row.trade_count = TradeCount

\* The row that close_positions logs last is the settled account of the day: no
\* position, and as profit what the trades since the last reset brought in less a
\* fee for each, with nothing left in it of the quotes the position was valued at.
CloseSettles ==
  LET gross == strat.POINT_VALUE * Cash(strat.trade_queue, base)
      net   == gross - FEES_PER_SIDE * TradeCount
  IN  pc = "closed" /\ Fit(gross, net) => row.position = 0 /\ row.pnl = net
=============================================================================
