---------------------------- MODULE BookSignals ----------------------------
(***************************************************************************)
(* The signals that strategies read off the order book: resting volume     *)
(* near the top and its imbalance (ImbalanceStrat), order-flow imbalance   *)
(* and mid price (LinearModelStrategy and its training).                   *)
(*                                                                         *)
(* They are computed between two messages, from the best indices and from  *)
(* what the last computation left in prev_best_*; `seen' is what a reader  *)
(* who counts the resting orders saw then.                                 *)
(***************************************************************************)
EXTENDS Orderbook, FiniteSetsExt

CONSTANTS
  Ct,      \* levels that calculate_vols adds up: 40
  Centi    \* 100, by which get_mid_price divides

ASSUME SignalAssumption == Ct \in Nat \ {0} /\ Centi \in Nat \ {0} /\ MIN > 0

VARIABLES
  sig,     \* bid_vol_ .. voi_ and the last entry of the mid price history
  seen     \* best price and its volume per side when voi_ was last computed
signalVars == <<book, sig, seen>>
-----------------------------------------------------------------------------
\* The loop of calculate_vols walks both sides in step and ends when either
\* index is past the end, a level that is not there counting as nothing.
VolFrom(b, side, n) ==
  LET at(i) == b.slots[side][b.best[side] + i] IN
  SumFunction([i \in 0..(n - 1) |-> IF at(i) = Nil THEN 0 ELSE b.volume[at(i)]])

\* Mutant: each side walks to its own end.
Steps_OwnEnd(b, side) == Min({Ct, RANGE - b.best[side]})

Steps(b, side) == Min({Ct, RANGE - b.best[side], RANGE - b.best[~side]})

calculate_vols(b, g) ==
  [g EXCEPT !.bid_vol = VolFrom(b, TRUE, Steps(b, TRUE)),
            !.ask_vol = VolFrom(b, FALSE, Steps(b, FALSE))]

\* A fraction: numerator and denominator.
calculate_imbalance(g) ==
  LET total == g.bid_vol + g.ask_vol IN
  [g EXCEPT !.imbalance = IF total > 0 THEN <<g.bid_vol - g.ask_vol, total>> ELSE <<0, 1>>]

\* bids_[best_bid_idx_] is read untested.  One past the end lies in the zeros
\* that fill the last page of the allocation (7'000'000 pointers, from mmap).
BestVolume(b, side) ==
  IF BestLimit(b, side) = Nil THEN 0 ELSE b.volume[BestLimit(b, side)]
BestQuote(b, side) ==
  IF side THEN get_best_bid_price(b) ELSE get_best_ask_price(b)

Improves(side, px, old) == IF side THEN px > old ELSE px < old

SideVoi(b, side, prev) ==
  LET px  == BestQuote(b, side)
      vol == BestVolume(b, side)
  IN  CASE px = prev.price                  -> vol - prev.volume
        [] Improves(side, px, prev.price)   -> vol
        [] OTHER                            -> 0

\* Mutant: the volume of the last sample is kept when the price stays.
calculate_voi_StaleVolume(b, g) ==
  [g EXCEPT !.voi  = SideVoi(b, TRUE, g.prev[TRUE]) - SideVoi(b, FALSE, g.prev[FALSE]),
            !.prev = [s \in BOOLEAN |->
                        IF BestQuote(b, s) = @[s].price THEN @[s]
                        ELSE [price |-> BestQuote(b, s), volume |-> BestVolume(b, s)]]]

calculate_voi(b, g) ==
  [g EXCEPT !.voi  = SideVoi(b, TRUE, g.prev[TRUE]) - SideVoi(b, FALSE, g.prev[FALSE]),
            !.prev = [s \in BOOLEAN |->
                        [price |-> BestQuote(b, s), volume |-> BestVolume(b, s)]]]

\* With one side empty this is half of the other side's price.
get_mid_price(b) == ((get_best_bid_price(b) + get_best_ask_price(b)) \div 2) \div Centi
add_mid_price(b, g) == [g EXCEPT !.mid = get_mid_price(b)]
-----------------------------------------------------------------------------
(* The resting orders, counted without the help of the levels. *)

On(b, side)      == {o \in b.live : b.side[o] = side}
SizeOf(b, S)     == SumFunctionOnSet(b.size, S)
Top(b, side)     == LET pxs == {b.price[o] : o \in On(b, side)} IN
                    IF side THEN Max(pxs) ELSE Min(pxs)
Distance(b, o)   == IF b.side[o] THEN Top(b, TRUE) - b.price[o]
                                 ELSE b.price[o] - Top(b, FALSE)
SideSeen(b, side) ==
  IF On(b, side) = {} THEN [price |-> 0, volume |-> 0]
  ELSE [price  |-> Top(b, side),
        volume |-> SizeOf(b, {o \in On(b, side) : Distance(b, o) = 0})]
-----------------------------------------------------------------------------
InitSignals ==
  /\ Init
  /\ sig = [bid_vol |-> 0, ask_vol |-> 0, imbalance |-> <<0, 1>>, voi |-> 0, mid |-> 0,
            prev |-> [s \in BOOLEAN |-> [price |-> 0, volume |-> 0]]]
  /\ seen = [s \in BOOLEAN |-> [price |-> 0, volume |-> 0]]

Message == Next /\ UNCHANGED <<sig, seen>>

\* ImbalanceStrat::on_book_update, up to where it reads the imbalance.
UpdateImbalance ==
  /\ sig' = calculate_imbalance(calculate_vols(book, sig))
  /\ UNCHANGED <<book, seen>>

\* A sample of LinearModelStrategy (calculate_voi_curr, add_mid_price_curr) or
\* of its training (calculate_voi, add_mid_price): the same computation.
Sample ==
  /\ sig' = add_mid_price(book, calculate_voi(book, sig))
  /\ seen' = [s \in BOOLEAN |-> SideSeen(book, s)]
  /\ UNCHANGED book

NextSignals == Message \/ UpdateImbalance \/ Sample

SpecSignals == InitSignals /\ [][NextSignals]_signalVars
-----------------------------------------------------------------------------
(* Properties *)

\* The volumes that calculate_vols would find now are the sizes of the orders
\* that rest within the same number of ticks of the best price on both sides;
\* with a side empty both are nothing.  The imbalance made of them is within
\* -1..1, and neutral exactly when they are equal.
VolsAreDepth ==
  LET g     == calculate_imbalance(calculate_vols(book, sig))
      both  == On(book, TRUE) # {} /\ On(book, FALSE) # {}
      ticks == Min({Ct, Top(book, TRUE) - MIN + 1, MAX - Top(book, FALSE) + 1})
      Near(side) == IF both THEN SizeOf(book, {o \in On(book, side) : Distance(book, o) < ticks})
                    ELSE 0
  IN  /\ g.bid_vol = Near(TRUE) /\ g.ask_vol = Near(FALSE)
      /\ g.imbalance[1] \in -g.imbalance[2] .. g.imbalance[2]
      /\ g.imbalance[1] = 0 <=> Near(TRUE) = Near(FALSE)

\* The order flow that calculate_voi would report now is the one since the last
\* sample, whatever messages came between: the growth of the volume at the best
\* price where that has not moved, all of it where it has improved.  With both
\* sides quoted then and now nothing is counted twice or missed; an ask side that
\* was empty counts as if it had been quoted below every price.
VoiIsOrderFlow ==
  LET now == [s \in BOOLEAN |-> SideSeen(book, s)]
      Flow(s) == IF now[s].price = seen[s].price THEN now[s].volume - seen[s].volume
                 ELSE IF s = (now[s].price > seen[s].price) THEN now[s].volume ELSE 0
  IN  calculate_voi(book, sig).voi = Flow(TRUE) - Flow(FALSE)
=============================================================================
