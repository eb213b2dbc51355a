------------------------ MODULE OrderbookRefinement ------------------------
(***************************************************************************)
(* The order book implements PriceTimeBook: following the links of a level *)
(* from head_ gives its queue, the accessors give the quotes.              *)
(***************************************************************************)
EXTENDS Orderbook, Sequences

\* The orders of level l, from head_ along next_.
LevelQueue(b, l) ==
  LET from[o \in b.live \cup {Nil}] ==
        IF o = Nil THEN << >>
        ELSE <<[id |-> b.id[o], size |-> b.size[o], lost |-> b.lookup[b.id[o]] # o]>> \o from[b.next[o]]
  IN  from[b.head[l]]

QueueAt(b, side, px) ==
  LET l == b.slots[side][SlotIdx(side, px)] IN
  IF l = Nil THEN << >> ELSE LevelQueue(b, l)

Abstract == INSTANCE PriceTimeBook WITH
  Prices  <- MIN..MAX,
  Sizes   <- FeedSizes,
  Replays <- DupAdds,
  queue   <- [s \in BOOLEAN |-> [px \in MIN..MAX |-> QueueAt(book, s, px)]]

\* The linked lists, slots and pools behave as price-time priority queues: no
\* message reorders, loses or repeats an order.  An order can no longer be
\* found only if its id was added again while it rested.
ImplementsPriceTimeBook == Abstract!Spec

\* Quotes and depth read from the book are the ones of its queues, whichever
\* accessor a reader uses.
ReadersSeeTheQueues ==
  LET q == [s \in BOOLEAN |-> [px \in MIN..MAX |-> QueueAt(book, s, px)]] IN
  /\ best_bid(book) = Abstract!BestPrice(q, TRUE)
  /\ best_ask(book) = Abstract!BestPrice(q, FALSE)
  /\ get_best_bid_price(book) = best_bid(book)
  /\ get_best_ask_price(book) = best_ask(book)
  /\ \A s \in BOOLEAN, px \in MIN..MAX : DepthAt(book, s, px) = Abstract!Volume(q[s][px])
=============================================================================
