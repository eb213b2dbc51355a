----------------------------- MODULE Orderbook -----------------------------
(***************************************************************************)
(* The limit order book of include/book/orderbook.h together with the      *)
(* memory it is built from: the intrusive FIFO of orders kept by every     *)
(* Limit (limit.h), the free list of Order cells (order_pool.h) and the    *)
(* free list of Limit nodes (limit_pool.h).                                *)
(*                                                                         *)
(* An Orderbook object is one record, `book', with one field per member or *)
(* per field of the cells it owns (a structure of arrays: book.next[o] is  *)
(* o->next_).  A C++ method is an operator from a book to a book, a call   *)
(* of process_msg is one step.  Pointers are positive numbers and nullptr  *)
(* is Nil.  bids_ and asks_ are slots[TRUE] and slots[FALSE], as in the    *)
(* template parameter Side.  order_lookup_ is a map here; module PageMap   *)
(* shows that the paged table behind it implements one.                    *)
(*                                                                         *)
(* What a feed message may say is the environment's part, FeedContract:    *)
(* the book itself checks nothing but the price.                           *)
(***************************************************************************)
EXTENDS Integers

CONSTANTS
  Ids,          \* order ids of the feed
  FeedPrices,   \* prices occurring in the feed
  FeedSizes,    \* sizes occurring in the feed
  MIN, MAX,     \* MIN_ and MAX_: the price window the book is built for
  MinAccepted,  \* the price filter of process_msg: 1'000'00
  MaxAccepted,  \* ... and 8'000'00
  MaxOrders,    \* bound: Order cells memory provides
  MaxLimits,    \* bound: Limit nodes memory provides
  DupAdds       \* may the feed add an id that already rests in the book?

Accepted(px) == MinAccepted <= px /\ px <= MaxAccepted

ASSUME BookAssumption ==
  /\ MIN \in Int /\ MAX \in Int /\ MIN <= MAX
  /\ MinAccepted \in Int /\ MaxAccepted \in Int
  /\ Ids # {} /\ FeedPrices \subseteq Int
  /\ FeedSizes \subseteq Nat
  /\ MaxOrders \in Nat /\ MaxLimits \in Nat
  /\ DupAdds \in BOOLEAN
  /\ \A px \in FeedPrices : Accepted(px) => px \in MIN..MAX

Nil        == 0
RANGE      == MAX - MIN + 1
Slots      == 0..(RANGE - 1)
OrderCells == 1..MaxOrders
LimitCells == 1..MaxLimits

\* process_msg does not read the size of a cancel or of a trade.
Messages ==
  [action : {"A", "M"}, side : BOOLEAN, id : Ids,
   price : FeedPrices, size : FeedSizes]
  \cup
  [action : {"C", "T"}, side : BOOLEAN, id : Ids,
   price : FeedPrices, size : {0}]

VARIABLE book
vars == <<book>>
-----------------------------------------------------------------------------
(* LimitPool: a LIFO free list threaded through Node::next. *)

AcquiredLimit(b) == IF b.lfree # Nil THEN b.lfree ELSE b.made + 1

\* Price, side and volume are set; head_ and tail_ are what the node held.
acquire(b, px, side) ==
  LET l == AcquiredLimit(b) IN
  [b EXCEPT !.lfree     = IF b.lfree # Nil THEN b.lnext[l] ELSE Nil,
            !.made      = IF b.lfree # Nil THEN @ ELSE @ + 1,
            !.lprice[l] = px,
            !.volume[l] = 0,
            !.lside[l]  = side]

release(b, l) == [b EXCEPT !.lnext[l] = b.lfree, !.lfree = l]

(* OrderPool: a LIFO free list threaded through Order::next_. *)

AcquiredOrder(b) == IF b.freelist # Nil THEN b.freelist ELSE b.carved + 1

get_order(b) ==
  LET o == AcquiredOrder(b) IN
  [b EXCEPT !.freelist = IF b.freelist # Nil THEN b.next[o] ELSE Nil,
            !.carved   = IF b.freelist # Nil THEN @ ELSE @ + 1,
            !.live     = @ \cup {o}]

\* Mutant: the returned cell does not link to the rest of the free list.
return_order_Unlinked(b, o) ==
  [b EXCEPT !.next[o] = Nil, !.prev[o] = Nil, !.freelist = o, !.live = @ \ {o}]

return_order(b, o) ==
  [b EXCEPT !.next[o]  = b.freelist,
            !.prev[o]  = Nil,
            !.freelist = o,
            !.live     = @ \ {o}]
-----------------------------------------------------------------------------
(* Limit: the FIFO of the orders resting at one price. *)

is_empty(b, l) == b.head[l] = Nil

limit_add_order(b, l, o) ==
  LET t == b.tail[l] IN
  [b EXCEPT !.prev      = [@ EXCEPT ![o] = t],
            !.next      = [x \in OrderCells |->
                             IF x = o THEN Nil ELSE IF x = t THEN o ELSE @[x]],
            !.head[l]   = IF t # Nil THEN @ ELSE o,
            !.tail[l]   = o,
            !.volume[l] = @ + b.size[o]]

\* Mutant: the back link of the successor is forgotten.
limit_remove_order_OneWay(b, l, o) ==
  LET p == b.prev[o]
      n == b.next[o] IN
  [b EXCEPT !.next      = [x \in OrderCells |-> IF x = p THEN n ELSE @[x]],
            !.head[l]   = IF p # Nil THEN @ ELSE n,
            !.tail[l]   = IF n # Nil THEN @ ELSE p,
            !.volume[l] = @ - b.size[o]]

limit_remove_order(b, l, o) ==
  LET p == b.prev[o]
      n == b.next[o] IN
  [b EXCEPT !.next      = [x \in OrderCells |-> IF x = p THEN n ELSE @[x]],
            !.prev      = [x \in OrderCells |-> IF x = n THEN p ELSE @[x]],
            !.head[l]   = IF p # Nil THEN @ ELSE n,
            !.tail[l]   = IF n # Nil THEN @ ELSE p,
            !.volume[l] = @ - b.size[o]]
-----------------------------------------------------------------------------
(* Orderbook *)

get_bid_idx(px) == MAX - px
get_ask_idx(px) == px - MIN
SlotIdx(side, px) == IF side THEN get_bid_idx(px) ELSE get_ask_idx(px)

get_or_insert_limit(b, side, px) ==
  LET i == SlotIdx(side, px) IN
  IF b.slots[side][i] # Nil THEN b
  ELSE [acquire(b, px, side) EXCEPT !.slots[side][i] = AcquiredLimit(b)]

\* The index the scan of adjust_bbo stops at: occupied, or one past the end.
ScanStop(slots, from) ==
  CHOOSE i \in from..RANGE :
    /\ i < RANGE => slots[i] # Nil
    /\ \A j \in from..(i - 1) : slots[j] = Nil

\* Mutant: the index is incremented before it is first tested.
adjust_bbo_FromNext(b, side) ==
  [b EXCEPT !.best[side] = ScanStop(b.slots[side], IF @ < RANGE THEN @ + 1 ELSE @)]

adjust_bbo(b, side) == [b EXCEPT !.best[side] = ScanStop(b.slots[side], @)]

add_order(b, side, id, px, sz) ==
  LET b1 == get_or_insert_limit(b, side, px)
      l  == b1.slots[side][SlotIdx(side, px)]
      o  == AcquiredOrder(b1)
      b2 == [get_order(b1) EXCEPT !.id[o]      = id,
                                  !.price[o]   = px,
                                  !.size[o]    = sz,
                                  !.side[o]    = side,
                                  !.parent[o]  = l,
                                  !.lookup[id] = o]
      b3 == limit_add_order(b2, l, o)
  IN  [b3 EXCEPT !.best[side] = IF SlotIdx(side, px) < @
                                THEN SlotIdx(side, px) ELSE @]

cancel_order(b, side, id) ==
  LET o == b.lookup[id] IN
  IF o = Nil THEN b
  ELSE LET l  == b.parent[o]
           b1 == limit_remove_order(b, l, o)
           b2 == return_order([b1 EXCEPT !.lookup[id] = Nil], o)
           b3 == [b2 EXCEPT !.slots[side][SlotIdx(side, b.lprice[l])] = Nil]
       IN  IF ~is_empty(b2, l) THEN b2
           ELSE adjust_bbo(release(b3, l), side)

\* Mutant: an order that grows keeps its place in the queue.
Replaces_MovedOnly(b, id, px, sz) == b.price[b.lookup[id]] # px

\* What modify_order tests before it cancels and re-adds a resting order.
Replaces(b, id, px, sz) ==
  LET o == b.lookup[id] IN b.price[o] # px \/ sz > b.size[o]

\* Mutant: the level is not told of the smaller size.
modify_order_SizeOnly(b, side, id, px, sz) ==
  LET o == b.lookup[id] IN
  IF o = Nil \/ Replaces(b, id, px, sz)
  THEN add_order(cancel_order(b, side, id), side, id, px, sz)
  ELSE [b EXCEPT !.size[o] = sz]

\* A resting order is replaced at the back of the queue when it moves or
\* grows; a smaller size is written in place.
modify_order(b, side, id, px, sz) ==
  LET o == b.lookup[id] IN
  IF o = Nil \/ Replaces(b, id, px, sz)
  THEN add_order(cancel_order(b, side, id), side, id, px, sz)
  ELSE [b EXCEPT !.volume[b.parent[o]] = @ + (sz - b.size[o]),
                 !.size[o]             = sz]

\* Memory for one more order at the price.  Without it the code throws
\* std::bad_alloc and the run is over.
HasMemory(b, side, px) ==
  /\ b.freelist = Nil => b.carved < MaxOrders
  /\ b.slots[side][SlotIdx(side, px)] = Nil /\ b.lfree = Nil
       => b.made < MaxLimits

(* Accessors: the quotes and depth a reader of the book sees. *)

best_bid(b) == IF b.best[TRUE] >= RANGE THEN 0 ELSE MAX - b.best[TRUE]
best_ask(b) == IF b.best[FALSE] >= RANGE THEN 0 ELSE MIN + b.best[FALSE]

BestLimit(b, side) == IF b.best[side] < RANGE THEN b.slots[side][b.best[side]] ELSE Nil

get_best_bid_price(b) ==
  IF BestLimit(b, TRUE) # Nil THEN b.lprice[BestLimit(b, TRUE)] ELSE 0
get_best_ask_price(b) ==
  IF BestLimit(b, FALSE) # Nil THEN b.lprice[BestLimit(b, FALSE)] ELSE 0

DepthAt(b, side, px) ==
  LET l == b.slots[side][SlotIdx(side, px)] IN IF l = Nil THEN 0 ELSE b.volume[l]
-----------------------------------------------------------------------------
(***************************************************************************)
(* The feed (external).  A message about a resting order carries the side  *)
(* the order rests on; unless DupAdds, an add carries an id that does not  *)
(* rest in the book.                                                       *)
(***************************************************************************)
FeedContract(m) ==
  LET o == book.lookup[m.id] IN
  o # Nil => CASE m.action = "A" -> DupAdds
               [] m.action \in {"M", "C"} -> m.side = book.side[o]
               [] OTHER -> TRUE

Init ==
  book =
    [slots    |-> [s \in BOOLEAN |-> [i \in Slots |-> Nil]],
     best     |-> [s \in BOOLEAN |-> RANGE],
     lookup   |-> [i \in Ids |-> Nil],
     id       |-> [o \in OrderCells |-> CHOOSE i \in Ids : TRUE],
     price    |-> [o \in OrderCells |-> MIN],
     size     |-> [o \in OrderCells |-> 0],
     side     |-> [o \in OrderCells |-> TRUE],
     next     |-> [o \in OrderCells |-> Nil],
     prev     |-> [o \in OrderCells |-> Nil],
     parent   |-> [o \in OrderCells |-> Nil],
     freelist |-> Nil,
     carved   |-> 0,
     live     |-> {},
     lprice   |-> [l \in LimitCells |-> 0],
     volume   |-> [l \in LimitCells |-> 0],
     lside    |-> [l \in LimitCells |-> FALSE],
     head     |-> [l \in LimitCells |-> Nil],
     tail     |-> [l \in LimitCells |-> Nil],
     lnext    |-> [l \in LimitCells |-> Nil],
     lfree    |-> Nil,
     made     |-> 0]

\* process_msg: the price filter, then the switch on the action.
Ignore(m) ==
  /\ ~Accepted(m.price) \/ m.action \notin {"A", "M", "C"}
  /\ UNCHANGED book

AddOrder(m) ==
  /\ Accepted(m.price) /\ m.action = "A"
  /\ HasMemory(book, m.side, m.price)
  /\ book' = add_order(book, m.side, m.id, m.price, m.size)

ModifyOrder(m) ==
  /\ Accepted(m.price) /\ m.action = "M"
  /\ book.lookup[m.id] = Nil \/ Replaces(book, m.id, m.price, m.size)
       => HasMemory(cancel_order(book, m.side, m.id), m.side, m.price)
  /\ book' = modify_order(book, m.side, m.id, m.price, m.size)

CancelOrder(m) ==
  /\ Accepted(m.price) /\ m.action = "C"
  /\ book' = cancel_order(book, m.side, m.id)

process_msg(m) == Ignore(m) \/ AddOrder(m) \/ ModifyOrder(m) \/ CancelOrder(m)

Next == \E m \in Messages : FeedContract(m) /\ process_msg(m)

Spec == Init /\ [][Next]_vars
-----------------------------------------------------------------------------
(***************************************************************************)
(* Properties.  Each is stated of a book b, so that the two books of a     *)
(* Backtester share them, and then of the variable.                        *)
(***************************************************************************)

UsedLimits(b)  == {b.slots[s][i] : s \in BOOLEAN, i \in Slots} \ {Nil}
FreeOrders(b)  == (1..b.carved) \ b.live
FreeLimits(b)  == (1..b.made) \ UsedLimits(b)

\* The members of an Orderbook and of the cells of its two pools.
Members ==
  {"slots", "best", "lookup",
   "id", "price", "size", "side", "next", "prev", "parent", "freelist", "carved", "live",
   "lprice", "volume", "lside", "head", "tail", "lnext", "lfree", "made"}
IsBook(b) == b = [m \in Members |-> b[m]]

\* The book is well typed: every pointer is null or a cell of its pool, an
\* index names a slot or is one past the end.
BookType(b) ==
  /\ IsBook(b)
  /\ b.slots    \in [BOOLEAN -> [Slots -> LimitCells \cup {Nil}]]
  /\ b.best     \in [BOOLEAN -> 0..RANGE]
  /\ b.lookup   \in [Ids -> OrderCells \cup {Nil}]
  /\ b.id       \in [OrderCells -> Ids]
  /\ b.price    \in [OrderCells -> MIN..MAX]
  /\ b.size     \in [OrderCells -> Nat]
  /\ b.side     \in [OrderCells -> BOOLEAN]
  /\ b.next     \in [OrderCells -> OrderCells \cup {Nil}]
  /\ b.prev     \in [OrderCells -> OrderCells \cup {Nil}]
  /\ b.parent   \in [OrderCells -> LimitCells \cup {Nil}]
  /\ b.freelist \in OrderCells \cup {Nil}
  /\ b.carved   \in 0..MaxOrders
  /\ b.live     \subseteq OrderCells
  /\ b.lprice   \in [LimitCells -> Int]
  /\ b.volume   \in [LimitCells -> Int]
  /\ b.lside    \in [LimitCells -> BOOLEAN]
  /\ b.head     \in [LimitCells -> OrderCells \cup {Nil}]
  /\ b.tail     \in [LimitCells -> OrderCells \cup {Nil}]
  /\ b.lnext    \in [LimitCells -> LimitCells \cup {Nil}]
  /\ b.lfree    \in LimitCells \cup {Nil}
  /\ b.made     \in 0..MaxLimits
TypeOK == BookType(book)

\* Every order handed out is linked into the level of its own side and price:
\* its neighbours are live orders of the same level that point back at it, and
\* it is the head (tail) of the level exactly when it has no neighbour there.
OrdersLinked(b) ==
  \A o \in b.live :
    LET l == b.parent[o] IN
    /\ l = b.slots[b.side[o]][SlotIdx(b.side[o], b.price[o])] /\ l # Nil
    /\ IF b.prev[o] = Nil THEN b.head[l] = o
       ELSE b.prev[o] \in b.live /\ b.parent[b.prev[o]] = l
                                 /\ b.next[b.prev[o]] = o
    /\ IF b.next[o] = Nil THEN b.tail[l] = o
       ELSE b.next[o] \in b.live /\ b.parent[b.next[o]] = l
                                 /\ b.prev[b.next[o]] = o

\* A level that is in the book is not empty, carries the price and side of its
\* slot, and both ends of its queue are live orders of that level.
LevelsSound(b) ==
  \A s \in BOOLEAN, i \in Slots :
    LET l == b.slots[s][i] IN
    l # Nil =>
      /\ l <= b.made /\ b.lside[l] = s /\ SlotIdx(s, b.lprice[l]) = i
      /\ b.head[l] \in b.live /\ b.parent[b.head[l]] = l /\ b.prev[b.head[l]] = Nil
      /\ b.tail[l] \in b.live /\ b.parent[b.tail[l]] = l /\ b.next[b.tail[l]] = Nil

\* order_lookup_ never yields a returned cell or another id's order.
LookupSound(b) ==
  \A i \in Ids : b.lookup[i] # Nil => /\ b.lookup[i] \in b.live
                                      /\ b.id[b.lookup[i]] = i

\* The free list of Order cells holds only cells that are not in use, no cell
\* twice, so no cell can be handed out to two orders.
OrderPoolSound(b) ==
  LET Free == FreeOrders(b) IN
  /\ b.live \subseteq 1..b.carved
  /\ b.freelist # Nil => b.freelist \in Free
  /\ \A o \in Free :
       b.next[o] # Nil =>
         /\ b.next[o] \in Free /\ b.next[o] # b.freelist
         /\ \A p \in Free : b.next[p] = b.next[o] => p = o

\* The same for the free list of Limit nodes.
LimitPoolSound(b) ==
  LET Free == FreeLimits(b) IN
  /\ b.lfree # Nil => b.lfree \in Free
  /\ \A l \in Free :
       b.lnext[l] # Nil =>
         /\ b.lnext[l] \in Free /\ b.lnext[l] # b.lfree
         /\ \A k \in Free : b.lnext[k] = b.lnext[l] => k = l

\* A node that is not in the book has an empty queue.  LimitPool::acquire does
\* not reset head_ and tail_, so a level that comes back from the pool is empty
\* only because it was empty when it was released.
IdleLimitsEmpty(b) ==
  \A l \in LimitCells \ UsedLimits(b) : b.head[l] = Nil /\ b.tail[l] = Nil

\* The heap of the book is sound: lists, slots, lookup table and both pools
\* agree, whatever sequence of adds, modifies and cancels led here.
HeapSound(b) ==
  /\ OrdersLinked(b) /\ LevelsSound(b) /\ LookupSound(b)
  /\ OrderPoolSound(b) /\ LimitPoolSound(b) /\ IdleLimitsEmpty(b)
MemorySafe == HeapSound(book)

\* best_bid_idx_ and best_ask_idx_ name the first occupied slot of their side,
\* or one past the end when the side is empty: the quotes strategies trade on.
BestIsFirst(b) ==
  \A s \in BOOLEAN :
    /\ \A i \in Slots : i < b.best[s] => b.slots[s][i] = Nil
    /\ b.best[s] < RANGE => b.slots[s][b.best[s]] # Nil
BestIsTopOfBook == BestIsFirst(book)

\* The quote computed from the best index and the quote read from the Limit that
\* is found there agree, on both sides, whichever accessor a reader uses.
QuotesAgree ==
  /\ best_bid(book) = get_best_bid_price(book)
  /\ best_ask(book) = get_best_ask_price(book)

\* A set of cells that holds the first cell of a list and, with each cell, the
\* next one.
HoldsList(S, nxt, first) ==
  first \in S \cup {Nil} /\ \A c \in S : nxt[c] \in S \cup {Nil}

\* The cells a list reaches: the least set that holds it.
Chain(nxt, first) ==
  {c \in DOMAIN nxt :
     \A S \in SUBSET DOMAIN nxt : HoldsList(S, nxt, first) => c \in S}

\* No cell leaks: each one ever carved is in use or will be handed out again.
PoolsComplete(b) ==
  /\ Chain(b.next, b.freelist) = FreeOrders(b)
  /\ Chain(b.lnext, b.lfree) = FreeLimits(b)
NothingLeaks == PoolsComplete(book)
=============================================================================
