-------------------------- MODULE OrderbookProofs --------------------------
(***************************************************************************)
(* Theorems about Orderbook for every value of its constants: memory, the  *)
(* best indices and the quotes.                                            *)
(*                                                                         *)
(* A method is a chain of assignments through several cells; a lemma says  *)
(* what each leaves in every field (AcquireFields ... CancelEffect), a     *)
(* second one that the links, the free lists and the best index agree      *)
(* afterwards (AddPreserves, CancelPreserves, ShrinkPreserves).            *)
(***************************************************************************)
EXTENDS Orderbook, WellFoundedInduction, TLAPS

\* The constants that the proofs use have the types the assumption gives them.
LEMMA Constants ==
  /\ MIN \in Int /\ MAX \in Int /\ MIN <= MAX
  /\ RANGE \in Nat /\ RANGE = MAX - MIN + 1
  /\ MaxOrders \in Nat /\ MaxLimits \in Nat
  /\ Nil = 0 /\ Nil \notin OrderCells /\ Nil \notin LimitCells
BY BookAssumption DEF BookAssumption, RANGE, Nil, OrderCells, LimitCells

\* What LimitPool::acquire leaves in every field of the book.
LEMMA AcquireFields ==
  ASSUME NEW b, BookType(b), NEW px \in MIN..MAX, NEW side \in BOOLEAN,
         b.lfree = Nil => b.made < MaxLimits,
         NEW l, l = AcquiredLimit(b), NEW c, c = acquire(b, px, side)
  PROVE  /\ l \in LimitCells
         /\ c.slots = b.slots /\ c.best = b.best /\ c.lookup = b.lookup
         /\ c.id = b.id /\ c.price = b.price /\ c.size = b.size /\ c.side = b.side
         /\ c.next = b.next /\ c.prev = b.prev /\ c.parent = b.parent
         /\ c.freelist = b.freelist /\ c.carved = b.carved /\ c.live = b.live
         /\ c.lprice = [b.lprice EXCEPT ![l] = px]
         /\ c.volume = [b.volume EXCEPT ![l] = 0]
         /\ c.lside = [b.lside EXCEPT ![l] = side]
         /\ c.head = b.head /\ c.tail = b.tail /\ c.lnext = b.lnext
         /\ c.lfree = IF b.lfree # Nil THEN b.lnext[l] ELSE Nil
         /\ c.made = IF b.lfree # Nil THEN b.made ELSE b.made + 1
         /\ BookType(c)
<1>0. /\ b.lfree \in LimitCells \cup {Nil} /\ b.made \in 0..MaxLimits
      /\ b.lnext \in [LimitCells -> LimitCells \cup {Nil}]
      /\ b.lprice \in [LimitCells -> Int] /\ b.volume \in [LimitCells -> Int]
      /\ b.lside \in [LimitCells -> BOOLEAN]
  BY DEF BookType
<1>1. l \in LimitCells
  BY SMTT(30), <1>0, Constants DEF AcquiredLimit, LimitCells
<1>2. IsBook(c)
  BY ZenonT(30) DEF acquire, BookType, IsBook, Members
<1>3. /\ c.slots = b.slots /\ c.best = b.best /\ c.lookup = b.lookup
      /\ c.id = b.id /\ c.price = b.price /\ c.size = b.size /\ c.side = b.side
      /\ c.next = b.next /\ c.prev = b.prev /\ c.parent = b.parent
      /\ c.freelist = b.freelist /\ c.carved = b.carved /\ c.live = b.live
      /\ c.head = b.head /\ c.tail = b.tail /\ c.lnext = b.lnext
  BY DEF acquire, BookType, IsBook, Members
<1>4. /\ c.lprice = [b.lprice EXCEPT ![l] = px]
      /\ c.volume = [b.volume EXCEPT ![l] = 0]
      /\ c.lside = [b.lside EXCEPT ![l] = side]
      /\ c.lfree = IF b.lfree # Nil THEN b.lnext[l] ELSE Nil
      /\ c.made = IF b.lfree # Nil THEN b.made ELSE b.made + 1
  BY DEF acquire, BookType, IsBook, Members
<1>5. /\ c.lprice \in [LimitCells -> Int]
      /\ c.volume \in [LimitCells -> Int]
      /\ c.lside \in [LimitCells -> BOOLEAN]
      /\ c.lfree \in LimitCells \cup {Nil}
  BY <1>0, <1>1, <1>4, Constants
<1>6. c.made \in 0..MaxLimits
  BY <1>0, <1>4, Constants
<1>7. BookType(c)
  BY <1>2, <1>3, <1>5, <1>6 DEF BookType
<1> QED BY <1>1, <1>3, <1>4, <1>7

\* A price of the window has a slot on either side.
LEMMA SlotIdxType ==
  ASSUME NEW px \in MIN..MAX, NEW side \in BOOLEAN
  PROVE  SlotIdx(side, px) \in Slots
BY Constants DEF SlotIdx, get_bid_idx, get_ask_idx, Slots

\* Two prices of the window never share a slot.
LEMMA SlotIdxInjective ==
  ASSUME NEW px \in Int, NEW qx \in Int, NEW side \in BOOLEAN,
         SlotIdx(side, px) = SlotIdx(side, qx)
  PROVE  px = qx
BY Constants DEF SlotIdx, get_bid_idx, get_ask_idx

\* What get_or_insert_limit does to a book b: the book c has the level l in
\* slot i, and nothing but the slot and the pool of limits has changed.
GetLimitEffect(b, c, side, px, i, l) ==
  /\ i \in Slots /\ l \in LimitCells /\ BookType(c) /\ l = c.slots[side][i]
  /\ c.best = b.best /\ c.lookup = b.lookup
  /\ c.id = b.id /\ c.price = b.price /\ c.size = b.size /\ c.side = b.side
  /\ c.next = b.next /\ c.prev = b.prev /\ c.parent = b.parent
  /\ c.freelist = b.freelist /\ c.carved = b.carved /\ c.live = b.live
  /\ c.head = b.head /\ c.tail = b.tail /\ c.lnext = b.lnext
  /\ b.slots[side][i] # Nil => c = b
  /\ b.slots[side][i] = Nil =>
       /\ l = AcquiredLimit(b)
       /\ c.slots = [b.slots EXCEPT ![side][i] = l]
       /\ c.lprice = [b.lprice EXCEPT ![l] = px]
       /\ c.volume = [b.volume EXCEPT ![l] = 0]
       /\ c.lside = [b.lside EXCEPT ![l] = side]
       /\ c.lfree = IF b.lfree # Nil THEN b.lnext[l] ELSE Nil
       /\ c.made = IF b.lfree # Nil THEN b.made ELSE b.made + 1

\* What get_or_insert_limit leaves in every field of the book: only a new
\* level changes anything, and it is an empty one.
LEMMA GetLimitFields ==
  ASSUME NEW b, BookType(b), NEW side \in BOOLEAN, NEW px \in MIN..MAX,
         HasMemory(b, side, px),
         NEW i, i = SlotIdx(side, px),
         NEW c, c = get_or_insert_limit(b, side, px),
         NEW l, l = c.slots[side][i]
  PROVE  GetLimitEffect(b, c, side, px, i, l)
<1>0. i \in Slots /\ b.slots \in [BOOLEAN -> [Slots -> LimitCells \cup {Nil}]]
  BY SlotIdxType DEF BookType
<1>1. CASE b.slots[side][i] # Nil
  <2>1. c = b
    BY <1>1 DEF get_or_insert_limit
  <2>2. l \in LimitCells
    BY <1>0, <1>1, <2>1
  <2> QED BY <1>0, <1>1, <2>1, <2>2 DEF GetLimitEffect
<1>2. CASE b.slots[side][i] = Nil
  <2> DEFINE k == AcquiredLimit(b)
  <2> DEFINE a == acquire(b, px, side)
  <2>1. b.lfree = Nil => b.made < MaxLimits
    BY <1>2 DEF HasMemory
  <2>2. /\ k \in LimitCells
        /\ a.slots = b.slots /\ a.best = b.best /\ a.lookup = b.lookup
        /\ a.id = b.id /\ a.price = b.price /\ a.size = b.size /\ a.side = b.side
        /\ a.next = b.next /\ a.prev = b.prev /\ a.parent = b.parent
        /\ a.freelist = b.freelist /\ a.carved = b.carved /\ a.live = b.live
        /\ a.lprice = [b.lprice EXCEPT ![k] = px]
        /\ a.volume = [b.volume EXCEPT ![k] = 0]
        /\ a.lside = [b.lside EXCEPT ![k] = side]
        /\ a.head = b.head /\ a.tail = b.tail /\ a.lnext = b.lnext
        /\ a.lfree = IF b.lfree # Nil THEN b.lnext[k] ELSE Nil
        /\ a.made = IF b.lfree # Nil THEN b.made ELSE b.made + 1
        /\ BookType(a)
    BY <2>1, AcquireFields
  <2>3. c = [a EXCEPT !.slots[side][i] = k]
    BY <1>2 DEF get_or_insert_limit
  <2> HIDE DEF a, k
  <2>t. IsBook(a)
    BY <2>2 DEF BookType
  <2>4a. IsBook(c)
    BY <2>t, <2>3 DEF IsBook, Members
  <2>4b. c.slots = [a.slots EXCEPT ![side][i] = k]
    BY <2>t, <2>3 DEF IsBook, Members
  <2>4. /\ c.best = a.best /\ c.lookup = a.lookup
        /\ c.id = a.id /\ c.price = a.price /\ c.size = a.size /\ c.side = a.side
        /\ c.next = a.next /\ c.prev = a.prev /\ c.parent = a.parent
        /\ c.freelist = a.freelist /\ c.carved = a.carved /\ c.live = a.live
        /\ c.lprice = a.lprice /\ c.volume = a.volume /\ c.lside = a.lside
        /\ c.head = a.head /\ c.tail = a.tail /\ c.lnext = a.lnext
        /\ c.lfree = a.lfree /\ c.made = a.made
    BY <2>t, <2>3 DEF IsBook, Members
  <2>5. c.slots \in [BOOLEAN -> [Slots -> LimitCells \cup {Nil}]] /\ l = k
    BY <1>0, <2>2, <2>4b
  <2>6. BookType(c)
    BY Zenon, <2>2, <2>4, <2>4a, <2>5 DEF BookType
  <2> QED BY <1>2, <2>2, <2>4, <2>4b, <2>5, <2>6, <1>0 DEF k, GetLimitEffect
<1> QED BY <1>1, <1>2

\* What add_order then does to the book c with the level l: a cell o is taken
\* from the pool and linked behind the last order t.
AddEffect(c, f, side, id, px, sz, i, l, o, t) ==
  /\ o = AcquiredOrder(c) /\ o \in OrderCells /\ t = c.tail[l] /\ BookType(f)
  /\ f.slots = c.slots
  /\ f.best = [c.best EXCEPT ![side] = IF i < c.best[side] THEN i ELSE c.best[side]]
  /\ f.lookup = [c.lookup EXCEPT ![id] = o]
  /\ f.id = [c.id EXCEPT ![o] = id]
  /\ f.price = [c.price EXCEPT ![o] = px]
  /\ f.size = [c.size EXCEPT ![o] = sz]
  /\ f.side = [c.side EXCEPT ![o] = side]
  /\ f.parent = [c.parent EXCEPT ![o] = l]
  /\ f.next = [x \in OrderCells |->
                 IF x = o THEN Nil ELSE IF x = t THEN o ELSE c.next[x]]
  /\ f.prev = [c.prev EXCEPT ![o] = t]
  /\ f.freelist = IF c.freelist # Nil THEN c.next[o] ELSE Nil
  /\ f.carved = IF c.freelist # Nil THEN c.carved ELSE c.carved + 1
  /\ f.live = c.live \cup {o}
  /\ f.lprice = c.lprice /\ f.lside = c.lside
  /\ f.volume = [c.volume EXCEPT ![l] = c.volume[l] + sz]
  /\ f.head = [c.head EXCEPT ![l] = IF t # Nil THEN c.head[l] ELSE o]
  /\ f.tail = [c.tail EXCEPT ![l] = o]
  /\ f.lnext = c.lnext /\ f.lfree = c.lfree /\ f.made = c.made

\* What add_order leaves in every field of the book, in terms of the level,
\* the cell and the former tail it works on.
LEMMA AddFields ==
  ASSUME NEW b, BookType(b), NEW side \in BOOLEAN, NEW id \in Ids,
         NEW px \in MIN..MAX, NEW sz \in Nat, HasMemory(b, side, px),
         NEW c, c = get_or_insert_limit(b, side, px),
         NEW i, i = SlotIdx(side, px),
         NEW l, l = c.slots[side][i],
         NEW o, o = AcquiredOrder(c),
         NEW t, t = c.tail[l],
         NEW f, f = add_order(b, side, id, px, sz)
  PROVE  AddEffect(c, f, side, id, px, sz, i, l, o, t)
<1> DEFINE g == get_order(c)
<1> DEFINE d == [g EXCEPT !.id[o]      = id,
                          !.price[o]   = px,
                          !.size[o]    = sz,
                          !.side[o]    = side,
                          !.parent[o]  = l,
                          !.lookup[id] = o]
<1> DEFINE e == limit_add_order(d, l, o)
<1>1. f = [e EXCEPT !.best[side] = IF i < e.best[side] THEN i ELSE e.best[side]]
  BY SMTT(30) DEF add_order
<1>2. /\ l \in LimitCells /\ BookType(c) /\ IsBook(c)
      /\ c.freelist = Nil => c.carved < MaxOrders
  <2>1. /\ l \in LimitCells /\ BookType(c)
        /\ c.freelist = b.freelist /\ c.carved = b.carved
    <3>1. GetLimitEffect(b, c, side, px, i, l)
      BY GetLimitFields
    <3> QED BY <3>1 DEF GetLimitEffect
  <2>2. b.freelist = Nil => b.carved < MaxOrders
    BY DEF HasMemory
  <2> QED BY <2>1, <2>2 DEF BookType
<1>3. g = [c EXCEPT !.freelist = IF c.freelist # Nil THEN c.next[o] ELSE Nil,
                    !.carved   = IF c.freelist # Nil THEN c.carved ELSE c.carved + 1,
                    !.live     = c.live \cup {o}]
  BY DEF get_order
<1>4. d = [g EXCEPT !.id[o]      = id,
                    !.price[o]   = px,
                    !.size[o]    = sz,
                    !.side[o]    = side,
                    !.parent[o]  = l,
                    !.lookup[id] = o]
  BY Zenon
<1>5. e = [d EXCEPT !.prev      = [d.prev EXCEPT ![o] = d.tail[l]],
                    !.next      = [x \in OrderCells |-> IF x = o THEN Nil
                                      ELSE IF x = d.tail[l] THEN o ELSE d.next[x]],
                    !.head[l]   = IF d.tail[l] # Nil THEN d.head[l] ELSE o,
                    !.tail[l]   = o,
                    !.volume[l] = d.volume[l] + d.size[o]]
  BY DEF limit_add_order
<1> HIDE DEF e, d, g
<1>6. /\ IsBook(g)
      /\ g.slots = c.slots /\ g.best = c.best /\ g.lookup = c.lookup
      /\ g.id = c.id /\ g.price = c.price /\ g.size = c.size /\ g.side = c.side
      /\ g.next = c.next /\ g.prev = c.prev /\ g.parent = c.parent
      /\ g.freelist = IF c.freelist # Nil THEN c.next[o] ELSE Nil
      /\ g.carved = IF c.freelist # Nil THEN c.carved ELSE c.carved + 1
      /\ g.live = c.live \cup {o}
      /\ g.lprice = c.lprice /\ g.volume = c.volume /\ g.lside = c.lside
      /\ g.head = c.head /\ g.tail = c.tail
      /\ g.lnext = c.lnext /\ g.lfree = c.lfree /\ g.made = c.made
  BY <1>2, <1>3 DEF IsBook, Members
<1>7. IsBook(d)
  BY ZenonT(30), <1>4, <1>6 DEF IsBook, Members
<1>8. /\ d.slots = g.slots /\ d.best = g.best
      /\ d.next = g.next /\ d.prev = g.prev
      /\ d.freelist = g.freelist /\ d.carved = g.carved /\ d.live = g.live
      /\ d.lprice = g.lprice /\ d.volume = g.volume /\ d.lside = g.lside
      /\ d.head = g.head /\ d.tail = g.tail
      /\ d.lnext = g.lnext /\ d.lfree = g.lfree /\ d.made = g.made
  BY <1>4, <1>6 DEF IsBook, Members
<1>9. /\ d.lookup = [g.lookup EXCEPT ![id] = o]
      /\ d.id = [g.id EXCEPT ![o] = id]
      /\ d.price = [g.price EXCEPT ![o] = px]
      /\ d.size = [g.size EXCEPT ![o] = sz]
      /\ d.side = [g.side EXCEPT ![o] = side]
      /\ d.parent = [g.parent EXCEPT ![o] = l]
  BY Zenon, <1>4, <1>6 DEF IsBook, Members
<1>10. /\ IsBook(e)
       /\ e.slots = d.slots /\ e.best = d.best /\ e.lookup = d.lookup
       /\ e.id = d.id /\ e.price = d.price /\ e.size = d.size /\ e.side = d.side
       /\ e.parent = d.parent
       /\ e.freelist = d.freelist /\ e.carved = d.carved /\ e.live = d.live
       /\ e.lprice = d.lprice /\ e.lside = d.lside
       /\ e.lnext = d.lnext /\ e.lfree = d.lfree /\ e.made = d.made
  BY ZenonT(30), <1>5, <1>7 DEF IsBook, Members
<1>11. /\ e.next = [x \in OrderCells |-> IF x = o THEN Nil
                       ELSE IF x = d.tail[l] THEN o ELSE d.next[x]]
       /\ e.prev = [d.prev EXCEPT ![o] = d.tail[l]]
       /\ e.volume = [d.volume EXCEPT ![l] = d.volume[l] + d.size[o]]
       /\ e.head = [d.head EXCEPT ![l] = IF d.tail[l] # Nil THEN d.head[l] ELSE o]
       /\ e.tail = [d.tail EXCEPT ![l] = o]
  BY <1>5, <1>7 DEF IsBook, Members
<1>12. /\ IsBook(f)
       /\ f.slots = e.slots /\ f.lookup = e.lookup
       /\ f.id = e.id /\ f.price = e.price /\ f.size = e.size /\ f.side = e.side
       /\ f.next = e.next /\ f.prev = e.prev /\ f.parent = e.parent
       /\ f.freelist = e.freelist /\ f.carved = e.carved /\ f.live = e.live
       /\ f.lprice = e.lprice /\ f.volume = e.volume /\ f.lside = e.lside
       /\ f.head = e.head /\ f.tail = e.tail
       /\ f.lnext = e.lnext /\ f.lfree = e.lfree /\ f.made = e.made
  BY <1>1, <1>10 DEF IsBook, Members
<1>13. f.best = [e.best EXCEPT ![side] = IF i < e.best[side] THEN i ELSE e.best[side]]
  BY <1>1, <1>10 DEF IsBook, Members
<1>14. /\ c.freelist \in OrderCells \cup {Nil} /\ c.carved \in 0..MaxOrders
       /\ c.live \subseteq OrderCells /\ i \in Slots
       /\ c.best \in [BOOLEAN -> 0..RANGE]
       /\ c.lookup \in [Ids -> OrderCells \cup {Nil}]
  BY <1>2, SlotIdxType DEF BookType
<1>15. /\ c.id \in [OrderCells -> Ids] /\ c.price \in [OrderCells -> MIN..MAX]
       /\ c.size \in [OrderCells -> Nat] /\ c.side \in [OrderCells -> BOOLEAN]
       /\ c.parent \in [OrderCells -> LimitCells \cup {Nil}]
       /\ c.next \in [OrderCells -> OrderCells \cup {Nil}]
       /\ c.prev \in [OrderCells -> OrderCells \cup {Nil}]
       /\ c.volume \in [LimitCells -> Int]
       /\ c.head \in [LimitCells -> OrderCells \cup {Nil}]
       /\ c.tail \in [LimitCells -> OrderCells \cup {Nil}]
  BY <1>2 DEF BookType
<1>16. o \in OrderCells
  BY <1>2, <1>14, Constants DEF AcquiredOrder, OrderCells
<1>17. /\ f.slots = c.slots
       /\ f.best = [c.best EXCEPT ![side] = IF i < c.best[side] THEN i ELSE c.best[side]]
       /\ f.lookup = [c.lookup EXCEPT ![id] = o]
       /\ f.id = [c.id EXCEPT ![o] = id]
       /\ f.price = [c.price EXCEPT ![o] = px]
       /\ f.size = [c.size EXCEPT ![o] = sz]
       /\ f.side = [c.side EXCEPT ![o] = side]
       /\ f.parent = [c.parent EXCEPT ![o] = l]
       /\ f.freelist = IF c.freelist # Nil THEN c.next[o] ELSE Nil
       /\ f.carved = IF c.freelist # Nil THEN c.carved ELSE c.carved + 1
       /\ f.live = c.live \cup {o}
       /\ f.lprice = c.lprice /\ f.lside = c.lside
       /\ f.lnext = c.lnext /\ f.lfree = c.lfree /\ f.made = c.made
  BY <1>6, <1>8, <1>9, <1>10, <1>12, <1>13
<1>18. /\ f.next = [x \in OrderCells |->
                       IF x = o THEN Nil ELSE IF x = t THEN o ELSE c.next[x]]
       /\ f.prev = [c.prev EXCEPT ![o] = t]
       /\ f.head = [c.head EXCEPT ![l] = IF t # Nil THEN c.head[l] ELSE o]
       /\ f.tail = [c.tail EXCEPT ![l] = o]
  <2>1. f.next = e.next /\ f.prev = e.prev /\ f.head = e.head /\ f.tail = e.tail
    BY <1>12
  <2>2. d.next = c.next /\ d.prev = c.prev /\ d.head = c.head /\ d.tail = c.tail
    BY <1>6, <1>8
  <2>3. e.next = [x \in OrderCells |-> IF x = o THEN Nil
                                      ELSE IF x = t THEN o ELSE c.next[x]]
    BY <2>2, <1>11
  <2>4. /\ e.prev = [c.prev EXCEPT ![o] = t]
        /\ e.head = [c.head EXCEPT ![l] = IF t # Nil THEN c.head[l] ELSE o]
        /\ e.tail = [c.tail EXCEPT ![l] = o]
    BY <2>2, <1>11
  <2> QED BY Zenon, <2>1, <2>3, <2>4
<1>19. f.volume = [c.volume EXCEPT ![l] = c.volume[l] + sz]
  <2>1. d.size[o] = sz
    BY <1>6, <1>9, <1>15, <1>16
  <2> QED BY SMTT(30), <2>1, <1>6, <1>8, <1>11, <1>12
<1>20. /\ f.best \in [BOOLEAN -> 0..RANGE]
       /\ f.lookup \in [Ids -> OrderCells \cup {Nil}]
       /\ f.freelist \in OrderCells \cup {Nil} /\ f.carved \in 0..MaxOrders
       /\ f.live \subseteq OrderCells
  <2>1. i \in 0..RANGE
    BY <1>14, Constants DEF Slots
  <2>2. /\ f.best \in [BOOLEAN -> 0..RANGE]
        /\ f.lookup \in [Ids -> OrderCells \cup {Nil}]
        /\ f.freelist \in OrderCells \cup {Nil}
        /\ f.live \subseteq OrderCells
    BY <2>1, <1>14, <1>15, <1>16, <1>17
  <2>3. f.carved \in 0..MaxOrders
    BY <1>2, <1>14, <1>17, Constants
  <2> QED BY <2>2, <2>3
<1>21. /\ f.id \in [OrderCells -> Ids] /\ f.price \in [OrderCells -> MIN..MAX]
       /\ f.size \in [OrderCells -> Nat] /\ f.side \in [OrderCells -> BOOLEAN]
       /\ f.parent \in [OrderCells -> LimitCells \cup {Nil}]
  BY <1>2, <1>15, <1>16, <1>17
<1>22. t \in OrderCells \cup {Nil}
  BY Zenon, <1>2, <1>15
<1>23. /\ f.next \in [OrderCells -> OrderCells \cup {Nil}]
       /\ f.prev \in [OrderCells -> OrderCells \cup {Nil}]
       /\ f.head \in [LimitCells -> OrderCells \cup {Nil}]
       /\ f.tail \in [LimitCells -> OrderCells \cup {Nil}]
  <2>1. f.next \in [OrderCells -> OrderCells \cup {Nil}]
    <3>1. ASSUME NEW x \in OrderCells
          PROVE  (IF x = o THEN Nil ELSE IF x = t THEN o ELSE c.next[x]) \in OrderCells \cup {Nil}
      BY <1>15, <1>16
    <3>2. f.next = [x \in OrderCells |-> IF x = o THEN Nil ELSE IF x = t THEN o ELSE c.next[x]]
      BY <1>18
    <3> QED BY <3>1, <3>2
  <2>2. f.prev \in [OrderCells -> OrderCells \cup {Nil}]
    <3>1. c.prev \in [OrderCells -> OrderCells \cup {Nil}] /\ f.prev = [c.prev EXCEPT ![o] = t]
      BY <1>15, <1>18
    <3> QED BY <1>22, <3>1
  <2>3. f.head \in [LimitCells -> OrderCells \cup {Nil}]
    <3>1. /\ c.head \in [LimitCells -> OrderCells \cup {Nil}]
          /\ f.head = [c.head EXCEPT ![l] = IF t # Nil THEN c.head[l] ELSE o]
      BY <1>15, <1>18
    <3>2. (IF t # Nil THEN c.head[l] ELSE o) \in OrderCells \cup {Nil}
      BY <1>2, <1>16, <3>1
    <3> QED BY Zenon, <3>1, <3>2
  <2>4. f.tail \in [LimitCells -> OrderCells \cup {Nil}]
    <3>1. c.tail \in [LimitCells -> OrderCells \cup {Nil}] /\ f.tail = [c.tail EXCEPT ![l] = o]
      BY <1>15, <1>18
    <3> QED BY <1>16, <3>1
  <2> QED BY <2>1, <2>2, <2>3, <2>4
<1>24. f.volume \in [LimitCells -> Int]
  BY <1>2, <1>15, <1>19
<1>25. BookType(f)
  BY <1>2, <1>12, <1>17, <1>20, <1>21, <1>23, <1>24 DEF BookType
<1> QED BY Zenon, <1>16, <1>17, <1>18, <1>19, <1>25 DEF AddEffect

\* The scan of adjust_bbo stops, at the first occupied slot from where it
\* started or one past the end.
LEMMA ScanStopFirst ==
  ASSUME NEW slots, NEW from \in 0..RANGE
  PROVE  LET k == ScanStop(slots, from) IN
         /\ k \in from..RANGE
         /\ k < RANGE => slots[k] # Nil
         /\ \A j \in from..(k - 1) : slots[j] = Nil
<1> DEFINE T == {k \in from..RANGE : k < RANGE => slots[k] # Nil}
<1>1. RANGE \in T /\ T \subseteq Nat
  BY Constants
<1>2. PICK k \in T : \A j \in T : ~(<<j, k>> \in OpToRel(<, Nat))
  <2>1. T # {}
    BY <1>1
  <2> HIDE DEF T
  <2> QED BY <1>1, <2>1, NatLessThanWellFounded, WFMin, Zenon
<1>3. \A j \in T : ~(j < k)
  BY <1>1, <1>2 DEF OpToRel
<1>4. \A j \in from..(k - 1) : slots[j] = Nil
  BY <1>3, Constants
<1>5. k \in from..RANGE /\ (k < RANGE => slots[k] # Nil)
  BY Zenon
<1> QED BY <1>4, <1>5 DEF ScanStop

\* What cancel_order does to a book b in which id names the order o of level l
\* in slot i, with neighbours p and n.
CancelEffect(b, c, side, id, i, l, o, p, n) ==
  /\ BookType(c)
  /\ c.lookup = [b.lookup EXCEPT ![id] = Nil]
  /\ c.id = b.id /\ c.price = b.price /\ c.size = b.size /\ c.side = b.side
  /\ c.parent = b.parent
  /\ c.next = [x \in OrderCells |->
                 IF x = o THEN b.freelist ELSE IF x = p THEN n ELSE b.next[x]]
  /\ c.prev = [x \in OrderCells |->
                 IF x = o THEN Nil ELSE IF x = n THEN p ELSE b.prev[x]]
  /\ c.freelist = o /\ c.carved = b.carved /\ c.live = b.live \ {o}
  /\ c.lprice = b.lprice /\ c.lside = b.lside /\ c.made = b.made
  /\ c.volume = [b.volume EXCEPT ![l] = b.volume[l] - b.size[o]]
  /\ c.head = [b.head EXCEPT ![l] = IF p # Nil THEN b.head[l] ELSE n]
  /\ c.tail = [b.tail EXCEPT ![l] = IF n # Nil THEN b.tail[l] ELSE p]
  /\ c.head[l] # Nil =>
       /\ c.slots = b.slots /\ c.best = b.best
       /\ c.lnext = b.lnext /\ c.lfree = b.lfree
  /\ c.head[l] = Nil =>
       /\ c.slots = [b.slots EXCEPT ![side][i] = Nil]
       /\ c.best = [b.best EXCEPT ![side] = ScanStop(c.slots[side], b.best[side])]
       /\ c.lnext = [b.lnext EXCEPT ![l] = b.lfree] /\ c.lfree = l

\* What cancel_order leaves in every field of the book when the id rests in it.
LEMMA CancelFields ==
  ASSUME NEW b, BookType(b), NEW side \in BOOLEAN, NEW id \in Ids,
         NEW o \in OrderCells, o = b.lookup[id],
         NEW l \in LimitCells, l = b.parent[o],
         NEW i \in Slots, i = SlotIdx(side, b.lprice[l]),
         NEW p, p = b.prev[o],
         NEW n, n = b.next[o],
         NEW c, c = cancel_order(b, side, id)
  PROVE  CancelEffect(b, c, side, id, i, l, o, p, n)
<1> DEFINE r == limit_remove_order(b, l, o)
<1> DEFINE d == [r EXCEPT !.lookup[id] = Nil]
<1> DEFINE e == return_order(d, o)
<1> DEFINE g == [e EXCEPT !.slots[side][i] = Nil]
<1> DEFINE h == release(g, l)
<1>1. IsBook(b) /\ o # Nil
  BY Constants DEF BookType
<1>2. r = [b EXCEPT !.next      = [x \in OrderCells |-> IF x = p THEN n ELSE b.next[x]],
                    !.prev      = [x \in OrderCells |-> IF x = n THEN p ELSE b.prev[x]],
                    !.head[l]   = IF p # Nil THEN b.head[l] ELSE n,
                    !.tail[l]   = IF n # Nil THEN b.tail[l] ELSE p,
                    !.volume[l] = b.volume[l] - b.size[o]]
  BY DEF limit_remove_order
<1>3. d = [r EXCEPT !.lookup[id] = Nil]
  OBVIOUS
<1>4. e = [d EXCEPT !.next[o] = d.freelist, !.prev[o] = Nil, !.freelist = o,
                    !.live = d.live \ {o}]
  BY DEF return_order
<1>5. g = [e EXCEPT !.slots[side][i] = Nil]
  OBVIOUS
<1>6. h = [g EXCEPT !.lnext[l] = g.lfree, !.lfree = l]
  BY Zenon DEF release
<1>7. /\ e.head[l] # Nil => c = e
      /\ e.head[l] = Nil => c = [h EXCEPT !.best[side] = ScanStop(h.slots[side], h.best[side])]
  BY ZenonT(30), <1>1 DEF cancel_order, is_empty, adjust_bbo
<1> HIDE DEF r, d, e, g, h
<1>8. /\ IsBook(r)
      /\ r.slots = b.slots /\ r.best = b.best /\ r.lookup = b.lookup
      /\ r.id = b.id /\ r.price = b.price /\ r.size = b.size /\ r.side = b.side
      /\ r.parent = b.parent
      /\ r.freelist = b.freelist /\ r.carved = b.carved /\ r.live = b.live
      /\ r.lprice = b.lprice /\ r.lside = b.lside
      /\ r.lnext = b.lnext /\ r.lfree = b.lfree /\ r.made = b.made
  BY ZenonT(30), <1>1, <1>2 DEF IsBook, Members
<1>9. /\ r.next = [x \in OrderCells |-> IF x = p THEN n ELSE b.next[x]]
      /\ r.prev = [x \in OrderCells |-> IF x = n THEN p ELSE b.prev[x]]
      /\ r.head = [b.head EXCEPT ![l] = IF p # Nil THEN b.head[l] ELSE n]
      /\ r.tail = [b.tail EXCEPT ![l] = IF n # Nil THEN b.tail[l] ELSE p]
      /\ r.volume = [b.volume EXCEPT ![l] = b.volume[l] - b.size[o]]
  BY Zenon, <1>1, <1>2 DEF IsBook, Members
<1>10. /\ IsBook(d)
       /\ d.lookup = [r.lookup EXCEPT ![id] = Nil]
       /\ d.slots = r.slots /\ d.best = r.best
       /\ d.id = r.id /\ d.price = r.price /\ d.size = r.size /\ d.side = r.side
       /\ d.next = r.next /\ d.prev = r.prev /\ d.parent = r.parent
       /\ d.freelist = r.freelist /\ d.carved = r.carved /\ d.live = r.live
       /\ d.lprice = r.lprice /\ d.volume = r.volume /\ d.lside = r.lside
       /\ d.head = r.head /\ d.tail = r.tail
       /\ d.lnext = r.lnext /\ d.lfree = r.lfree /\ d.made = r.made
  BY ZenonT(30), <1>3, <1>8 DEF IsBook, Members
<1>11. /\ IsBook(e)
       /\ e.slots = d.slots /\ e.best = d.best /\ e.lookup = d.lookup
       /\ e.id = d.id /\ e.price = d.price /\ e.size = d.size /\ e.side = d.side
       /\ e.parent = d.parent /\ e.carved = d.carved
       /\ e.lprice = d.lprice /\ e.volume = d.volume /\ e.lside = d.lside
       /\ e.head = d.head /\ e.tail = d.tail
       /\ e.lnext = d.lnext /\ e.lfree = d.lfree /\ e.made = d.made
  BY ZenonT(30), <1>4, <1>10 DEF IsBook, Members
<1>12. /\ e.next = [d.next EXCEPT ![o] = d.freelist]
       /\ e.prev = [d.prev EXCEPT ![o] = Nil]
       /\ e.freelist = o /\ e.live = d.live \ {o}
  BY <1>4, <1>10 DEF IsBook, Members
<1>13. IsBook(g) /\ g.slots = [e.slots EXCEPT ![side][i] = Nil]
  BY Zenon, <1>5, <1>11 DEF IsBook, Members
<1>14. /\ g.best = e.best /\ g.lookup = e.lookup
       /\ g.id = e.id /\ g.price = e.price /\ g.size = e.size /\ g.side = e.side
       /\ g.next = e.next /\ g.prev = e.prev /\ g.parent = e.parent
       /\ g.freelist = e.freelist /\ g.carved = e.carved /\ g.live = e.live
       /\ g.lprice = e.lprice /\ g.volume = e.volume /\ g.lside = e.lside
       /\ g.head = e.head /\ g.tail = e.tail
       /\ g.lnext = e.lnext /\ g.lfree = e.lfree /\ g.made = e.made
  BY Zenon, <1>5, <1>11 DEF IsBook, Members
<1>15. /\ IsBook(h)
       /\ h.slots = g.slots /\ h.best = g.best /\ h.lookup = g.lookup
       /\ h.id = g.id /\ h.price = g.price /\ h.size = g.size /\ h.side = g.side
       /\ h.next = g.next /\ h.prev = g.prev /\ h.parent = g.parent
       /\ h.freelist = g.freelist /\ h.carved = g.carved /\ h.live = g.live
       /\ h.lprice = g.lprice /\ h.volume = g.volume /\ h.lside = g.lside
       /\ h.head = g.head /\ h.tail = g.tail
       /\ h.lnext = [g.lnext EXCEPT ![l] = g.lfree] /\ h.lfree = l /\ h.made = g.made
  BY Zenon, <1>6, <1>13 DEF IsBook, Members
<1>16. /\ b.slots \in [BOOLEAN -> [Slots -> LimitCells \cup {Nil}]]
       /\ b.best \in [BOOLEAN -> 0..RANGE]
       /\ b.lookup \in [Ids -> OrderCells \cup {Nil}]
       /\ b.next \in [OrderCells -> OrderCells \cup {Nil}]
       /\ b.prev \in [OrderCells -> OrderCells \cup {Nil}]
       /\ b.freelist \in OrderCells \cup {Nil} /\ b.live \subseteq OrderCells
  BY DEF BookType
<1>17. /\ b.head \in [LimitCells -> OrderCells \cup {Nil}]
       /\ b.tail \in [LimitCells -> OrderCells \cup {Nil}]
       /\ b.lnext \in [LimitCells -> LimitCells \cup {Nil}]
       /\ b.lfree \in LimitCells \cup {Nil}
       /\ b.volume \in [LimitCells -> Int] /\ b.size \in [OrderCells -> Nat]
  BY DEF BookType
\* Both outcomes agree on everything but slots, best and the limit pool.
<1>18. /\ IsBook(e)
       /\ e.slots = b.slots /\ e.best = b.best
       /\ e.lookup = [b.lookup EXCEPT ![id] = Nil]
       /\ e.id = b.id /\ e.price = b.price /\ e.size = b.size /\ e.side = b.side
       /\ e.parent = b.parent
       /\ e.freelist = o /\ e.carved = b.carved /\ e.live = b.live \ {o}
       /\ e.lprice = b.lprice /\ e.lside = b.lside
       /\ e.lnext = b.lnext /\ e.lfree = b.lfree /\ e.made = b.made
  BY ZenonT(30), <1>8, <1>10, <1>11, <1>12
<1>19. /\ e.head = [b.head EXCEPT ![l] = IF p # Nil THEN b.head[l] ELSE n]
       /\ e.tail = [b.tail EXCEPT ![l] = IF n # Nil THEN b.tail[l] ELSE p]
       /\ e.volume = [b.volume EXCEPT ![l] = b.volume[l] - b.size[o]]
  BY Zenon, <1>9, <1>10, <1>11
<1>20. /\ e.next = [x \in OrderCells |->
                      IF x = o THEN b.freelist ELSE IF x = p THEN n ELSE b.next[x]]
       /\ e.prev = [x \in OrderCells |->
                      IF x = o THEN Nil ELSE IF x = n THEN p ELSE b.prev[x]]
  <2>1. /\ r.next = [x \in OrderCells |-> IF x = p THEN n ELSE b.next[x]]
        /\ r.prev = [x \in OrderCells |-> IF x = n THEN p ELSE b.prev[x]]
    BY Zenon, <1>9
  <2>2. d.next = r.next /\ d.prev = r.prev /\ d.freelist = b.freelist
    BY <1>8, <1>10
  <2>3. e.next = [r.next EXCEPT ![o] = b.freelist] /\ e.prev = [r.prev EXCEPT ![o] = Nil]
    BY <2>2, <1>12
  <2>4. e.next = [[x \in OrderCells |-> IF x = p THEN n ELSE b.next[x]]
                    EXCEPT ![o] = b.freelist]
    BY <2>1, <2>3, Zenon
  <2>5. e.prev = [[x \in OrderCells |-> IF x = n THEN p ELSE b.prev[x]]
                    EXCEPT ![o] = Nil]
    BY <2>1, <2>3, Zenon
  <2> QED BY Zenon, <2>4, <2>5
<1>21. p \in OrderCells \cup {Nil} /\ n \in OrderCells \cup {Nil}
  BY <1>16
<1>22. /\ e.lookup \in [Ids -> OrderCells \cup {Nil}]
       /\ e.freelist \in OrderCells \cup {Nil} /\ e.live \subseteq OrderCells
       /\ e.head \in [LimitCells -> OrderCells \cup {Nil}]
       /\ e.tail \in [LimitCells -> OrderCells \cup {Nil}]
  <2>1. /\ e.lookup \in [Ids -> OrderCells \cup {Nil}]
        /\ e.freelist \in OrderCells \cup {Nil} /\ e.live \subseteq OrderCells
    BY Zenon, <1>16, <1>18
  <2>2. e.head \in [LimitCells -> OrderCells \cup {Nil}]
    <3>1. (IF p # Nil THEN b.head[l] ELSE n) \in OrderCells \cup {Nil}
      BY <1>17, <1>21
    <3>2. e.head = [b.head EXCEPT ![l] = IF p # Nil THEN b.head[l] ELSE n]
      BY <1>19
    <3> QED BY <1>17, <3>1, <3>2
  <2>3. e.tail \in [LimitCells -> OrderCells \cup {Nil}]
    <3>1. (IF n # Nil THEN b.tail[l] ELSE p) \in OrderCells \cup {Nil}
      BY <1>17, <1>21
    <3>2. e.tail = [b.tail EXCEPT ![l] = IF n # Nil THEN b.tail[l] ELSE p]
      BY <1>19
    <3> QED BY <1>17, <3>1, <3>2
  <2> QED BY <2>1, <2>2, <2>3
<1>23. /\ e.next \in [OrderCells -> OrderCells \cup {Nil}]
       /\ e.prev \in [OrderCells -> OrderCells \cup {Nil}]
  <2>1. e.next \in [OrderCells -> OrderCells \cup {Nil}]
    <3>1. e.next = [x \in OrderCells |-> IF x = o THEN b.freelist ELSE IF x = p THEN n ELSE b.next[x]]
      BY <1>20
    <3>2. ASSUME NEW x \in OrderCells
          PROVE  (IF x = o THEN b.freelist ELSE IF x = p THEN n ELSE b.next[x]) \in OrderCells \cup {Nil}
      BY <1>16, <1>21
    <3> QED BY Zenon, <3>1, <3>2
  <2>2. e.prev \in [OrderCells -> OrderCells \cup {Nil}]
    <3>1. e.prev = [x \in OrderCells |-> IF x = o THEN Nil ELSE IF x = n THEN p ELSE b.prev[x]]
      BY <1>20
    <3>2. ASSUME NEW x \in OrderCells
          PROVE  (IF x = o THEN Nil ELSE IF x = n THEN p ELSE b.prev[x]) \in OrderCells \cup {Nil}
      BY <1>16, <1>21
    <3> QED BY Zenon, <3>1, <3>2
  <2> QED BY <2>1, <2>2
<1>24. e.volume \in [LimitCells -> Int]
  <2>1. b.volume[l] - b.size[o] \in Int
    <3>1. b.volume[l] \in Int /\ b.size[o] \in Int
      BY <1>17
    <3> QED BY <3>1
  <2>2. /\ e.volume = [b.volume EXCEPT ![l] = b.volume[l] - b.size[o]]
        /\ b.volume \in [LimitCells -> Int]
    BY <1>17, <1>19
  <2> QED BY <2>1, <2>2
<1>25. BookType(e)
  BY Zenon, <1>18, <1>22, <1>23, <1>24 DEF BookType
<1>26. CASE e.head[l] # Nil
  <2>1. c = e
    BY Zenon, <1>7, <1>26
  <2> QED BY ZenonT(30), <2>1, <1>18, <1>19, <1>20, <1>25, <1>26 DEF CancelEffect
<1>27. CASE e.head[l] = Nil
  <2>1. /\ c = [h EXCEPT !.best[side] = ScanStop(h.slots[side], h.best[side])]
        /\ IsBook(h)
    BY Zenon, <1>7, <1>15, <1>27
  <2>2. /\ IsBook(c)
        /\ c.best = [h.best EXCEPT ![side] = ScanStop(h.slots[side], h.best[side])]
        /\ c.slots = h.slots /\ c.lookup = h.lookup
        /\ c.id = h.id /\ c.price = h.price /\ c.size = h.size /\ c.side = h.side
        /\ c.next = h.next /\ c.prev = h.prev /\ c.parent = h.parent
        /\ c.freelist = h.freelist /\ c.carved = h.carved /\ c.live = h.live
        /\ c.lprice = h.lprice /\ c.volume = h.volume /\ c.lside = h.lside
        /\ c.head = h.head /\ c.tail = h.tail
        /\ c.lnext = h.lnext /\ c.lfree = h.lfree /\ c.made = h.made
    BY <2>1 DEF IsBook, Members
  <2>3. /\ c.lookup = e.lookup
        /\ c.id = e.id /\ c.price = e.price /\ c.size = e.size /\ c.side = e.side
        /\ c.next = e.next /\ c.prev = e.prev /\ c.parent = e.parent
        /\ c.freelist = e.freelist /\ c.carved = e.carved /\ c.live = e.live
        /\ c.lprice = e.lprice /\ c.volume = e.volume /\ c.lside = e.lside
        /\ c.head = e.head /\ c.tail = e.tail /\ c.made = e.made
    BY Zenon, <2>2, <1>14, <1>15
  <2>a. c.slots = [b.slots EXCEPT ![side][i] = Nil]
    <3>1. c.slots = h.slots /\ h.slots = g.slots /\ e.slots = b.slots
      BY <2>2, <1>15, <1>18
    <3>2. g.slots = [e.slots EXCEPT ![side][i] = Nil]
      BY <1>13
    <3> QED BY Zenon, <3>1, <3>2
  <2>b. c.best = [b.best EXCEPT ![side] = ScanStop(c.slots[side], b.best[side])]
    BY SMTT(30), <2>2, <1>14, <1>15, <1>18
  <2>4. c.lnext = [b.lnext EXCEPT ![l] = b.lfree] /\ c.lfree = l
    BY SMTT(30), <2>2, <1>14, <1>15, <1>18
  <2>5. ScanStop(c.slots[side], b.best[side]) \in 0..RANGE
    <3>1. b.best[side] \in 0..RANGE
      BY <1>16
    <3> QED BY <3>1, ScanStopFirst, Constants
  <2>6. /\ c.slots \in [BOOLEAN -> [Slots -> LimitCells \cup {Nil}]]
        /\ c.best \in [BOOLEAN -> 0..RANGE]
        /\ c.lnext \in [LimitCells -> LimitCells \cup {Nil}]
        /\ c.lfree \in LimitCells \cup {Nil}
    <3>1. c.slots \in [BOOLEAN -> [Slots -> LimitCells \cup {Nil}]]
      <4>1. b.slots[side] \in [Slots -> LimitCells \cup {Nil}]
        BY <1>16
      <4>2. [b.slots[side] EXCEPT ![i] = Nil] \in [Slots -> LimitCells \cup {Nil}]
        BY Zenon, <4>1
      <4>3. c.slots = [b.slots EXCEPT ![side] = [b.slots[side] EXCEPT ![i] = Nil]]
        BY Zenon, <2>a
      <4>4. b.slots \in [BOOLEAN -> [Slots -> LimitCells \cup {Nil}]]
        BY <1>16
      <4>5. [b.slots EXCEPT ![side] = [b.slots[side] EXCEPT ![i] = Nil]]
              \in [BOOLEAN -> [Slots -> LimitCells \cup {Nil}]]
        BY Zenon, <4>2, <4>4
      <4> QED BY Zenon, <4>3, <4>5
    <3>2. c.best \in [BOOLEAN -> 0..RANGE]
      BY Zenon, <2>b, <2>5, <1>16
    <3>3. c.lnext \in [LimitCells -> LimitCells \cup {Nil}]
      BY Zenon, <2>4, <1>17
    <3> QED BY <2>4, <3>1, <3>2, <3>3
  <2>7. BookType(c)
    BY <2>2, <2>3, <2>6, <1>25 DEF BookType
  <2> QED BY Zenon, <2>3, <2>4, <2>7, <2>a, <2>b, <1>18, <1>19, <1>20, <1>27 DEF CancelEffect
<1> QED BY <1>26, <1>27
-----------------------------------------------------------------------------
(* Free lists: the cells a list reaches, and what a push and a pop make of   *)
(* them.  D is the pool, nxt the links of its cells.                         *)

\* Of a list that stays in its pool: the cells it reaches hold the list, and
\* so does no smaller set.
LEMMA ChainIsLeast ==
  ASSUME NEW D, Nil \notin D, NEW nxt \in [D -> D \cup {Nil}],
         NEW first \in D \cup {Nil}
  PROVE  /\ Chain(nxt, first) \subseteq D
         /\ HoldsList(Chain(nxt, first), nxt, first)
         /\ \A S \in SUBSET D :
              HoldsList(S, nxt, first) => Chain(nxt, first) \subseteq S
<1> DEFINE C == Chain(nxt, first)
<1>1. /\ C \subseteq D
      /\ \A c \in D : c \in C <=> \A S \in SUBSET D : HoldsList(S, nxt, first) => c \in S
  BY DEF Chain
<1> HIDE DEF C
<1>2. \A S \in SUBSET D : HoldsList(S, nxt, first) => C \subseteq S
  BY <1>1
<1>3. first \in C \cup {Nil}
  <2>1. first # Nil => \A S \in SUBSET D : HoldsList(S, nxt, first) => first \in S
    BY DEF HoldsList
  <2> QED BY <1>1, <2>1
<1>4. ASSUME NEW c \in C PROVE nxt[c] \in C \cup {Nil}
  <2>1. nxt[c] \in D \cup {Nil}
    BY <1>1
  <2>2. nxt[c] # Nil => \A S \in SUBSET D : HoldsList(S, nxt, first) => nxt[c] \in S
    BY <1>2 DEF HoldsList
  <2> QED BY <1>1, <2>1, <2>2
<1> QED BY <1>1, <1>2, <1>3, <1>4 DEF HoldsList, C

\* A list that ends at once reaches nothing.
LEMMA EmptyChain ==
  ASSUME NEW D, Nil \notin D, NEW nxt \in [D -> D \cup {Nil}]
  PROVE  Chain(nxt, Nil) = {}
<1>1. HoldsList({}, nxt, Nil)
  BY DEF HoldsList
<1> QED BY <1>1, ChainIsLeast

\* Links outside the list do not matter to it.
LEMMA SameChain ==
  ASSUME NEW D, Nil \notin D, NEW nxt \in [D -> D \cup {Nil}],
         NEW new \in [D -> D \cup {Nil}], NEW first \in D \cup {Nil},
         \A c \in Chain(nxt, first) : new[c] = nxt[c]
  PROVE  Chain(new, first) = Chain(nxt, first)
<1> DEFINE C == Chain(nxt, first)
           N == Chain(new, first)
<1>1. /\ C \subseteq D /\ HoldsList(C, nxt, first)
      /\ \A S \in SUBSET D : HoldsList(S, nxt, first) => C \subseteq S
  BY ChainIsLeast
<1>2. /\ N \subseteq D /\ HoldsList(N, new, first)
      /\ \A S \in SUBSET D : HoldsList(S, new, first) => N \subseteq S
  BY ChainIsLeast
<1>3. \A c \in C : new[c] = nxt[c]
  OBVIOUS
<1> HIDE DEF C, N
<1>4. HoldsList(C, new, first)
  BY <1>1, <1>3 DEF HoldsList
<1>5. N \subseteq C
  BY <1>1, <1>2, <1>4
<1>6. HoldsList(N, nxt, first)
  BY <1>2, <1>3, <1>5 DEF HoldsList
<1> QED BY <1>1, <1>2, <1>5, <1>6 DEF C, N

\* A cell put in front of a list is reached too, and nothing else.
LEMMA PushedChain ==
  ASSUME NEW D, Nil \notin D, NEW nxt \in [D -> D \cup {Nil}],
         NEW new \in [D -> D \cup {Nil}], NEW first \in D \cup {Nil},
         NEW o \in D, new[o] = first, o \notin Chain(nxt, first),
         \A c \in Chain(nxt, first) : new[c] = nxt[c]
  PROVE  Chain(new, o) = Chain(nxt, first) \cup {o}
<1> DEFINE C == Chain(nxt, first)
           N == Chain(new, o)
<1>1. /\ C \subseteq D /\ HoldsList(C, nxt, first)
      /\ \A S \in SUBSET D : HoldsList(S, nxt, first) => C \subseteq S
  BY ChainIsLeast
<1>2. /\ N \subseteq D /\ HoldsList(N, new, o)
      /\ \A S \in SUBSET D : HoldsList(S, new, o) => N \subseteq S
  BY ChainIsLeast
<1>3. o \notin C /\ \A c \in C : new[c] = nxt[c]
  OBVIOUS
<1> HIDE DEF C, N
<1>4. HoldsList(C \cup {o}, new, o)
  BY <1>1, <1>3 DEF HoldsList
<1>5. N \subseteq C \cup {o}
  BY <1>1, <1>2, <1>4
<1>6. o \in N
  BY <1>2 DEF HoldsList
<1>7. HoldsList(C \cap N, nxt, first)
  <2>1. first \in (C \cap N) \cup {Nil}
    BY <1>1, <1>2, <1>6 DEF HoldsList
  <2>2. \A c \in C \cap N : nxt[c] \in (C \cap N) \cup {Nil}
    BY <1>1, <1>2, <1>3 DEF HoldsList
  <2> QED BY <2>1, <2>2 DEF HoldsList
<1>8. C \subseteq C \cap N
  BY <1>1, <1>7
<1> QED BY <1>5, <1>6, <1>8 DEF C, N

\* A list without its first cell reaches all the others, when none of them
\* links back to the first.
LEMMA PoppedChain ==
  ASSUME NEW D, Nil \notin D, NEW nxt \in [D -> D \cup {Nil}],
         NEW new \in [D -> D \cup {Nil}], NEW first \in D,
         \A c \in Chain(nxt, first) : nxt[c] # first,
         \A c \in Chain(nxt, first) \ {first} : new[c] = nxt[c]
  PROVE  Chain(new, nxt[first]) = Chain(nxt, first) \ {first}
<1> DEFINE C == Chain(nxt, first)
           N == Chain(new, nxt[first])
<1>1. /\ C \subseteq D /\ HoldsList(C, nxt, first)
      /\ \A S \in SUBSET D : HoldsList(S, nxt, first) => C \subseteq S
  BY ChainIsLeast
<1>2. /\ N \subseteq D /\ HoldsList(N, new, nxt[first])
      /\ \A S \in SUBSET D : HoldsList(S, new, nxt[first]) => N \subseteq S
  BY ChainIsLeast
<1>3. /\ \A c \in C : nxt[c] # first
      /\ \A c \in C \ {first} : new[c] = nxt[c]
  OBVIOUS
<1> HIDE DEF C, N
<1>4. first \in C
  BY <1>1 DEF HoldsList
<1>5. HoldsList(C \ {first}, new, nxt[first])
  BY <1>1, <1>3, <1>4 DEF HoldsList
<1>6. N \subseteq C \ {first}
  BY <1>1, <1>2, <1>5
<1>7. HoldsList(N \cup {first}, nxt, first)
  BY <1>2, <1>3, <1>6 DEF HoldsList
<1>8. C \subseteq N \cup {first}
  BY <1>1, <1>2, <1>7
<1> QED BY <1>6, <1>8 DEF C, N
-----------------------------------------------------------------------------
(* The invariants are preserved by an add. *)

\* The strengthening that makes HeapSound inductive.  Its conjuncts speak of
\* neighbours only and would allow a ring of orders beside the queue of a level,
\* which would lose its level when the queue empties; along next_ the orders
\* can be numbered upwards, so there is no ring.
Ranked(b) ==
  \E rank \in [OrderCells -> Nat] :
    \A x \in b.live : b.next[x] # Nil => rank[x] < rank[b.next[x]]

\* A live order's level is the one in the slot of its side and price.
LEMMA LevelAt ==
  ASSUME NEW b, HeapSound(b), NEW s \in BOOLEAN, NEW j \in Slots,
         NEW k, k = b.slots[s][j], k # Nil
  PROVE  /\ k <= b.made /\ b.lside[k] = s /\ SlotIdx(s, b.lprice[k]) = j
         /\ b.head[k] \in b.live /\ b.parent[b.head[k]] = k /\ b.prev[b.head[k]] = Nil
         /\ b.tail[k] \in b.live /\ b.parent[b.tail[k]] = k /\ b.next[b.tail[k]] = Nil
<1>1. LevelsSound(b)
  BY DEF HeapSound
<1>2. /\ k <= b.made /\ b.lside[k] = s /\ SlotIdx(s, b.lprice[k]) = j
  BY <1>1 DEF LevelsSound
<1>3. b.head[k] \in b.live /\ b.parent[b.head[k]] = k /\ b.prev[b.head[k]] = Nil
  BY <1>1 DEF LevelsSound
<1>4. b.tail[k] \in b.live /\ b.parent[b.tail[k]] = k /\ b.next[b.tail[k]] = Nil
  BY <1>1 DEF LevelsSound
<1> QED BY <1>2, <1>3, <1>4

\* A node is in use exactly when some slot points to it.
LEMMA UsedLimitsAre ==
  ASSUME NEW b, NEW k
  PROVE  k \in UsedLimits(b) <=>
           k # Nil /\ \E s \in BOOLEAN, j \in Slots : k = b.slots[s][j]
BY DEF UsedLimits

\* The cells an add takes from the pools are not in use, and the level it
\* appends to is empty exactly when it is new.
LEMMA AddCells ==
  ASSUME NEW b, BookType(b), HeapSound(b), NEW c,
         NEW side \in BOOLEAN, NEW px \in MIN..MAX, NEW i, i = SlotIdx(side, px),
         NEW l, NEW o, NEW t,
         GetLimitEffect(b, c, side, px, i, l), HasMemory(b, side, px),
         o = AcquiredOrder(c), t = c.tail[l]
  PROVE  /\ o \notin b.live
         /\ b.freelist # Nil => o = b.freelist
         /\ b.freelist = Nil => o = b.carved + 1
         /\ b.slots[side][i] = Nil =>
              /\ l \notin UsedLimits(b) /\ t = Nil /\ b.head[l] = Nil
              /\ b.lfree # Nil => l = b.lfree
              /\ b.lfree = Nil => l = b.made + 1
         /\ b.slots[side][i] # Nil =>
              /\ l = b.slots[side][i] /\ t = b.tail[l]
              /\ t \in b.live /\ b.parent[t] = l /\ b.next[t] = Nil
<1>1. /\ b.live \subseteq OrderCells /\ b.carved \in Nat /\ b.made \in Nat
      /\ b.freelist \in OrderCells \cup {Nil}
      /\ b.lfree \in LimitCells \cup {Nil}
  BY Constants DEF BookType
<1>2. /\ c.freelist = b.freelist /\ c.carved = b.carved /\ c.tail = b.tail
      /\ i \in Slots /\ l \in LimitCells
  BY DEF GetLimitEffect
<1>3. b.live \subseteq 1..b.carved /\ (b.freelist # Nil => b.freelist \notin b.live)
  BY DEF HeapSound, OrderPoolSound, FreeOrders
<1>4. /\ b.freelist # Nil => o = b.freelist
      /\ b.freelist = Nil => o = b.carved + 1
  BY <1>2 DEF AcquiredOrder
<1>5. o \notin b.live
  BY <1>1, <1>3, <1>4
<1>6. ASSUME b.slots[side][i] = Nil
      PROVE  /\ l \notin UsedLimits(b) /\ t = Nil /\ b.head[l] = Nil
             /\ b.lfree # Nil => l = b.lfree
             /\ b.lfree = Nil => l = b.made + 1
  <2>1. /\ b.lfree # Nil => l = b.lfree
        /\ b.lfree = Nil => l = b.made + 1
    BY <1>6 DEF GetLimitEffect, AcquiredLimit
  <2>2. b.lfree # Nil => b.lfree \notin UsedLimits(b)
    BY Zenon DEF HeapSound, LimitPoolSound, FreeLimits
  <2>3. \A k \in UsedLimits(b) : k <= b.made
    BY UsedLimitsAre DEF HeapSound, LevelsSound
  <2>4. l \notin UsedLimits(b)
    BY <1>1, <2>1, <2>2, <2>3
  <2>5. b.head[l] = Nil /\ b.tail[l] = Nil
    BY Zenon, <1>2, <2>4 DEF HeapSound, IdleLimitsEmpty
  <2> QED BY <1>2, <2>1, <2>4, <2>5
<1>7. ASSUME b.slots[side][i] # Nil
      PROVE  /\ l = b.slots[side][i] /\ t = b.tail[l]
             /\ t \in b.live /\ b.parent[t] = l /\ b.next[t] = Nil
  <2>1. c = b /\ l = c.slots[side][i]
    BY <1>7 DEF GetLimitEffect
  <2>2. l = b.slots[side][i] /\ l # Nil /\ t = b.tail[l]
    BY <1>7, <2>1
  <2>4. t \in b.live /\ b.parent[t] = l /\ b.next[t] = Nil
    BY <1>2, <2>2, LevelAt
  <2> QED BY <2>2, <2>4
<1> QED BY <1>4, <1>5, <1>6, <1>7

\* add_order preserves the invariant of a book.
LEMMA AddPreserves ==
  ASSUME NEW b, BookType(b), HeapSound(b), Ranked(b), BestIsFirst(b),
         NEW side \in BOOLEAN, NEW id \in Ids, NEW px \in MIN..MAX, NEW sz \in Nat,
         HasMemory(b, side, px),
         NEW f, f = add_order(b, side, id, px, sz)
  PROVE  /\ BookType(f) /\ HeapSound(f) /\ Ranked(f) /\ BestIsFirst(f)
         /\ PoolsComplete(b) => PoolsComplete(f)
<1> DEFINE c == get_or_insert_limit(b, side, px)
<1> DEFINE i == SlotIdx(side, px)
<1> DEFINE l == c.slots[side][i]
<1> DEFINE o == AcquiredOrder(c)
<1> DEFINE t == c.tail[l]
<1>1. GetLimitEffect(b, c, side, px, i, l)
  BY GetLimitFields
<1>2. AddEffect(c, f, side, id, px, sz, i, l, o, t)
  BY AddFields
<1>3. i = SlotIdx(side, px) /\ o = AcquiredOrder(c) /\ t = c.tail[l]
  OBVIOUS
<1> HIDE DEF c, i, l, o, t
<1>4. i \in Slots /\ l \in LimitCells /\ o \in OrderCells
  BY <1>1, <1>2 DEF GetLimitEffect, AddEffect
<1>5. /\ o \notin b.live
      /\ b.freelist # Nil => o = b.freelist
      /\ b.freelist = Nil => o = b.carved + 1
      /\ b.slots[side][i] = Nil =>
           /\ l \notin UsedLimits(b) /\ t = Nil /\ b.head[l] = Nil
           /\ b.lfree # Nil => l = b.lfree
           /\ b.lfree = Nil => l = b.made + 1
      /\ b.slots[side][i] # Nil =>
           /\ l = b.slots[side][i] /\ t = b.tail[l]
           /\ t \in b.live /\ b.parent[t] = l /\ b.next[t] = Nil
  BY <1>1, <1>3, AddCells
\* The book f, cell by cell, in terms of b.
<1>6. /\ f.live = b.live \cup {o}
      /\ f.id[o] = id /\ f.price[o] = px /\ f.side[o] = side /\ f.parent[o] = l
      /\ \A x \in OrderCells : x # o =>
           /\ f.id[x] = b.id[x] /\ f.price[x] = b.price[x]
           /\ f.side[x] = b.side[x] /\ f.parent[x] = b.parent[x]
      /\ f.lookup[id] = o
      /\ \A x \in Ids : x # id => f.lookup[x] = b.lookup[x]
  <2>1. c.live = b.live /\ c.id = b.id /\ c.price = b.price /\ c.side = b.side
        /\ c.parent = b.parent /\ c.lookup = b.lookup
    BY <1>1 DEF GetLimitEffect
  <2>2. /\ f.live = b.live \cup {o}
        /\ f.id = [b.id EXCEPT ![o] = id] /\ f.price = [b.price EXCEPT ![o] = px]
        /\ f.side = [b.side EXCEPT ![o] = side] /\ f.parent = [b.parent EXCEPT ![o] = l]
        /\ f.lookup = [b.lookup EXCEPT ![id] = o]
    BY <1>2, <2>1 DEF AddEffect
  <2>3. /\ b.id \in [OrderCells -> Ids] /\ b.price \in [OrderCells -> MIN..MAX]
        /\ b.side \in [OrderCells -> BOOLEAN]
        /\ b.parent \in [OrderCells -> LimitCells \cup {Nil}]
        /\ b.lookup \in [Ids -> OrderCells \cup {Nil}]
    BY DEF BookType
  <2> QED BY <1>4, <2>2, <2>3
<1>7. /\ f.next[o] = Nil /\ f.prev[o] = t
      /\ \A x \in OrderCells : x # o => /\ f.next[x] = IF x = t THEN o ELSE b.next[x]
                                       /\ f.prev[x] = b.prev[x]
  <2>1. /\ f.next = [x \in OrderCells |->
                     IF x = o THEN Nil ELSE IF x = t THEN o ELSE b.next[x]]
        /\ f.prev = [b.prev EXCEPT ![o] = t]
    BY <1>1, <1>2 DEF GetLimitEffect, AddEffect
  <2>2. b.prev \in [OrderCells -> OrderCells \cup {Nil}]
    BY DEF BookType
  <2> QED BY <1>4, <2>1, <2>2
<1>8. /\ f.head[l] = IF t # Nil THEN b.head[l] ELSE o
      /\ f.tail[l] = o
      /\ \A k \in LimitCells : k # l => f.head[k] = b.head[k] /\ f.tail[k] = b.tail[k]
  <2>1. /\ f.head = [b.head EXCEPT ![l] = IF t # Nil THEN b.head[l] ELSE o]
        /\ f.tail = [b.tail EXCEPT ![l] = o]
    BY <1>1, <1>2 DEF GetLimitEffect, AddEffect
  <2>2. /\ b.head \in [LimitCells -> OrderCells \cup {Nil}]
        /\ b.tail \in [LimitCells -> OrderCells \cup {Nil}]
    BY DEF BookType
  <2> QED BY <1>4, <2>1, <2>2
<1>9. /\ f.slots[side][i] = l
      /\ \A s \in BOOLEAN, j \in Slots :
           s # side \/ j # i => f.slots[s][j] = b.slots[s][j]
  <2>1. b.slots \in [BOOLEAN -> [Slots -> LimitCells \cup {Nil}]]
    BY DEF BookType
  <2>2. f.slots = c.slots /\ l = c.slots[side][i]
    BY <1>1, <1>2 DEF GetLimitEffect, AddEffect
  <2>3. CASE b.slots[side][i] # Nil
    BY <1>1, <2>2, <2>3 DEF GetLimitEffect
  <2>4. CASE b.slots[side][i] = Nil
    <3>1. c.slots = [b.slots EXCEPT ![side][i] = l]
      BY <1>1, <2>4 DEF GetLimitEffect
    <3> QED BY <1>4, <2>1, <2>2, <3>1
  <2> QED BY <2>3, <2>4
<1>10. /\ f.lside[l] = side /\ SlotIdx(side, f.lprice[l]) = i
       /\ \A k \in LimitCells : k # l => /\ f.lside[k] = b.lside[k]
                                        /\ f.lprice[k] = b.lprice[k]
  <2>1. f.lprice = c.lprice /\ f.lside = c.lside
    BY <1>2 DEF AddEffect
  <2>2. b.lprice \in [LimitCells -> Int] /\ b.lside \in [LimitCells -> BOOLEAN]
    BY DEF BookType
  <2>3. CASE b.slots[side][i] # Nil
    <3>1. c = b
      BY Zenon, <1>1, <2>3 DEF GetLimitEffect
    <3>2. b.lside[l] = side /\ SlotIdx(side, b.lprice[l]) = i
      BY <1>4, <1>5, <2>3 DEF HeapSound, LevelsSound
    <3> QED BY <2>1, <3>1, <3>2
  <2>4. CASE b.slots[side][i] = Nil
    <3>1. c.lprice = [b.lprice EXCEPT ![l] = px] /\ c.lside = [b.lside EXCEPT ![l] = side]
      BY <1>1, <2>4 DEF GetLimitEffect
    <3> QED BY <1>3, <1>4, <2>1, <2>2, <3>1
  <2> QED BY <2>3, <2>4
<1>11. /\ f.freelist = IF b.freelist # Nil THEN b.next[o] ELSE Nil
       /\ f.carved = IF b.freelist # Nil THEN b.carved ELSE b.carved + 1
  BY Zenon, <1>1, <1>2 DEF GetLimitEffect, AddEffect
<1>12. /\ f.lnext = b.lnext
       /\ b.slots[side][i] # Nil => f.lfree = b.lfree /\ f.made = b.made
       /\ b.slots[side][i] = Nil =>
            /\ f.lfree = IF b.lfree # Nil THEN b.lnext[l] ELSE Nil
            /\ f.made = IF b.lfree # Nil THEN b.made ELSE b.made + 1
  BY <1>1, <1>2 DEF GetLimitEffect, AddEffect
<1>13. OrdersLinked(f)
  <2>0. /\ \A x \in b.live : x \in OrderCells /\ x # Nil
        /\ b.side \in [OrderCells -> BOOLEAN] /\ b.price \in [OrderCells -> MIN..MAX]
    BY Constants DEF BookType
  <2> SUFFICES ASSUME NEW x \in f.live
               PROVE  LET k == f.parent[x] IN
                      /\ k = f.slots[f.side[x]][SlotIdx(f.side[x], f.price[x])] /\ k # Nil
                      /\ IF f.prev[x] = Nil THEN f.head[k] = x
                         ELSE f.prev[x] \in f.live /\ f.parent[f.prev[x]] = k
                                                   /\ f.next[f.prev[x]] = x
                      /\ IF f.next[x] = Nil THEN f.tail[k] = x
                         ELSE f.next[x] \in f.live /\ f.parent[f.next[x]] = k
                                                   /\ f.prev[f.next[x]] = x
    BY DEF OrdersLinked
  <2>1. CASE x = o
    <3>1. f.parent[x] = f.slots[f.side[x]][SlotIdx(f.side[x], f.price[x])] /\ l # Nil
      BY <1>3, <1>4, <1>6, <1>9, <2>1, Constants
    <3>2. CASE t = Nil
      BY <1>6, <1>7, <1>8, <2>1, <3>1, <3>2
    <3>3. CASE t # Nil
      BY SMTT(30), <1>5, <1>6, <1>7, <1>8, <2>0, <2>1, <3>1, <3>3
    <3> QED BY <3>2, <3>3
  <2>2. CASE x # o
    <3> DEFINE k == b.parent[x]
    <3>1. x \in b.live /\ x \in OrderCells /\ f.parent[x] = k
      BY <1>6, <2>0, <2>2
    <3>2. /\ k = b.slots[b.side[x]][SlotIdx(b.side[x], b.price[x])] /\ k # Nil
          /\ IF b.prev[x] = Nil THEN b.head[k] = x
             ELSE b.prev[x] \in b.live /\ b.parent[b.prev[x]] = k
                                       /\ b.next[b.prev[x]] = x
          /\ IF b.next[x] = Nil THEN b.tail[k] = x
             ELSE b.next[x] \in b.live /\ b.parent[b.next[x]] = k
                                       /\ b.prev[b.next[x]] = x
      BY Zenon, <3>1 DEF HeapSound, OrdersLinked
    <3>3. SlotIdx(b.side[x], b.price[x]) \in Slots /\ k \in LimitCells
      <4>1. b.side[x] \in BOOLEAN /\ b.price[x] \in MIN..MAX
        BY <2>0, <3>1
      <4>2. k \in LimitCells \cup {Nil}
        BY <3>1 DEF BookType
      <4> QED BY <3>2, <4>1, <4>2, SlotIdxType
    <3>4. f.side[x] = b.side[x] /\ f.price[x] = b.price[x]
      BY Zenon, <1>6, <3>1, <2>2
    <3>5. k = f.slots[f.side[x]][SlotIdx(f.side[x], f.price[x])]
      BY SMTT(90), <1>5, <1>9, <2>0, <3>1, <3>2, <3>3, <3>4
    <3>6. b.slots[side][i] = Nil => k # l
      BY SMTT(30), <1>5, <2>0, <3>1, <3>2, <3>3, UsedLimitsAre
    <3>7. IF f.prev[x] = Nil THEN f.head[k] = x
          ELSE f.prev[x] \in f.live /\ f.parent[f.prev[x]] = k
                                    /\ f.next[f.prev[x]] = x
      <4>1. f.prev[x] = b.prev[x]
        BY Zenon, <1>7, <3>1, <2>2
      <4>2. CASE b.prev[x] = Nil
        BY ZenonT(30), <1>5, <1>8, <2>0, <3>2, <3>3, <3>6, <4>1, <4>2
      <4>3. CASE b.prev[x] # Nil
        BY SMTT(30), <1>5, <1>6, <1>7, <2>0, <3>1, <3>2, <4>1, <4>3
      <4> QED BY <4>2, <4>3
    <3>8. IF f.next[x] = Nil THEN f.tail[k] = x
          ELSE f.next[x] \in f.live /\ f.parent[f.next[x]] = k
                                    /\ f.prev[f.next[x]] = x
      <4>1. CASE x = t
        BY SMTT(30), <1>4, <1>5, <1>6, <1>7, <2>0, <2>2, <3>1, <4>1, Constants
      <4>2. CASE x # t /\ b.next[x] = Nil
        BY ZenonT(90), <1>5, <1>7, <1>8, <2>2, <3>1, <3>2, <3>3, <3>6, <4>2
      <4>3. CASE x # t /\ b.next[x] # Nil
        BY SMTT(90), <1>5, <1>6, <1>7, <2>0, <2>2, <3>1, <3>2, <4>3
      <4> QED BY <4>1, <4>2, <4>3
    <3> QED BY Zenon, <3>1, <3>2, <3>5, <3>7, <3>8
  <2> QED BY <2>1, <2>2
<1>14. LevelsSound(f)
  <2>0. /\ \A x \in b.live : x \in OrderCells /\ x # Nil
        /\ b.slots \in [BOOLEAN -> [Slots -> LimitCells \cup {Nil}]]
        /\ b.made \in Nat
    BY SMTT(30), Constants DEF BookType
  <2> SUFFICES ASSUME NEW s \in BOOLEAN, NEW j \in Slots,
                      NEW k, k = f.slots[s][j], k # Nil
               PROVE  /\ k <= f.made /\ f.lside[k] = s /\ SlotIdx(s, f.lprice[k]) = j
                      /\ f.head[k] \in f.live /\ f.parent[f.head[k]] = k
                                             /\ f.prev[f.head[k]] = Nil
                      /\ f.tail[k] \in f.live /\ f.parent[f.tail[k]] = k
                                             /\ f.next[f.tail[k]] = Nil
    BY SMTT(90) DEF LevelsSound
  <2>1. CASE s = side /\ j = i /\ b.slots[side][i] = Nil
    <3>1. k = l
      BY <1>9, <2>1
    <3>2. l <= f.made
      BY <1>5, <1>12, <2>0, <2>1 DEF HeapSound, LimitPoolSound, FreeLimits
    <3>3. f.lside[k] = s /\ SlotIdx(s, f.lprice[k]) = j
      BY Zenon, <1>10, <2>1, <3>1
    <3>4. f.head[k] \in f.live /\ f.parent[f.head[k]] = k /\ f.prev[f.head[k]] = Nil
      BY SMTT(90), <1>5, <1>6, <1>7, <1>8, <2>1, <3>1
    <3>5. f.tail[k] \in f.live /\ f.parent[f.tail[k]] = k /\ f.next[f.tail[k]] = Nil
      BY SMTT(90), <1>5, <1>6, <1>7, <1>8, <2>1, <3>1
    <3> QED BY <3>1, <3>2, <3>3, <3>4, <3>5
  <2>2. CASE s = side /\ j = i /\ b.slots[side][i] # Nil
    <3>1. k = l
      BY <1>9, <2>2
    <3>2. /\ l <= b.made
          /\ b.head[l] \in b.live /\ b.parent[b.head[l]] = l /\ b.prev[b.head[l]] = Nil
      BY <1>5, <2>2 DEF HeapSound, LevelsSound
    <3>3. l <= f.made
      BY <1>12, <2>2, <3>2
    <3>4. t # Nil /\ f.head[l] = b.head[l]
      BY Zenon, <1>5, <1>8, <2>0, <2>2
    <3>5. f.lside[k] = s /\ SlotIdx(s, f.lprice[k]) = j
      BY Zenon, <1>10, <2>2, <3>1
    <3>6. f.head[k] \in f.live /\ f.parent[f.head[k]] = k /\ f.prev[f.head[k]] = Nil
      BY SMTT(30), <1>5, <1>6, <1>7, <2>0, <2>2, <3>1, <3>2, <3>4
    <3>7. f.tail[k] \in f.live /\ f.parent[f.tail[k]] = k /\ f.next[f.tail[k]] = Nil
      BY SMTT(30), <1>5, <1>6, <1>7, <1>8, <2>0, <2>2, <3>1, <3>4
    <3> QED BY <3>1, <3>3, <3>5, <3>6, <3>7
  <2>3. CASE s # side \/ j # i
    <3>1. k = b.slots[s][j] /\ k \in LimitCells
      BY <1>9, <2>0, <2>3
    <3>2. /\ k <= b.made /\ b.lside[k] = s /\ SlotIdx(s, b.lprice[k]) = j
          /\ b.head[k] \in b.live /\ b.parent[b.head[k]] = k /\ b.prev[b.head[k]] = Nil
          /\ b.tail[k] \in b.live /\ b.parent[b.tail[k]] = k /\ b.next[b.tail[k]] = Nil
      BY <3>1, LevelAt
    <3>3. k # l
      <4>1. CASE b.slots[side][i] = Nil
        BY Zenon, <1>5, <3>1, <4>1, UsedLimitsAre
      <4>2. CASE b.slots[side][i] # Nil
        <5>1. b.lside[l] = side /\ SlotIdx(side, b.lprice[l]) = i
          BY <1>4, <1>5, <4>2 DEF HeapSound, LevelsSound
        <5> QED BY Zenon, <2>3, <3>2, <5>1
      <4> QED BY <4>1, <4>2
    <3>4. k <= f.made
      <4>1. k \in Int
        BY <3>1, Constants DEF LimitCells
      <4> QED BY <1>12, <2>0, <3>2, <4>1
    <3>5. f.head[k] = b.head[k] /\ f.tail[k] = b.tail[k]
      BY Zenon, <1>8, <3>1, <3>3
    <3>6. b.tail[k] # t
      BY <1>5, <2>0, <3>2, <3>3
    <3>7. f.lside[k] = s /\ SlotIdx(s, f.lprice[k]) = j
      BY Zenon, <1>10, <3>1, <3>2, <3>3
    <3>8. f.head[k] \in f.live /\ f.parent[f.head[k]] = k /\ f.prev[f.head[k]] = Nil
      <4>1. b.head[k] \in OrderCells /\ b.head[k] # o
        BY <1>5, <2>0, <3>2
      <4>2. f.head[k] \in f.live
        BY <1>6, <3>2, <3>5
      <4>3. f.parent[f.head[k]] = k
        <5>1. f.parent[b.head[k]] = b.parent[b.head[k]]
          BY <1>6, <4>1
        <5> QED BY Zenon, <3>2, <3>5, <5>1
      <4>4. f.prev[f.head[k]] = Nil
        BY Zenon, <1>7, <3>2, <3>5, <4>1
      <4> QED BY <4>2, <4>3, <4>4
    <3>9. f.tail[k] \in f.live /\ f.parent[f.tail[k]] = k /\ f.next[f.tail[k]] = Nil
      <4>1. b.tail[k] \in OrderCells /\ b.tail[k] # o
        BY <1>5, <2>0, <3>2
      <4>2. f.tail[k] \in f.live
        BY <1>6, <3>2, <3>5
      <4>3. f.parent[f.tail[k]] = k
        <5>1. f.parent[b.tail[k]] = b.parent[b.tail[k]]
          BY <1>6, <4>1
        <5> QED BY Zenon, <3>2, <3>5, <5>1
      <4>4. f.next[f.tail[k]] = Nil
        <5>1. f.next[b.tail[k]] = b.next[b.tail[k]]
          BY <1>7, <3>6, <4>1
        <5> QED BY Zenon, <3>2, <3>5, <5>1
      <4> QED BY <4>2, <4>3, <4>4
    <3> QED BY <3>4, <3>7, <3>8, <3>9
  <2> QED BY Zenon, <2>1, <2>2, <2>3
<1>15. LookupSound(f)
  <2>1. \A x \in Ids : b.lookup[x] # Nil =>
           b.lookup[x] \in b.live /\ b.lookup[x] \in OrderCells /\ b.id[b.lookup[x]] = x
    BY DEF HeapSound, LookupSound, BookType
  <2> QED BY <1>5, <1>6, <2>1 DEF LookupSound
<1>t. /\ b.next \in [OrderCells -> OrderCells \cup {Nil}]
      /\ f.next \in [OrderCells -> OrderCells \cup {Nil}]
      /\ b.freelist \in OrderCells \cup {Nil}
      /\ b.lnext \in [LimitCells -> LimitCells \cup {Nil}]
      /\ b.lfree \in LimitCells \cup {Nil}
  BY <1>2 DEF AddEffect, BookType
<1>16. /\ OrderPoolSound(f)
       /\ PoolsComplete(b) => Chain(f.next, f.freelist) = FreeOrders(f)
  <2>0. /\ b.carved \in Nat /\ b.live \subseteq OrderCells
        /\ b.freelist \in OrderCells \cup {Nil}
        /\ b.carved <= MaxOrders
    BY Constants DEF BookType
  <2>1. /\ b.live \subseteq 1..b.carved
        /\ b.freelist # Nil => b.freelist \in FreeOrders(b)
        /\ \A x \in FreeOrders(b) :
             b.next[x] # Nil =>
               /\ b.next[x] \in FreeOrders(b) /\ b.next[x] # b.freelist
               /\ \A y \in FreeOrders(b) : b.next[y] = b.next[x] => y = x
    BY DEF HeapSound, OrderPoolSound
  <2>2. FreeOrders(f) = FreeOrders(b) \ {o}
    BY <1>5, <1>6, <1>11, <2>0, <2>1 DEF FreeOrders
  <2>3. f.live \subseteq 1..f.carved
    BY <1>5, <1>6, <1>11, <2>0, <2>1 DEF FreeOrders
  <2>4. \A x \in FreeOrders(f) : f.next[x] = b.next[x]
    <3>1. \A x \in FreeOrders(f) : x \in OrderCells /\ x # o /\ x # t
      BY <1>5, <2>0, <2>2, Constants DEF FreeOrders, OrderCells
    <3> QED BY <1>7, <3>1
  <2>5. CASE b.freelist = Nil
    <3>1. o \notin FreeOrders(b) /\ f.freelist = Nil
      BY <1>5, <1>11, <2>0, <2>5 DEF FreeOrders
    <3>2. FreeOrders(f) = FreeOrders(b)
      BY <2>2, <3>1
    <3>3. OrderPoolSound(f)
      BY <2>1, <2>3, <2>4, <2>5, <3>1, <3>2 DEF OrderPoolSound
    <3>4. Chain(b.next, b.freelist) = {} /\ Chain(f.next, f.freelist) = {}
      BY <1>t, <2>5, <3>1, EmptyChain, Constants
    <3> QED BY <3>2, <3>3, <3>4 DEF PoolsComplete
  <2>6. CASE b.freelist # Nil
    <3>1. o = b.freelist /\ f.freelist = b.next[o] /\ o \in FreeOrders(b)
      BY <1>5, <1>11, <2>1, <2>6
    <3>2. f.freelist # Nil => f.freelist \in FreeOrders(f)
      BY <2>1, <2>2, <3>1
    <3>3. \A x \in FreeOrders(f) : f.next[x] # Nil =>
            f.next[x] \in FreeOrders(f) /\ f.next[x] # f.freelist
      BY <2>1, <2>2, <2>4, <3>1
    <3>4. OrderPoolSound(f)
      BY <2>1, <2>2, <2>3, <2>4, <3>2, <3>3 DEF OrderPoolSound
    <3>5. ASSUME PoolsComplete(b)
          PROVE  Chain(f.next, f.freelist) = FreeOrders(f)
      <4>1. Chain(b.next, o) = FreeOrders(b)
        BY <3>1, <3>5 DEF PoolsComplete
      <4>2. \A x \in Chain(b.next, o) : b.next[x] # o
        BY <1>4, <2>1, <3>1, <4>1, Constants
      <4>3. \A x \in Chain(b.next, o) \ {o} : f.next[x] = b.next[x]
        BY <2>2, <2>4, <4>1
      <4>4. Chain(f.next, b.next[o]) = Chain(b.next, o) \ {o}
        BY <1>4, <1>t, <4>2, <4>3, PoppedChain, Constants
      <4> QED BY <2>2, <3>1, <4>1, <4>4
    <3> QED BY <3>4, <3>5
  <2> QED BY <2>5, <2>6
<1>17. /\ LimitPoolSound(f)
       /\ PoolsComplete(b) => Chain(f.lnext, f.lfree) = FreeLimits(f)
  <2>0. /\ b.made \in Nat /\ b.lfree \in LimitCells \cup {Nil}
    BY Constants DEF BookType
  <2>1. /\ b.lfree # Nil => b.lfree \in FreeLimits(b)
        /\ \A x \in FreeLimits(b) :
             b.lnext[x] # Nil =>
               /\ b.lnext[x] \in FreeLimits(b) /\ b.lnext[x] # b.lfree
               /\ \A y \in FreeLimits(b) : b.lnext[y] = b.lnext[x] => y = x
    BY DEF HeapSound, LimitPoolSound
  <2>2. UsedLimits(f) = UsedLimits(b) \cup {l}
    <3>1. l # Nil
      BY <1>4, Constants
    <3>2. \A k : k \in UsedLimits(f) <=> k \in UsedLimits(b) \/ k = l
      BY <1>4, <1>5, <1>9, <3>1, UsedLimitsAre
    <3> QED BY <3>2
  <2>3. CASE b.slots[side][i] # Nil
    <3>1. UsedLimits(f) = UsedLimits(b)
      BY <1>4, <1>5, <2>2, <2>3, UsedLimitsAre
    <3>2. FreeLimits(f) = FreeLimits(b)
      BY <1>12, <2>3, <3>1 DEF FreeLimits
    <3>3. LimitPoolSound(f)
      BY <1>12, <2>1, <2>3, <3>2 DEF LimitPoolSound
    <3> QED BY <1>12, <2>3, <3>2, <3>3 DEF PoolsComplete
  <2>4. CASE b.slots[side][i] = Nil
    <3>1. FreeLimits(f) = FreeLimits(b) \ {l}
      BY <1>5, <1>12, <2>0, <2>2, <2>4 DEF FreeLimits
    <3>2. CASE b.lfree = Nil
      <4>1. l \notin FreeLimits(b) /\ f.lfree = Nil
        BY <1>5, <1>12, <2>0, <2>4, <3>2 DEF FreeLimits
      <4>2. FreeLimits(f) = FreeLimits(b)
        BY <3>1, <4>1
      <4>3. LimitPoolSound(f)
        BY <1>12, <2>1, <3>2, <4>1, <4>2 DEF LimitPoolSound
      <4> QED BY <1>12, <3>2, <4>1, <4>2, <4>3 DEF PoolsComplete
    <3>3. CASE b.lfree # Nil
      <4>1. l = b.lfree /\ f.lfree = b.lnext[l] /\ l \in FreeLimits(b)
        BY <1>5, <1>12, <2>1, <2>4, <3>3
      <4>2. LimitPoolSound(f)
        BY <1>12, <2>1, <3>1, <4>1 DEF LimitPoolSound
      <4>3. ASSUME PoolsComplete(b)
            PROVE  Chain(f.lnext, f.lfree) = FreeLimits(f)
        <5>1. Chain(b.lnext, l) = FreeLimits(b)
          BY <4>1, <4>3 DEF PoolsComplete
        <5>2. \A x \in Chain(b.lnext, l) : b.lnext[x] # l
          BY <1>4, <2>1, <4>1, <5>1, Constants
        <5>3. Chain(b.lnext, b.lnext[l]) = Chain(b.lnext, l) \ {l}
          BY <1>4, <1>t, <5>2, PoppedChain, Constants
        <5> QED BY <1>12, <3>1, <4>1, <5>1, <5>3
      <4> QED BY <4>2, <4>3
    <3> QED BY <3>2, <3>3
  <2> QED BY <2>3, <2>4
<1>18. IdleLimitsEmpty(f)
  <2>1. \A k \in LimitCells : k \notin UsedLimits(f) => k \notin UsedLimits(b) /\ k # l
    BY <1>4, <1>5, <1>9, UsedLimitsAre, Constants
  <2>2. \A k \in LimitCells : k \notin UsedLimits(b) => b.head[k] = Nil /\ b.tail[k] = Nil
    BY DEF HeapSound, IdleLimitsEmpty
  <2> QED BY <1>8, <2>1, <2>2 DEF IdleLimitsEmpty
<1>19. Ranked(f)
  <2>1. PICK rank \in [OrderCells -> Nat] :
          \A x \in b.live : b.next[x] # Nil => rank[x] < rank[b.next[x]]
    BY DEF Ranked
  <2> DEFINE above == [rank EXCEPT ![o] = IF t = Nil THEN 0 ELSE rank[t] + 1]
  <2>2. \A x \in b.live : x \in OrderCells /\ x # o /\ b.next[x] # o
    BY <1>4, <1>5, Constants DEF BookType, HeapSound, OrdersLinked
  <2>3. t # Nil => t \in b.live
    BY <1>5
  <2>4. \A x \in b.live : f.next[x] # Nil => above[x] < above[f.next[x]]
    <3> SUFFICES ASSUME NEW x \in b.live, f.next[x] # Nil
                 PROVE  above[x] < above[f.next[x]]
      OBVIOUS
    <3>1. CASE x = t
      <4>1. f.next[x] = o /\ t # Nil /\ t \in OrderCells
        BY <1>7, <2>2, <3>1, Constants
      <4> QED BY <1>4, <2>2, <3>1, <4>1
    <3>2. CASE x # t
      <4>1. f.next[x] = b.next[x] /\ b.next[x] \in OrderCells
        BY <1>7, <2>2, <3>2 DEF BookType
      <4> QED BY <2>1, <2>2, <3>2, <4>1
    <3> QED BY <3>1, <3>2
  <2>5. above \in [OrderCells -> Nat]
    <3>1. t # Nil => t \in OrderCells
      BY <2>2, <2>3
    <3> QED BY <1>4, <3>1
  <2>6. \A x \in f.live : f.next[x] # Nil => above[x] < above[f.next[x]]
    BY <1>6, <1>7, <2>4
  <2> QED BY <2>5, <2>6 DEF Ranked
<1>20. BestIsFirst(f)
  <2>1. f.best = [b.best EXCEPT ![side] = IF i < b.best[side] THEN i ELSE b.best[side]]
    BY <1>1, <1>2 DEF GetLimitEffect, AddEffect
  <2>2. b.best \in [BOOLEAN -> 0..RANGE] /\ i \in 0..(RANGE - 1) /\ RANGE \in Nat
    BY <1>4, Constants DEF BookType, Slots
  <2>3. l # Nil
    BY <1>4, Constants
  <2> SUFFICES ASSUME NEW s \in BOOLEAN
               PROVE  /\ \A j \in Slots : j < f.best[s] => f.slots[s][j] = Nil
                      /\ f.best[s] < RANGE => f.slots[s][f.best[s]] # Nil
    BY DEF BestIsFirst
  <2>4. /\ \A j \in Slots : j < b.best[s] => b.slots[s][j] = Nil
        /\ b.best[s] < RANGE => b.slots[s][b.best[s]] # Nil
    BY DEF BestIsFirst
  <2>5. CASE s # side
    <3>1. f.best[s] = b.best[s]
      BY <2>1, <2>2, <2>5
    <3>2. b.best[s] < RANGE => b.best[s] \in Slots
      BY <2>2 DEF Slots
    <3> QED BY <1>9, <2>4, <2>5, <3>1, <3>2
  <2>6. CASE s = side
    <3>1. f.best[s] = IF i < b.best[s] THEN i ELSE b.best[s]
      BY <2>1, <2>2, <2>6
    <3>2. b.best[s] < RANGE => b.best[s] \in Slots
      BY <2>2 DEF Slots
    <3>3. \A j \in Slots : j \in Nat
      BY Constants DEF Slots
    <3> QED BY <1>9, <2>2, <2>3, <2>4, <2>6, <3>1, <3>2, <3>3
  <2> QED BY <2>5, <2>6
<1>21. BookType(f)
  BY <1>2 DEF AddEffect
<1>22. HeapSound(f)
  BY <1>13, <1>14, <1>15, <1>16, <1>17, <1>18 DEF HeapSound
<1>23. PoolsComplete(b) => PoolsComplete(f)
  BY <1>16, <1>17 DEF PoolsComplete
<1> QED BY <1>19, <1>20, <1>21, <1>22, <1>23
-----------------------------------------------------------------------------
(* The invariants are preserved by a cancel. *)

\* An order without neighbours is alone in its level.
LEMMA LastOfLevel ==
  ASSUME NEW b, BookType(b), HeapSound(b), Ranked(b),
         NEW o \in b.live, b.prev[o] = Nil, b.next[o] = Nil,
         NEW x \in b.live, b.parent[x] = b.parent[o]
  PROVE  x = o
<1> DEFINE T == {y \in b.live : b.parent[y] = b.parent[o] /\ y # o}
<1>1. PICK rank \in [OrderCells -> Nat] :
        \A y \in b.live : b.next[y] # Nil => rank[y] < rank[b.next[y]]
  BY DEF Ranked
<1> DEFINE R == {rank[y] : y \in T}
<1>2. T \subseteq OrderCells
  BY DEF BookType
<1>3. SUFFICES ASSUME T # {} PROVE FALSE
  OBVIOUS
<1>4. R \subseteq Nat /\ R # {}
  BY <1>1, <1>2, <1>3
<1>5. PICK m \in R : \A k \in R : ~(<<k, m>> \in OpToRel(<, Nat))
  <2> HIDE DEF R
  <2> QED BY <1>4, NatLessThanWellFounded, WFMin, Zenon
<1>6. \A k \in R : ~(k < m)
  BY <1>4, <1>5 DEF OpToRel
<1>7. PICK y \in T : rank[y] = m
  BY Zenon, <1>5
<1>8. \A z \in T : ~(rank[z] < rank[y])
  BY <1>6, <1>7
<1>9. /\ IF b.prev[y] = Nil THEN b.head[b.parent[y]] = y
         ELSE b.prev[y] \in b.live /\ b.parent[b.prev[y]] = b.parent[y]
                                   /\ b.next[b.prev[y]] = y
      /\ b.head[b.parent[o]] = o
  BY <1>7 DEF HeapSound, OrdersLinked
<1>10. b.prev[y] # Nil
  BY <1>7, <1>9
<1>11. b.prev[y] # o
  BY <1>2, <1>7, <1>9, <1>10, Constants
<1>12. b.prev[y] \in T
  BY <1>7, <1>9, <1>10, <1>11
<1>13. rank[b.prev[y]] < rank[y]
  BY Zenon, <1>1, <1>2, <1>7, <1>9, <1>10, Constants
<1> QED BY <1>8, <1>12, <1>13

\* The part of the feed's contract a cancel relies on.
RestsOn(b, side, id) == b.lookup[id] # Nil /\ b.side[b.lookup[id]] = side

\* cancel_order preserves the invariant of a book, given the resting side.
LEMMA CancelPreserves ==
  ASSUME NEW b, BookType(b), HeapSound(b), Ranked(b), BestIsFirst(b),
         NEW side \in BOOLEAN, NEW id \in Ids,
         RestsOn(b, side, id),
         NEW c, c = cancel_order(b, side, id)
  PROVE  /\ BookType(c) /\ HeapSound(c) /\ Ranked(c) /\ BestIsFirst(c)
         /\ PoolsComplete(b) => PoolsComplete(c)
<1> DEFINE o == b.lookup[id]
<1> DEFINE l == b.parent[o]
<1> DEFINE i == SlotIdx(side, b.lprice[l])
<1> DEFINE p == b.prev[o]
<1> DEFINE n == b.next[o]
<1>0. /\ o = b.lookup[id] /\ l = b.parent[o] /\ i = SlotIdx(side, b.lprice[l])
      /\ p = b.prev[o] /\ n = b.next[o] /\ o # Nil
  BY DEF RestsOn
<1> HIDE DEF i, l, o, p, n
<1>1. /\ o \in OrderCells /\ o \in b.live
      /\ \A x \in b.live : x \in OrderCells /\ x # Nil
  BY ZenonT(30), <1>0, Constants DEF HeapSound, LookupSound, BookType
<1>2. /\ l = b.slots[side][SlotIdx(side, b.price[o])] /\ l # Nil
      /\ IF p = Nil THEN b.head[l] = o
         ELSE p \in b.live /\ b.parent[p] = l /\ b.next[p] = o
      /\ IF n = Nil THEN b.tail[l] = o
         ELSE n \in b.live /\ b.parent[n] = l /\ b.prev[n] = o
  <2>1. b.side[o] = side
    BY <1>0 DEF RestsOn
  <2> QED BY Zenon, <1>0, <1>1, <2>1 DEF HeapSound, OrdersLinked
<1>3. l \in LimitCells /\ i \in Slots /\ l = b.slots[side][i]
  <2>1. b.price[o] \in MIN..MAX /\ l \in LimitCells \cup {Nil}
    BY <1>0, <1>1 DEF BookType
  <2> DEFINE j == SlotIdx(side, b.price[o])
  <2>2. j \in Slots
    BY <2>1, SlotIdxType
  <2>3. l = b.slots[side][j] /\ l # Nil
    BY <1>2
  <2> HIDE DEF j
  <2>4. SlotIdx(side, b.lprice[l]) = j
    BY SMTT(30), <2>2, <2>3, LevelAt
  <2> QED BY <1>0, <2>1, <2>2, <2>3, <2>4
<1>4. CancelEffect(b, c, side, id, i, l, o, p, n)
  BY Zenon, <1>0, <1>1, <1>3, CancelFields
<1>6. /\ l <= b.made /\ b.lside[l] = side /\ SlotIdx(side, b.lprice[l]) = i
      /\ b.head[l] \in b.live /\ b.parent[b.head[l]] = l /\ b.prev[b.head[l]] = Nil
      /\ b.tail[l] \in b.live /\ b.parent[b.tail[l]] = l /\ b.next[b.tail[l]] = Nil
  BY <1>2, <1>3, LevelAt
\* The book c, cell by cell, in terms of b.
<1>7. /\ c.live = b.live \ {o} /\ c.id = b.id /\ c.price = b.price
      /\ c.side = b.side /\ c.parent = b.parent
      /\ c.lprice = b.lprice /\ c.lside = b.lside
      /\ c.freelist = o /\ c.carved = b.carved /\ c.made = b.made
  BY <1>4 DEF CancelEffect
<1>8. c.lookup[id] = Nil /\ \A x \in Ids : x # id => c.lookup[x] = b.lookup[x]
  <2>1. c.lookup = [b.lookup EXCEPT ![id] = Nil]
    BY <1>4 DEF CancelEffect
  <2>2. b.lookup \in [Ids -> OrderCells \cup {Nil}]
    BY DEF BookType
  <2> QED BY <2>1, <2>2
<1>9. /\ \A x \in OrderCells : c.next[x] = IF x = o THEN b.freelist
                                          ELSE IF x = p THEN n ELSE b.next[x]
      /\ \A x \in OrderCells : c.prev[x] = IF x = o THEN Nil
                                          ELSE IF x = n THEN p ELSE b.prev[x]
  <2>1. c.next = [x \in OrderCells |->
                   IF x = o THEN b.freelist ELSE IF x = p THEN n ELSE b.next[x]]
    BY <1>4 DEF CancelEffect
  <2>2. c.prev = [x \in OrderCells |->
                   IF x = o THEN Nil ELSE IF x = n THEN p ELSE b.prev[x]]
    BY <1>4 DEF CancelEffect
  <2> QED BY <2>1, <2>2
<1>10. /\ c.head[l] = IF p # Nil THEN b.head[l] ELSE n
       /\ c.tail[l] = IF n # Nil THEN b.tail[l] ELSE p
       /\ \A k \in LimitCells : k # l => c.head[k] = b.head[k] /\ c.tail[k] = b.tail[k]
  <2>1. /\ c.head = [b.head EXCEPT ![l] = IF p # Nil THEN b.head[l] ELSE n]
        /\ c.tail = [b.tail EXCEPT ![l] = IF n # Nil THEN b.tail[l] ELSE p]
    BY <1>4 DEF CancelEffect
  <2>2. /\ b.head \in [LimitCells -> OrderCells \cup {Nil}]
        /\ b.tail \in [LimitCells -> OrderCells \cup {Nil}]
    BY DEF BookType
  <2> QED BY <1>3, <2>1, <2>2
<1>11. c.head[l] # Nil => /\ c.slots = b.slots /\ c.best = b.best
                          /\ c.lnext = b.lnext /\ c.lfree = b.lfree
  BY <1>4 DEF CancelEffect
<1>12. c.head[l] = Nil => /\ c.slots[side][i] = Nil
                          /\ \A s \in BOOLEAN, j \in Slots :
                               s # side \/ j # i => c.slots[s][j] = b.slots[s][j]
  <2> SUFFICES ASSUME c.head[l] = Nil
               PROVE  /\ c.slots[side][i] = Nil
                      /\ \A s \in BOOLEAN, j \in Slots :
                           s # side \/ j # i => c.slots[s][j] = b.slots[s][j]
    OBVIOUS
  <2>1. c.slots = [b.slots EXCEPT ![side][i] = Nil]
    BY <1>4 DEF CancelEffect
  <2>2. b.slots \in [BOOLEAN -> [Slots -> LimitCells \cup {Nil}]]
    BY DEF BookType
  <2>3. c.slots[side][i] = Nil
    BY <1>3, <2>1, <2>2
  <2>4. ASSUME NEW s \in BOOLEAN, NEW j \in Slots, s # side \/ j # i
        PROVE  c.slots[s][j] = b.slots[s][j]
    BY <1>3, <2>1, <2>2, <2>4
  <2> QED BY <2>3, <2>4
<1>13. c.head[l] = Nil => /\ c.lfree = l /\ c.lnext[l] = b.lfree
                          /\ \A k \in LimitCells : k # l => c.lnext[k] = b.lnext[k]
  <2>1. c.head[l] = Nil => c.lnext = [b.lnext EXCEPT ![l] = b.lfree] /\ c.lfree = l
    BY <1>4 DEF CancelEffect
  <2>2. b.lnext \in [LimitCells -> LimitCells \cup {Nil}]
    BY DEF BookType
  <2> QED BY <1>3, <2>1, <2>2
\* When the level is left empty, no order of it remains.
<1>14. c.head[l] = Nil => p = Nil /\ n = Nil
  BY <1>1, <1>6, <1>10
<1>15. c.head[l] = Nil => \A x \in c.live : b.parent[x] # l
  BY <1>0, <1>1, <1>7, <1>14, LastOfLevel
<1>16. BookType(c)
  BY Zenon, <1>4 DEF CancelEffect
<1>17. OrdersLinked(c)
  <2>0. /\ b.side \in [OrderCells -> BOOLEAN] /\ b.price \in [OrderCells -> MIN..MAX]
        /\ b.parent \in [OrderCells -> LimitCells \cup {Nil}]
    BY DEF BookType
  <2> SUFFICES ASSUME NEW x \in c.live
               PROVE  LET k == c.parent[x] IN
                      /\ k = c.slots[c.side[x]][SlotIdx(c.side[x], c.price[x])] /\ k # Nil
                      /\ IF c.prev[x] = Nil THEN c.head[k] = x
                         ELSE c.prev[x] \in c.live /\ c.parent[c.prev[x]] = k
                                                   /\ c.next[c.prev[x]] = x
                      /\ IF c.next[x] = Nil THEN c.tail[k] = x
                         ELSE c.next[x] \in c.live /\ c.parent[c.next[x]] = k
                                                   /\ c.prev[c.next[x]] = x
    BY DEF OrdersLinked
  <2> DEFINE k == b.parent[x]
  <2>1. x \in b.live /\ x # o /\ x \in OrderCells /\ c.parent[x] = k
    BY <1>1, <1>7
  <2>2. /\ k = b.slots[b.side[x]][SlotIdx(b.side[x], b.price[x])] /\ k # Nil
        /\ IF b.prev[x] = Nil THEN b.head[k] = x
           ELSE b.prev[x] \in b.live /\ b.parent[b.prev[x]] = k
                                     /\ b.next[b.prev[x]] = x
        /\ IF b.next[x] = Nil THEN b.tail[k] = x
           ELSE b.next[x] \in b.live /\ b.parent[b.next[x]] = k
                                     /\ b.prev[b.next[x]] = x
    BY Zenon, <2>1 DEF HeapSound, OrdersLinked
  <2>3. SlotIdx(b.side[x], b.price[x]) \in Slots /\ k \in LimitCells
    <3>1. b.side[x] \in BOOLEAN /\ b.price[x] \in MIN..MAX /\ k \in LimitCells \cup {Nil}
      BY <2>0, <2>1
    <3> QED BY <2>2, <3>1, SlotIdxType
  <2>4. k = c.slots[c.side[x]][SlotIdx(c.side[x], c.price[x])]
    <3>1. CASE c.head[l] # Nil
      BY Zenon, <1>7, <1>11, <2>2, <3>1
    <3>2. CASE c.head[l] = Nil
      <4>1. k # l
        BY <1>15, <3>2
      <4>2. b.side[x] \in BOOLEAN
        BY <2>0, <2>1
      <4> QED BY SMTT(30), <1>3, <1>7, <1>12, <2>2, <2>3, <3>2, <4>1, <4>2
    <3> QED BY Zenon, <3>1, <3>2
  <2>5. IF c.prev[x] = Nil THEN c.head[k] = x
        ELSE c.prev[x] \in c.live /\ c.parent[c.prev[x]] = k /\ c.next[c.prev[x]] = x
    <3>1. CASE x = n
      <4>1. n # Nil /\ k = l /\ b.prev[x] = o /\ c.prev[x] = p
        BY <1>1, <1>2, <1>9, <2>1, <2>2, <3>1
      <4>2. CASE p = Nil
        BY Zenon, <1>10, <3>1, <4>1, <4>2
      <4>3. CASE p # Nil
        BY ZenonT(30), <1>0, <1>1, <1>2, <1>7, <1>9, <2>1, <3>1, <4>1, <4>3
      <4> QED BY Zenon, <4>2, <4>3
    <3>2. CASE x # n
      <4>1. c.prev[x] = b.prev[x]
        BY <1>9, <2>1, <3>2
      <4>2. CASE b.prev[x] = Nil
        BY Zenon, <1>2, <1>10, <2>1, <2>2, <2>3, <4>1, <4>2
      <4>3. CASE b.prev[x] # Nil
        <5>1. b.prev[x] # o
          BY Zenon, <1>0, <2>2, <3>2, <4>3
        <5>2. b.prev[x] # p \/ p = Nil
          BY <1>2, <2>1, <2>2, <4>3
        <5> QED BY <1>1, <1>7, <1>9, <2>2, <4>1, <4>3, <5>1, <5>2
      <4> QED BY <4>2, <4>3
    <3> QED BY <3>1, <3>2
  <2>6. IF c.next[x] = Nil THEN c.tail[k] = x
        ELSE c.next[x] \in c.live /\ c.parent[c.next[x]] = k /\ c.prev[c.next[x]] = x
    <3>1. CASE x = p
      <4>1. p # Nil /\ k = l /\ b.next[x] = o /\ c.next[x] = n
        BY <1>1, <1>2, <1>9, <2>1, <2>2, <3>1
      <4>2. CASE n = Nil
        BY Zenon, <1>10, <3>1, <4>1, <4>2
      <4>3. CASE n # Nil
        BY ZenonT(30), <1>0, <1>1, <1>2, <1>7, <1>9, <2>1, <3>1, <4>1, <4>3
      <4> QED BY ZenonT(30), <4>2, <4>3
    <3>2. CASE x # p
      <4>1. c.next[x] = b.next[x]
        BY <1>9, <2>1, <3>2
      <4>2. CASE b.next[x] = Nil
        BY Zenon, <1>2, <1>10, <2>1, <2>2, <2>3, <4>1, <4>2
      <4>3. CASE b.next[x] # Nil
        <5>1. b.next[x] # o
          BY Zenon, <1>0, <2>2, <3>2, <4>3
        <5>2. b.next[x] # n \/ n = Nil
          BY Zenon, <1>2, <2>1, <2>2, <4>3
        <5> QED BY <1>1, <1>7, <1>9, <2>2, <4>1, <4>3, <5>1, <5>2
      <4> QED BY <4>2, <4>3
    <3> QED BY <3>1, <3>2
  <2> QED BY Zenon, <2>1, <2>2, <2>4, <2>5, <2>6
<1>18. LevelsSound(c)
  <2> SUFFICES ASSUME NEW s \in BOOLEAN, NEW j \in Slots,
                      NEW k, k = c.slots[s][j], k # Nil
               PROVE  /\ k <= c.made /\ c.lside[k] = s /\ SlotIdx(s, c.lprice[k]) = j
                      /\ c.head[k] \in c.live /\ c.parent[c.head[k]] = k
                                             /\ c.prev[c.head[k]] = Nil
                      /\ c.tail[k] \in c.live /\ c.parent[c.tail[k]] = k
                                             /\ c.next[c.tail[k]] = Nil
    BY DEF LevelsSound
  <2>1. k = b.slots[s][j] /\ (k = l => c.head[l] # Nil)
    <3>1. CASE c.head[l] # Nil
      BY <1>11, <3>1
    <3>2. CASE c.head[l] = Nil
      <4>1. (s # side \/ j # i) /\ k = b.slots[s][j]
        BY <1>12, <3>2
      <4>2. b.lside[k] = s /\ SlotIdx(s, b.lprice[k]) = j
        BY <4>1, LevelAt
      <4> QED BY <1>6, <4>1, <4>2
    <3> QED BY <3>1, <3>2
  <2>2. k \in LimitCells
    BY <2>1 DEF BookType
  <2>3. /\ k <= b.made /\ b.lside[k] = s /\ SlotIdx(s, b.lprice[k]) = j
        /\ b.head[k] \in b.live /\ b.parent[b.head[k]] = k /\ b.prev[b.head[k]] = Nil
        /\ b.tail[k] \in b.live /\ b.parent[b.tail[k]] = k /\ b.next[b.tail[k]] = Nil
    BY <2>1, LevelAt
  <2>4. k <= c.made /\ c.lside[k] = s /\ SlotIdx(s, c.lprice[k]) = j
    BY Zenon, <1>7, <2>3
  <2>5. CASE k # l
    <3>1. c.head[k] = b.head[k] /\ c.tail[k] = b.tail[k]
      BY Zenon, <1>10, <2>2, <2>5
    <3>2. b.head[k] # o /\ b.tail[k] # o
      BY Zenon, <1>0, <2>3, <2>5
    <3>3. b.head[k] # n /\ b.tail[k] # p
      BY <1>1, <1>2, <2>3, <2>5
    <3>4. c.head[k] \in c.live /\ c.parent[c.head[k]] = k /\ c.prev[c.head[k]] = Nil
      <4>1. c.head[k] \in c.live
        BY <1>1, <1>7, <2>3, <3>1, <3>2
      <4>2. c.parent[c.head[k]] = k
        BY Zenon, <1>7, <2>3, <3>1
      <4>3. c.prev[c.head[k]] = Nil
        BY <1>1, <1>9, <2>3, <3>1, <3>2, <3>3
      <4> QED BY <4>1, <4>2, <4>3
    <3>5. c.tail[k] \in c.live /\ c.parent[c.tail[k]] = k /\ c.next[c.tail[k]] = Nil
      <4>1. c.tail[k] \in c.live
        BY <1>1, <1>7, <2>3, <3>1, <3>2
      <4>2. c.parent[c.tail[k]] = k
        BY Zenon, <1>7, <2>3, <3>1
      <4>3. c.next[c.tail[k]] = Nil
        BY <1>1, <1>9, <2>3, <3>1, <3>2, <3>3
      <4> QED BY <4>1, <4>2, <4>3
    <3> QED BY <2>4, <3>4, <3>5
  <2>6. CASE k = l
    <3>1. c.head[l] # Nil
      BY <2>1, <2>6
    <3>2. c.head[l] \in c.live /\ c.parent[c.head[l]] = l /\ c.prev[c.head[l]] = Nil
      <4>1. CASE p = Nil
        <5>1. c.head[l] = n /\ n # Nil /\ n \in b.live /\ b.parent[n] = l /\ b.prev[n] = o
          BY Zenon, <1>2, <1>10, <3>1, <4>1
        <5>2. n # o
          BY Zenon, <1>0, <1>1, <4>1, <5>1
        <5> QED BY <1>1, <1>7, <1>9, <4>1, <5>1, <5>2
      <4>2. CASE p # Nil
        <5>1. c.head[l] = b.head[l]
          BY <1>10, <4>2
        <5>2. b.head[l] # o /\ b.head[l] # n
          BY Zenon, <1>0, <1>1, <1>2, <1>6, <4>2
        <5> QED BY <1>1, <1>6, <1>7, <1>9, <5>1, <5>2
      <4> QED BY <4>1, <4>2
    <3>3. c.tail[l] \in c.live /\ c.parent[c.tail[l]] = l /\ c.next[c.tail[l]] = Nil
      <4>1. CASE n = Nil
        <5>1. c.tail[l] = p /\ p # Nil /\ p \in b.live /\ b.parent[p] = l /\ b.next[p] = o
          BY <1>2, <1>10, <3>1, <4>1
        <5>2. p # o
          BY <1>0, <1>1, <4>1, <5>1
        <5> QED BY Zenon, <1>1, <1>7, <1>9, <4>1, <5>1, <5>2
      <4>2. CASE n # Nil
        <5>1. c.tail[l] = b.tail[l]
          BY Zenon, <1>10, <4>2
        <5>2. b.tail[l] # o /\ b.tail[l] # p
          BY Zenon, <1>0, <1>1, <1>2, <1>6, <4>2
        <5> QED BY <1>1, <1>6, <1>7, <1>9, <5>1, <5>2
      <4> QED BY <4>1, <4>2
    <3> QED BY <2>4, <2>6, <3>2, <3>3
  <2> QED BY Zenon, <2>5, <2>6
<1>19. LookupSound(c)
  <2>1. \A x \in Ids : b.lookup[x] # Nil =>
           b.lookup[x] \in b.live /\ b.id[b.lookup[x]] = x
    BY DEF HeapSound, LookupSound
  <2> QED BY <1>0, <1>7, <1>8, <2>1 DEF LookupSound
<1>t. /\ b.next \in [OrderCells -> OrderCells \cup {Nil}]
      /\ c.next \in [OrderCells -> OrderCells \cup {Nil}]
      /\ b.freelist \in OrderCells \cup {Nil}
      /\ b.lnext \in [LimitCells -> LimitCells \cup {Nil}]
      /\ c.lnext \in [LimitCells -> LimitCells \cup {Nil}]
      /\ b.lfree \in LimitCells \cup {Nil}
  BY <1>16 DEF BookType
<1>20. /\ OrderPoolSound(c)
       /\ PoolsComplete(b) => Chain(c.next, c.freelist) = FreeOrders(c)
  <2>0. b.live \subseteq 1..b.carved
    BY DEF HeapSound, OrderPoolSound
  <2>1. /\ b.freelist # Nil => b.freelist \in FreeOrders(b)
        /\ \A x \in FreeOrders(b) :
             b.next[x] # Nil =>
               /\ b.next[x] \in FreeOrders(b) /\ b.next[x] # b.freelist
               /\ \A y \in FreeOrders(b) : b.next[y] = b.next[x] => y = x
    BY DEF HeapSound, OrderPoolSound
  <2>2. FreeOrders(c) = FreeOrders(b) \cup {o} /\ o \notin FreeOrders(b)
    BY <1>1, <1>7, <2>0 DEF FreeOrders
  <2>3. \A x \in FreeOrders(b) : c.next[x] = b.next[x]
    <3>1. \A x \in FreeOrders(b) : x \in OrderCells /\ x # o /\ x # p
      <4>1. b.carved \in 0..MaxOrders
        BY DEF BookType
      <4>2. \A x \in FreeOrders(b) : x \in OrderCells /\ x \notin b.live /\ x # Nil
        BY <4>1, Constants DEF FreeOrders, OrderCells
      <4> QED BY <1>1, <1>2, <4>2
    <3> QED BY <1>9, <3>1
  <2>4. c.next[o] = b.freelist /\ c.freelist = o
    BY <1>1, <1>7, <1>9
  <2>5. c.live \subseteq 1..c.carved
    BY <1>7, <2>0
  <2>6. OrderPoolSound(c)
    BY <2>1, <2>2, <2>3, <2>4, <2>5 DEF OrderPoolSound
  <2>7. ASSUME PoolsComplete(b)
        PROVE  Chain(c.next, c.freelist) = FreeOrders(c)
    <3>1. Chain(b.next, b.freelist) = FreeOrders(b)
      BY <2>7 DEF PoolsComplete
    <3>2. Chain(c.next, o) = Chain(b.next, b.freelist) \cup {o}
      BY <1>1, <1>t, <2>2, <2>3, <2>4, <3>1, PushedChain, Constants
    <3> QED BY <2>2, <2>4, <3>1, <3>2
  <2> QED BY <2>6, <2>7
<1>21. /\ LimitPoolSound(c)
       /\ PoolsComplete(b) => Chain(c.lnext, c.lfree) = FreeLimits(c)
  <2>1. /\ b.lfree # Nil => b.lfree \in FreeLimits(b)
        /\ \A x \in FreeLimits(b) :
             b.lnext[x] # Nil =>
               /\ b.lnext[x] \in FreeLimits(b) /\ b.lnext[x] # b.lfree
               /\ \A y \in FreeLimits(b) : b.lnext[y] = b.lnext[x] => y = x
    BY DEF HeapSound, LimitPoolSound
  <2>2. CASE c.head[l] # Nil
    <3>1. FreeLimits(c) = FreeLimits(b)
      BY <1>7, <1>11, <2>2 DEF FreeLimits, UsedLimits
    <3>2. LimitPoolSound(c)
      BY <1>11, <2>1, <2>2, <3>1 DEF LimitPoolSound
    <3> QED BY <1>11, <2>2, <3>1, <3>2 DEF PoolsComplete
  <2>3. CASE c.head[l] = Nil
    <3>1. \A k : k \in UsedLimits(c) <=> k \in UsedLimits(b) /\ k # l
      <4>1. ASSUME NEW k, k \in UsedLimits(c)
            PROVE  k \in UsedLimits(b) /\ k # l
        <5>1. PICK s \in BOOLEAN, j \in Slots : k = c.slots[s][j] /\ k # Nil
          BY <4>1, UsedLimitsAre
        <5>2. k = b.slots[s][j] /\ (s # side \/ j # i)
          BY <1>12, <2>3, <5>1
        <5>3. b.lside[k] = s /\ SlotIdx(s, b.lprice[k]) = j
          BY <5>1, <5>2, LevelAt
        <5> QED BY <1>6, <5>1, <5>2, <5>3, UsedLimitsAre
      <4>2. ASSUME NEW k, k \in UsedLimits(b), k # l
            PROVE  k \in UsedLimits(c)
        <5>1. PICK s \in BOOLEAN, j \in Slots : k = b.slots[s][j] /\ k # Nil
          BY <4>2, UsedLimitsAre
        <5>2. s # side \/ j # i
          BY <1>3, <4>2, <5>1
        <5>3. k = c.slots[s][j]
          BY <1>12, <2>3, <5>1, <5>2
        <5> QED BY <5>1, <5>3, UsedLimitsAre
      <4> QED BY <4>1, <4>2
    <3>2. l \in UsedLimits(b)
      BY <1>2, <1>3, UsedLimitsAre
    <3>3. l \in 1..b.made
      <4>1. b.made \in Nat
        BY Constants DEF BookType
      <4> QED BY <1>3, <1>6, <4>1, Constants DEF LimitCells
    <3>4. FreeLimits(c) = FreeLimits(b) \cup {l} /\ l \notin FreeLimits(b)
      BY <1>7, <3>1, <3>2, <3>3 DEF FreeLimits
    <3>5. \A k \in FreeLimits(b) : c.lnext[k] = b.lnext[k]
      <4>1. b.made \in 0..MaxLimits
        BY DEF BookType
      <4>2. \A k \in FreeLimits(b) : k \in LimitCells
        BY <4>1, Constants DEF FreeLimits, LimitCells
      <4> QED BY <1>13, <2>3, <3>4, <4>2
    <3>6. LimitPoolSound(c)
      BY <1>13, <2>1, <2>3, <3>4, <3>5 DEF LimitPoolSound
    <3>7. ASSUME PoolsComplete(b)
          PROVE  Chain(c.lnext, c.lfree) = FreeLimits(c)
      <4>1. Chain(b.lnext, b.lfree) = FreeLimits(b)
        BY <3>7 DEF PoolsComplete
      <4>2. Chain(c.lnext, l) = Chain(b.lnext, b.lfree) \cup {l}
        BY <1>3, <1>13, <1>t, <2>3, <3>4, <3>5, <4>1, PushedChain, Constants
      <4> QED BY <1>13, <2>3, <3>4, <4>1, <4>2
    <3> QED BY <3>6, <3>7
  <2> QED BY <2>2, <2>3
<1>22. IdleLimitsEmpty(c)
  <2>1. \A k \in LimitCells : k \notin UsedLimits(b) => b.head[k] = Nil /\ b.tail[k] = Nil
    BY DEF HeapSound, IdleLimitsEmpty
  <2>2. l \in UsedLimits(b)
    BY <1>2, <1>3, UsedLimitsAre
  <2> SUFFICES ASSUME NEW k \in LimitCells, k \notin UsedLimits(c)
               PROVE  c.head[k] = Nil /\ c.tail[k] = Nil
    BY DEF IdleLimitsEmpty
  <2>3. CASE c.head[l] # Nil
    <3>1. k \notin UsedLimits(b)
      BY <1>11, <2>3 DEF UsedLimits
    <3> QED BY <1>10, <2>1, <2>2, <3>1
  <2>4. CASE c.head[l] = Nil /\ k = l
    BY <1>10, <1>14, <2>4
  <2>5. CASE c.head[l] = Nil /\ k # l
    <3>1. k \notin UsedLimits(b)
      <4>1. SUFFICES ASSUME k \in UsedLimits(b) PROVE FALSE
        OBVIOUS
      <4>2. PICK s \in BOOLEAN, j \in Slots : k = b.slots[s][j] /\ k # Nil
        BY <4>1, UsedLimitsAre
      <4>3. s # side \/ j # i
        BY <1>3, <2>5, <4>2
      <4>4. k = c.slots[s][j]
        BY <1>12, <2>5, <4>2, <4>3
      <4> QED BY <4>2, <4>4, UsedLimitsAre
    <3> QED BY <1>10, <2>1, <2>5, <3>1
  <2> QED BY <2>3, <2>4, <2>5
<1>23. Ranked(c)
  <2>1. PICK rank \in [OrderCells -> Nat] :
          \A x \in b.live : b.next[x] # Nil => rank[x] < rank[b.next[x]]
    BY DEF Ranked
  <2>2. ASSUME NEW x \in c.live, c.next[x] # Nil
        PROVE  rank[x] < rank[c.next[x]]
    <3>1. x \in b.live /\ x # o /\ x \in OrderCells
      BY <1>1, <1>7
    <3>2. CASE x = p
      <4>1. c.next[x] = n /\ b.next[x] = o /\ n \in OrderCells
        BY <1>1, <1>2, <1>9, <2>2, <3>1, <3>2
      <4>2. rank[x] < rank[o] /\ rank[o] < rank[n]
        BY <1>0, <1>1, <2>1, <2>2, <3>1, <4>1
      <4> QED BY <1>1, <2>1, <3>1, <4>1, <4>2
    <3>3. CASE x # p
      BY <1>9, <2>1, <2>2, <3>1, <3>3
    <3> QED BY <3>2, <3>3
  <2> QED BY <2>1, <2>2 DEF Ranked
<1>24. BestIsFirst(c)
  <2>1. CASE c.head[l] # Nil
    BY <1>11, <2>1 DEF BestIsFirst
  <2>2. CASE c.head[l] = Nil
    <3>1. b.best \in [BOOLEAN -> 0..RANGE]
      BY DEF BookType
    <3> DEFINE new == ScanStop(c.slots[side], b.best[side])
    <3>2. c.best = [b.best EXCEPT ![side] = new]
      BY <1>4, <2>2 DEF CancelEffect
    <3>3. b.best[side] \in 0..RANGE
      BY <3>1
    <3>4. /\ new \in b.best[side]..RANGE
          /\ new < RANGE => c.slots[side][new] # Nil
          /\ \A j \in b.best[side]..(new - 1) : c.slots[side][j] = Nil
      BY <3>3, ScanStopFirst
    <3> HIDE DEF new
    <3>5. \A j \in Slots : j < b.best[side] => b.slots[side][j] = Nil
      BY DEF BestIsFirst
    <3>6. \A j \in Slots : j < new => c.slots[side][j] = Nil
      <4> SUFFICES ASSUME NEW j \in Slots, j < new PROVE c.slots[side][j] = Nil
        OBVIOUS
      <4>1. j \in Nat /\ RANGE \in Nat
        BY Constants DEF Slots
      <4>2. CASE j < b.best[side]
        BY <1>12, <2>2, <3>5, <4>2
      <4>3. CASE ~(j < b.best[side])
        BY <3>3, <3>4, <4>1, <4>3
      <4> QED BY <4>2, <4>3
    <3>7. c.best[side] = new
      BY <3>1, <3>2
    <3>8. ASSUME NEW s \in BOOLEAN, s # side
          PROVE  /\ \A j \in Slots : j < c.best[s] => c.slots[s][j] = Nil
                 /\ c.best[s] < RANGE => c.slots[s][c.best[s]] # Nil
      <4>1. c.best[s] = b.best[s] /\ b.best[s] \in 0..RANGE
        BY <3>1, <3>2, <3>8
      <4>2. \A j \in Slots : c.slots[s][j] = b.slots[s][j]
        BY <1>12, <2>2, <3>8
      <4>3. b.best[s] < RANGE => b.best[s] \in Slots
        BY <4>1, Constants DEF Slots
      <4> QED BY <4>1, <4>2, <4>3 DEF BestIsFirst
    <3> QED BY <3>4, <3>6, <3>7, <3>8 DEF BestIsFirst
  <2> QED BY <2>1, <2>2
<1>25. HeapSound(c)
  BY <1>17, <1>18, <1>19, <1>20, <1>21, <1>22 DEF HeapSound
<1>26. PoolsComplete(b) => PoolsComplete(c)
  BY <1>20, <1>21 DEF PoolsComplete
<1> QED BY <1>16, <1>23, <1>24, <1>25, <1>26
-----------------------------------------------------------------------------
(* The theorems. *)

IInv == TypeOK /\ MemorySafe /\ BestIsTopOfBook /\ Ranked(book) /\ NothingLeaks

\* A new book satisfies the invariant.
LEMMA InitHolds == Init => IInv
<1> SUFFICES ASSUME Init PROVE IInv
  OBVIOUS
<1>1. /\ book.slots = [s \in BOOLEAN |-> [j \in Slots |-> Nil]]
      /\ book.best = [s \in BOOLEAN |-> RANGE]
      /\ book.lookup = [x \in Ids |-> Nil]
      /\ book.freelist = Nil /\ book.carved = 0 /\ book.live = {}
      /\ book.lfree = Nil /\ book.made = 0
  BY DEF Init
<1>2. /\ book.id = [o \in OrderCells |-> CHOOSE x \in Ids : TRUE]
      /\ book.price = [o \in OrderCells |-> MIN]
      /\ book.size = [o \in OrderCells |-> 0]
      /\ book.side = [o \in OrderCells |-> TRUE]
      /\ book.next = [o \in OrderCells |-> Nil]
      /\ book.prev = [o \in OrderCells |-> Nil]
      /\ book.parent = [o \in OrderCells |-> Nil]
  BY DEF Init
<1>3. /\ book.lprice = [l \in LimitCells |-> 0]
      /\ book.volume = [l \in LimitCells |-> 0]
      /\ book.lside = [l \in LimitCells |-> FALSE]
      /\ book.head = [l \in LimitCells |-> Nil]
      /\ book.tail = [l \in LimitCells |-> Nil]
      /\ book.lnext = [l \in LimitCells |-> Nil]
  BY DEF Init
<1>4. IsBook(book)
  BY DEF Init, IsBook, Members
<1>5. TypeOK
  <2>1. (CHOOSE x \in Ids : TRUE) \in Ids
    BY BookAssumption DEF BookAssumption
  <2>2. /\ book.slots \in [BOOLEAN -> [Slots -> LimitCells \cup {Nil}]]
        /\ book.best \in [BOOLEAN -> 0..RANGE]
        /\ book.lookup \in [Ids -> OrderCells \cup {Nil}]
        /\ book.freelist \in OrderCells \cup {Nil} /\ book.carved \in 0..MaxOrders
        /\ book.live \subseteq OrderCells
        /\ book.lfree \in LimitCells \cup {Nil} /\ book.made \in 0..MaxLimits
    BY SMTT(60), <1>1, Constants
  <2>3. /\ book.id \in [OrderCells -> Ids] /\ book.price \in [OrderCells -> MIN..MAX]
        /\ book.size \in [OrderCells -> Nat] /\ book.side \in [OrderCells -> BOOLEAN]
        /\ book.next \in [OrderCells -> OrderCells \cup {Nil}]
        /\ book.prev \in [OrderCells -> OrderCells \cup {Nil}]
        /\ book.parent \in [OrderCells -> LimitCells \cup {Nil}]
    <3>1. MIN \in MIN..MAX /\ 0 \in Nat
      BY Constants
    <3> QED BY Zenon, <1>2, <2>1, <3>1
  <2>4. /\ book.lprice \in [LimitCells -> Int] /\ book.volume \in [LimitCells -> Int]
        /\ book.lside \in [LimitCells -> BOOLEAN]
        /\ book.head \in [LimitCells -> OrderCells \cup {Nil}]
        /\ book.tail \in [LimitCells -> OrderCells \cup {Nil}]
        /\ book.lnext \in [LimitCells -> LimitCells \cup {Nil}]
    BY <1>3
  <2> QED BY <1>4, <2>2, <2>3, <2>4 DEF TypeOK, BookType
<1>6. OrdersLinked(book) /\ LookupSound(book) /\ Ranked(book)
  <2>1. [o \in OrderCells |-> 0] \in [OrderCells -> Nat]
    OBVIOUS
  <2> QED BY <1>1, <2>1 DEF OrdersLinked, LookupSound, Ranked
<1>7. LevelsSound(book) /\ IdleLimitsEmpty(book)
  BY <1>1, <1>3 DEF LevelsSound, IdleLimitsEmpty
<1>8. OrderPoolSound(book) /\ LimitPoolSound(book)
  BY <1>1 DEF OrderPoolSound, LimitPoolSound, FreeOrders, FreeLimits
<1>9. BestIsTopOfBook
  <2>1. ASSUME NEW s \in BOOLEAN
        PROVE  /\ \A j \in Slots : book.slots[s][j] = Nil
               /\ ~(book.best[s] < RANGE)
    BY <1>1, Constants
  <2> QED BY <2>1 DEF BestIsTopOfBook, BestIsFirst
<1>10. NothingLeaks
  <2>1. /\ book.next \in [OrderCells -> OrderCells \cup {Nil}]
        /\ book.lnext \in [LimitCells -> LimitCells \cup {Nil}]
    BY <1>5 DEF TypeOK, BookType
  <2>2. Chain(book.next, Nil) = {} /\ Chain(book.lnext, Nil) = {}
    BY <2>1, EmptyChain, Constants
  <2>3. FreeOrders(book) = {} /\ FreeLimits(book) = {}
    BY <1>1 DEF FreeOrders, FreeLimits
  <2> QED BY <1>1, <2>2, <2>3 DEF NothingLeaks, PoolsComplete
<1> QED BY <1>5, <1>6, <1>7, <1>8, <1>9, <1>10 DEF IInv, MemorySafe, HeapSound

\* Shrinking an order in place touches no link.
LEMMA ShrinkPreserves ==
  ASSUME NEW b, BookType(b), HeapSound(b), Ranked(b), BestIsFirst(b),
         NEW side \in BOOLEAN, NEW id \in Ids, NEW px, NEW sz \in Nat,
         b.lookup[id] # Nil, ~Replaces(b, id, px, sz),
         NEW c, c = modify_order(b, side, id, px, sz)
  PROVE  /\ BookType(c) /\ HeapSound(c) /\ Ranked(c) /\ BestIsFirst(c)
         /\ PoolsComplete(b) => PoolsComplete(c)
<1> DEFINE o == b.lookup[id]
<1> DEFINE l == b.parent[o]
<1>1. c = [b EXCEPT !.volume[l] = b.volume[l] + (sz - b.size[o]), !.size[o] = sz]
  BY DEF modify_order
<1>2. o \in OrderCells /\ l \in LimitCells /\ IsBook(b)
  <2>1. o \in b.live /\ o \in OrderCells
    BY Constants DEF HeapSound, LookupSound, BookType
  <2>2. l # Nil
    BY <2>1 DEF HeapSound, OrdersLinked
  <2> QED BY <2>1, <2>2 DEF BookType
<1> HIDE DEF o, l
<1>3. /\ IsBook(c)
      /\ c.slots = b.slots /\ c.best = b.best /\ c.lookup = b.lookup
      /\ c.id = b.id /\ c.price = b.price /\ c.side = b.side
      /\ c.next = b.next /\ c.prev = b.prev /\ c.parent = b.parent
      /\ c.freelist = b.freelist /\ c.carved = b.carved /\ c.live = b.live
      /\ c.lprice = b.lprice /\ c.lside = b.lside
      /\ c.head = b.head /\ c.tail = b.tail
      /\ c.lnext = b.lnext /\ c.lfree = b.lfree /\ c.made = b.made
  BY <1>1, <1>2 DEF IsBook, Members
<1>4. /\ c.volume = [b.volume EXCEPT ![l] = b.volume[l] + (sz - b.size[o])]
      /\ c.size = [b.size EXCEPT ![o] = sz]
  BY <1>1, <1>2 DEF IsBook, Members
<1>5. c.volume \in [LimitCells -> Int] /\ c.size \in [OrderCells -> Nat]
  <2>1. b.volume \in [LimitCells -> Int] /\ b.size \in [OrderCells -> Nat]
    BY DEF BookType
  <2>2. b.volume[l] + (sz - b.size[o]) \in Int
    BY <1>2, <2>1
  <2> QED BY <1>4, <2>1, <2>2
<1>6. BookType(c)
  BY <1>3, <1>5 DEF BookType
<1>7. OrdersLinked(c) /\ LevelsSound(c) /\ LookupSound(c)
  <2>1. OrdersLinked(c)
    BY SMTT(30), <1>3 DEF HeapSound, OrdersLinked
  <2>2. LevelsSound(c)
    <3> SUFFICES ASSUME NEW s \in BOOLEAN, NEW j \in Slots,
                        NEW k, k = c.slots[s][j], k # Nil
                 PROVE  /\ k <= c.made /\ c.lside[k] = s /\ SlotIdx(s, c.lprice[k]) = j
                        /\ c.head[k] \in c.live /\ c.parent[c.head[k]] = k
                                               /\ c.prev[c.head[k]] = Nil
                        /\ c.tail[k] \in c.live /\ c.parent[c.tail[k]] = k
                                               /\ c.next[c.tail[k]] = Nil
      BY DEF LevelsSound
    <3>1. k = b.slots[s][j]
      BY Zenon, <1>3
    <3>2. /\ k <= b.made /\ b.lside[k] = s /\ SlotIdx(s, b.lprice[k]) = j
          /\ b.head[k] \in b.live /\ b.parent[b.head[k]] = k /\ b.prev[b.head[k]] = Nil
          /\ b.tail[k] \in b.live /\ b.parent[b.tail[k]] = k /\ b.next[b.tail[k]] = Nil
      BY <3>1, LevelAt
    <3> QED BY Zenon, <1>3, <3>2
  <2>3. LookupSound(c)
    BY <1>3 DEF HeapSound, LookupSound
  <2> QED BY <2>1, <2>2, <2>3
<1>8. OrderPoolSound(c) /\ LimitPoolSound(c) /\ IdleLimitsEmpty(c)
  BY <1>3 DEF HeapSound, OrderPoolSound, LimitPoolSound, IdleLimitsEmpty,
              FreeOrders, FreeLimits, UsedLimits
<1>9. Ranked(c) /\ BestIsFirst(c)
  BY <1>3 DEF Ranked, BestIsFirst
<1>10. PoolsComplete(b) => PoolsComplete(c)
  BY <1>3 DEF PoolsComplete, FreeOrders, FreeLimits, UsedLimits
<1> QED BY <1>6, <1>7, <1>8, <1>9, <1>10 DEF HeapSound

\* Every call of process_msg that the feed may cause preserves the invariant.
LEMMA StepPreserves == IInv /\ [Next]_vars => IInv'
<1> SUFFICES ASSUME IInv, [Next]_vars PROVE IInv'
  OBVIOUS
<1> DEFINE I(b) == /\ BookType(b) /\ HeapSound(b) /\ Ranked(b) /\ BestIsFirst(b)
                   /\ PoolsComplete(b)
<1>1. I(book)
  BY DEF IInv, TypeOK, MemorySafe, BestIsTopOfBook, NothingLeaks
<1>2. SUFFICES I(book')
  BY DEF IInv, TypeOK, MemorySafe, BestIsTopOfBook, Ranked, NothingLeaks
<1>3. CASE UNCHANGED vars
  BY <1>1, <1>3 DEF vars
<1>4. ASSUME NEW m \in Messages, FeedContract(m), process_msg(m)
      PROVE  I(book')
  <2>1. /\ m.side \in BOOLEAN /\ m.id \in Ids /\ m.price \in FeedPrices
        /\ m.size \in Nat
    <3>1. FeedSizes \subseteq Nat
      BY BookAssumption DEF BookAssumption
    <3>2. CASE m \in [action : {"A", "M"}, side : BOOLEAN, id : Ids,
                     price : FeedPrices, size : FeedSizes]
      BY <3>1, <3>2
    <3>3. CASE m \in [action : {"C", "T"}, side : BOOLEAN, id : Ids,
                     price : FeedPrices, size : {0}]
      BY <3>3
    <3> QED BY <3>2, <3>3 DEF Messages
  <2>2. Accepted(m.price) => m.price \in MIN..MAX
    BY <2>1, BookAssumption DEF BookAssumption
  \* What a cancel leaves, also of an id that does not rest.
  <2>3. ASSUME m.action \in {"M", "C"}
        PROVE  I(cancel_order(book, m.side, m.id))
    <3>1. CASE book.lookup[m.id] = Nil
      BY <1>1, <3>1 DEF cancel_order
    <3>2. CASE book.lookup[m.id] # Nil
      <4>1. RestsOn(book, m.side, m.id)
        BY <1>4, <2>3, <3>2 DEF FeedContract, RestsOn
      <4> QED BY <1>1, <2>1, <4>1, CancelPreserves
    <3> QED BY <3>1, <3>2
  <2>4. CASE Ignore(m)
    BY <1>1, <2>4 DEF Ignore
  <2>5. CASE AddOrder(m)
    BY <1>1, <2>1, <2>2, <2>5, AddPreserves DEF AddOrder
  <2>6. CASE ModifyOrder(m)
    <3>1. m.price \in MIN..MAX /\ m.action = "M"
      BY <2>2, <2>6 DEF ModifyOrder
    <3>2. CASE book.lookup[m.id] = Nil \/ Replaces(book, m.id, m.price, m.size)
      <4> DEFINE b == cancel_order(book, m.side, m.id)
      <4>1. HasMemory(b, m.side, m.price)
        BY <2>6, <3>2 DEF ModifyOrder
      <4>2. book' = add_order(b, m.side, m.id, m.price, m.size)
        BY <2>6, <3>2 DEF ModifyOrder, modify_order
      <4>3. I(b)
        BY <2>3, <3>1
      <4> HIDE DEF b
      <4> QED BY <2>1, <3>1, <4>1, <4>2, <4>3, AddPreserves
    <3>3. CASE ~(book.lookup[m.id] = Nil \/ Replaces(book, m.id, m.price, m.size))
      <4>1. book' = modify_order(book, m.side, m.id, m.price, m.size)
        BY <2>6 DEF ModifyOrder
      <4> QED BY <1>1, <2>1, <3>3, <4>1, ShrinkPreserves
    <3> QED BY <3>2, <3>3
  <2>7. CASE CancelOrder(m)
    BY <2>3, <2>7 DEF CancelOrder
  <2> QED BY <1>4, <2>4, <2>5, <2>6, <2>7 DEF process_msg
<1> QED BY <1>3, <1>4 DEF Next

\* The strengthened invariant holds in every reachable state.
THEOREM Inductive == Spec => []IInv
BY InitHolds, StepPreserves, PTL DEF Spec

\* Whatever the feed sends, every pointer of the book is null or a cell of its
\* pool and every index names a slot or is one past the end.
THEOREM TypeCorrect == Spec => []TypeOK
<1>1. IInv => TypeOK
  BY DEF IInv
<1> QED BY <1>1, Inductive, PTL

\* For any number of ids, prices, cells and messages the intrusive lists, the
\* slots, the lookup table and the free lists of the book agree: no cell is
\* used after it is returned, handed out twice or linked into a wrong level.
THEOREM HeapAlwaysSound == Spec => []MemorySafe
<1>1. IInv => MemorySafe
  BY DEF IInv
<1> QED BY <1>1, Inductive, PTL

\* However long the feed runs, every Order cell and Limit node that was ever
\* carved from memory is in use or reached from its free list, to be handed out
\* again: a new cell is carved only when all the earlier ones are in use.
THEOREM NothingEverLeaks == Spec => []NothingLeaks
<1>1. IInv => NothingLeaks
  BY DEF IInv
<1> QED BY <1>1, Inductive, PTL

\* best_bid_idx_ and best_ask_idx_ always name the best occupied price: the
\* quotes strategies read are never stale, crossed to an empty level or worse
\* than the best resting order.
THEOREM BestAlwaysTopOfBook == Spec => []BestIsTopOfBook
<1>1. IInv => BestIsTopOfBook
  BY DEF IInv
<1> QED BY <1>1, Inductive, PTL

\* The quote computed from the best index and the one read from the Limit found
\* there are always the same, for every price window and every feed.
THEOREM QuotesAlwaysAgree == Spec => []QuotesAgree
<1>1. IInv => QuotesAgree
  <2> SUFFICES ASSUME IInv PROVE QuotesAgree
    OBVIOUS
  <2>1. TypeOK /\ LevelsSound(book) /\ BestIsFirst(book)
    BY DEF IInv, MemorySafe, HeapSound, BestIsTopOfBook
  <2>2. /\ MIN \in Int /\ MAX \in Int /\ RANGE = MAX - MIN + 1 /\ Slots = 0..(RANGE - 1)
    BY BookAssumption DEF BookAssumption, RANGE, Slots
  <2>3. \A s \in BOOLEAN : book.best[s] \in 0..RANGE
    BY <2>1 DEF TypeOK, BookType
  <2>4. ASSUME NEW s \in BOOLEAN, book.best[s] < RANGE
        PROVE  /\ BestLimit(book, s) = book.slots[s][book.best[s]]
               /\ BestLimit(book, s) # Nil
               /\ BestLimit(book, s) \in LimitCells
               /\ SlotIdx(s, book.lprice[BestLimit(book, s)]) = book.best[s]
               /\ book.lprice[BestLimit(book, s)] \in Int
    <3>1. book.best[s] \in Slots
      BY <2>2, <2>3, <2>4
    <3>2. BestLimit(book, s) = book.slots[s][book.best[s]] /\ BestLimit(book, s) # Nil
      BY <2>1, <2>4 DEF BestLimit, BestIsFirst
    <3>3. BestLimit(book, s) \in LimitCells
      BY <2>1, <3>1, <3>2 DEF TypeOK, BookType
    <3>4. SlotIdx(s, book.lprice[BestLimit(book, s)]) = book.best[s]
      BY <2>1, <3>1, <3>2 DEF LevelsSound
    <3>5. book.lprice[BestLimit(book, s)] \in Int
      BY <2>1, <3>3 DEF TypeOK, BookType
    <3> QED BY <3>2, <3>3, <3>4, <3>5
  <2>5. best_bid(book) = get_best_bid_price(book)
    <3> DEFINE k == book.best[TRUE]
               l == BestLimit(book, TRUE)
    <3>1. k \in 0..RANGE
      BY <2>3
    <3>2. CASE k < RANGE
      <4>1. l # Nil /\ book.lprice[l] \in Int /\ SlotIdx(TRUE, book.lprice[l]) = k
        BY <2>4, <3>2
      <4>2. get_bid_idx(book.lprice[l]) = k
        BY <4>1 DEF SlotIdx
      <4>3. book.lprice[l] = MAX - k
        <5> HIDE DEF l, k
        <5> QED BY <2>2, <3>1, <4>1, <4>2 DEF get_bid_idx
      <4>4. get_best_bid_price(book) = book.lprice[l]
        BY <4>1 DEF get_best_bid_price
      <4>5. ~(k >= RANGE)
        <5> HIDE DEF k
        <5> QED BY <2>2, <3>1, <3>2
      <4>6. best_bid(book) = MAX - k
        BY <4>5 DEF best_bid
      <4> QED BY <4>3, <4>4, <4>6
    <3>3. CASE ~(k < RANGE)
      <4>1. k >= RANGE
        <5> HIDE DEF k
        <5> QED BY <2>2, <3>1, <3>3
      <4>2. l = Nil
        BY <3>3 DEF BestLimit
      <4>3. best_bid(book) = 0
        BY <4>1 DEF best_bid
      <4>4. get_best_bid_price(book) = 0
        BY <4>2 DEF get_best_bid_price
      <4> QED BY <4>3, <4>4
    <3> QED BY <3>2, <3>3
  <2>6. best_ask(book) = get_best_ask_price(book)
    <3> DEFINE k == book.best[FALSE]
               l == BestLimit(book, FALSE)
    <3>1. k \in 0..RANGE
      BY <2>3
    <3>2. CASE k < RANGE
      <4>1. l # Nil /\ book.lprice[l] \in Int /\ SlotIdx(FALSE, book.lprice[l]) = k
        BY <2>4, <3>2
      <4>2. get_ask_idx(book.lprice[l]) = k
        BY <4>1 DEF SlotIdx
      <4>3. book.lprice[l] = MIN + k
        <5> HIDE DEF l, k
        <5> QED BY <2>2, <3>1, <4>1, <4>2 DEF get_ask_idx
      <4>4. get_best_ask_price(book) = book.lprice[l]
        BY <4>1 DEF get_best_ask_price
      <4>5. ~(k >= RANGE)
        <5> HIDE DEF k
        <5> QED BY <2>2, <3>1, <3>2
      <4>6. best_ask(book) = MIN + k
        BY <4>5 DEF best_ask
      <4> QED BY <4>3, <4>4, <4>6
    <3>3. CASE ~(k < RANGE)
      <4>1. k >= RANGE
        <5> HIDE DEF k
        <5> QED BY <2>2, <3>1, <3>3
      <4>2. l = Nil
        BY <3>3 DEF BestLimit
      <4>3. best_ask(book) = 0
        BY <4>1 DEF best_ask
      <4>4. get_best_ask_price(book) = 0
        BY <4>2 DEF get_best_ask_price
      <4> QED BY <4>3, <4>4
    <3> QED BY <3>2, <3>3
  <2> QED BY <2>5, <2>6 DEF QuotesAgree
<1> QED BY <1>1, Inductive, PTL
=============================================================================
