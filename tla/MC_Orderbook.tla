---------------------------- MODULE MC_Orderbook ----------------------------
(* A small instance of the order book for TLC. *)
EXTENDS OrderbookRefinement, TLC

\* Orders with different ids behave alike.
IdSymmetry == Permutations(Ids)

\* A book without the data left behind in cells that are not in use: every
\* field of a cell but its links is assigned before the cell is used again.
View ==
  LET used == UsedLimits(book) IN
  <<book.slots, book.best, book.lookup, book.next, book.prev, book.freelist,
    book.carved, book.live, book.lnext, book.lfree, book.made, book.head, book.tail,
    [o \in book.live |-> <<book.id[o], book.price[o], book.size[o],
                           book.side[o], book.parent[o]>>],
    [l \in used |-> <<book.lprice[l], book.lside[l], book.volume[l]>>]>>
=============================================================================
