------------------------------- MODULE PageMap -------------------------------
(***************************************************************************)
(* include/slab_map.h: the table order_lookup_ of an Orderbook, from order *)
(* ids to Order pointers.  Ids are dealt to pages of SLOTS_PER_PAGE slots; *)
(* pages_ holds the pages from the lowest id seen so far, grows at both    *)
(* ends and is filled lazily, from pages made in advance (free_pages_) or  *)
(* from the system.                                                        *)
(*                                                                         *)
(* The table is one record.  A page is a positive number, nullptr is Nil.  *)
(* The pages of a 64 bit id space are few here, but the arithmetic of      *)
(* slot_ptr is the code's.  OrderMap is what the table implements.         *)
(***************************************************************************)
EXTENDS Integers, Sequences

CONSTANTS
  OrderIds,        \* ids of the feed
  Orders,          \* Order pointers
  Null,            \* nullptr, of an Order
  SLOTS_PER_PAGE,
  Preallocated,    \* preallocate_pages
  MaxPages,        \* bound: pages the system provides
  HugePages        \* does mmap(MAP_HUGETLB) succeed?

ASSUME PageMapAssumption ==
  /\ OrderIds \subseteq Nat
  /\ Null \notin Orders
  /\ SLOTS_PER_PAGE \in Nat \ {0}
  /\ Preallocated \in Nat /\ MaxPages \in Nat /\ Preallocated <= MaxPages
  /\ HugePages \in BOOLEAN

Nil   == 0
Pages == 1..MaxPages
SlotNumbers == 0..(SLOTS_PER_PAGE - 1)

VARIABLES
  table,   \* the PageMap
  found    \* what the last find returned
vars == <<table, found>>

\* id & ~PAGE_MASK, id >> PAGE_SHIFT and id & PAGE_MASK
BaseOf(id) == (id \div SLOTS_PER_PAGE) * SLOTS_PER_PAGE
PageOf(id) == id \div SLOTS_PER_PAGE
SlotOf(id) == id % SLOTS_PER_PAGE

\* Mutant: the new entries are inserted at the end.
Shifted_AtEnd(s, n) == [k \in 1..(n + Len(s)) |-> IF k <= Len(s) THEN s[k] ELSE Nil]

\* pages_.resize(n, nullptr), pages_.insert(pages_.begin(), n, nullptr)
Resized(s, n) == [k \in 1..n |-> IF k <= Len(s) THEN s[k] ELSE Nil]
Shifted(s, n) == [k \in 1..(n + Len(s)) |-> IF k <= n THEN Nil ELSE s[k - n]]

\* What a page from the system holds: anonymous huge pages are zero, the
\* memory of aligned_alloc is not initialised (the memset is commented out).
FreshPage ==
  IF HugePages THEN {[k \in SlotNumbers |-> Null]}
               ELSE [SlotNumbers -> Orders \cup {Null}]

\* slot_ptr before it needs a page: pages_ covers the id.
Covering(t, id) ==
  LET t1 == IF t.pages = << >>
            THEN [t EXCEPT !.base_id   = BaseOf(id),
                           !.base_page = BaseOf(id) \div SLOTS_PER_PAGE,
                           !.pages     = Resized(@, 1)]
            ELSE t
      t2 == IF id < t1.base_id
            THEN LET new_page == BaseOf(id) \div SLOTS_PER_PAGE IN
                 [t1 EXCEPT !.pages     = Shifted(@, t1.base_page - new_page),
                            !.base_id   = BaseOf(id),
                            !.base_page = new_page]
            ELSE t1
      page_idx == PageOf(id) - t2.base_page
  IN  IF page_idx >= Len(t2.pages)
      THEN [t2 EXCEPT !.pages = Resized(@, page_idx + 1)]
      ELSE t2

\* pages_[page_idx], numbered from 1
Idx(t, id) == PageOf(id) - t.base_page + 1

\* Mutant: a page stays in free_pages_ when it is handed out.
Located_KeepsFree(t, id) ==
  LET c == Covering(t, id)
      i == Idx(c, id)
      n == Len(c.free) IN
  IF c.pages[i] # Nil THEN {c}
  ELSE IF n > 0 THEN {[c EXCEPT !.pages[i] = c.free[n]]}
  ELSE IF c.made < MaxPages
  THEN {[c EXCEPT !.pages[i]         = c.made + 1,
                  !.mem[c.made + 1]  = page,
                  !.made             = @ + 1] : page \in FreshPage}
  ELSE {}

\* The tables slot_ptr(id) may leave: the slot of id is in an allocated page.
Located(t, id) ==
  LET c == Covering(t, id)
      i == Idx(c, id)
      n == Len(c.free) IN
  IF c.pages[i] # Nil THEN {c}
  ELSE IF n > 0 THEN {[c EXCEPT !.pages[i] = c.free[n],
                                !.free     = SubSeq(@, 1, n - 1)]}
  ELSE IF c.made < MaxPages
  THEN {[c EXCEPT !.pages[i]         = c.made + 1,
                  !.mem[c.made + 1]  = page,
                  !.made             = @ + 1] : page \in FreshPage}
  ELSE {}

SlotPage(t, id) == t.pages[Idx(t, id)]
Read(t, id) == t.mem[SlotPage(t, id)][SlotOf(id)]
Write(t, id, ptr) == [t EXCEPT !.mem[SlotPage(t, id)][SlotOf(id)] = ptr]

\* The constructor: the pages made in advance wait in free_pages_.
Init ==
  /\ \E contents \in [1..Preallocated -> FreshPage] :
       table = [pages     |-> << >>,
                free      |-> [k \in 1..Preallocated |-> k],
                base_id   |-> 0,
                base_page |-> 0,
                made      |-> Preallocated,
                mem       |-> [p \in Pages |-> IF p <= Preallocated THEN contents[p]
                                               ELSE [k \in SlotNumbers |-> Null]]]
  /\ found = Null

insert(id, ptr) ==
  /\ \E t \in Located(table, id) : table' = Write(t, id, ptr)
  /\ UNCHANGED found

erase(id) ==
  /\ \E t \in Located(table, id) : table' = Write(t, id, Null)
  /\ UNCHANGED found

find(id) ==
  \E t \in Located(table, id) : table' = t /\ found' = Read(t, id)

\* alloc_page throws std::bad_alloc out of slot_ptr: pages_ has grown, the
\* page it was to point at is missing.
OutOfMemory(id) ==
  /\ Located(table, id) = {}
  /\ table' = Covering(table, id)
  /\ UNCHANGED found

\* Every page goes back to the system.
clear ==
  /\ table' = [table EXCEPT !.pages = << >>, !.free = << >>,
                            !.base_id = 0, !.base_page = 0]
  /\ UNCHANGED found

Next ==
  \/ \E id \in OrderIds :
       erase(id) \/ find(id) \/ OutOfMemory(id) \/ \E ptr \in Orders : insert(id, ptr)
  \/ clear

Spec == Init /\ [][Next]_vars
-----------------------------------------------------------------------------
(* Properties *)

\* The table is well typed.
TypeOK ==
  /\ table.pages \in Seq(Pages \cup {Nil}) /\ table.free \in Seq(Pages)
  /\ table.base_id \in Nat /\ table.base_page \in Nat
  /\ table.made \in Preallocated..MaxPages
  /\ table.mem \in [Pages -> [SlotNumbers -> Orders \cup {Null}]]
  /\ found \in Orders \cup {Null}

\* No page serves two ranges of ids or waits to be handed out while it is in
\* use (two orders in one slot), and clear() unmaps none twice.  (As in the
\* other modules of one state machine, the type invariant is its first part.)
PagesOwnedOnce ==
  /\ TypeOK
  /\ \A i, j \in DOMAIN table.pages :
       table.pages[i] = table.pages[j] => i = j \/ table.pages[i] = Nil
  /\ \A i, j \in DOMAIN table.free : table.free[i] = table.free[j] => i = j
  /\ \A i \in DOMAIN table.pages, j \in DOMAIN table.free : table.pages[i] # table.free[j]

\* The order the slot of id holds, as a caller of the table would find it.
Stored(t, id) ==
  LET i == Idx(t, id) IN
  IF i \in DOMAIN t.pages /\ t.pages[i] # Nil THEN Read(t, id) ELSE Null

Map == INSTANCE OrderMap WITH order <- [id \in OrderIds |-> Stored(table, id)]

\* Growing at either end, lazily allocated and recycled pages and a failing
\* allocation are invisible: the table is a map, and what was not inserted is
\* not found.
ImplementsOrderMap == Map!Spec

=============================================================================
