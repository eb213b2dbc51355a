---------------------------- MODULE PageMapProofs ----------------------------
(***************************************************************************)
(* Proofs about PageMap for any ids, any size of a page and any number of  *)
(* pages.                                                                  *)
(*                                                                         *)
(* PagesOwnedOnce is not inductive: a new page must be new.  Sound adds    *)
(* that no page is in use which was not made yet (Owned), that a page not  *)
(* in use holds no order (Blank), and that base_id_ is where base_page_    *)
(* begins.                                                                 *)
(***************************************************************************)
EXTENDS PageMap, SequenceTheorems, TLAPS

Contents == [SlotNumbers -> Orders \cup {Null}]

Tables ==
  [pages : Seq(Pages \cup {Nil}), free : Seq(Pages), base_id : Nat, base_page : Nat,
   made : Preallocated..MaxPages, mem : [Pages -> Contents]]

Owned(t) ==
  /\ \A i, j \in DOMAIN t.pages : t.pages[i] = t.pages[j] => i = j \/ t.pages[i] = Nil
  /\ \A i, j \in DOMAIN t.free : t.free[i] = t.free[j] => i = j
  /\ \A i \in DOMAIN t.pages, j \in DOMAIN t.free : t.pages[i] # t.free[j]
  /\ \A i \in DOMAIN t.pages : t.pages[i] <= t.made
  /\ \A j \in DOMAIN t.free : t.free[j] <= t.made

Unused(t, p) == p > t.made \/ \E j \in DOMAIN t.free : t.free[j] = p

Blank(t) ==
  HugePages => \A p \in Pages : Unused(t, p) => \A k \in SlotNumbers : t.mem[p][k] = Null

Sound(t) ==
  /\ t \in Tables
  /\ t.base_id = t.base_page * SLOTS_PER_PAGE
  /\ Owned(t) /\ Blank(t)

IInv == Sound(table) /\ found \in Orders \cup {Null}

(* Ids *)

\* The page of an id is found by comparing it with the first id of a page, and
\* an id is found in no other slot than its own.
LEMMA IdFacts ==
  ASSUME NEW id \in OrderIds
  PROVE  /\ PageOf(id) \in Nat /\ SlotOf(id) \in SlotNumbers
         /\ id = PageOf(id) * SLOTS_PER_PAGE + SlotOf(id)
         /\ BaseOf(id) = PageOf(id) * SLOTS_PER_PAGE /\ BaseOf(id) \in Nat
         /\ BaseOf(id) \div SLOTS_PER_PAGE = PageOf(id)
         /\ \A b \in Nat : id < b * SLOTS_PER_PAGE <=> PageOf(id) < b
<1> DEFINE S == SLOTS_PER_PAGE
           q == id \div S
           r == id % S
<1>1. id \in Nat /\ S \in Nat /\ S > 0
  BY PageMapAssumption
<1>2. q \in Nat /\ r \in 0..(S - 1) /\ id = q * S + r
  BY <1>1
<1>3. q * S \in Nat /\ (q * S) \div S = q
  BY <1>1, <1>2
<1>4. ASSUME NEW b \in Nat PROVE id < b * S <=> q < b
  <2>1. CASE q < b
    <3>1. q + 1 <= b
      BY <1>2, <2>1
    <3>2. (q + 1) * S <= b * S
      BY <1>1, <1>2, <3>1
    <3>3. (q + 1) * S = q * S + S
      BY <1>1, <1>2
    <3> QED BY <1>1, <1>2, <1>3, <2>1, <3>2, <3>3
  <2>2. CASE b <= q
    <3>1. b * S <= q * S
      BY <1>1, <1>2, <2>2
    <3> QED BY <1>1, <1>2, <1>3, <2>2, <3>1
  <2> QED BY <1>2, <2>1, <2>2
<1> QED BY <1>1, <1>2, <1>3, <1>4 DEF PageOf, SlotOf, BaseOf, SlotNumbers

LEMMA SameSlot ==
  ASSUME NEW x \in OrderIds, NEW y \in OrderIds, PageOf(x) = PageOf(y), SlotOf(x) = SlotOf(y)
  PROVE  x = y
BY IdFacts

(* Growth *)

\* A function on 1..n is a sequence of length n.
LEMMA FunctionIsSequence ==
  ASSUME NEW S, NEW n \in Nat, NEW f \in [1..n -> S]
  PROVE  f \in Seq(S) /\ Len(f) = n
<1>1. f \in Seq(S)
  BY SeqDef
<1>2. Len(f) \in Nat /\ DOMAIN f = 1..Len(f) /\ DOMAIN f = 1..n
  BY <1>1, LenProperties
<1>3. Len(f) = n
  <2>1. CASE n = 0
    BY <1>2, <2>1
  <2>2. CASE n > 0
    <3>1. n \in 1..Len(f) /\ Len(f) >= 1
      BY <1>2, <2>2
    <3>2. Len(f) \in 1..n
      BY <1>2, <3>1
    <3> QED BY <1>2, <3>1, <3>2
  <2> QED BY <2>1, <2>2
<1> QED BY <1>1, <1>3

\* Every page of t stands at its own range of ids in c as well, whose first
\* page may be another; nullptr fills the rest.
Moved(t, c) ==
  /\ \A k \in 1..Len(t.pages) :
       /\ k + (t.base_page - c.base_page) \in 1..Len(c.pages)
       /\ c.pages[k + (t.base_page - c.base_page)] = t.pages[k]
  /\ \A k \in 1..Len(c.pages) :
       \/ c.pages[k] = Nil
       \/ /\ k + (c.base_page - t.base_page) \in 1..Len(t.pages)
          /\ t.pages[k + (c.base_page - t.base_page)] = c.pages[k]

LEMMA PagesFacts ==
  ASSUME NEW t \in Tables
  PROVE  /\ Len(t.pages) \in Nat /\ DOMAIN t.pages = 1..Len(t.pages)
         /\ \A k \in 1..Len(t.pages) : t.pages[k] \in Pages \cup {Nil}
         /\ t.pages = << >> <=> Len(t.pages) = 0
         /\ Len(t.free) \in Nat /\ DOMAIN t.free = 1..Len(t.free)
         /\ \A k \in 1..Len(t.free) : t.free[k] \in Pages
<1>1. t.pages \in Seq(Pages \cup {Nil}) /\ t.free \in Seq(Pages)
  BY DEF Tables
<1> QED BY <1>1, EmptySeq, LenProperties, ElementOfSeq

LEMMA ResizedFacts ==
  ASSUME NEW s \in Seq(Pages \cup {Nil}), NEW n \in Nat
  PROVE  /\ Resized(s, n) \in Seq(Pages \cup {Nil}) /\ Len(Resized(s, n)) = n
         /\ \A k \in 1..n : Resized(s, n)[k] = IF k <= Len(s) THEN s[k] ELSE Nil
<1>1. Len(s) \in Nat /\ \A k \in 1..Len(s) : s[k] \in Pages \cup {Nil}
  BY LenProperties, ElementOfSeq
<1>2. \A k \in 1..n : k <= Len(s) => k \in 1..Len(s)
  BY <1>1
<1>3. Resized(s, n) \in [1..n -> Pages \cup {Nil}]
  BY <1>1, <1>2 DEF Resized
<1> QED BY <1>3, FunctionIsSequence DEF Resized

LEMMA ShiftedFacts ==
  ASSUME NEW s \in Seq(Pages \cup {Nil}), NEW n \in Nat
  PROVE  /\ Shifted(s, n) \in Seq(Pages \cup {Nil}) /\ Len(Shifted(s, n)) = n + Len(s)
         /\ \A k \in 1..(n + Len(s)) : Shifted(s, n)[k] = IF k <= n THEN Nil ELSE s[k - n]
<1>1. Len(s) \in Nat /\ \A k \in 1..Len(s) : s[k] \in Pages \cup {Nil}
  BY LenProperties, ElementOfSeq
<1>2. \A k \in 1..(n + Len(s)) : ~(k <= n) => k - n \in 1..Len(s)
  BY <1>1
<1>3. Shifted(s, n) \in [1..(n + Len(s)) -> Pages \cup {Nil}]
  BY <1>1, <1>2 DEF Shifted
<1>4. n + Len(s) \in Nat
  BY <1>1
<1> QED BY <1>3, <1>4, FunctionIsSequence DEF Shifted

\* slot_ptr makes room for the page of an id at either end and moves no page.
LEMMA CoveringFacts ==
  ASSUME NEW t \in Tables, NEW id \in OrderIds, t.base_id = t.base_page * SLOTS_PER_PAGE,
         NEW c, c = Covering(t, id)
  PROVE  /\ c \in Tables /\ c.base_id = c.base_page * SLOTS_PER_PAGE
         /\ c.free = t.free /\ c.made = t.made /\ c.mem = t.mem
         /\ Idx(c, id) \in 1..Len(c.pages)
         /\ Moved(t, c)
<1> DEFINE q == PageOf(id)
<1>1. /\ q \in Nat /\ BaseOf(id) = q * SLOTS_PER_PAGE /\ BaseOf(id) \in Nat
      /\ BaseOf(id) \div SLOTS_PER_PAGE = q
      /\ \A b \in Nat : id < b * SLOTS_PER_PAGE <=> q < b
  BY IdFacts
<1>2. /\ t.pages \in Seq(Pages \cup {Nil}) /\ Len(t.pages) \in Nat
      /\ t.base_id \in Nat /\ t.base_page \in Nat
  BY PagesFacts DEF Tables
<1>3. id < t.base_id <=> q < t.base_page
  BY <1>1, <1>2
<1>4. CASE t.pages = << >>
  <2> DEFINE u == [t EXCEPT !.base_id = BaseOf(id), !.base_page = q, !.pages = Resized(t.pages, 1)]
  <2>1. u \in Tables /\ u.base_id = BaseOf(id) /\ u.base_page = q /\ u.pages = Resized(t.pages, 1)
        /\ u.free = t.free /\ u.made = t.made /\ u.mem = t.mem
    BY <1>1, <1>2, ResizedFacts DEF Tables
  <2> HIDE DEF u
  <2>2. Len(u.pages) = 1 /\ u.pages[1] = Nil /\ Len(t.pages) = 0
    <3>1. /\ Len(Resized(t.pages, 1)) = 1
          /\ \A k \in 1..1 : Resized(t.pages, 1)[k] = IF k <= Len(t.pages) THEN t.pages[k] ELSE Nil
      BY <1>2, ResizedFacts
    <3>2. Len(t.pages) = 0
      BY <1>4, PagesFacts
    <3> QED BY <2>1, <3>1, <3>2
  <2>3. ~(id < u.base_id) /\ ~(q - u.base_page >= Len(u.pages))
    BY <1>1, <2>1, <2>2
  <2>4. c = u
    BY <1>1, <1>4, <2>3 DEF Covering, u
  <2>5. Idx(c, id) = 1
    BY <1>1, <2>1, <2>4 DEF Idx
  <2>6. Moved(t, c)
    BY <1>2, <2>2, <2>4 DEF Moved
  <2> QED BY <1>1, <2>1, <2>2, <2>4, <2>5, <2>6
<1>5. CASE t.pages # << >> /\ id < t.base_id
  <2>0. PICK d \in Nat : d = t.base_page - q /\ d > 0
    BY <1>1, <1>2, <1>3, <1>5
  <2> DEFINE u == [t EXCEPT !.pages = Shifted(t.pages, d), !.base_id = BaseOf(id), !.base_page = q]
  <2>2. u \in Tables /\ u.base_id = BaseOf(id) /\ u.base_page = q /\ u.pages = Shifted(t.pages, d)
        /\ u.free = t.free /\ u.made = t.made /\ u.mem = t.mem
    BY <1>1, <1>2, <2>0, ShiftedFacts DEF Tables
  <2> HIDE DEF u
  <2>9. /\ Len(Shifted(t.pages, d)) = d + Len(t.pages)
        /\ \A k \in 1..(d + Len(t.pages)) : Shifted(t.pages, d)[k] = IF k <= d THEN Nil ELSE t.pages[k - d]
    BY <1>2, ShiftedFacts
  <2>3. /\ Len(u.pages) = d + Len(t.pages)
        /\ \A k \in 1..Len(u.pages) : u.pages[k] = IF k <= d THEN Nil ELSE t.pages[k - d]
    BY <2>2, <2>9
  <2>4. ~(q - u.base_page >= Len(u.pages))
    BY <1>1, <1>2, <2>0, <2>2, <2>3
  <2>5. c = u
    BY <1>1, <1>5, <2>0, <2>4 DEF Covering, u
  <2>6. Idx(c, id) = 1
    BY <1>1, <2>2, <2>5 DEF Idx
  <2>10. t.base_page - u.base_page = d /\ u.base_page - t.base_page = -d
    BY <1>1, <1>2, <2>0, <2>2
  <2>11. Len(u.pages) = d + Len(t.pages) /\ Len(t.pages) \in Nat /\ d \in Nat
    BY <1>2, <2>3
  <2>7. Moved(t, u)
    <3>1. ASSUME NEW k \in 1..Len(t.pages)
          PROVE  k + (t.base_page - u.base_page) \in 1..Len(u.pages)
                 /\ u.pages[k + (t.base_page - u.base_page)] = t.pages[k]
      <4>1. k + d \in 1..Len(u.pages) /\ ~(k + d <= d) /\ (k + d) - d = k
        BY <2>11
      <4>2. u.pages[k + d] = t.pages[k]
        BY <2>3, <4>1
      <4> QED BY <2>10, <4>1, <4>2
    <3>2. ASSUME NEW k \in 1..Len(u.pages), u.pages[k] # Nil
          PROVE  k + (u.base_page - t.base_page) \in 1..Len(t.pages)
                 /\ t.pages[k + (u.base_page - t.base_page)] = u.pages[k]
      <4>1. u.pages[k] = t.pages[k - d] /\ k > d
        BY <2>3, <2>11, <3>2
      <4>2. k - d = k + (-d) /\ k - d \in 1..Len(t.pages)
        BY <2>11, <4>1
      <4> QED BY <2>10, <4>1, <4>2
    <3> QED BY <3>1, <3>2 DEF Moved
  <2> QED BY <1>1, <1>2, <2>0, <2>2, <2>3, <2>5, <2>6, <2>7
<1>6. CASE t.pages # << >> /\ ~(id < t.base_id) /\ q - t.base_page >= Len(t.pages)
  <2> DEFINE n == q - t.base_page + 1
             u == [t EXCEPT !.pages = Resized(t.pages, n)]
  <2>1. n \in Nat /\ n > Len(t.pages)
    BY <1>1, <1>2, <1>3, <1>6
  <2>2. u \in Tables /\ u.pages = Resized(t.pages, n) /\ u.base_id = t.base_id /\ u.base_page = t.base_page
        /\ u.free = t.free /\ u.made = t.made /\ u.mem = t.mem
    BY <1>1, <1>2, <2>1, ResizedFacts DEF Tables
  <2>3. /\ Len(u.pages) = n
        /\ \A k \in 1..n : u.pages[k] = IF k <= Len(t.pages) THEN t.pages[k] ELSE Nil
    BY <1>2, <2>1, <2>2, ResizedFacts
  <2>4. c = u
    BY <1>1, <1>6 DEF Covering
  <2> HIDE DEF u
  <2>5. Idx(c, id) = n
    BY <1>1, <2>2, <2>4 DEF Idx
  <2>6. \A k \in Int : k + (t.base_page - u.base_page) = k /\ k + (u.base_page - t.base_page) = k
    BY <1>2, <2>2
  <2>7. Moved(t, u)
    BY <1>2, <2>1, <2>3, <2>6 DEF Moved
  <2> QED BY <1>6, <2>1, <2>2, <2>3, <2>4, <2>5, <2>7
<1>7. CASE t.pages # << >> /\ ~(id < t.base_id) /\ ~(q - t.base_page >= Len(t.pages))
  <2>1. c = t
    BY <1>1, <1>7 DEF Covering
  <2>2. Idx(c, id) \in 1..Len(t.pages)
    BY <1>1, <1>2, <1>3, <1>7, <2>1 DEF Idx
  <2>3. \A k \in Int : k + (t.base_page - c.base_page) = k /\ k + (c.base_page - t.base_page) = k
    BY <1>2, <2>1
  <2>4. Moved(t, c)
    BY <1>2, <2>1, <2>3 DEF Moved
  <2> QED BY <2>1, <2>2, <2>4
<1> QED BY <1>4, <1>5, <1>6, <1>7

\* A table whose pages have only been moved is as sound as before, and holds
\* the same orders.
LEMMA MovedSound ==
  ASSUME NEW t, NEW c, Sound(t), c \in Tables, c.base_id = c.base_page * SLOTS_PER_PAGE,
         c.free = t.free, c.made = t.made, c.mem = t.mem, Moved(t, c)
  PROVE  /\ Sound(c)
         /\ \A x \in OrderIds : Stored(c, x) = Stored(t, x)
<1>1. t \in Tables /\ t.base_page \in Nat /\ c.base_page \in Nat
  BY DEF Sound, Tables
<1>2. /\ Len(t.pages) \in Nat /\ DOMAIN t.pages = 1..Len(t.pages)
      /\ Len(c.pages) \in Nat /\ DOMAIN c.pages = 1..Len(c.pages)
  BY <1>1, PagesFacts
<1>3. PICK d \in Int : d = c.base_page - t.base_page /\ -d = t.base_page - c.base_page
  BY <1>1
<1>4. \A k \in 1..Len(c.pages) : c.pages[k] # Nil => k + d \in 1..Len(t.pages) /\ t.pages[k + d] = c.pages[k]
  BY <1>3 DEF Moved
<1>5. \A k \in 1..Len(t.pages) : k + (-d) \in 1..Len(c.pages) /\ c.pages[k + (-d)] = t.pages[k]
  BY <1>3 DEF Moved
<1>6. Owned(c)
  <2>1. Owned(t) /\ DOMAIN c.free = DOMAIN t.free
    BY DEF Sound
  <2>2. ASSUME NEW i \in DOMAIN c.pages, NEW j \in DOMAIN c.pages, c.pages[i] = c.pages[j], c.pages[i] # Nil
        PROVE  i = j
    <3>1. /\ i + d \in DOMAIN t.pages /\ j + d \in DOMAIN t.pages
          /\ t.pages[i + d] = c.pages[i] /\ t.pages[j + d] = c.pages[j]
      BY <1>2, <1>4, <2>2
    <3>2. i + d = j + d
      BY <2>1, <2>2, <3>1 DEF Owned
    <3> QED BY <1>2, <3>2
  <2>3. ASSUME NEW i \in DOMAIN c.pages, c.pages[i] # Nil
        PROVE  c.pages[i] <= c.made /\ \A j \in DOMAIN c.free : c.pages[i] # c.free[j]
    BY <1>2, <1>4, <2>1, <2>3 DEF Owned
  <2>4. \A j \in DOMAIN c.free : c.free[j] # Nil
    BY PagesFacts DEF Pages, Nil
  <2>5. Nil <= c.made
    BY PageMapAssumption DEF Tables, Nil
  <2> QED BY <2>1, <2>2, <2>3, <2>4, <2>5 DEF Owned
<1>7. Blank(c)
  BY DEF Sound, Blank, Unused
<1>8. ASSUME NEW x \in OrderIds
      PROVE  Stored(c, x) = Stored(t, x)
  <2> DEFINE i == Idx(c, x)
             j == Idx(t, x)
  <2>1. i \in Int /\ j \in Int /\ j = i + d /\ i = j + (-d)
    BY <1>1, <1>3, IdFacts DEF Idx
  <2> HIDE DEF i, j
  <2>2. CASE i \in DOMAIN c.pages /\ c.pages[i] # Nil
    <3>1. j \in DOMAIN t.pages /\ t.pages[j] = c.pages[i] /\ t.pages[j] # Nil
      BY <1>2, <1>4, <2>1, <2>2
    <3> QED BY <2>2, <3>1 DEF Stored, Read, SlotPage, i, j
  <2>3. CASE ~(i \in DOMAIN c.pages /\ c.pages[i] # Nil)
    <3>1. ~(j \in DOMAIN t.pages /\ t.pages[j] # Nil)
      BY <1>2, <1>5, <2>1, <2>3
    <3> QED BY <2>3, <3>1 DEF Stored, i, j
  <2> QED BY <2>2, <2>3
<1> QED BY <1>6, <1>7, <1>8 DEF Sound

\* The page pages_ shows for an id, once slot_ptr has found it one.
Paged(t, id) == Idx(t, id) \in DOMAIN t.pages /\ SlotPage(t, id) # Nil

\* Two ids share a slot only if they are one.
LEMMA SlotsDiffer ==
  ASSUME NEW t, Sound(t), NEW x \in OrderIds, NEW y \in OrderIds, Paged(t, x), Paged(t, y),
         SlotPage(t, x) = SlotPage(t, y), SlotOf(x) = SlotOf(y)
  PROVE  x = y
<1>1. Idx(t, x) = Idx(t, y)
  BY DEF Sound, Owned, Paged, SlotPage
<1>2. PageOf(x) = PageOf(y)
  <2>1. t.base_page \in Nat /\ PageOf(x) \in Nat /\ PageOf(y) \in Nat
    BY IdFacts DEF Sound, Tables
  <2> QED BY <1>1, <2>1 DEF Idx
<1> QED BY <1>2, SameSlot

\* Putting a pointer in the slot of an id touches that slot only.
LEMMA WriteFacts ==
  ASSUME NEW t, Sound(t), NEW id \in OrderIds, Paged(t, id), NEW ptr \in Orders \cup {Null}
  PROVE  /\ Sound(Write(t, id, ptr))
         /\ Stored(Write(t, id, ptr), id) = ptr
         /\ \A x \in OrderIds : x # id => Stored(Write(t, id, ptr), x) = Stored(t, x)
<1> DEFINE p == SlotPage(t, id)
           u == [t EXCEPT !.mem[p][SlotOf(id)] = ptr]
<1>0. Write(t, id, ptr) = u
  BY DEF Write
<1>1. t \in Tables /\ p \in Pages /\ SlotOf(id) \in SlotNumbers
  BY PagesFacts, IdFacts DEF Sound, Paged, SlotPage
<1>2. /\ u \in Tables
      /\ u.pages = t.pages /\ u.free = t.free /\ u.base_page = t.base_page
      /\ u.base_id = t.base_id /\ u.made = t.made
      /\ u.mem[p][SlotOf(id)] = ptr
      /\ \A r \in Pages, k \in SlotNumbers : r # p \/ k # SlotOf(id) => u.mem[r][k] = t.mem[r][k]
  <2> HIDE DEF p
  <2> DEFINE page == [t.mem[p] EXCEPT ![SlotOf(id)] = ptr]
             mem == [t.mem EXCEPT ![p] = page]
  <2>1. t.mem \in [Pages -> Contents] /\ t.mem[p] \in Contents
    BY <1>1 DEF Tables
  <2>2. page \in Contents /\ page[SlotOf(id)] = ptr /\ \A k \in SlotNumbers : k # SlotOf(id) => page[k] = t.mem[p][k]
    BY <1>1, <2>1 DEF Contents
  <2> HIDE DEF page
  <2>3. mem \in [Pages -> Contents] /\ mem[p] = page /\ \A r \in Pages : r # p => mem[r] = t.mem[r]
    BY <1>1, <2>1, <2>2
  <2> HIDE DEF mem
  <2>4. u = [t EXCEPT !.mem = mem]
    BY DEF mem, page
  <2> HIDE DEF u
  <2>5. /\ u \in Tables /\ u.pages = t.pages /\ u.free = t.free /\ u.base_page = t.base_page
        /\ u.base_id = t.base_id /\ u.made = t.made /\ u.mem = mem
    BY <1>1, <2>3, <2>4 DEF Tables
  <2>6. \A r \in Pages, k \in SlotNumbers : r # p \/ k # SlotOf(id) => mem[r][k] = t.mem[r][k]
    BY <2>2, <2>3
  <2> QED BY <1>1, <2>2, <2>3, <2>5, <2>6
<1> HIDE DEF u
<1>3. ~Unused(t, p)
  <2>1. Owned(t) /\ Idx(t, id) \in DOMAIN t.pages /\ p = t.pages[Idx(t, id)]
    BY DEF Sound, Paged, SlotPage
  <2>2. p <= t.made /\ \A j \in DOMAIN t.free : t.free[j] # p
    BY <2>1 DEF Owned
  <2>3. p \in Nat /\ t.made \in Nat
    BY <1>1, PageMapAssumption DEF Tables, Pages
  <2> QED BY <2>2, <2>3 DEF Unused
<1>4. Owned(u)
  BY <1>2 DEF Sound, Owned
<1>5. Blank(u)
  <2>1. \A r \in Pages : Unused(u, r) => Unused(t, r) /\ r # p
    BY <1>2, <1>3 DEF Unused
  <2> QED BY <1>2, <2>1 DEF Sound, Blank
<1>6. Sound(u)
  BY <1>2, <1>4, <1>5 DEF Sound
<1>7. \A x \in OrderIds : Idx(u, x) = Idx(t, x) /\ SlotPage(u, x) = SlotPage(t, x)
  BY <1>2 DEF Idx, SlotPage
<1>8. Stored(u, id) = ptr
  BY <1>2, <1>7 DEF Stored, Read, Paged, SlotPage
<1>9. ASSUME NEW x \in OrderIds, x # id
      PROVE  Stored(u, x) = Stored(t, x)
  <2>1. CASE Paged(t, x)
    <3>1. SlotPage(t, x) \in Pages /\ SlotOf(x) \in SlotNumbers
      BY <1>1, <2>1, PagesFacts, IdFacts DEF Paged, SlotPage
    <3>2. SlotPage(t, x) # p \/ SlotOf(x) # SlotOf(id)
      BY <1>9, <2>1, SlotsDiffer
    <3>3. Read(u, x) = Read(t, x)
      BY <1>2, <1>7, <3>1, <3>2 DEF Read
    <3> QED BY <1>2, <1>7, <2>1, <3>3 DEF Stored, Paged, SlotPage
  <2>2. CASE ~Paged(t, x)
    BY <1>2, <1>7, <2>2 DEF Stored, Paged, SlotPage
  <2> QED BY <2>1, <2>2
<1> QED BY <1>0, <1>6, <1>8, <1>9

\* u is t but that entry i of pages_ points at page p, which is not in use, is
\* empty, and is no longer at hand.
Fills(t, u, i, p) ==
  /\ Unused(t, p) /\ ~Unused(u, p)
  /\ DOMAIN u.pages = DOMAIN t.pages /\ u.pages[i] = p
  /\ \A k \in DOMAIN t.pages : k # i => u.pages[k] = t.pages[k]
  /\ u.base_id = t.base_id /\ u.base_page = t.base_page /\ t.made <= u.made
  /\ \A r \in Pages : Unused(u, r) => Unused(t, r)
  /\ \A j, k \in DOMAIN u.free : u.free[j] = u.free[k] => j = k
  /\ \A j \in DOMAIN u.free : u.free[j] <= u.made
  /\ \A r \in Pages : r # p => u.mem[r] = t.mem[r]
  /\ HugePages => \A k \in SlotNumbers : u.mem[p][k] = Null

\* Such a page leaves the orders where they are.
LEMMA FilledSound ==
  ASSUME NEW t, Sound(t), NEW u \in Tables, NEW i \in DOMAIN t.pages, t.pages[i] = Nil,
         NEW p \in Pages, Fills(t, u, i, p)
  PROVE  /\ Sound(u)
         /\ HugePages => \A x \in OrderIds : Stored(u, x) = Stored(t, x)
<1> USE DEF Fills
<1>1. /\ t \in Tables /\ DOMAIN u.pages = DOMAIN t.pages /\ u.pages[i] = p
      /\ \A k \in DOMAIN t.pages : k # i => u.pages[k] = t.pages[k]
      /\ t.made \in Nat /\ u.made \in Nat
  BY PageMapAssumption DEF Sound, Tables
<1>2. /\ \A k \in DOMAIN t.pages : t.pages[k] \in Pages \cup {Nil}
      /\ \A k \in DOMAIN u.free : u.free[k] \in Pages
      /\ Nil \notin Pages
  BY <1>1, PagesFacts DEF Pages, Nil
<1>3. \A k \in DOMAIN t.pages : t.pages[k] # Nil => ~Unused(t, t.pages[k]) /\ t.pages[k] # p
  <2> SUFFICES ASSUME NEW k \in DOMAIN t.pages, t.pages[k] # Nil PROVE ~Unused(t, t.pages[k])
    OBVIOUS
  <2>1. t.pages[k] <= t.made /\ \A j \in DOMAIN t.free : t.pages[k] # t.free[j]
    BY DEF Sound, Owned
  <2>2. t.pages[k] \in Nat
    BY <1>2 DEF Pages, Nil
  <2> QED BY <1>1, <2>1, <2>2 DEF Unused
<1>4. \A k \in DOMAIN u.pages : u.pages[k] # Nil => u.pages[k] \in Pages /\ ~Unused(u, u.pages[k])
  <2> SUFFICES ASSUME NEW k \in DOMAIN u.pages, u.pages[k] # Nil
               PROVE  u.pages[k] \in Pages /\ ~Unused(u, u.pages[k])
    OBVIOUS
  <2>1. CASE k = i
    BY <1>1, <2>1
  <2>2. CASE k # i
    BY <1>1, <1>2, <1>3, <2>2
  <2> QED BY <2>1, <2>2
<1>5. Owned(u)
  <2>1. ASSUME NEW j \in DOMAIN u.pages, NEW k \in DOMAIN u.pages, u.pages[j] = u.pages[k], u.pages[j] # Nil
        PROVE  j = k
    <3>1. CASE j # i /\ k # i
      BY <1>1, <2>1, <3>1 DEF Sound, Owned
    <3>2. CASE j = i \/ k = i
      BY <1>1, <1>3, <2>1, <3>2
    <3> QED BY <3>1, <3>2
  <2>2. \A k \in DOMAIN u.pages : u.pages[k] <= u.made
    BY <1>1, <1>2, <1>4, PageMapAssumption DEF Unused, Nil, Pages
  <2>3. \A k \in DOMAIN u.pages, j \in DOMAIN u.free : u.pages[k] # u.free[j]
    BY <1>2, <1>4 DEF Unused
  <2> QED BY <2>1, <2>2, <2>3 DEF Owned
<1>6. Blank(u)
  BY DEF Sound, Blank
<1>7. ASSUME HugePages, NEW x \in OrderIds PROVE Stored(u, x) = Stored(t, x)
  <2> DEFINE k == Idx(t, x)
  <2>1. Idx(u, x) = k /\ SlotOf(x) \in SlotNumbers
    BY IdFacts DEF Idx
  <2> HIDE DEF k
  <2>2. CASE k = i
    <3>1. Stored(t, x) = Null
      BY <2>2 DEF Stored, k
    <3>2. Stored(u, x) = u.mem[p][SlotOf(x)]
      BY <1>1, <1>2, <2>1, <2>2 DEF Stored, Read, SlotPage
    <3> QED BY <1>7, <2>1, <3>1, <3>2
  <2>3. CASE k \in DOMAIN t.pages /\ k # i /\ t.pages[k] # Nil
    <3>1. u.pages[k] = t.pages[k] /\ u.mem[t.pages[k]] = t.mem[t.pages[k]]
      BY <1>1, <1>2, <1>3, <2>3
    <3> QED BY <1>1, <2>1, <2>3, <3>1 DEF Stored, Read, SlotPage, k
  <2>4. CASE k # i /\ ~(k \in DOMAIN t.pages /\ t.pages[k] # Nil)
    BY <1>1, <2>1, <2>4 DEF Stored, k
  <2> QED BY <2>2, <2>3, <2>4
<1> QED BY <1>5, <1>6, <1>7 DEF Sound

\* slot_ptr finds every id a page, and disturbs no order on the way.
LEMMA LocatedFacts ==
  ASSUME NEW t, Sound(t), NEW id \in OrderIds, NEW u \in Located(t, id)
  PROVE  /\ Sound(u) /\ Paged(u, id)
         /\ HugePages => \A x \in OrderIds : Stored(u, x) = Stored(t, x)
<1> DEFINE c == Covering(t, id)
           i == Idx(c, id)
           n == Len(c.free)
<1>1. /\ Sound(c) /\ c \in Tables /\ i \in 1..Len(c.pages)
      /\ \A x \in OrderIds : Stored(c, x) = Stored(t, x)
  BY CoveringFacts, MovedSound DEF Sound
<1>2. \/ c.pages[i] # Nil /\ u = c
      \/ c.pages[i] = Nil /\ n > 0 /\ u = [c EXCEPT !.pages[i] = c.free[n], !.free = SubSeq(@, 1, n - 1)]
      \/ /\ c.pages[i] = Nil /\ n = 0 /\ c.made < MaxPages
         /\ \E page \in FreshPage : u = [c EXCEPT !.pages[i] = c.made + 1, !.mem[c.made + 1] = page, !.made = @ + 1]
  <2>1. n \in Nat
    BY <1>1, PagesFacts
  <2>2. \/ c.pages[i] # Nil /\ u \in {c}
        \/ /\ c.pages[i] = Nil /\ n > 0
           /\ u \in {[c EXCEPT !.pages[i] = c.free[n], !.free = SubSeq(@, 1, n - 1)]}
        \/ /\ c.pages[i] = Nil /\ ~(n > 0) /\ c.made < MaxPages
           /\ u \in {[c EXCEPT !.pages[i] = c.made + 1, !.mem[c.made + 1] = page,
                              !.made = @ + 1] : page \in FreshPage}
    BY Zenon DEF Located
  <2>3. ~(n > 0) => n = 0
    BY <2>1
  <2> QED BY Zenon, <2>2, <2>3
<1> HIDE DEF c, i
<1>3. /\ DOMAIN c.pages = 1..Len(c.pages) /\ n \in Nat /\ DOMAIN c.free = 1..n
      /\ \A k \in 1..n : c.free[k] \in Pages
      /\ c.pages \in Seq(Pages \cup {Nil}) /\ c.free \in Seq(Pages) /\ c.made \in Preallocated..MaxPages
      /\ c.mem \in [Pages -> Contents] /\ c.made \in Nat
  BY <1>1, PagesFacts, PageMapAssumption DEF Tables
<1>4. \A p \in Pages : /\ [c.pages EXCEPT ![i] = p] \in Seq(Pages \cup {Nil})
                       /\ Len([c.pages EXCEPT ![i] = p]) = Len(c.pages)
                       /\ [c.pages EXCEPT ![i] = p][i] = p
                       /\ DOMAIN [c.pages EXCEPT ![i] = p] = DOMAIN c.pages
                       /\ \A k \in DOMAIN c.pages : k # i => [c.pages EXCEPT ![i] = p][k] = c.pages[k]
  BY <1>1, <1>3, ExceptSeq
<1>5. CASE c.pages[i] # Nil /\ u = c
  <2>1. Paged(u, id)
    BY <1>1, <1>3, <1>5 DEF Paged, SlotPage, i
  <2> QED BY <1>1, <1>5, <2>1 DEF c
<1>6. ASSUME c.pages[i] = Nil, n > 0, u = [c EXCEPT !.pages[i] = c.free[n], !.free = SubSeq(@, 1, n - 1)]
      PROVE  /\ Sound(u) /\ Paged(u, id)
             /\ HugePages => \A x \in OrderIds : Stored(u, x) = Stored(c, x)
  <2> DEFINE p == c.free[n]
             rest == SubSeq(c.free, 1, n - 1)
  <2>1. n \in DOMAIN c.free /\ p \in Pages
    BY <1>3, <1>6
  <2>2. /\ rest \in Seq(Pages) /\ Len(rest) = n - 1 /\ DOMAIN rest = 1..(n - 1)
        /\ \A k \in 1..(n - 1) : rest[k] = c.free[k] /\ k \in DOMAIN c.free /\ k # n
    <3>1. \A k \in 1..(n - 1) : c.free[k] \in Pages /\ k \in 1..n /\ k # n
      BY <1>3
    <3>2. /\ rest \in Seq(Pages) /\ Len(rest) = (IF 1 <= n - 1 THEN n - 1 - 1 + 1 ELSE 0)
          /\ \A k \in 1..(n - 1 - 1 + 1) : rest[k] = c.free[1 + k - 1]
      BY <1>3, <3>1, SubSeqProperties
    <3>3. Len(rest) = n - 1
      BY <1>3, <1>6, <3>2
    <3>4. \A k \in 1..(n - 1) : k \in 1..(n - 1 - 1 + 1) /\ 1 + k - 1 = k
      BY <1>3
    <3>5. \A k \in 1..(n - 1) : rest[k] = c.free[k]
      BY <3>2, <3>4
    <3> QED BY <1>3, <3>1, <3>2, <3>3, <3>5, LenProperties
  <2> HIDE DEF p, rest
  <2>3. /\ u \in Tables /\ u.pages = [c.pages EXCEPT ![i] = p] /\ u.free = rest
        /\ u.base_id = c.base_id /\ u.base_page = c.base_page /\ u.made = c.made /\ u.mem = c.mem
    BY <1>1, <1>4, <1>6, <2>1, <2>2 DEF Tables, p, rest
  <2>4. Unused(c, p)
    BY <2>1 DEF Unused, p
  <2>5. \A j \in 1..(n - 1) : rest[j] # p
    BY <1>1, <2>1, <2>2 DEF Sound, Owned, p
  <2>6. ~Unused(u, p)
    <3>1. p <= c.made
      BY <1>1, <2>1 DEF Sound, Owned, p
    <3>2. \A j \in DOMAIN u.free : u.free[j] # p
      BY <2>2, <2>3, <2>5
    <3>3. ~(p > u.made)
      BY <1>3, <2>1, <2>3, <3>1 DEF Pages
    <3> QED BY <3>2, <3>3 DEF Unused
  <2>7. \A r \in Pages : Unused(u, r) => Unused(c, r)
    BY <2>2, <2>3 DEF Unused
  <2>8. /\ \A j, k \in DOMAIN u.free : u.free[j] = u.free[k] => j = k
        /\ \A j \in DOMAIN u.free : u.free[j] <= u.made
    <3>1. \A j \in DOMAIN u.free : u.free[j] = c.free[j] /\ j \in DOMAIN c.free
      BY <2>2, <2>3
    <3> QED BY <1>1, <2>3, <3>1 DEF Sound, Owned
  <2>9. HugePages => \A k \in SlotNumbers : u.mem[p][k] = Null
    BY <1>1, <2>1, <2>3, <2>4 DEF Sound, Blank
  <2>10. Sound(u) /\ (HugePages => \A x \in OrderIds : Stored(u, x) = Stored(c, x))
    <3>1. i \in DOMAIN c.pages /\ c.made <= u.made
      BY <1>1, <1>3, <2>3
    <3>2. /\ DOMAIN u.pages = DOMAIN c.pages /\ u.pages[i] = p
          /\ \A k \in DOMAIN c.pages : k # i => u.pages[k] = c.pages[k]
      BY <1>4, <2>1, <2>3
    <3>3. /\ u \in Tables /\ u.base_id = c.base_id /\ u.base_page = c.base_page
          /\ \A r \in Pages : r # p => u.mem[r] = c.mem[r]
      BY <2>3
    <3>4. Fills(c, u, i, p)
      BY <1>1, <1>6, <2>1, <2>4, <2>6, <2>7, <2>8, <2>9, <3>1, <3>2, <3>3 DEF Fills
    <3> QED BY <1>1, <1>6, <2>1, <3>1, <3>3, <3>4, FilledSound
  <2>11. Paged(u, id)
    <3>1. Idx(u, id) = i
      BY <2>3 DEF Idx, i
    <3>2. u.pages[i] = p /\ p # Nil /\ i \in DOMAIN u.pages
      BY <1>1, <1>3, <2>1, <2>3 DEF Pages, Nil
    <3> QED BY <3>1, <3>2 DEF Paged, SlotPage
  <2> QED BY <2>10, <2>11
<1>7. ASSUME c.pages[i] = Nil, n = 0, c.made < MaxPages, NEW page \in FreshPage,
             u = [c EXCEPT !.pages[i] = c.made + 1, !.mem[c.made + 1] = page, !.made = @ + 1]
      PROVE  /\ Sound(u) /\ Paged(u, id)
             /\ HugePages => \A x \in OrderIds : Stored(u, x) = Stored(c, x)
  <2> DEFINE p == c.made + 1
  <2>1. p \in Pages /\ p \in Preallocated..MaxPages /\ p > c.made /\ p \in Nat
    BY <1>3, <1>7, PageMapAssumption DEF Pages
  <2>2. page \in Contents /\ (HugePages => \A k \in SlotNumbers : page[k] = Null)
    BY <1>7 DEF FreshPage, Contents
  <2> HIDE DEF p
  <2>3. /\ u \in Tables /\ u.pages = [c.pages EXCEPT ![i] = p] /\ u.free = c.free
        /\ u.base_id = c.base_id /\ u.base_page = c.base_page /\ u.made = p
        /\ u.mem = [c.mem EXCEPT ![p] = page]
    <3>1. [c.mem EXCEPT ![p] = page] \in [Pages -> Contents]
      BY <1>3, <2>1, <2>2
    <3>2. [c.pages EXCEPT ![i] = p] \in Seq(Pages \cup {Nil})
      BY <1>4, <2>1
    <3> QED BY <1>1, <1>7, <2>1, <3>1, <3>2 DEF Tables, p
  <2>4. DOMAIN u.free = {} /\ DOMAIN c.free = {}
    BY <1>3, <1>7, <2>3
  <2>5. Unused(c, p) /\ ~Unused(u, p)
    BY <2>1, <2>3, <2>4 DEF Unused
  <2>6. \A r \in Pages : Unused(u, r) => Unused(c, r)
    BY <1>3, <2>1, <2>3, <2>4 DEF Unused, Pages
  <2>7. /\ \A r \in Pages : r # p => u.mem[r] = c.mem[r]
        /\ u.mem[p] = page
    BY <1>3, <2>1, <2>3
  <2>8. HugePages => \A k \in SlotNumbers : u.mem[p][k] = Null
    BY <2>2, <2>7
  <2>9. Sound(u) /\ (HugePages => \A x \in OrderIds : Stored(u, x) = Stored(c, x))
    <3>1. i \in DOMAIN c.pages /\ c.made <= u.made
      BY <1>1, <1>3, <2>1, <2>3
    <3>2. /\ DOMAIN u.pages = DOMAIN c.pages /\ u.pages[i] = p
          /\ \A k \in DOMAIN c.pages : k # i => u.pages[k] = c.pages[k]
      BY <1>4, <2>1, <2>3
    <3>3. /\ u \in Tables /\ u.base_id = c.base_id /\ u.base_page = c.base_page
          /\ \A j, k \in DOMAIN u.free : u.free[j] = u.free[k] => j = k
          /\ \A j \in DOMAIN u.free : u.free[j] <= u.made
      BY <2>3, <2>4
    <3>4. Fills(c, u, i, p)
      BY <1>1, <1>7, <2>1, <2>5, <2>6, <2>7, <2>8, <3>1, <3>2, <3>3 DEF Fills
    <3> QED BY <1>1, <1>7, <2>1, <3>1, <3>3, <3>4, FilledSound
  <2>10. Paged(u, id)
    <3>1. Idx(u, id) = i
      BY <2>3 DEF Idx, i
    <3>2. u.pages[i] = p /\ p # Nil /\ i \in DOMAIN u.pages
      BY <1>1, <1>3, <2>1, <2>3 DEF Pages, Nil
    <3> QED BY <3>1, <3>2 DEF Paged, SlotPage
  <2> QED BY <2>9, <2>10
<1> QED BY <1>1, <1>2, <1>5, <1>6, <1>7

(* Steps *)

\* The map the table stands for.
Order(t) == [id \in OrderIds |-> Stored(t, id)]

LEMMA InitSound ==
  ASSUME Init
  PROVE  Sound(table) /\ (\A x \in OrderIds : Stored(table, x) = Null) /\ found = Null
<1> DEFINE free == [k \in 1..Preallocated |-> k]
<1>1. PICK contents \in [1..Preallocated -> FreshPage] :
        table = [pages     |-> << >>,
                 free      |-> free,
                 base_id   |-> 0,
                 base_page |-> 0,
                 made      |-> Preallocated,
                 mem       |-> [p \in Pages |-> IF p <= Preallocated THEN contents[p]
                                                ELSE [k \in SlotNumbers |-> Null]]]
  BY DEF Init
<1>2. /\ Preallocated \in Nat /\ MaxPages \in Nat /\ Preallocated <= MaxPages
      /\ SLOTS_PER_PAGE \in Nat
  BY PageMapAssumption
<1>3. free \in Seq(Pages) /\ Len(free) = Preallocated /\ DOMAIN free = 1..Preallocated
  <2>1. free \in [1..Preallocated -> Pages]
    BY <1>2 DEF Pages
  <2> QED BY <1>2, <2>1, FunctionIsSequence
<1>4. FreshPage \subseteq Contents /\ (HugePages => \A page \in FreshPage, k \in SlotNumbers : page[k] = Null)
  BY DEF FreshPage, Contents
<1>5. \A p \in Pages : table.mem[p] = IF p <= Preallocated THEN contents[p] ELSE [k \in SlotNumbers |-> Null]
  BY <1>1
<1>6. \A p \in Pages : p <= Preallocated => contents[p] \in FreshPage
  BY <1>2 DEF Pages
<1>7. \A p \in Pages : /\ table.mem[p] \in Contents
                       /\ HugePages => \A k \in SlotNumbers : table.mem[p][k] = Null
  <2> SUFFICES ASSUME NEW p \in Pages
               PROVE  /\ table.mem[p] \in Contents
                      /\ HugePages => \A k \in SlotNumbers : table.mem[p][k] = Null
    OBVIOUS
  <2>1. CASE p <= Preallocated
    BY <1>4, <1>5, <1>6, <2>1
  <2>2. CASE ~(p <= Preallocated)
    BY <1>5, <2>2 DEF Contents
  <2> QED BY <2>1, <2>2
<1>8. table.mem \in [Pages -> Contents]
  BY <1>1, <1>7
<1>9. << >> \in Seq(Pages \cup {Nil}) /\ DOMAIN << >> = {}
  BY EmptySeq
<1>10. table \in Tables /\ table.base_id = table.base_page * SLOTS_PER_PAGE
  BY <1>1, <1>2, <1>3, <1>8, <1>9 DEF Tables
<1>11. Owned(table) /\ Blank(table)
  BY <1>1, <1>2, <1>3, <1>7, <1>9 DEF Owned, Blank
<1>12. \A x \in OrderIds : Stored(table, x) = Null
  BY <1>1, <1>9 DEF Stored
<1> QED BY <1>10, <1>11, <1>12 DEF Sound, Init

LEMMA ClearSound ==
  ASSUME Sound(table), clear
  PROVE  Sound(table') /\ \A x \in OrderIds : Stored(table', x) = Null
<1>1. << >> \in Seq(Pages \cup {Nil}) /\ << >> \in Seq(Pages) /\ DOMAIN << >> = {}
  BY EmptySeq
<1>2. /\ table' \in Tables /\ table'.base_id = 0 /\ table'.base_page = 0
      /\ table'.pages = << >> /\ table'.free = << >>
      /\ table'.made = table.made /\ table'.mem = table.mem
  BY <1>1 DEF clear, Sound, Tables
<1>3. 0 = 0 * SLOTS_PER_PAGE
  BY PageMapAssumption
<1>4. Owned(table') /\ Blank(table')
  BY <1>1, <1>2 DEF Sound, Owned, Blank, Unused
<1>5. \A x \in OrderIds : Stored(table', x) = Null
  BY <1>1, <1>2 DEF Stored
<1> QED BY <1>2, <1>3, <1>4, <1>5 DEF Sound

\* What slot_ptr followed by a write does to the table, and to the map.
LEMMA WriteStep ==
  ASSUME Sound(table), NEW id \in OrderIds, NEW ptr \in Orders \cup {Null},
         \E t \in Located(table, id) : table' = Write(t, id, ptr)
  PROVE  /\ Sound(table')
         /\ HugePages => Order(table') = [Order(table) EXCEPT ![id] = ptr]
<1>1. PICK t \in Located(table, id) : table' = Write(t, id, ptr)
  OBVIOUS
<1>2. Sound(t) /\ Paged(t, id) /\ (HugePages => \A x \in OrderIds : Stored(t, x) = Stored(table, x))
  BY LocatedFacts
<1>3. Sound(table') /\ Stored(table', id) = ptr
      /\ \A x \in OrderIds : x # id => Stored(table', x) = Stored(t, x)
  BY <1>1, <1>2, WriteFacts
<1> QED BY <1>2, <1>3 DEF Order

LEMMA Step ==
  ASSUME IInv, [Next]_vars
  PROVE  IInv' /\ (HugePages => [Map!Next]_(Map!vars))
<1>1. Sound(table) /\ found \in Orders \cup {Null}
  BY DEF IInv
<1>2. /\ IInv' <=> Sound(table') /\ found' \in Orders \cup {Null}
      /\ Order(table)' = Order(table')
  BY DEF IInv, Order
<1>3. ASSUME NEW id \in OrderIds, NEW ptr \in Orders, insert(id, ptr)
      PROVE  IInv' /\ (HugePages => Map!Insert(id, ptr))
  BY <1>1, <1>2, <1>3, WriteStep DEF insert, Map!Insert, Order
<1>4. ASSUME NEW id \in OrderIds, erase(id)
      PROVE  IInv' /\ (HugePages => Map!Erase(id))
  BY <1>1, <1>2, <1>4, WriteStep DEF erase, Map!Erase, Order
<1>5. ASSUME NEW id \in OrderIds, find(id)
      PROVE  IInv' /\ (HugePages => Map!Find(id))
  <2>1. PICK t \in Located(table, id) : table' = t /\ found' = Read(t, id)
    BY <1>5 DEF find
  <2>2. Sound(t) /\ Paged(t, id) /\ (HugePages => \A x \in OrderIds : Stored(t, x) = Stored(table, x))
    BY <1>1, LocatedFacts
  <2>3. found' = Stored(t, id)
    BY <2>1, <2>2 DEF Stored, Paged, SlotPage
  <2>4. found' \in Orders \cup {Null}
    <3>1. SlotPage(t, id) \in Pages /\ SlotOf(id) \in SlotNumbers
      BY <2>2, PagesFacts, IdFacts DEF Sound, Paged, SlotPage
    <3> QED BY <2>1, <2>2, <3>1 DEF Sound, Tables, Contents, Read
  <2>5. HugePages => Order(table') = Order(table)
    BY <2>1, <2>2 DEF Order
  <2> QED BY <1>2, <2>1, <2>2, <2>3, <2>4, <2>5 DEF Map!Find, Order
<1>6. ASSUME NEW id \in OrderIds, OutOfMemory(id)
      PROVE  IInv' /\ UNCHANGED Map!vars
  <2>1. Sound(table') /\ \A x \in OrderIds : Stored(table', x) = Stored(table, x)
    BY <1>1, <1>6, CoveringFacts, MovedSound DEF OutOfMemory, Sound
  <2>2. Order(table') = Order(table)
    BY <2>1 DEF Order
  <2> QED BY <1>1, <1>2, <1>6, <2>1, <2>2 DEF OutOfMemory, Map!vars, Order
<1>7. ASSUME clear PROVE IInv' /\ Map!Clear
  <2>1. Order(table') = [id \in OrderIds |-> Null]
    BY <1>1, <1>7, ClearSound DEF Order
  <2> QED BY <1>1, <1>2, <1>7, <2>1, ClearSound DEF clear, Map!Clear, Order
<1>8. ASSUME UNCHANGED vars PROVE IInv' /\ UNCHANGED Map!vars
  BY <1>1, <1>2, <1>8 DEF vars, Map!vars, Order
<1> QED BY <1>3, <1>4, <1>5, <1>6, <1>7, <1>8 DEF Next, Map!Next

\* The pages in use and the pages at hand are made, blank if no order was put
\* in them, and no two of them are one.
THEOREM Inductive == Spec => []IInv
<1>1. Init => IInv
  BY InitSound DEF IInv
<1>2. IInv /\ [Next]_vars => IInv'
  BY Step
<1> QED BY <1>1, <1>2, PTL DEF Spec

\* No page ever serves two ranges of ids, or is handed out while it is in use,
\* whatever the ids, the size of a page and the pages made in advance.
THEOREM PagesAlwaysOwnedOnce == Spec => []PagesOwnedOnce
<1>1. IInv => PagesOwnedOnce
  BY DEF IInv, Sound, Tables, Contents, Owned, PagesOwnedOnce, TypeOK
<1> QED BY <1>1, Inductive, PTL

\* With pages that come zeroed the table is a map from ids to orders: growth at
\* both ends, lazy and recycled pages, and failed allocations are invisible.
THEOREM AlwaysImplementsOrderMap ==
  ASSUME HugePages PROVE Spec => ImplementsOrderMap
<1>1. Init => Map!Init
  BY InitSound DEF Map!Init
<1>2. IInv /\ [Next]_vars => [Map!Next]_(Map!vars)
  BY Step
<1> QED BY <1>1, <1>2, Inductive, PTL DEF Spec, ImplementsOrderMap, Map!Spec
==============================================================================
