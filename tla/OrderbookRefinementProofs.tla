--------------------- MODULE OrderbookRefinementProofs ---------------------
(***************************************************************************)
(* Theorems about what a reader of the order book sees, for every value of *)
(* its constants: the queues it keeps (PriceTimeBook), the best prices and *)
(* the signals read off it (BookSignals).                                  *)
(*                                                                         *)
(* OrderbookProofs follows what each method does to the links.  Here the   *)
(* links of a level spell out a sequence of orders, the sequences are the  *)
(* queues of the abstract book, and the volumes kept with the levels are   *)
(* sums over them.                                                         *)
(***************************************************************************)
EXTENDS OrderbookProofs, OrderbookRefinement, BookSignals, SequencesExt,
        FiniteSetTheorems, SequenceTheorems

-----------------------------------------------------------------------------
(* Sums and sequences. *)

\* Induction over the numbers, as a fact about sets.
LEMMA NatIsReached ==
  ASSUME NEW P \in SUBSET Nat, 0 \in P, \A n \in P : n + 1 \in P
  PROVE  P = Nat
<1> DEFINE S == Nat \ P
<1>1. SUFFICES ASSUME S # {} PROVE FALSE
  OBVIOUS
<1>2. PICK m \in S : \A e \in S : ~(<<e, m>> \in OpToRel(<, Nat))
  BY <1>1, NatLessThanWellFounded, WFMin, Zenon
<1>3. \A x \in S : ~(x < m)
  BY <1>2 DEF OpToRel
<1>4. m # 0 /\ m \in Nat
  OBVIOUS
<1>5. m - 1 \in P
  BY <1>3, <1>4
<1>6. (m - 1) + 1 = m
  BY <1>4
<1> QED BY <1>5, <1>6
-----------------------------------------------------------------------------
(* Sums over finite sets *)

\* An element of a set, as the sum over a set chooses it.
Pick(s) == CHOOSE x \in s : TRUE

\* What SumFunctionOnSet computes for each part of S.
IsSum(f, S, sum) ==
  sum = [s \in SUBSET S |-> IF s = {} THEN 0 ELSE f[Pick(s)] + sum[s \ {Pick(s)}]]

\* The sum over a set is the value at that set of the function that adds an
\* element at a time.
LEMMA SumUnfolds ==
  ASSUME NEW f, NEW S
  PROVE  SumFunctionOnSet(f, S) = (CHOOSE sum : IsSum(f, S, sum))[S]
BY DEF SumFunctionOnSet, FoldFunctionOnSet, MapThenFoldSet, IsSum, Pick

\* With f a number on every element, all parts of a finite set have a sum.
LEMMA SumsExist ==
  ASSUME NEW S, IsFiniteSet(S), NEW f, \A x \in S : f[x] \in Int
  PROVE  \E sum : IsSum(f, S, sum) /\ sum \in [SUBSET S -> Int]
<1> DEFINE Parts(n) == {s \in SUBSET S : Cardinality(s) <= n}
           Sums(n, g) == /\ g \in [Parts(n) -> Int]
                         /\ \A s \in Parts(n) :
                              g[s] = IF s = {} THEN 0 ELSE f[Pick(s)] + g[s \ {Pick(s)}]
           P == {n \in Nat : \E g : Sums(n, g)}
<1>1. \A s \in SUBSET S : /\ IsFiniteSet(s) /\ Cardinality(s) \in Nat
                          /\ Cardinality(s) <= Cardinality(S)
                          /\ Cardinality(s) = 0 <=> s = {}
  BY FS_Subset, FS_CardinalityType, FS_EmptySet
<1>2. \A s \in SUBSET S : s # {} => /\ Pick(s) \in s /\ s \ {Pick(s)} \in SUBSET S
                                    /\ Cardinality(s \ {Pick(s)}) = Cardinality(s) - 1
  BY <1>1, FS_RemoveElement DEF Pick
<1>3. 0 \in P
  <2>1. \A s \in Parts(0) : s = {}
    BY <1>1
  <2>2. Sums(0, [s \in Parts(0) |-> 0])
    BY <2>1
  <2> QED BY <2>2
<1>4. ASSUME NEW n \in P PROVE n + 1 \in P
  <2>1. PICK g : Sums(n, g)
    OBVIOUS
  <2> DEFINE h == [s \in Parts(n + 1) |-> IF s = {} THEN 0 ELSE f[Pick(s)] + g[s \ {Pick(s)}]]
  <2>2. \A s \in Parts(n + 1) : s # {} => s \ {Pick(s)} \in Parts(n) /\ Pick(s) \in S
    BY <1>1, <1>2
  <2>3. h \in [Parts(n + 1) -> Int]
    BY <2>1, <2>2
  <2>4. \A s \in Parts(n) : s \in Parts(n + 1) /\ h[s] = g[s]
    BY <1>1, <2>1
  <2>5. Sums(n + 1, h)
    <3> HIDE DEF Parts
    <3> QED BY <2>2, <2>3, <2>4
  <2> HIDE DEF Sums, h
  <2> QED BY <2>5
<1>5. P = Nat
  <2> HIDE DEF P
  <2>1. P \subseteq Nat
    BY DEF P
  <2> QED BY <1>3, <1>4, <2>1, NatIsReached
<1>6. PICK g : Sums(Cardinality(S), g)
  BY <1>1, <1>5
<1>7. Parts(Cardinality(S)) = SUBSET S
  <2>1. \A s \in SUBSET S : Cardinality(s) <= Cardinality(S)
    BY <1>1
  <2> QED BY <2>1
<1>8. g = [s \in SUBSET S |-> g[s]]
  BY <1>6, <1>7
<1>9. IsSum(f, S, g) /\ g \in [SUBSET S -> Int]
  <2> HIDE DEF Parts
  <2> QED BY <1>6, <1>7, <1>8 DEF IsSum
<1> QED BY <1>9

\* A sum does not depend on which element is taken out first.
LEMMA SumTakesOut ==
  ASSUME NEW S, IsFiniteSet(S), NEW f, \A x \in S : f[x] \in Int,
         NEW sum, IsSum(f, S, sum), \A t \in SUBSET S : sum[t] \in Int
  PROVE  \A s, x : s \subseteq S /\ x \in s => sum[s] = f[x] + sum[s \ {x}]
<1> DEFINE AnyOf(t) == \A y \in t : sum[t] = f[y] + sum[t \ {y}]
           P == {n \in Nat : \A t \in SUBSET S : Cardinality(t) = n => AnyOf(t)}
<1>1. \A t \in SUBSET S : /\ Cardinality(t) \in Nat
                          /\ Cardinality(t) = 0 <=> t = {}
                          /\ \A y \in t : Cardinality(t \ {y}) = Cardinality(t) - 1
  BY FS_Subset, FS_CardinalityType, FS_EmptySet, FS_RemoveElement
<1>2. 0 \in P
  BY <1>1
<1>3. ASSUME NEW n \in P PROVE n + 1 \in P
  <2>1. SUFFICES ASSUME NEW t \in SUBSET S, Cardinality(t) = n + 1, NEW y \in t
                 PROVE  sum[t] = f[y] + sum[t \ {y}]
    OBVIOUS
  <2> DEFINE c == Pick(t)
  <2>2. c \in t /\ sum[t] = f[c] + sum[t \ {c}]
    BY DEF IsSum, Pick
  <2> HIDE DEF c
  <2>3. CASE y = c
    BY <2>2, <2>3
  <2>4. CASE y # c
    <3>1. AnyOf(t \ {c}) /\ AnyOf(t \ {y})
      <4>1. /\ t \ {c} \in SUBSET S /\ Cardinality(t \ {c}) = n
            /\ t \ {y} \in SUBSET S /\ Cardinality(t \ {y}) = n
        <5>1. n \in Nat /\ c \in t /\ y \in t /\ t \in SUBSET S
          BY <2>1, <2>2
        <5>2. Cardinality(t \ {c}) = Cardinality(t) - 1 /\ Cardinality(t \ {y}) = Cardinality(t) - 1
          BY <1>1, <5>1
        <5> QED BY <2>1, <5>1, <5>2
      <4>2. \A u \in SUBSET S : Cardinality(u) = n => AnyOf(u)
        OBVIOUS
      <4> HIDE DEF AnyOf
      <4> QED BY <4>1, <4>2
    <3>2. (t \ {c}) \ {y} = (t \ {y}) \ {c}
      OBVIOUS
    <3>3. sum[t \ {c}] = f[y] + sum[(t \ {c}) \ {y}]
      BY <2>1, <2>4, <3>1
    <3>4. sum[t \ {y}] = f[c] + sum[(t \ {c}) \ {y}]
      BY <2>2, <2>4, <3>1, <3>2
    <3>5. sum[(t \ {c}) \ {y}] \in Int /\ f[c] \in Int /\ f[y] \in Int
      BY <2>1, <2>2
    <3> QED BY <2>2, <3>3, <3>4, <3>5
  <2> QED BY <2>3, <2>4
<1>4. P = Nat
  <2> HIDE DEF P
  <2>1. P \subseteq Nat
    BY DEF P
  <2> QED BY <1>2, <1>3, <2>1, NatIsReached
<1> QED BY <1>1, <1>4

\* A sum is told by the values on the set.
LEMMA SumsAgree ==
  ASSUME NEW S, IsFiniteSet(S), NEW T, IsFiniteSet(T), NEW f, NEW g,
         NEW sum, IsSum(f, S, sum), NEW tot, IsSum(g, T, tot),
         NEW s, s \subseteq S, s \subseteq T, \A x \in s : f[x] = g[x]
  PROVE  sum[s] = tot[s]
<1> DEFINE P == {n \in Nat : \A t \in SUBSET s : Cardinality(t) = n => sum[t] = tot[t]}
<1>1. \A t \in SUBSET s : /\ Cardinality(t) \in Nat
                          /\ Cardinality(t) = 0 <=> t = {}
                          /\ \A y \in t : Cardinality(t \ {y}) = Cardinality(t) - 1
  BY FS_Subset, FS_CardinalityType, FS_EmptySet, FS_RemoveElement
<1>2. 0 \in P
  BY <1>1 DEF IsSum
<1>3. ASSUME NEW n \in P PROVE n + 1 \in P
  <2>1. SUFFICES ASSUME NEW t \in SUBSET s, Cardinality(t) = n + 1
                 PROVE  sum[t] = tot[t]
    OBVIOUS
  <2>2. t # {} /\ Pick(t) \in t
    BY <1>1, <2>1 DEF Pick
  <2>3. sum[t] = f[Pick(t)] + sum[t \ {Pick(t)}] /\ tot[t] = g[Pick(t)] + tot[t \ {Pick(t)}]
    BY <2>2 DEF IsSum
  <2>4. Cardinality(t \ {Pick(t)}) = n /\ t \ {Pick(t)} \in SUBSET s
    BY <1>1, <2>1, <2>2
  <2> QED BY <2>2, <2>3, <2>4
<1>4. P = Nat
  <2> HIDE DEF P
  <2>1. P \subseteq Nat
    BY DEF P
  <2> QED BY <1>2, <1>3, <2>1, NatIsReached
<1> QED BY <1>1, <1>4

\* The sum of a set is the one among the sums of its parts.
LEMMA SumAmongParts ==
  ASSUME NEW S, IsFiniteSet(S), NEW f, \A x \in S : f[x] \in Int
  PROVE  \E sum : /\ IsSum(f, S, sum) /\ sum \in [SUBSET S -> Int]
                 /\ SumFunctionOnSet(f, S) = sum[S]
<1>1. PICK sum : IsSum(f, S, sum) /\ sum \in [SUBSET S -> Int]
  BY SumsExist
<1> DEFINE tot == CHOOSE g : IsSum(f, S, g)
<1>2. IsSum(f, S, tot)
  BY <1>1
<1>3. SumFunctionOnSet(f, S) = tot[S]
  BY SumUnfolds
<1> HIDE DEF tot
<1>4. tot[S] = sum[S]
  BY <1>1, <1>2, SumsAgree
<1> QED BY <1>1, <1>3, <1>4

\* The laws of sums that everything else rests on.
LEMMA SumFacts ==
  ASSUME NEW S, IsFiniteSet(S), NEW f, \A x \in S : f[x] \in Int
  PROVE  /\ SumFunctionOnSet(f, S) \in Int
         /\ S = {} => SumFunctionOnSet(f, S) = 0
         /\ \A x \in S : SumFunctionOnSet(f, S) = f[x] + SumFunctionOnSet(f, S \ {x})
<1>1. PICK sum : /\ IsSum(f, S, sum) /\ sum \in [SUBSET S -> Int]
                 /\ SumFunctionOnSet(f, S) = sum[S]
  BY SumAmongParts
<1>2. ASSUME NEW x \in S PROVE sum[S \ {x}] = SumFunctionOnSet(f, S \ {x})
  <2>1. IsFiniteSet(S \ {x})
    BY FS_RemoveElement
  <2>2. PICK tot : IsSum(f, S \ {x}, tot) /\ SumFunctionOnSet(f, S \ {x}) = tot[S \ {x}]
    BY <2>1, SumAmongParts
  <2> QED BY <1>1, <2>1, <2>2, SumsAgree
<1>3. S = {} => sum[S] = 0
  BY <1>1 DEF IsSum
<1>4. \A s, x : s \subseteq S /\ x \in s => sum[s] = f[x] + sum[s \ {x}]
  <2>1. \A t \in SUBSET S : sum[t] \in Int
    BY <1>1
  <2> QED BY <1>1, <2>1, SumTakesOut
<1>5. \A x \in S : sum[S] = f[x] + sum[S \ {x}]
  BY <1>4
<1>6. sum[S] \in Int
  BY <1>1
<1> QED BY <1>1, <1>2, <1>3, <1>5, <1>6

\* Only the values on the set matter.
LEMMA SumSame ==
  ASSUME NEW S, IsFiniteSet(S), NEW f, NEW g, \A x \in S : f[x] \in Int /\ g[x] = f[x]
  PROVE  SumFunctionOnSet(g, S) = SumFunctionOnSet(f, S)
<1>1. \A x \in S : g[x] \in Int
  OBVIOUS
<1>2. PICK sum : IsSum(f, S, sum) /\ SumFunctionOnSet(f, S) = sum[S]
  BY SumAmongParts
<1>3. PICK tot : IsSum(g, S, tot) /\ SumFunctionOnSet(g, S) = tot[S]
  BY <1>1, SumAmongParts
<1> QED BY <1>2, <1>3, SumsAgree

-----------------------------------------------------------------------------
(* The queue of a level as a sequence of its cells. *)

\* The resting orders whose parent_ is level l.
OrdersAt(b, l) == {o \in b.live : b.parent[o] = l}

\* s is the list of the orders of level l, from head_ along next_.
Lists(b, l, s) ==
  /\ s \in Seq(OrderCells)
  /\ \A k \in 1..Len(s) : /\ s[k] \in OrdersAt(b, l)
                          /\ b.next[s[k]] = IF k = Len(s) THEN Nil ELSE s[k + 1]
  /\ \A j, k \in 1..Len(s) : s[j] = s[k] => j = k
  /\ \A o \in OrdersAt(b, l) : \E k \in 1..Len(s) : s[k] = o
  /\ b.head[l] = IF Len(s) = 0 THEN Nil ELSE s[1]

\* Every level's orders form a list along next_.
Listed(b) == \A l \in LimitCells : \E s : Lists(b, l, s)

\* What the abstract book shows of an order.
Entry(b, o) == [id |-> b.id[o], size |-> b.size[o], lost |-> b.lookup[b.id[o]] # o]

\* The type of an entry of a queue.
Entries == [id : Ids, size : Nat, lost : BOOLEAN]

\* A cell shows an entry.
LEMMA EntryType ==
  ASSUME NEW b, BookType(b), NEW o \in OrderCells
  PROVE  Entry(b, o) \in Entries
BY DEF BookType, Entry, Entries

\* The orders of a list from place p on.
Suffix(b, s, p) == [j \in 1..(Len(s) - p + 1) |-> Entry(b, s[p + j - 1])]

\* A function on 1..n is a sequence of length n.
LEMMA FunctionIsSequence ==
  ASSUME NEW S, NEW n \in Nat, NEW f \in [1..n -> S]
  PROVE  f \in Seq(S) /\ Len(f) = n
<1>1. f \in Seq(S)
  BY SeqDef
<1>2. Len(f) \in Nat /\ DOMAIN f = 1..Len(f) /\ DOMAIN f = 1..n
  BY <1>1, LenProperties
<1>3. Len(f) = n
  <2>1. CASE n = 0
    BY <1>2, <2>1
  <2>2. CASE n > 0
    <3>1. n \in 1..Len(f) /\ Len(f) >= 1
      BY <1>2, <2>2
    <3>2. Len(f) \in 1..n
      BY <1>2, <3>1
    <3> QED BY <1>2, <3>1, <3>2
  <2> QED BY <2>1, <2>2
<1> QED BY <1>1, <1>3

\* A sequence with one element put in front.
LEMMA ConsIs ==
  ASSUME NEW S, NEW e \in S, NEW n \in Nat, NEW f \in [1..n -> S]
  PROVE  <<e>> \o f = [j \in 1..(n + 1) |-> IF j = 1 THEN e ELSE f[j - 1]]
<1>1. f \in Seq(S) /\ Len(f) = n
  BY FunctionIsSequence
<1>2. <<e>> \in Seq(S) /\ Len(<<e>>) = 1 /\ <<e>>[1] = e
  OBVIOUS
<1> DEFINE g == <<e>> \o f
<1>3. /\ g \in Seq(S) /\ Len(g) = n + 1
      /\ \A j \in 1..(n + 1) : g[j] = IF j <= 1 THEN <<e>>[j] ELSE f[j - 1]
  BY <1>1, <1>2, ConcatProperties
<1> HIDE DEF g
<1>4. g = [j \in 1..(n + 1) |-> g[j]]
  BY <1>3
<1>5. \A j \in 1..(n + 1) : g[j] = IF j = 1 THEN e ELSE f[j - 1]
  BY <1>2, <1>3
<1> QED BY <1>4, <1>5 DEF g

\* The entries from place p on are that of place p and the rest.
LEMMA SuffixCons ==
  ASSUME NEW b, BookType(b), NEW s \in Seq(OrderCells), NEW p \in 1..Len(s)
  PROVE  Suffix(b, s, p) = <<Entry(b, s[p])>> \o Suffix(b, s, p + 1)
<1> DEFINE n == Len(s) - p
           f == Suffix(b, s, p + 1)
<1>1. n \in Nat /\ Len(s) \in Nat /\ \A k \in 1..Len(s) : s[k] \in OrderCells
  OBVIOUS
<1>2. \A k \in 1..Len(s) : Entry(b, s[k]) \in Entries
  BY <1>1, EntryType
<1>3. f \in [1..n -> Entries] /\ \A j \in 1..n : f[j] = Entry(b, s[p + j])
  <2>1. Len(s) - (p + 1) + 1 = n
    BY <1>1
  <2>2. \A j \in 1..n : p + 1 + j - 1 = p + j /\ p + j \in 1..Len(s)
    BY <1>1
  <2> QED BY <1>2, <2>1, <2>2 DEF Suffix
<1> DEFINE e == Entry(b, s[p])
<1>e. e \in Entries
  BY <1>2
<1> HIDE DEF f, e, n
<1>c. <<e>> \o f = [j \in 1..(n + 1) |-> IF j = 1 THEN e ELSE f[j - 1]]
  <2>1. ASSUME NEW x \in Entries, NEW g \in [1..n -> Entries]
        PROVE  <<x>> \o g = [j \in 1..(n + 1) |-> IF j = 1 THEN x ELSE g[j - 1]]
    BY <1>1, ConsIs
  <2> QED BY <1>3, <1>e, <2>1, Zenon
<1> USE DEF n
<1>4. <<Entry(b, s[p])>> \o f = [j \in 1..(n + 1) |-> IF j = 1 THEN Entry(b, s[p]) ELSE f[j - 1]]
  BY <1>c DEF e
<1>5. \A j \in 1..(n + 1) : (IF j = 1 THEN Entry(b, s[p]) ELSE f[j - 1]) = Entry(b, s[p + j - 1])
  <2> SUFFICES ASSUME NEW j \in 1..(n + 1)
               PROVE  (IF j = 1 THEN Entry(b, s[p]) ELSE f[j - 1]) = Entry(b, s[p + j - 1])
    OBVIOUS
  <2>1. CASE j = 1
    <3>1. p + j - 1 = p
      BY <2>1
    <3> QED BY <2>1, <3>1
  <2>2. CASE j # 1
    <3>1. j - 1 \in 1..n /\ p + (j - 1) = p + j - 1
      BY <1>1, <2>2
    <3> QED BY <1>3, <2>2, <3>1
  <2> QED BY <2>1, <2>2
<1>6. Suffix(b, s, p) = [j \in 1..(n + 1) |-> Entry(b, s[p + j - 1])]
  BY DEF Suffix
<1> QED BY <1>4, <1>5, <1>6 DEF f
\* With its orders listed, a level shows them from first to last, whichever
\* function the recursion along next_ picks.
LEMMA FollowsList ==
  ASSUME NEW b, BookType(b), NEW l, NEW s, Lists(b, l, s),
         NEW F, \A o \in b.live \cup {Nil} :
                  F[o] = IF o = Nil THEN << >> ELSE <<Entry(b, o)>> \o F[b.next[o]]
  PROVE  \A p \in 1..Len(s) : F[s[p]] = Suffix(b, s, p)
<1> DEFINE n == Len(s)
           P == {d \in Nat : \A p \in 1..n : n - p = d => F[s[p]] = Suffix(b, s, p)}
<1>1. /\ s \in Seq(OrderCells) /\ n \in Nat
      /\ \A k \in 1..n : /\ s[k] \in OrderCells /\ s[k] \in b.live /\ s[k] # Nil
                         /\ b.next[s[k]] = IF k = n THEN Nil ELSE s[k + 1]
  BY Constants DEF Lists, OrdersAt
<1>2. Nil \in b.live \cup {Nil} /\ F[Nil] = << >>
  OBVIOUS
<1>3. \A p \in 1..n : /\ F[s[p]] = <<Entry(b, s[p])>> \o F[b.next[s[p]]]
                     /\ Suffix(b, s, p) = <<Entry(b, s[p])>> \o Suffix(b, s, p + 1)
  <2>1. \A p \in 1..n : F[s[p]] = <<Entry(b, s[p])>> \o F[b.next[s[p]]]
    BY <1>1
  <2>2. \A p \in 1..n : Suffix(b, s, p) = <<Entry(b, s[p])>> \o Suffix(b, s, p + 1)
    BY <1>1, SuffixCons
  <2> QED BY <2>1, <2>2
<1>4. Suffix(b, s, n + 1) = << >>
  <2>1. n - (n + 1) + 1 = 0
    BY <1>1
  <2> QED BY <2>1 DEF Suffix
<1>5. 0 \in P
  <2>1. \A p \in 1..n : n - p = 0 => p = n
    BY <1>1
  <2>2. ASSUME n \in 1..n PROVE F[s[n]] = Suffix(b, s, n)
    <3>1. b.next[s[n]] = Nil
      BY <1>1, <2>2
    <3>2. F[s[n]] = <<Entry(b, s[n])>> \o F[Nil]
      BY Zenon, <1>3, <2>2, <3>1
    <3>3. Suffix(b, s, n) = <<Entry(b, s[n])>> \o << >>
      BY Zenon, <1>3, <1>4, <2>2
    <3> QED BY Zenon, <1>2, <3>2, <3>3
  <2> QED BY <2>1, <2>2
<1>6. ASSUME NEW d \in P PROVE d + 1 \in P
  <2> SUFFICES ASSUME NEW p \in 1..n, n - p = d + 1 PROVE F[s[p]] = Suffix(b, s, p)
    OBVIOUS
  <2>1. p + 1 \in 1..n /\ n - (p + 1) = d /\ p # n
    BY <1>1
  <2>2. F[s[p + 1]] = Suffix(b, s, p + 1)
    BY <2>1
  <2>3. b.next[s[p]] = s[p + 1]
    BY <1>1, <2>1
  <2> QED BY <1>3, <2>2, <2>3
<1>7. P = Nat
  <2> HIDE DEF P
  <2>1. P \subseteq Nat
    BY DEF P
  <2> QED BY <1>5, <1>6, <2>1, NatIsReached
<1>8. \A p \in 1..n : n - p \in P
  <2>1. \A p \in 1..n : n - p \in Nat
    BY <1>1
  <2> HIDE DEF P
  <2> QED BY <1>7, <2>1
<1> QED BY <1>8

\* There is a function that follows next_ when every level is listed.
LEMMA ListsAreFollowed ==
  ASSUME NEW b, BookType(b), HeapSound(b), Listed(b)
  PROVE  \E F : F = [o \in b.live \cup {Nil} |->
                      IF o = Nil THEN << >> ELSE <<Entry(b, o)>> \o F[b.next[o]]]
<1> DEFINE S(l) == CHOOSE s : Lists(b, l, s)
           At(o, k) == k \in 1..Len(S(b.parent[o])) /\ S(b.parent[o])[k] = o
           pos(o) == CHOOSE k : At(o, k)
           F == [o \in b.live \cup {Nil} |->
                   IF o = Nil THEN << >> ELSE Suffix(b, S(b.parent[o]), pos(o))]
<1>1. \A l \in LimitCells : Lists(b, l, S(l))
  BY Zenon DEF Listed
<1>2. ASSUME NEW o \in b.live
      PROVE  /\ o # Nil /\ o \in OrderCells /\ b.parent[o] \in LimitCells
             /\ Lists(b, b.parent[o], S(b.parent[o])) /\ At(o, pos(o))
  <2>1. o # Nil /\ o \in OrderCells
    BY Constants DEF BookType
  <2>2. b.parent[o] \in LimitCells
    BY <2>1 DEF BookType, HeapSound, OrdersLinked
  <2>3. Lists(b, b.parent[o], S(b.parent[o]))
    BY <1>1, <2>2
  <2>4. \E k : At(o, k)
    BY Zenon, <2>3 DEF Lists, OrdersAt
  <2>5. At(o, pos(o))
    <3> HIDE DEF At
    <3> QED BY <2>4, Zenon
  <2> QED BY <2>1, <2>2, <2>3, <2>5
<1> HIDE DEF S, pos
<1>3. ASSUME NEW o \in b.live
      PROVE  F[o] = <<Entry(b, o)>> \o F[b.next[o]]
  <2> DEFINE s == S(b.parent[o])
             p == pos(o)
             x == b.next[o]
  <2>1. /\ Lists(b, b.parent[o], s) /\ p \in 1..Len(s) /\ s[p] = o /\ o # Nil
        /\ o \in OrderCells
    BY <1>2
  <2>2. /\ s \in Seq(OrderCells) /\ Len(s) \in Nat
        /\ x = IF p = Len(s) THEN Nil ELSE s[p + 1]
    BY <2>1 DEF Lists
  <2>3. F[o] = Suffix(b, s, p)
    BY <2>1
  <2> HIDE DEF F, p
  <2>4. F[o] = <<Entry(b, o)>> \o Suffix(b, s, p + 1)
    <3> HIDE DEF s
    <3> QED BY <2>1, <2>2, <2>3, SuffixCons
  <2>5. F[x] = Suffix(b, s, p + 1)
    <3>1. CASE p = Len(s)
      <4>1. F[x] = << >>
        BY <2>2, <3>1 DEF F
      <4>2. Len(s) - (p + 1) + 1 = 0
        BY <2>2, <3>1
      <4>3. Suffix(b, s, p + 1) = << >>
        BY <4>2 DEF Suffix
      <4> QED BY <4>1, <4>3
    <3>2. CASE p # Len(s)
      <4>1. p + 1 \in 1..Len(s) /\ x = s[p + 1]
        <5> HIDE DEF s
        <5> QED BY <2>1, <2>2, <3>2
      <4>2. x \in b.live /\ b.parent[x] = b.parent[o]
        BY <2>1, <4>1 DEF Lists, OrdersAt
      <4>3. /\ x # Nil /\ S(b.parent[x]) = s /\ pos(x) \in 1..Len(s) /\ s[pos(x)] = x
        BY <1>2, <4>2
      <4>4. pos(x) = p + 1
        <5> DEFINE q == pos(x)
        <5> HIDE DEF s, q, x
        <5>1. q \in 1..Len(s) /\ s[q] = s[p + 1] /\ p + 1 \in 1..Len(s)
          BY <4>1, <4>3 DEF q
        <5>2. \A j, k \in 1..Len(s) : s[j] = s[k] => j = k
          BY Zenon, <2>1 DEF Lists
        <5> QED BY Zenon, <5>1, <5>2 DEF q
      <4>5. F[x] = Suffix(b, S(b.parent[x]), pos(x))
        BY <4>2, <4>3 DEF F
      <4> QED BY <4>3, <4>4, <4>5
    <3> QED BY <3>1, <3>2
  <2> QED BY <2>4, <2>5
<1>4. F = [o \in b.live \cup {Nil} |->
             IF o = Nil THEN << >> ELSE <<Entry(b, o)>> \o F[b.next[o]]]
  <2>1. F[Nil] = << >>
    OBVIOUS
  <2>2. F = [o \in b.live \cup {Nil} |-> F[o]]
    OBVIOUS
  <2>3. \A o \in b.live \cup {Nil} :
          F[o] = IF o = Nil THEN << >> ELSE <<Entry(b, o)>> \o F[b.next[o]]
    <3> HIDE DEF F
    <3> QED BY <1>3, <2>1
  <2> HIDE DEF F
  <2> QED BY <2>2, <2>3
<1> HIDE DEF F
<1> QED BY <1>4

\* Walking next_ from head_ yields the entries of the listed cells, in order.
LEMMA LevelQueueIs ==
  ASSUME NEW b, BookType(b), HeapSound(b), Listed(b),
         NEW l \in LimitCells, NEW s, Lists(b, l, s)
  PROVE  LevelQueue(b, l) = [k \in 1..Len(s) |-> Entry(b, s[k])]
<1> DEFINE G(F) == F = [o \in b.live \cup {Nil} |->
                        IF o = Nil THEN << >> ELSE <<Entry(b, o)>> \o F[b.next[o]]]
           from == CHOOSE F : G(F)
<1>1. G(from)
  <2>1. \E F : G(F)
    BY ListsAreFollowed
  <2> HIDE DEF G
  <2> QED BY <2>1, Zenon
<1>2. LevelQueue(b, l) = from[b.head[l]]
  BY DEF LevelQueue, Entry
<1> HIDE DEF from
<1>3. \A o \in b.live \cup {Nil} :
        from[o] = IF o = Nil THEN << >> ELSE <<Entry(b, o)>> \o from[b.next[o]]
  BY <1>1
<1>4. s \in Seq(OrderCells) /\ Len(s) \in Nat /\ b.head[l] = IF Len(s) = 0 THEN Nil ELSE s[1]
  BY DEF Lists
<1>5. CASE Len(s) = 0
  <2>1. from[b.head[l]] = << >>
    BY <1>3, <1>4, <1>5
  <2> QED BY <1>2, <1>5, <2>1
<1>6. CASE Len(s) # 0
  <2>1. 1 \in 1..Len(s)
    BY <1>4, <1>6
  <2>2. from[s[1]] = Suffix(b, s, 1)
    BY <1>3, <2>1, FollowsList
  <2>3. Suffix(b, s, 1) = [k \in 1..Len(s) |-> Entry(b, s[k])]
    <3>1. Len(s) - 1 + 1 = Len(s) /\ \A j \in 1..Len(s) : 1 + j - 1 = j
      BY <1>4
    <3> QED BY <3>1 DEF Suffix
  <2> QED BY <1>2, <1>4, <1>6, <2>2, <2>3
<1> QED BY <1>5, <1>6

\* Where the orders of a sequence go when the one in place k is taken out.
LEMMA RemoveAtIs ==
  ASSUME NEW S, NEW s \in Seq(S), NEW k \in 1..Len(s)
  PROVE  /\ RemoveAt(s, k) \in Seq(S) /\ Len(RemoveAt(s, k)) = Len(s) - 1
         /\ \A j \in 1..(Len(s) - 1) : RemoveAt(s, k)[j] = IF j < k THEN s[j] ELSE s[j + 1]
<1> DEFINE u == SubSeq(s, 1, k - 1)
           v == SubSeq(s, k + 1, Len(s))
<1>1. Len(s) \in Nat /\ k \in Nat /\ 1 <= k /\ k <= Len(s)
  OBVIOUS
<1>2. /\ u \in Seq(S) /\ Len(u) = k - 1 /\ \A j \in 1..(k - 1) : u[j] = s[j]
  BY <1>1
<1>3. /\ v \in Seq(S) /\ Len(v) = Len(s) - k /\ \A j \in 1..(Len(s) - k) : v[j] = s[k + j]
  BY <1>1
<1> HIDE DEF u, v
<1>4. /\ u \o v \in Seq(S) /\ Len(u \o v) = Len(s) - 1
      /\ \A j \in 1..(Len(s) - 1) : (u \o v)[j] = IF j <= k - 1 THEN u[j] ELSE v[j - (k - 1)]
  <2>1. /\ u \o v \in Seq(S) /\ Len(u \o v) = Len(u) + Len(v)
        /\ \A j \in 1..(Len(u) + Len(v)) :
             (u \o v)[j] = IF j <= Len(u) THEN u[j] ELSE v[j - Len(u)]
    BY Zenon, <1>2, <1>3, ConcatProperties
  <2>2. Len(u) = k - 1 /\ Len(u) + Len(v) = Len(s) - 1
    BY <1>1, <1>2, <1>3
  <2> QED BY Zenon, <2>1, <2>2
<1>5. ASSUME NEW j \in 1..(Len(s) - 1)
      PROVE  (u \o v)[j] = IF j < k THEN s[j] ELSE s[j + 1]
  <2>1. CASE j < k
    <3>1. j \in 1..(k - 1) /\ j <= k - 1
      BY <1>1, <2>1
    <3> QED BY <1>2, <1>4, <2>1, <3>1
  <2>2. CASE ~(j < k)
    <3>1. j - (k - 1) \in 1..(Len(s) - k) /\ ~(j <= k - 1) /\ k + (j - (k - 1)) = j + 1
      BY <1>1, <2>2
    <3> QED BY <1>3, <1>4, <2>2, <3>1
  <2> QED BY <2>1, <2>2
<1> QED BY <1>4, <1>5 DEF RemoveAt, u, v

\* What adding order o behind the last order t of level l does to the links.
AddLinks(b, f, l, o, t) ==
  /\ o \in OrderCells /\ o \notin b.live /\ l \in LimitCells
  /\ f.next = [x \in OrderCells |-> IF x = o THEN Nil ELSE IF x = t THEN o ELSE b.next[x]]
  /\ f.parent = [b.parent EXCEPT ![o] = l]
  /\ f.live = b.live \cup {o}
  /\ f.head = [b.head EXCEPT ![l] = IF t # Nil THEN b.head[l] ELSE o]
  /\ t = Nil => b.head[l] = Nil
  /\ t # Nil => t \in b.live /\ b.parent[t] = l /\ b.next[t] = Nil

\* What every list says of its cells.
LEMMA ListFacts ==
  ASSUME NEW b, BookType(b), NEW l, NEW s, Lists(b, l, s)
  PROVE  /\ s \in Seq(OrderCells) /\ Len(s) \in Nat
         /\ \A k \in 1..Len(s) : /\ s[k] \in OrderCells /\ s[k] # Nil
                                 /\ s[k] \in b.live /\ b.parent[s[k]] = l
                                 /\ b.next[s[k]] = IF k = Len(s) THEN Nil ELSE s[k + 1]
         /\ \A j, k \in 1..Len(s) : s[j] = s[k] => j = k
         /\ \A x \in b.live : b.parent[x] = l => \E k \in 1..Len(s) : s[k] = x
         /\ b.head[l] = IF Len(s) = 0 THEN Nil ELSE s[1]
BY Constants DEF Lists, OrdersAt

\* An order added to level l is appended to its list; other lists stay.
LEMMA AddLists ==
  ASSUME NEW b, BookType(b), NEW f, NEW l, NEW o, NEW t, AddLinks(b, f, l, o, t),
         NEW k \in LimitCells, NEW s, Lists(b, k, s)
  PROVE  Lists(f, k, IF k = l THEN Append(s, o) ELSE s)
<1>1. /\ s \in Seq(OrderCells) /\ Len(s) \in Nat
      /\ \A j \in 1..Len(s) : /\ s[j] \in OrderCells /\ s[j] # Nil
                              /\ s[j] \in b.live /\ b.parent[s[j]] = k
                              /\ b.next[s[j]] = IF j = Len(s) THEN Nil ELSE s[j + 1]
      /\ \A j, m \in 1..Len(s) : s[j] = s[m] => j = m
      /\ \A x \in b.live : b.parent[x] = k => \E j \in 1..Len(s) : s[j] = x
      /\ b.head[k] = IF Len(s) = 0 THEN Nil ELSE s[1]
  BY ListFacts
<1>2. /\ o \in OrderCells /\ o \notin b.live /\ l \in LimitCells /\ o # Nil
      /\ b.live \subseteq OrderCells
      /\ b.parent \in [OrderCells -> LimitCells \cup {Nil}]
      /\ b.head \in [LimitCells -> OrderCells \cup {Nil}]
  BY Constants DEF AddLinks, BookType
<1>3. /\ f.live = b.live \cup {o} /\ f.parent[o] = l
      /\ \A x \in b.live : f.parent[x] = b.parent[x]
      /\ f.next[o] = Nil
      /\ \A x \in b.live : f.next[x] = IF x = t THEN o ELSE b.next[x]
      /\ f.head[l] = IF t # Nil THEN b.head[l] ELSE o
      /\ k # l => f.head[k] = b.head[k]
  BY <1>2 DEF AddLinks
<1>4. CASE k # l
  <2>1. \A j \in 1..Len(s) : s[j] # t
    BY <1>1, <1>4 DEF AddLinks
  <2>2. \A j \in 1..Len(s) : /\ s[j] \in OrdersAt(f, k)
                             /\ f.next[s[j]] = IF j = Len(s) THEN Nil ELSE s[j + 1]
    BY <1>1, <1>3, <2>1 DEF OrdersAt
  <2>3. \A x \in OrdersAt(f, k) : x \in b.live /\ b.parent[x] = k
    BY <1>3, <1>4 DEF OrdersAt
  <2>4. \A x \in OrdersAt(f, k) : \E j \in 1..Len(s) : s[j] = x
    BY <1>1, <2>3
  <2> QED BY <1>1, <1>3, <1>4, <2>2, <2>4 DEF Lists
<1>5. CASE k = l
  <2> DEFINE r == Append(s, o)
             n == Len(s)
  <2>1. /\ r \in Seq(OrderCells) /\ Len(r) = n + 1 /\ n \in Nat
        /\ r[n + 1] = o /\ \A j \in 1..n : r[j] = s[j]
    BY <1>1, <1>2
  <2> HIDE DEF r, n
  <2>2. n = 0 => t = Nil
    BY <1>1, <1>5 DEF AddLinks, n
  <2>3. n # 0 => t = s[n] /\ t # Nil
    <3> SUFFICES ASSUME n # 0 PROVE t = s[n] /\ t # Nil
      OBVIOUS
    <3>1. b.head[l] # Nil
      BY <1>1, <1>5, <2>1 DEF n
    <3>2. t # Nil /\ t \in b.live /\ b.parent[t] = l /\ b.next[t] = Nil
      BY <3>1 DEF AddLinks
    <3>3. PICK j \in 1..n : s[j] = t
      BY <1>1, <1>5, <3>2 DEF n
    <3>4. j = n
      <4>1. j # n => j + 1 \in 1..n /\ b.next[s[j]] = s[j + 1]
        BY <1>1, <2>1 DEF n
      <4>2. j # n => s[j + 1] # Nil
        BY <1>1, <4>1 DEF n
      <4> QED BY <3>2, <3>3, <4>1, <4>2
    <3> QED BY <3>2, <3>3, <3>4
  <2>4. \A j \in 1..n : s[j] = t <=> j = n
    <3>1. n # 0 => n \in 1..n
      BY <2>1
    <3>2. \A j \in 1..n : n # 0
      BY <2>1
    <3> QED BY <1>1, <2>3, <3>1, <3>2 DEF n
  <2>5. \A j \in 1..(n + 1) : /\ r[j] \in OrdersAt(f, l)
                              /\ f.next[r[j]] = IF j = n + 1 THEN Nil ELSE r[j + 1]
    <3> SUFFICES ASSUME NEW j \in 1..(n + 1)
                 PROVE  /\ r[j] \in OrdersAt(f, l)
                        /\ f.next[r[j]] = IF j = n + 1 THEN Nil ELSE r[j + 1]
      OBVIOUS
    <3>1. CASE j = n + 1
      BY <1>3, <2>1, <3>1 DEF OrdersAt
    <3>2. CASE j # n + 1
      <4>1. j \in 1..n
        BY <2>1, <3>2
      <4>2. r[j] = s[j] /\ s[j] \in b.live /\ b.parent[s[j]] = l
        BY <1>1, <1>5, <2>1, <4>1 DEF n
      <4>3. r[j] \in OrdersAt(f, l)
        BY <1>3, <4>2 DEF OrdersAt
      <4>4. f.next[s[j]] = IF j = n THEN o ELSE s[j + 1]
        BY <1>1, <1>3, <2>4, <4>1, <4>2 DEF n
      <4>5. j # n => j + 1 \in 1..n
        BY <2>1, <4>1
      <4> QED BY <2>1, <3>2, <4>2, <4>3, <4>4, <4>5
    <3> QED BY <3>1, <3>2
  <2>6. \A j, m \in 1..(n + 1) : r[j] = r[m] => j = m
    <3>1. \A j \in 1..(n + 1) : j = n + 1 \/ j \in 1..n
      BY <2>1
    <3>2. \A j \in 1..n : r[j] # o
      BY <1>1, <1>2, <2>1 DEF n
    <3>3. \A j, m \in 1..n : r[j] = r[m] => j = m
      BY <1>1, <2>1 DEF n
    <3> QED BY <2>1, <3>1, <3>2, <3>3
  <2>7. \A x \in OrdersAt(f, l) : \E j \in 1..(n + 1) : r[j] = x
    <3> SUFFICES ASSUME NEW x \in OrdersAt(f, l) PROVE \E j \in 1..(n + 1) : r[j] = x
      OBVIOUS
    <3>1. CASE x = o
      BY <2>1, <3>1
    <3>2. CASE x # o
      <4>1. PICK j \in 1..n : s[j] = x
        BY <1>1, <1>3, <1>5, <3>2 DEF OrdersAt, n
      <4> QED BY <2>1, <4>1
    <3> QED BY <3>1, <3>2
  <2>8. f.head[l] = r[1]
    BY <1>1, <1>3, <1>5, <2>1, <2>2, <2>3 DEF n
  <2>9. Lists(f, l, r)
    BY <2>1, <2>5, <2>6, <2>7, <2>8 DEF Lists
  <2> QED BY <1>5, <2>9 DEF r
<1> QED BY <1>4, <1>5

\* What taking order o, with neighbours p and n, out of level l does to them.
CancelLinks(b, c, l, o, p, n) ==
  /\ o \in b.live /\ b.parent[o] = l /\ l \in LimitCells /\ n = b.next[o]
  /\ IF p = Nil THEN b.head[l] = o
     ELSE p \in b.live /\ b.parent[p] = l /\ b.next[p] = o
  /\ \A x \in OrderCells \ {o} : c.next[x] = IF x = p THEN n ELSE b.next[x]
  /\ c.parent = b.parent
  /\ c.live = b.live \ {o}
  /\ c.head = [b.head EXCEPT ![l] = IF p # Nil THEN b.head[l] ELSE n]

\* A cancelled order leaves the list of its level, the others keep their order.
LEMMA CancelLists ==
  ASSUME NEW b, BookType(b), NEW c, NEW l, NEW o, NEW p, NEW n,
         CancelLinks(b, c, l, o, p, n), NEW s, Lists(b, l, s)
  PROVE  \E k \in 1..Len(s) : s[k] = o /\ Lists(c, l, RemoveAt(s, k))
<1>1. /\ s \in Seq(OrderCells) /\ Len(s) \in Nat
      /\ \A j \in 1..Len(s) : /\ s[j] \in OrderCells /\ s[j] # Nil
                              /\ s[j] \in b.live /\ b.parent[s[j]] = l
                              /\ b.next[s[j]] = IF j = Len(s) THEN Nil ELSE s[j + 1]
      /\ \A j, m \in 1..Len(s) : s[j] = s[m] => j = m
      /\ \A x \in b.live : b.parent[x] = l => \E j \in 1..Len(s) : s[j] = x
      /\ b.head[l] = IF Len(s) = 0 THEN Nil ELSE s[1]
  BY ListFacts
<1>2. PICK k \in 1..Len(s) : s[k] = o
  BY <1>1 DEF CancelLinks
<1> DEFINE r == RemoveAt(s, k)
           N == Len(s)
<1>3. /\ r \in Seq(OrderCells) /\ Len(r) = N - 1 /\ N \in Nat /\ k \in 1..N
      /\ \A j \in 1..(N - 1) : r[j] = IF j < k THEN s[j] ELSE s[j + 1]
  BY <1>1, RemoveAtIs
<1> HIDE DEF r, N
<1>4. /\ c.live = b.live \ {o} /\ c.parent = b.parent /\ l \in LimitCells
      /\ \A x \in OrderCells : x # o => c.next[x] = IF x = p THEN n ELSE b.next[x]
      /\ c.head[l] = IF p # Nil THEN b.head[l] ELSE n
      /\ n = IF k = N THEN Nil ELSE s[k + 1]
  <2>1. c.head[l] = IF p # Nil THEN b.head[l] ELSE n
    BY DEF CancelLinks, BookType
  <2> QED BY <1>1, <1>2, <2>1 DEF CancelLinks, N
<1>5. p = IF k = 1 THEN Nil ELSE s[k - 1]
  <2>1. CASE p = Nil
    <3>1. s[1] = o /\ 1 \in 1..N
      BY <1>1, <1>2, <1>3, <2>1 DEF CancelLinks, N
    <3> QED BY <1>1, <1>2, <2>1, <3>1 DEF N
  <2>2. CASE p # Nil
    <3>1. PICK j \in 1..N : s[j] = p
      BY <1>1, <2>2 DEF CancelLinks, N
    <3>2. b.next[s[j]] = o /\ o # Nil
      BY <1>1, <1>2, <2>2, <3>1 DEF CancelLinks
    <3>3. j # N /\ s[j + 1] = o
      BY <1>1, <3>2 DEF N
    <3>4. j + 1 \in 1..N
      BY <1>3, <3>3
    <3>5. j + 1 = k
      BY <1>1, <1>2, <3>3, <3>4 DEF N
    <3>6. k # 1 /\ k - 1 = j
      BY <3>5
    <3> QED BY <3>1, <3>6
  <2> QED BY <2>1, <2>2
<1>6. ASSUME NEW j \in 1..N, j # k
      PROVE  /\ s[j] \in OrdersAt(c, l)
             /\ c.next[s[j]] = IF j = N THEN Nil
                               ELSE IF j # k - 1 THEN s[j + 1]
                               ELSE IF k = N THEN Nil ELSE s[k + 1]
  <2>1. s[j] # o
    BY <1>1, <1>2, <1>6 DEF N
  <2>2. s[j] = p <=> j = k - 1
    <3>1. CASE k = 1
      <4>1. j # k - 1
        BY <1>3, <3>1
      <4> QED BY <1>1, <1>5, <3>1, <4>1 DEF N
    <3>2. CASE k # 1
      <4>1. k - 1 \in 1..N
        BY <1>3, <3>2
      <4> QED BY <1>1, <1>5, <3>2, <4>1 DEF N
    <3> QED BY <3>1, <3>2
  <2>3. s[j] \in OrdersAt(c, l)
    BY <1>1, <1>4, <2>1 DEF OrdersAt, N
  <2>4. c.next[s[j]] = IF j = k - 1 THEN n ELSE b.next[s[j]]
    BY <1>1, <1>4, <2>1, <2>2 DEF N
  <2>5. j = k - 1 => j # N
    BY <1>3
  <2> QED BY <1>1, <1>4, <2>3, <2>4, <2>5 DEF N
<1>7. \A j \in 1..(N - 1) : /\ r[j] \in OrdersAt(c, l)
                            /\ c.next[r[j]] = IF j = N - 1 THEN Nil ELSE r[j + 1]
  <2> SUFFICES ASSUME NEW j \in 1..(N - 1)
               PROVE  /\ r[j] \in OrdersAt(c, l)
                      /\ c.next[r[j]] = IF j = N - 1 THEN Nil ELSE r[j + 1]
    OBVIOUS
  <2>1. CASE j < k
    <3>1. /\ j \in 1..N /\ j # k /\ r[j] = s[j] /\ j # N
      BY <1>3, <2>1
    <3>2. CASE j = k - 1
      <4>1. c.next[r[j]] = IF k = N THEN Nil ELSE s[k + 1]
        BY <1>6, <3>1, <3>2
      <4>2. j = N - 1 <=> k = N
        BY <1>3, <3>2
      <4>3. k # N => r[k] = s[k + 1]
        BY <1>3
      <4>4. j + 1 = k
        BY <3>2
      <4> QED BY <1>6, <3>1, <4>1, <4>2, <4>3, <4>4
    <3>3. CASE j # k - 1
      <4>1. c.next[r[j]] = s[j + 1]
        BY <1>6, <3>1, <3>3
      <4>2. j + 1 < k /\ j + 1 \in 1..(N - 1) /\ j # N - 1
        BY <1>3, <2>1, <3>3
      <4> QED BY <1>3, <1>6, <3>1, <4>1, <4>2
    <3> QED BY <3>2, <3>3
  <2>2. CASE ~(j < k)
    <3>1. /\ j + 1 \in 1..N /\ j + 1 # k /\ r[j] = s[j + 1] /\ j + 1 # k - 1
          /\ j + 1 = N <=> j = N - 1
      BY <1>3, <2>2
    <3>2. c.next[r[j]] = IF j = N - 1 THEN Nil ELSE s[(j + 1) + 1]
      BY <1>6, <3>1
    <3>3. j # N - 1 => j + 1 \in 1..(N - 1) /\ ~(j + 1 < k)
      BY <1>3, <2>2
    <3>4. j # N - 1 => r[j + 1] = s[(j + 1) + 1]
      BY <1>3, <3>3
    <3> QED BY <1>6, <3>1, <3>2, <3>4
  <2> QED BY <2>1, <2>2
<1>8. \A j, m \in 1..(N - 1) : r[j] = r[m] => j = m
  <2> DEFINE at(j) == IF j < k THEN j ELSE j + 1
  <2>1. \A j \in 1..(N - 1) : at(j) \in 1..N /\ r[j] = s[at(j)]
    BY <1>3
  <2>2. \A j, m \in 1..(N - 1) : at(j) = at(m) => j = m
    BY <1>3
  <2> HIDE DEF at
  <2> SUFFICES ASSUME NEW j \in 1..(N - 1), NEW m \in 1..(N - 1), r[j] = r[m] PROVE j = m
    OBVIOUS
  <2>3. at(j) \in 1..N /\ at(m) \in 1..N /\ s[at(j)] = s[at(m)]
    BY Zenon, <2>1
  <2>4. at(j) = at(m)
    BY Zenon, <1>1, <2>3 DEF N
  <2> QED BY Zenon, <2>2, <2>4
<1>9. \A x \in OrdersAt(c, l) : \E j \in 1..(N - 1) : r[j] = x
  <2> SUFFICES ASSUME NEW x \in OrdersAt(c, l) PROVE \E j \in 1..(N - 1) : r[j] = x
    OBVIOUS
  <2>1. PICK m \in 1..N : s[m] = x
    BY <1>1, <1>4 DEF OrdersAt, N
  <2>2. m # k
    BY <1>2, <1>4, <2>1 DEF OrdersAt
  <2>3. CASE m < k
    <3>1. m \in 1..(N - 1)
      BY <1>3, <2>3
    <3> QED BY <1>3, <2>1, <2>3, <3>1
  <2>4. CASE ~(m < k)
    <3>1. m - 1 \in 1..(N - 1) /\ ~(m - 1 < k) /\ (m - 1) + 1 = m
      BY <1>3, <2>2, <2>4
    <3> QED BY <1>3, <2>1, <3>1
  <2> QED BY <2>3, <2>4
<1>10. c.head[l] = IF N - 1 = 0 THEN Nil ELSE r[1]
  <2>1. CASE k = 1
    <3>1. c.head[l] = IF N = 1 THEN Nil ELSE s[2]
      BY <1>4, <1>5, <2>1
    <3>2. N # 1 => r[1] = s[2]
      BY <1>3, <2>1
    <3>3. N = 1 <=> N - 1 = 0
      BY <1>3
    <3> QED BY <3>1, <3>2, <3>3
  <2>2. CASE k # 1
    <3>1. N # 0 /\ N - 1 # 0 /\ r[1] = s[1] /\ k - 1 \in 1..N
      BY <1>3, <2>2
    <3>2. p # Nil
      BY <1>1, <1>5, <2>2, <3>1 DEF N
    <3> QED BY <1>1, <1>4, <3>1, <3>2 DEF N
  <2> QED BY <2>1, <2>2
<1>11. Lists(c, l, r)
  BY <1>3, <1>7, <1>8, <1>9, <1>10 DEF Lists
<1> QED BY <1>2, <1>11 DEF r

\* The other levels keep their orders.
LEMMA CancelListsOther ==
  ASSUME NEW b, BookType(b), NEW c, NEW l, NEW o, NEW p, NEW n,
         CancelLinks(b, c, l, o, p, n),
         NEW k \in LimitCells, k # l, NEW s, Lists(b, k, s)
  PROVE  Lists(c, k, s)
<1>1. /\ s \in Seq(OrderCells) /\ Len(s) \in Nat
      /\ \A j \in 1..Len(s) : /\ s[j] \in OrderCells /\ s[j] # Nil
                              /\ s[j] \in b.live /\ b.parent[s[j]] = k
                              /\ b.next[s[j]] = IF j = Len(s) THEN Nil ELSE s[j + 1]
      /\ \A j, m \in 1..Len(s) : s[j] = s[m] => j = m
      /\ \A x \in b.live : b.parent[x] = k => \E j \in 1..Len(s) : s[j] = x
      /\ b.head[k] = IF Len(s) = 0 THEN Nil ELSE s[1]
  BY ListFacts
<1>2. c.head[k] = b.head[k]
  BY DEF CancelLinks, BookType
<1>3. \A j \in 1..Len(s) : s[j] # o /\ s[j] # p
  BY <1>1 DEF CancelLinks
<1>4. \A j \in 1..Len(s) : /\ s[j] \in OrdersAt(c, k)
                           /\ c.next[s[j]] = IF j = Len(s) THEN Nil ELSE s[j + 1]
  BY <1>1, <1>3 DEF CancelLinks, OrdersAt
<1>5. \A x \in OrdersAt(c, k) : \E j \in 1..Len(s) : s[j] = x
  BY <1>1 DEF CancelLinks, OrdersAt
<1> QED BY <1>1, <1>2, <1>4, <1>5 DEF Lists

-----------------------------------------------------------------------------
(* What each method does to the lists of the levels. *)

\* What add_order does to the queues of the book: order o is appended to level
\* l, which has the slot of the side and price; no other slot changes.
Appends(b, f, side, id, px, sz, l, o, t) ==
  /\ AddLinks(b, f, l, o, t)
  /\ f.id = [b.id EXCEPT ![o] = id] /\ f.size = [b.size EXCEPT ![o] = sz]
  /\ f.lookup = [b.lookup EXCEPT ![id] = o]
  /\ f.slots[side][SlotIdx(side, px)] = l
  /\ b.slots[side][SlotIdx(side, px)] \in {l, Nil}
  /\ b.slots[side][SlotIdx(side, px)] = Nil => b.head[l] = Nil
  /\ \A s \in BOOLEAN, j \in Slots :
       s # side \/ j # SlotIdx(side, px) => f.slots[s][j] = b.slots[s][j]
  /\ \A k \in LimitCells :
       f.volume[k] = IF k # l THEN b.volume[k]
                     ELSE IF b.slots[side][SlotIdx(side, px)] = Nil THEN sz
                     ELSE b.volume[l] + sz

\* add_order appends one order to one level, for either way of getting a level
\* and a cell from the pools.
LEMMA AddAppends ==
  ASSUME NEW b, BookType(b), HeapSound(b), Ranked(b), BestIsFirst(b),
         NEW side \in BOOLEAN, NEW id \in Ids, NEW px \in MIN..MAX, NEW sz \in Nat,
         HasMemory(b, side, px),
         NEW f, f = add_order(b, side, id, px, sz)
  PROVE  \E l \in LimitCells, o \in OrderCells, t \in OrderCells \cup {Nil} :
           Appends(b, f, side, id, px, sz, l, o, t)
<1> DEFINE c == get_or_insert_limit(b, side, px)
           i == SlotIdx(side, px)
           l == c.slots[side][i]
           o == AcquiredOrder(c)
           t == c.tail[l]
<1>1. GetLimitEffect(b, c, side, px, i, l)
  BY GetLimitFields
<1>2. AddEffect(c, f, side, id, px, sz, i, l, o, t)
  BY AddFields
<1>3. i = SlotIdx(side, px) /\ o = AcquiredOrder(c) /\ t = c.tail[l]
  OBVIOUS
<1> HIDE DEF c, i, l, o, t
<1>4. i \in Slots /\ l \in LimitCells /\ o \in OrderCells
  BY <1>1, <1>2 DEF GetLimitEffect, AddEffect
<1>5. /\ o \notin b.live
      /\ b.slots[side][i] = Nil =>
           /\ l \notin UsedLimits(b) /\ t = Nil /\ b.head[l] = Nil
      /\ b.slots[side][i] # Nil =>
           /\ l = b.slots[side][i] /\ t = b.tail[l]
           /\ t \in b.live /\ b.parent[t] = l /\ b.next[t] = Nil
  BY <1>1, <1>3, AddCells
<1>6. /\ c.live = b.live /\ c.id = b.id /\ c.size = b.size /\ c.parent = b.parent
      /\ c.lookup = b.lookup /\ c.next = b.next /\ c.head = b.head
  BY <1>1 DEF GetLimitEffect
<1>7. /\ f.id = [b.id EXCEPT ![o] = id] /\ f.size = [b.size EXCEPT ![o] = sz]
      /\ f.lookup = [b.lookup EXCEPT ![id] = o] /\ f.live = b.live \cup {o}
      /\ f.parent = [b.parent EXCEPT ![o] = l]
      /\ f.head = [b.head EXCEPT ![l] = IF t # Nil THEN b.head[l] ELSE o]
      /\ f.next = [x \in OrderCells |-> IF x = o THEN Nil ELSE IF x = t THEN o ELSE b.next[x]]
      /\ f.slots = c.slots
      /\ f.volume = [c.volume EXCEPT ![l] = c.volume[l] + sz]
  BY Zenon, <1>2, <1>6 DEF AddEffect
<1>8. AddLinks(b, f, l, o, t)
  <2>1. t = Nil => b.head[l] = Nil
    BY <1>5, Constants DEF BookType
  <2>2. t # Nil => t \in b.live /\ b.parent[t] = l /\ b.next[t] = Nil
    BY <1>5
  <2> QED BY Zenon, <1>4, <1>5, <1>7, <2>1, <2>2 DEF AddLinks
<1>9. t \in OrderCells \cup {Nil}
  BY <1>8 DEF AddLinks, BookType
<1>10. /\ f.slots[side][i] = l /\ b.slots[side][i] \in {l, Nil}
       /\ \A s \in BOOLEAN, j \in Slots : s # side \/ j # i => f.slots[s][j] = b.slots[s][j]
  <2>1. f.slots[side][i] = l
    BY <1>1, <1>7 DEF GetLimitEffect
  <2>2. CASE b.slots[side][i] # Nil
    BY <1>1, <1>5, <1>7, <2>1, <2>2 DEF GetLimitEffect
  <2>3. CASE b.slots[side][i] = Nil
    <3>1. f.slots = [b.slots EXCEPT ![side][i] = l]
      BY <1>1, <1>7, <2>3 DEF GetLimitEffect
    <3> QED BY <1>4, <2>1, <2>3, <3>1 DEF BookType
  <2> QED BY <2>2, <2>3
<1>11. \A k \in LimitCells :
         f.volume[k] = IF k # l THEN b.volume[k]
                       ELSE IF b.slots[side][i] = Nil THEN sz ELSE b.volume[l] + sz
  <2>1. b.volume \in [LimitCells -> Int] /\ c.volume \in [LimitCells -> Int]
    BY <1>1 DEF GetLimitEffect, BookType
  <2>2. \A k \in LimitCells : f.volume[k] = IF k # l THEN c.volume[k] ELSE c.volume[l] + sz
    BY <1>4, <1>7, <2>1
  <2>3. CASE b.slots[side][i] # Nil
    <3>1. c = b
      BY <1>1, <2>3 DEF GetLimitEffect
    <3> QED BY <2>2, <2>3, <3>1
  <2>4. CASE b.slots[side][i] = Nil
    <3>1. c.volume = [b.volume EXCEPT ![l] = 0]
      BY <1>1, <2>4 DEF GetLimitEffect
    <3>2. \A k \in LimitCells : c.volume[k] = IF k # l THEN b.volume[k] ELSE 0
      BY <1>4, <2>1, <3>1
    <3> QED BY <1>4, <2>2, <2>4, <3>2
  <2> QED BY <2>3, <2>4
<1>12. Appends(b, f, side, id, px, sz, l, o, t)
  BY Zenon, <1>5, <1>7, <1>8, <1>10, <1>11 DEF Appends, i
<1> QED BY <1>4, <1>9, <1>12

\* What cancel_order does to them: order o leaves level l, and the level leaves
\* its slot when it was the last.
Removes(b, c, side, id, px, l, o, p, n) ==
  /\ CancelLinks(b, c, l, o, p, n)
  /\ o = b.lookup[id] /\ b.id[o] = id /\ px = b.price[o] /\ px \in MIN..MAX
  /\ c.id = b.id /\ c.size = b.size /\ c.lookup = [b.lookup EXCEPT ![id] = Nil]
  /\ b.slots[side][SlotIdx(side, px)] = l
  /\ c.slots[side][SlotIdx(side, px)] = IF c.head[l] = Nil THEN Nil ELSE l
  /\ \A s \in BOOLEAN, j \in Slots :
       s # side \/ j # SlotIdx(side, px) => c.slots[s][j] = b.slots[s][j]
  /\ c.volume = [b.volume EXCEPT ![l] = b.volume[l] - b.size[o]]

\* A cancelled or changed order and its level.
LEMMA RestingAt ==
  ASSUME NEW b, BookType(b), HeapSound(b), NEW side \in BOOLEAN, NEW id \in Ids,
         RestsOn(b, side, id), NEW o, o = b.lookup[id], NEW l, l = b.parent[o]
  PROVE  /\ o \in OrderCells /\ o \in b.live /\ o # Nil /\ b.id[o] = id
         /\ b.side[o] = side /\ b.price[o] \in MIN..MAX /\ l \in LimitCells
         /\ SlotIdx(side, b.price[o]) \in Slots
         /\ l = b.slots[side][SlotIdx(side, b.price[o])]
         /\ SlotIdx(side, b.lprice[l]) = SlotIdx(side, b.price[o])
         /\ IF b.prev[o] = Nil THEN b.head[l] = o
            ELSE b.prev[o] \in b.live /\ b.parent[b.prev[o]] = l
                                      /\ b.next[b.prev[o]] = o
<1>1. o # Nil /\ b.side[o] = side
  BY DEF RestsOn
<1>2. o \in b.live /\ o \in OrderCells /\ b.id[o] = id
  BY <1>1 DEF HeapSound, LookupSound, BookType
<1>3. b.price[o] \in MIN..MAX /\ l \in LimitCells \cup {Nil}
  BY <1>2 DEF BookType
<1>4. /\ l = b.slots[side][SlotIdx(side, b.price[o])] /\ l # Nil
      /\ IF b.prev[o] = Nil THEN b.head[l] = o
         ELSE b.prev[o] \in b.live /\ b.parent[b.prev[o]] = l
                                   /\ b.next[b.prev[o]] = o
  BY <1>1, <1>2 DEF HeapSound, OrdersLinked
<1>5. SlotIdx(side, b.price[o]) \in Slots
  BY <1>3, SlotIdxType
<1>6. SlotIdx(side, b.lprice[l]) = SlotIdx(side, b.price[o])
  <2> DEFINE i == SlotIdx(side, b.price[o])
  <2>1. i \in Slots /\ l = b.slots[side][i] /\ l # Nil
    BY Zenon, <1>4, <1>5
  <2> HIDE DEF i
  <2>2. SlotIdx(side, b.lprice[l]) = i
    BY <2>1, LevelAt
  <2> QED BY Zenon, <2>2 DEF i
<1> QED BY Zenon, <1>1, <1>2, <1>3, <1>4, <1>5, <1>6

\* cancel_order removes the order that lookup_ names, with its level when it was
\* the last one there.
LEMMA CancelRemoves ==
  ASSUME NEW b, BookType(b), HeapSound(b), NEW side \in BOOLEAN, NEW id \in Ids,
         RestsOn(b, side, id),
         NEW c, c = cancel_order(b, side, id),
         NEW o, o = b.lookup[id], NEW l, l = b.parent[o]
  PROVE  Removes(b, c, side, id, b.price[o], l, o, b.prev[o], b.next[o])
<1> DEFINE p == b.prev[o]
           n == b.next[o]
           i == SlotIdx(side, b.lprice[l])
           px == b.price[o]
<1>1. /\ o \in OrderCells /\ o \in b.live /\ o # Nil /\ b.id[o] = id
      /\ px \in MIN..MAX /\ l \in LimitCells
      /\ i \in Slots /\ l = b.slots[side][i] /\ i = SlotIdx(side, px)
      /\ IF p = Nil THEN b.head[l] = o
         ELSE p \in b.live /\ b.parent[p] = l /\ b.next[p] = o
  BY RestingAt
<1>2. i = SlotIdx(side, b.lprice[l]) /\ p = b.prev[o] /\ n = b.next[o]
  OBVIOUS
<1> HIDE DEF p, n, i
<1>3. CancelEffect(b, c, side, id, i, l, o, p, n)
  BY Zenon, <1>1, <1>2, CancelFields
<1>4. /\ c.lookup = [b.lookup EXCEPT ![id] = Nil] /\ c.id = b.id /\ c.size = b.size
      /\ c.parent = b.parent /\ c.live = b.live \ {o}
      /\ c.head = [b.head EXCEPT ![l] = IF p # Nil THEN b.head[l] ELSE n]
      /\ c.volume = [b.volume EXCEPT ![l] = b.volume[l] - b.size[o]]
      /\ c.head[l] # Nil => c.slots = b.slots
      /\ c.head[l] = Nil => c.slots = [b.slots EXCEPT ![side][i] = Nil]
  BY Zenon, <1>3 DEF CancelEffect
<1>5. \A x \in OrderCells \ {o} : c.next[x] = IF x = p THEN n ELSE b.next[x]
  BY <1>3 DEF CancelEffect
<1>6. CancelLinks(b, c, l, o, p, n)
  BY Zenon, <1>1, <1>2, <1>4, <1>5 DEF CancelLinks
<1>7. /\ c.slots[side][i] = IF c.head[l] = Nil THEN Nil ELSE l
      /\ \A s \in BOOLEAN, j \in Slots : s # side \/ j # i => c.slots[s][j] = b.slots[s][j]
  <2>1. CASE c.head[l] # Nil
    BY Zenon, <1>1, <1>4, <2>1
  <2>2. CASE c.head[l] = Nil
    <3>1. c.slots = [b.slots EXCEPT ![side][i] = Nil]
      BY <1>4, <2>2
    <3>2. b.slots \in [BOOLEAN -> [Slots -> LimitCells \cup {Nil}]]
      BY DEF BookType
    <3>3. /\ c.slots[side][i] = Nil
          /\ \A s \in BOOLEAN, j \in Slots : s # side \/ j # i => c.slots[s][j] = b.slots[s][j]
      <4>1. side \in BOOLEAN /\ i \in Slots
        BY Zenon, <1>1
      <4>2. c.slots[side] = [b.slots[side] EXCEPT ![i] = Nil]
        BY Zenon, <3>1, <3>2, <4>1
      <4>3. \A s \in BOOLEAN : s # side => c.slots[s] = b.slots[s]
        BY Zenon, <3>1, <3>2
      <4>4. b.slots[side] \in [Slots -> LimitCells \cup {Nil}]
        BY Zenon, <3>2, <4>1
      <4>5. /\ c.slots[side][i] = Nil
            /\ \A j \in Slots : j # i => c.slots[side][j] = b.slots[side][j]
        BY Zenon, <4>1, <4>2, <4>4
      <4> QED BY Zenon, <4>3, <4>5
    <3> QED BY Zenon, <2>2, <3>3
  <2> QED BY Zenon, <2>1, <2>2
<1> DEFINE at == SlotIdx(side, px)
<1>8. /\ at = i /\ b.slots[side][at] = l
      /\ c.slots[side][at] = IF c.head[l] = Nil THEN Nil ELSE l
      /\ \A s \in BOOLEAN, j \in Slots : s # side \/ j # at => c.slots[s][j] = b.slots[s][j]
  BY Zenon, <1>1, <1>7
<1> QED BY Zenon, <1>1, <1>2, <1>4, <1>6, <1>8 DEF Removes

\* What writing a smaller size does.
Shrinks(b, c, o, l, sz) ==
  /\ c.slots = b.slots /\ c.lookup = b.lookup /\ c.id = b.id /\ c.next = b.next
  /\ c.parent = b.parent /\ c.live = b.live /\ c.head = b.head
  /\ c.volume = [b.volume EXCEPT ![l] = b.volume[l] + (sz - b.size[o])]
  /\ c.size = [b.size EXCEPT ![o] = sz]

\* A modify that does not replace the order writes its size and the volume of
\* its level, and nothing else.
LEMMA ModifyShrinks ==
  ASSUME NEW b, BookType(b), NEW side, NEW id, NEW px, NEW sz,
         NEW o, o = b.lookup[id], o # Nil, ~Replaces(b, id, px, sz),
         NEW l, l = b.parent[o],
         NEW c, c = modify_order(b, side, id, px, sz)
  PROVE  Shrinks(b, c, o, l, sz)
<1>1. c = [b EXCEPT !.volume[l] = b.volume[l] + (sz - b.size[o]), !.size[o] = sz]
  BY DEF modify_order
<1>2. IsBook(b)
  BY DEF BookType
<1>3. /\ c.slots = b.slots /\ c.lookup = b.lookup /\ c.id = b.id /\ c.next = b.next
      /\ c.parent = b.parent /\ c.live = b.live /\ c.head = b.head
  BY <1>1, <1>2 DEF IsBook, Members
<1>4. /\ c.volume = [b.volume EXCEPT ![l] = b.volume[l] + (sz - b.size[o])]
      /\ c.size = [b.size EXCEPT ![o] = sz]
  BY <1>1, <1>2 DEF IsBook, Members
<1> QED BY <1>3, <1>4 DEF Shrinks

\* The cells of the orders at a side and price, oldest first.
Queued(b, side, px, s) ==
  IF b.slots[side][SlotIdx(side, px)] = Nil THEN s = << >>
  ELSE Lists(b, b.slots[side][SlotIdx(side, px)], s)

\* What the cells of a list show.
Shown(b, s) == [k \in 1..Len(s) |-> Entry(b, s[k])]

\* What is known of a book without counting its volumes and its pools.
Good(b) == /\ BookType(b) /\ HeapSound(b) /\ Ranked(b) /\ BestIsFirst(b) /\ Listed(b)

\* A list of cells shows a sequence of entries of the same length.
LEMMA ShownType ==
  ASSUME NEW b, BookType(b), NEW s \in Seq(OrderCells)
  PROVE  /\ Shown(b, s) \in Seq(Entries) /\ Len(Shown(b, s)) = Len(s)
         /\ DOMAIN Shown(b, s) = 1..Len(s)
         /\ \A k \in 1..Len(s) : Shown(b, s)[k] = Entry(b, s[k]) /\ s[k] \in OrderCells
<1>1. Len(s) \in Nat /\ \A k \in 1..Len(s) : s[k] \in OrderCells
  OBVIOUS
<1>2. \A k \in 1..Len(s) : Entry(b, s[k]) \in Entries
  BY <1>1, EntryType
<1> DEFINE h == Shown(b, s)
<1>3. h \in [1..Len(s) -> Entries] /\ \A k \in 1..Len(s) : h[k] = Entry(b, s[k])
  BY <1>2 DEF Shown
<1> HIDE DEF h
<1>4. h \in Seq(Entries) /\ Len(h) = Len(s)
  BY <1>1, <1>3, FunctionIsSequence
<1> QED BY <1>1, <1>3, <1>4 DEF h

\* Every side and price has a list of resting orders, which its queue shows.
LEMMA QueuedFacts ==
  ASSUME NEW b, Good(b), NEW side \in BOOLEAN, NEW px \in MIN..MAX
  PROVE  /\ \E s : Queued(b, side, px, s)
         /\ \A s : Queued(b, side, px, s) =>
                     /\ s \in Seq(OrderCells) /\ QueueAt(b, side, px) = Shown(b, s)
                     /\ \A k \in 1..Len(s) : s[k] \in b.live
<1> DEFINE l == b.slots[side][SlotIdx(side, px)]
<1>1. l \in LimitCells \cup {Nil}
  BY SlotIdxType DEF Good, BookType
<1>2. CASE l = Nil
  <2>1. Queued(b, side, px, << >>)
    BY <1>2 DEF Queued
  <2>2. QueueAt(b, side, px) = << >>
    BY <1>2 DEF QueueAt
  <2>3. ASSUME NEW s, Queued(b, side, px, s)
        PROVE  /\ s \in Seq(OrderCells) /\ QueueAt(b, side, px) = Shown(b, s)
               /\ \A k \in 1..Len(s) : s[k] \in b.live
    <3>1. s = << >> /\ Len(s) = 0
      BY <1>2, <2>3 DEF Queued
    <3>2. Shown(b, s) = << >>
      BY <3>1 DEF Shown
    <3> QED BY <2>2, <3>1, <3>2
  <2> QED BY <2>1, <2>3
<1>3. CASE l # Nil
  <2>1. \E s : Queued(b, side, px, s)
    BY <1>1, <1>3 DEF Good, Listed, Queued
  <2>2. ASSUME NEW s, Queued(b, side, px, s)
        PROVE  /\ s \in Seq(OrderCells) /\ QueueAt(b, side, px) = Shown(b, s)
               /\ \A k \in 1..Len(s) : s[k] \in b.live
    <3>1. Lists(b, l, s)
      BY <1>3, <2>2 DEF Queued
    <3>2. LevelQueue(b, l) = [k \in 1..Len(s) |-> Entry(b, s[k])]
      BY <1>1, <1>3, <3>1, LevelQueueIs DEF Good
    <3>3. QueueAt(b, side, px) = LevelQueue(b, l)
      BY <1>3 DEF QueueAt
    <3>4. s \in Seq(OrderCells) /\ \A k \in 1..Len(s) : s[k] \in b.live
      BY <3>1 DEF Lists, OrdersAt
    <3> QED BY <3>2, <3>3, <3>4 DEF Shown
  <2> QED BY <2>1, <2>2
<1> QED BY <1>2, <1>3

\* Two different places of the book have different slots, and levels.
LEMMA PlacesDiffer ==
  ASSUME NEW side \in BOOLEAN, NEW px \in MIN..MAX, NEW s \in BOOLEAN, NEW qx \in MIN..MAX,
         s # side \/ qx # px
  PROVE  s # side \/ SlotIdx(s, qx) # SlotIdx(side, px)
<1>1. px \in Int /\ qx \in Int
  BY Constants
<1> QED BY <1>1, SlotIdxInjective

\* Two slots never share a level.
LEMMA LevelsDiffer ==
  ASSUME NEW b, HeapSound(b), NEW s \in BOOLEAN, NEW i \in Slots, NEW r \in BOOLEAN, NEW j \in Slots,
         b.slots[s][i] = b.slots[r][j], b.slots[s][i] # Nil
  PROVE  s = r /\ i = j
BY LevelAt

\* Where the orders of every price are after an add.
LEMMA AddQueued ==
  ASSUME NEW b, Good(b), NEW f, HeapSound(f), NEW side \in BOOLEAN, NEW id, NEW px \in MIN..MAX,
         NEW sz, NEW l, NEW o, NEW t, Appends(b, f, side, id, px, sz, l, o, t),
         NEW s \in BOOLEAN, NEW qx \in MIN..MAX, NEW x, Queued(b, s, qx, x)
  PROVE  Queued(f, s, qx, IF s = side /\ qx = px THEN Append(x, o) ELSE x)
<1> DEFINE i == SlotIdx(side, px)
           j == SlotIdx(s, qx)
<1>1. i \in Slots /\ j \in Slots
  BY SlotIdxType
<1>2. /\ AddLinks(b, f, l, o, t) /\ l \in LimitCells /\ l # Nil /\ f.slots[side][i] = l
      /\ b.slots[side][i] \in {l, Nil}
      /\ b.slots[side][i] = Nil => b.head[l] = Nil
      /\ BookType(b) /\ Listed(b)
  BY Constants DEF Appends, AddLinks, Good
<1>3. CASE s = side /\ qx = px
  <2>1. Lists(b, l, x)
    <3>1. CASE b.slots[side][i] = Nil
      <4>1. PICK y : Lists(b, l, y)
        BY <1>2 DEF Listed
      <4>2. /\ y \in Seq(OrderCells) /\ Len(y) \in Nat /\ b.head[l] = Nil
            /\ \A k \in 1..Len(y) : y[k] # Nil
            /\ b.head[l] = IF Len(y) = 0 THEN Nil ELSE y[1]
        BY <1>2, <3>1, <4>1, ListFacts
      <4>3. Len(y) = 0
        BY <4>2
      <4>4. y = << >> /\ x = << >>
        BY <1>3, <3>1, <4>2, <4>3 DEF Queued
      <4> QED BY <4>1, <4>4
    <3>2. CASE b.slots[side][i] # Nil
      BY <1>2, <1>3, <3>2 DEF Queued
    <3> QED BY <3>1, <3>2
  <2>2. Lists(f, l, Append(x, o))
    BY <1>2, <2>1, AddLists
  <2> QED BY <1>2, <1>3, <2>2 DEF Queued
<1>4. CASE ~(s = side /\ qx = px)
  <2>1. s # side \/ j # i
    BY <1>4, PlacesDiffer
  <2>2. f.slots[s][j] = b.slots[s][j]
    BY <1>1, <2>1 DEF Appends
  <2>3. f.slots[s][j] # l
    BY <1>1, <1>2, <2>1, LevelsDiffer
  <2>4. CASE b.slots[s][j] = Nil
    BY <1>4, <2>2, <2>4 DEF Queued
  <2>5. CASE b.slots[s][j] # Nil
    <3>1. b.slots[s][j] \in LimitCells /\ Lists(b, b.slots[s][j], x)
      BY <1>1, <1>2, <2>5 DEF BookType, Queued
    <3>2. Lists(f, b.slots[s][j], x)
      BY <1>2, <2>2, <2>3, <3>1, AddLists
    <3> QED BY <1>4, <2>2, <2>5, <3>2 DEF Queued
  <2> QED BY <2>4, <2>5
<1> QED BY <1>3, <1>4

\* Where the orders of every price are after a cancel.
LEMMA CancelQueued ==
  ASSUME NEW b, Good(b), NEW c, BookType(c), NEW side \in BOOLEAN, NEW id, NEW px,
         NEW l, NEW o, NEW p, NEW n, Removes(b, c, side, id, px, l, o, p, n),
         NEW x, Queued(b, side, px, x)
  PROVE  /\ \E k \in 1..Len(x) : x[k] = o /\ Queued(c, side, px, RemoveAt(x, k))
         /\ \A s \in BOOLEAN, qx \in MIN..MAX : \A y :
              (s # side \/ qx # px) /\ Queued(b, s, qx, y) => Queued(c, s, qx, y)
<1> DEFINE i == SlotIdx(side, px)
<1>1. /\ px \in MIN..MAX /\ i \in Slots /\ CancelLinks(b, c, l, o, p, n) /\ l \in LimitCells
      /\ l # Nil /\ b.slots[side][i] = l /\ c.slots[side][i] = IF c.head[l] = Nil THEN Nil ELSE l
      /\ BookType(b) /\ HeapSound(b)
  BY SlotIdxType, Constants DEF Removes, CancelLinks, Good
<1>2. Lists(b, l, x)
  BY <1>1 DEF Queued
<1>3. PICK k \in 1..Len(x) : x[k] = o /\ Lists(c, l, RemoveAt(x, k))
  BY <1>1, <1>2, CancelLists
<1> DEFINE r == RemoveAt(x, k)
<1>4. Queued(c, side, px, r)
  <2>1. /\ r \in Seq(OrderCells) /\ Len(r) \in Nat
        /\ \A j \in 1..Len(r) : r[j] # Nil
        /\ c.head[l] = IF Len(r) = 0 THEN Nil ELSE r[1]
    <3> HIDE DEF r
    <3>1. Lists(c, l, r)
      BY <1>3 DEF r
    <3> QED BY <3>1, ListFacts
  <2>2. CASE c.head[l] = Nil
    <3>1. Len(r) = 0
      BY <2>1, <2>2
    <3>2. r = << >>
      <4> HIDE DEF r
      <4> QED BY <2>1, <3>1
    <3>3. c.slots[side][i] = Nil
      BY <1>1, <2>2
    <3> QED BY <3>2, <3>3 DEF Queued
  <2>3. CASE c.head[l] # Nil
    BY <1>1, <1>3, <2>3 DEF Queued
  <2> QED BY <2>2, <2>3
<1>5. ASSUME NEW s \in BOOLEAN, NEW qx \in MIN..MAX, NEW y,
             s # side \/ qx # px, Queued(b, s, qx, y)
      PROVE  Queued(c, s, qx, y)
  <2> DEFINE j == SlotIdx(s, qx)
  <2>1. j \in Slots /\ (s # side \/ j # i)
    BY <1>1, <1>5, SlotIdxType, PlacesDiffer
  <2>2. c.slots[s][j] = b.slots[s][j]
    BY <2>1 DEF Removes
  <2>3. b.slots[s][j] # l
    BY <1>1, <2>1, LevelsDiffer
  <2>4. CASE b.slots[s][j] = Nil
    BY <1>5, <2>2, <2>4 DEF Queued
  <2>5. CASE b.slots[s][j] # Nil
    <3>1. b.slots[s][j] \in LimitCells /\ Lists(b, b.slots[s][j], y)
      BY <1>1, <1>5, <2>1, <2>5 DEF BookType, Queued
    <3>2. Lists(c, b.slots[s][j], y)
      BY <1>1, <2>3, <3>1, CancelListsOther
    <3> QED BY <2>2, <2>5, <3>2 DEF Queued
  <2> QED BY <2>4, <2>5
<1> QED BY <1>3, <1>4, <1>5

\* Every level stays listed.
LEMMA AddListed ==
  ASSUME NEW b, BookType(b), Listed(b), NEW f, NEW l, NEW o, NEW t, AddLinks(b, f, l, o, t)
  PROVE  Listed(f)
<1> SUFFICES ASSUME NEW k \in LimitCells PROVE \E s : Lists(f, k, s)
  BY DEF Listed
<1>1. PICK s : Lists(b, k, s)
  BY DEF Listed
<1>2. Lists(f, k, IF k = l THEN Append(s, o) ELSE s)
  BY <1>1, AddLists
<1> QED BY <1>2

\* Lists stay lists when an order is cancelled.
LEMMA CancelListed ==
  ASSUME NEW b, BookType(b), Listed(b), NEW c, NEW l, NEW o, NEW p, NEW n,
         CancelLinks(b, c, l, o, p, n)
  PROVE  Listed(c)
<1> SUFFICES ASSUME NEW k \in LimitCells PROVE \E s : Lists(c, k, s)
  BY DEF Listed
<1>1. PICK s : Lists(b, k, s)
  BY DEF Listed
<1>2. CASE k = l
  BY <1>1, <1>2, CancelLists
<1>3. CASE k # l
  BY <1>1, <1>3, CancelListsOther
<1> QED BY <1>2, <1>3

\* Lists stay as they are when an order shrinks in place.
LEMMA ShrinkListed ==
  ASSUME NEW b, NEW c, NEW o, NEW l, NEW sz, Shrinks(b, c, o, l, sz)
  PROVE  /\ \A k, s : Lists(b, k, s) => Lists(c, k, s)
         /\ Listed(b) => Listed(c)
         /\ \A s, px, x : Queued(b, s, px, x) => Queued(c, s, px, x)
<1>1. \A k : OrdersAt(c, k) = OrdersAt(b, k)
  BY DEF Shrinks, OrdersAt
<1>2. \A k, s : Lists(b, k, s) => Lists(c, k, s)
  BY <1>1 DEF Shrinks, Lists
<1> QED BY <1>2 DEF Shrinks, Listed, Queued

-----------------------------------------------------------------------------
(* The queues that a reader sees, and the steps of PriceTimeBook. *)

\* The queues of the book, at each side and price.
Queues(b) == [s \in BOOLEAN |-> [px \in MIN..MAX |-> QueueAt(b, s, px)]]

\* The queue of a side and price shows the cells listed there.
LEMMA QueuesAt ==
  ASSUME NEW b, Good(b), NEW s \in BOOLEAN, NEW px \in MIN..MAX
  PROVE  /\ Queues(b)[s][px] = QueueAt(b, s, px)
         /\ \E x \in Seq(OrderCells) :
              /\ Queued(b, s, px, x) /\ QueueAt(b, s, px) = Shown(b, x)
              /\ \A k \in 1..Len(x) : x[k] \in b.live
<1>1. Queues(b)[s][px] = QueueAt(b, s, px)
  BY DEF Queues
<1> QED BY <1>1, QueuedFacts

\* A lost mark on the entries of an id.
Marked(q, id) == [k \in DOMAIN q |-> [q[k] EXCEPT !.lost = @ \/ q[k].id = id]]

\* After an add the new cell shows its order, and resting orders of the same id
\* are lost: lookup_ no longer names them.
LEMMA AddEntries ==
  ASSUME NEW b, Good(b), NEW f, NEW side, NEW id \in Ids, NEW px, NEW sz \in Nat, NEW l, NEW o, NEW t,
         Appends(b, f, side, id, px, sz, l, o, t)
  PROVE  /\ Entry(f, o) = [id |-> id, size |-> sz, lost |-> FALSE]
         /\ \A x \in b.live : Entry(f, x) = [Entry(b, x) EXCEPT !.lost = @ \/ Entry(b, x).id = id]
<1>1. /\ o \in OrderCells /\ o \notin b.live
      /\ f.id = [b.id EXCEPT ![o] = id] /\ f.size = [b.size EXCEPT ![o] = sz]
      /\ f.lookup = [b.lookup EXCEPT ![id] = o]
  BY DEF Appends, AddLinks
<1>2. /\ b.id \in [OrderCells -> Ids] /\ b.size \in [OrderCells -> Nat]
      /\ b.lookup \in [Ids -> OrderCells \cup {Nil}] /\ b.live \subseteq OrderCells
  BY DEF Good, BookType
<1>3. f.id[o] = id /\ f.size[o] = sz /\ f.lookup[id] = o
  BY <1>1, <1>2
<1>4. ASSUME NEW x \in b.live
      PROVE  Entry(f, x) = [Entry(b, x) EXCEPT !.lost = @ \/ Entry(b, x).id = id]
  <2>1. x \in OrderCells /\ x # o /\ b.id[x] \in Ids
    BY <1>1, <1>2
  <2>2. f.id[x] = b.id[x] /\ f.size[x] = b.size[x]
    BY <1>1, <1>2, <2>1
  <2>3. f.lookup[b.id[x]] = IF b.id[x] = id THEN o ELSE b.lookup[b.id[x]]
    BY <1>1, <1>2, <2>1
  <2>4. (f.lookup[b.id[x]] # x) <=> (b.lookup[b.id[x]] # x \/ b.id[x] = id)
    BY <2>1, <2>3
  <2>5. Entry(f, x) = [id |-> b.id[x], size |-> b.size[x],
                       lost |-> (b.lookup[b.id[x]] # x \/ b.id[x] = id)]
    BY <2>2, <2>4 DEF Entry
  <2> DEFINE v == (b.lookup[b.id[x]] # x \/ b.id[x] = id)
             e == Entry(b, x)
  <2>6. e = [id |-> b.id[x], size |-> b.size[x], lost |-> b.lookup[b.id[x]] # x]
    BY DEF Entry
  <2> HIDE DEF e
  <2>7. e.lost = (b.lookup[b.id[x]] # x) /\ e.id = b.id[x]
    BY <2>6
  <2>8. (e.lost \/ e.id = id) = v
    BY <2>7, Zenon
  <2> HIDE DEF v
  <2>9. [e EXCEPT !.lost = v] = [id |-> b.id[x], size |-> b.size[x], lost |-> v]
    BY <2>6
  <2> QED BY Zenon, <2>5, <2>8, <2>9 DEF v, e
<1>5. Entry(f, o) = [id |-> id, size |-> sz, lost |-> FALSE]
  <2>1. (f.lookup[f.id[o]] # o) = FALSE
    BY <1>3
  <2> QED BY <1>3, <2>1 DEF Entry
<1> QED BY <1>4, <1>5

\* The queues after an add: marked everywhere, with the new order last in one.
LEMMA AddShows ==
  ASSUME NEW b, Good(b), NEW f, Good(f), NEW side \in BOOLEAN, NEW id \in Ids,
         NEW px \in MIN..MAX, NEW sz \in Nat, NEW l, NEW o, NEW t,
         Appends(b, f, side, id, px, sz, l, o, t),
         NEW s \in BOOLEAN, NEW qx \in MIN..MAX
  PROVE  QueueAt(f, s, qx) =
           IF s = side /\ qx = px
           THEN Append(Marked(QueueAt(b, s, qx), id), [id |-> id, size |-> sz, lost |-> FALSE])
           ELSE Marked(QueueAt(b, s, qx), id)
<1>1. PICK x \in Seq(OrderCells) :
        /\ Queued(b, s, qx, x) /\ QueueAt(b, s, qx) = Shown(b, x)
        /\ \A k \in 1..Len(x) : x[k] \in b.live
  BY QueuesAt
<1> DEFINE q == Shown(b, x)
           e == [id |-> id, size |-> sz, lost |-> FALSE]
<1>2. /\ BookType(b) /\ BookType(f) /\ HeapSound(f) /\ o \in OrderCells
  BY DEF Good, Appends, AddLinks
<1>3. Len(x) \in Nat /\ DOMAIN q = 1..Len(x) /\ \A k \in 1..Len(x) : q[k] = Entry(b, x[k])
  BY <1>1, <1>2, ShownType
<1>4. Queued(f, s, qx, IF s = side /\ qx = px THEN Append(x, o) ELSE x)
  BY <1>1, <1>2, AddQueued
<1>5. Entry(f, o) = e
      /\ \A y \in b.live : Entry(f, y) = [Entry(b, y) EXCEPT !.lost = @ \/ Entry(b, y).id = id]
  BY AddEntries
<1>6. Shown(f, x) = Marked(q, id)
  <2>1. Marked(q, id) = [k \in 1..Len(x) |-> [Entry(b, x[k]) EXCEPT !.lost = @ \/ Entry(b, x[k]).id = id]]
    BY <1>3 DEF Marked
  <2>2. \A k \in 1..Len(x) : Entry(f, x[k]) = [Entry(b, x[k]) EXCEPT !.lost = @ \/ Entry(b, x[k]).id = id]
    BY <1>1, <1>5
  <2> QED BY <2>1, <2>2 DEF Shown
<1>7. CASE s = side /\ qx = px
  <2> DEFINE y == Append(x, o)
             u == Shown(f, x)
             v == Shown(f, y)
  <2>1. y \in Seq(OrderCells) /\ Len(y) = Len(x) + 1 /\ y[Len(x) + 1] = o
        /\ \A k \in 1..Len(x) : y[k] = x[k]
    BY <1>1, <1>2
  <2>2. QueueAt(f, s, qx) = v
    BY <1>4, <1>7, QueuedFacts
  <2>3. /\ u \in Seq(Entries) /\ Len(u) = Len(x) /\ \A k \in 1..Len(x) : u[k] = Entry(f, x[k])
    BY <1>1, <1>2, ShownType
  <2>4. /\ v \in Seq(Entries) /\ Len(v) = Len(x) + 1
        /\ \A k \in 1..(Len(x) + 1) : v[k] = Entry(f, y[k])
    <3> HIDE DEF y, v
    <3>1. v \in Seq(Entries) /\ Len(v) = Len(y) /\ \A k \in 1..Len(y) : v[k] = Entry(f, y[k])
      BY <1>2, <2>1, ShownType DEF v
    <3> QED BY <2>1, <3>1
  <2>5. e \in Entries
    BY DEF Entries
  <2> HIDE DEF u, v, y, e
  <2>6. /\ Append(u, e) \in Seq(Entries) /\ Len(Append(u, e)) = Len(x) + 1
        /\ Append(u, e)[Len(x) + 1] = e /\ \A k \in 1..Len(x) : Append(u, e)[k] = u[k]
    BY <2>3, <2>5, AppendProperties
  <2>7. \A k \in 1..(Len(x) + 1) : v[k] = Append(u, e)[k]
    <3>1. \A k \in 1..(Len(x) + 1) : k = Len(x) + 1 \/ k \in 1..Len(x)
      BY <1>3
    <3> QED BY <1>3, <1>5, <2>1, <2>3, <2>4, <2>6, <3>1
  <2>8. v = Append(u, e)
    BY <2>4, <2>6, <2>7, SeqEqual
  <2> QED BY <1>1, <1>6, <1>7, <2>2, <2>8 DEF u, e
<1>8. CASE ~(s = side /\ qx = px)
  <2>1. QueueAt(f, s, qx) = Shown(f, x)
    BY <1>4, <1>8, QueuedFacts
  <2> QED BY Zenon, <1>1, <1>6, <1>8, <2>1
<1> QED BY <1>7, <1>8

\* The queues after a cancel: one entry is taken out of one of them.
LEMMA CancelShows ==
  ASSUME NEW b, Good(b), NEW c, Good(c), NEW side \in BOOLEAN, NEW id \in Ids,
         NEW px, NEW l, NEW o, NEW p, NEW n, Removes(b, c, side, id, px, l, o, p, n)
  PROVE  /\ \A s \in BOOLEAN, qx \in MIN..MAX :
              s # side \/ qx # px => QueueAt(c, s, qx) = QueueAt(b, s, qx)
         /\ \E k \in DOMAIN QueueAt(b, side, px) :
              /\ QueueAt(b, side, px)[k] = [id |-> id, size |-> b.size[o], lost |-> FALSE]
              /\ QueueAt(c, side, px) = RemoveAt(QueueAt(b, side, px), k)
<1>1. /\ o \in OrderCells /\ o \in b.live /\ c.id = b.id /\ c.size = b.size /\ px \in MIN..MAX
      /\ c.lookup = [b.lookup EXCEPT ![id] = Nil] /\ o = b.lookup[id] /\ b.id[o] = id
      /\ BookType(b) /\ BookType(c)
  BY DEF Removes, CancelLinks, Good, BookType
<1>2. ASSUME NEW y \in b.live, y # o PROVE Entry(c, y) = Entry(b, y)
  <2>1. y \in OrderCells /\ y # Nil /\ b.id[y] \in Ids /\ b.lookup \in [Ids -> OrderCells \cup {Nil}]
    BY <1>1, Constants DEF BookType
  <2>2. (c.lookup[b.id[y]] # y) <=> (b.lookup[b.id[y]] # y)
    BY <1>1, <1>2, <2>1
  <2> QED BY <1>1, <2>2 DEF Entry
<1>3. Entry(b, o) = [id |-> id, size |-> b.size[o], lost |-> FALSE]
  <2>1. (b.lookup[b.id[o]] # o) = FALSE
    BY <1>1
  <2> QED BY <1>1, <2>1 DEF Entry
<1>4. ASSUME NEW s \in BOOLEAN, NEW qx \in MIN..MAX, s # side \/ qx # px
      PROVE  QueueAt(c, s, qx) = QueueAt(b, s, qx)
  <2>1. PICK x \in Seq(OrderCells) :
          /\ Queued(b, s, qx, x) /\ QueueAt(b, s, qx) = Shown(b, x)
          /\ \A k \in 1..Len(x) : x[k] \in b.live
    BY QueuesAt
  <2>2. PICK z : Queued(b, side, px, z)
    BY <1>1, QueuedFacts
  <2>3. Queued(c, s, qx, x)
    BY <1>1, <1>4, <2>1, <2>2, CancelQueued
  <2>4. QueueAt(c, s, qx) = Shown(c, x) /\ \A k \in 1..Len(x) : x[k] \in c.live
    <3>1. \A y : Queued(c, s, qx, y) =>
            QueueAt(c, s, qx) = Shown(c, y) /\ \A k \in 1..Len(y) : y[k] \in c.live
      BY QueuedFacts
    <3> QED BY Zenon, <2>3, <3>1
  <2>5. \A k \in 1..Len(x) : Entry(c, x[k]) = Entry(b, x[k])
    <3>1. o \notin c.live
      BY DEF Removes, CancelLinks
    <3> QED BY <1>2, <2>1, <2>4, <3>1
  <2> QED BY <2>1, <2>4, <2>5 DEF Shown
<1>5. \E k \in DOMAIN QueueAt(b, side, px) :
        /\ QueueAt(b, side, px)[k] = [id |-> id, size |-> b.size[o], lost |-> FALSE]
        /\ QueueAt(c, side, px) = RemoveAt(QueueAt(b, side, px), k)
  <2>1. PICK x \in Seq(OrderCells) :
          /\ Queued(b, side, px, x) /\ QueueAt(b, side, px) = Shown(b, x)
          /\ \A k \in 1..Len(x) : x[k] \in b.live
    BY <1>1, QueuesAt
  <2>2. PICK k \in 1..Len(x) : x[k] = o /\ Queued(c, side, px, RemoveAt(x, k))
    BY <1>1, <2>1, CancelQueued
  <2> DEFINE y == RemoveAt(x, k)
             u == Shown(b, x)
             v == Shown(c, y)
             N == Len(x)
  <2>3. /\ y \in Seq(OrderCells) /\ Len(y) = N - 1 /\ N \in Nat /\ k \in 1..N
        /\ \A j \in 1..(N - 1) : y[j] = IF j < k THEN x[j] ELSE x[j + 1]
    BY <2>1, RemoveAtIs
  <2>4. QueueAt(c, side, px) = v /\ \A j \in 1..Len(y) : y[j] \in c.live
    <3> HIDE DEF y
    <3> QED BY <1>1, <2>2, QueuedFacts DEF y
  <2>5. /\ u \in Seq(Entries) /\ Len(u) = N /\ DOMAIN u = 1..N
        /\ \A j \in 1..N : u[j] = Entry(b, x[j])
    BY <1>1, <2>1, ShownType
  <2>6. /\ v \in Seq(Entries) /\ Len(v) = N - 1
        /\ \A j \in 1..(N - 1) : v[j] = Entry(c, y[j])
    <3> HIDE DEF y, v, N
    <3>1. v \in Seq(Entries) /\ Len(v) = Len(y) /\ \A j \in 1..Len(y) : v[j] = Entry(c, y[j])
      BY <1>1, <2>3, ShownType DEF v
    <3> QED BY <2>3, <3>1
  <2> HIDE DEF u, v, y, N
  <2>7. \A j \in 1..(N - 1) : Entry(c, y[j]) = Entry(b, y[j])
    <3>1. o \notin c.live /\ c.live \subseteq b.live
      BY DEF Removes, CancelLinks
    <3> QED BY <1>2, <2>3, <2>4, <3>1
  <2>8. /\ RemoveAt(u, k) \in Seq(Entries) /\ Len(RemoveAt(u, k)) = N - 1
        /\ \A j \in 1..(N - 1) : RemoveAt(u, k)[j] = IF j < k THEN u[j] ELSE u[j + 1]
    BY <2>3, <2>5, RemoveAtIs
  <2>9. \A j \in 1..(N - 1) : v[j] = RemoveAt(u, k)[j]
    <3> SUFFICES ASSUME NEW j \in 1..(N - 1) PROVE v[j] = RemoveAt(u, k)[j]
      OBVIOUS
    <3>1. j \in 1..N /\ j + 1 \in 1..N
      BY <2>3
    <3>2. v[j] = Entry(b, y[j])
      BY <2>6, <2>7
    <3> QED BY <2>3, <2>5, <2>8, <3>1, <3>2
  <2>10. v = RemoveAt(u, k)
    BY <2>6, <2>8, <2>9, SeqEqual
  <2>11. k \in DOMAIN u /\ u[k] = [id |-> id, size |-> b.size[o], lost |-> FALSE]
    BY <1>3, <2>2, <2>3, <2>5
  <2> QED BY <2>1, <2>4, <2>10, <2>11 DEF u
<1> QED BY <1>4, <1>5

\* Only the order of the id has changed, in place.
ShownShrunk(b, c, side, px, id, was, sz) ==
  /\ \A s \in BOOLEAN, qx \in MIN..MAX :
       s # side \/ qx # px => QueueAt(c, s, qx) = QueueAt(b, s, qx)
  /\ \E k \in DOMAIN QueueAt(b, side, px) :
       /\ QueueAt(b, side, px)[k] = [id |-> id, size |-> was, lost |-> FALSE]
       /\ QueueAt(c, side, px) = [QueueAt(b, side, px) EXCEPT ![k].size = sz]

\* The queues after an in-place modify: one entry has the new size.
LEMMA ShrinkShows ==
  ASSUME NEW b, Good(b), NEW c, Good(c), NEW side \in BOOLEAN, NEW id \in Ids,
         RestsOn(b, side, id), NEW o, o = b.lookup[id], NEW l, NEW sz \in Nat,
         Shrinks(b, c, o, l, sz), l = b.parent[o]
  PROVE  ShownShrunk(b, c, side, b.price[o], id, b.size[o], sz)
<1> DEFINE px == b.price[o]
           i == SlotIdx(side, px)
<1>1. /\ o \in OrderCells /\ o \in b.live /\ b.id[o] = id /\ px \in MIN..MAX
      /\ i \in Slots /\ l \in LimitCells /\ l = b.slots[side][i] /\ BookType(b) /\ BookType(c)
      /\ HeapSound(b) /\ l # Nil
  <2>1. BookType(b) /\ BookType(c) /\ HeapSound(b)
    BY DEF Good
  <2> QED BY <2>1, RestingAt, Constants
<1>2. /\ c.id = b.id /\ c.lookup = b.lookup /\ c.size = [b.size EXCEPT ![o] = sz]
      /\ b.size \in [OrderCells -> Nat] /\ b.live \subseteq OrderCells
  BY Zenon, <1>1 DEF Shrinks, BookType
<1>3. ASSUME NEW y \in b.live
      PROVE  Entry(c, y) = IF y = o THEN [Entry(b, y) EXCEPT !.size = sz] ELSE Entry(b, y)
  <2>1. c.size[y] = IF y = o THEN sz ELSE b.size[y]
    BY <1>2
  <2> QED BY <1>2, <2>1 DEF Entry
<1>4. Entry(b, o) = [id |-> id, size |-> b.size[o], lost |-> FALSE]
  <2>1. (b.lookup[b.id[o]] # o) = FALSE
    BY Zenon, <1>1
  <2> QED BY Zenon, <1>1, <2>1 DEF Entry
<1>5. ASSUME NEW s \in BOOLEAN, NEW qx \in MIN..MAX, NEW x \in Seq(OrderCells), Queued(b, s, qx, x)
      PROVE  QueueAt(c, s, qx) = Shown(c, x)
  <2>1. Queued(c, s, qx, x)
    BY <1>5, ShrinkListed
  <2> QED BY <2>1, QueuedFacts
<1>6. ASSUME NEW s \in BOOLEAN, NEW qx \in MIN..MAX, s # side \/ qx # px
      PROVE  QueueAt(c, s, qx) = QueueAt(b, s, qx)
  <2>1. PICK x \in Seq(OrderCells) :
          /\ Queued(b, s, qx, x) /\ QueueAt(b, s, qx) = Shown(b, x)
          /\ \A k \in 1..Len(x) : x[k] \in b.live
    BY QueuesAt
  <2>2. \A k \in 1..Len(x) : x[k] # o
    <3> DEFINE j == SlotIdx(s, qx)
    <3>1. j \in Slots /\ (s # side \/ j # i)
      BY Zenon, <1>1, <1>6, SlotIdxType, PlacesDiffer
    <3>2. b.slots[s][j] # l
      <4> HIDE DEF i, j, px
      <4>1. SUFFICES ASSUME b.slots[s][j] = l PROVE FALSE
        OBVIOUS
      <4>2. b.slots[s][j] = b.slots[side][i] /\ b.slots[s][j] # Nil
        BY Zenon, <1>1, <4>1
      <4>3. s = side /\ j = i
        BY <1>1, <3>1, <4>2, LevelsDiffer
      <4> QED BY <3>1, <4>3
    <3>3. CASE b.slots[s][j] = Nil
      <4>1. x = << >>
        BY <2>1, <3>3 DEF Queued
      <4> QED BY <4>1
    <3>4. CASE b.slots[s][j] # Nil
      <4>1. Lists(b, b.slots[s][j], x)
        BY <2>1, <3>4 DEF Queued
      <4>2. \A k \in 1..Len(x) : b.parent[x[k]] = b.slots[s][j]
        BY <4>1 DEF Lists, OrdersAt
      <4> QED BY <3>2, <4>2
    <3> QED BY <3>3, <3>4
  <2>3. \A k \in 1..Len(x) : Entry(c, x[k]) = Entry(b, x[k])
    BY <1>3, <2>1, <2>2
  <2> QED BY <1>5, <2>1, <2>3 DEF Shown
<1>7. \E k \in DOMAIN QueueAt(b, side, px) :
        /\ QueueAt(b, side, px)[k] = [id |-> id, size |-> b.size[o], lost |-> FALSE]
        /\ QueueAt(c, side, px) = [QueueAt(b, side, px) EXCEPT ![k].size = sz]
  <2>1. PICK x \in Seq(OrderCells) :
          /\ Queued(b, side, px, x) /\ QueueAt(b, side, px) = Shown(b, x)
          /\ \A k \in 1..Len(x) : x[k] \in b.live
    BY Zenon, <1>1, QueuesAt
  <2>2. Lists(b, l, x)
    BY Zenon, <1>1, <2>1 DEF Queued
  <2>3. /\ \A j, m \in 1..Len(x) : x[j] = x[m] => j = m
        /\ \E k \in 1..Len(x) : x[k] = o
    BY Zenon, <1>1, <2>2 DEF Lists, OrdersAt
  <2>4. PICK k \in 1..Len(x) : x[k] = o
    BY <2>3
  <2> DEFINE u == Shown(b, x)
  <2>5. u = [j \in 1..Len(x) |-> Entry(b, x[j])] /\ DOMAIN u = 1..Len(x)
    BY DEF Shown
  <2>6. \A j \in 1..Len(x) :
          Entry(c, x[j]) = IF j = k THEN [Entry(b, x[j]) EXCEPT !.size = sz] ELSE Entry(b, x[j])
    BY <1>3, <2>1, <2>3, <2>4
  <2>7. Shown(c, x) = [u EXCEPT ![k] = [Entry(b, o) EXCEPT !.size = sz]]
    BY <2>4, <2>5, <2>6 DEF Shown
  <2>8. u[k] = Entry(b, o)
    BY <2>4, <2>5
  <2> HIDE DEF u
  <2>9. Shown(c, x) = [u EXCEPT ![k].size = sz]
    BY <2>7, <2>8
  <2>10. QueueAt(b, side, px) = u /\ QueueAt(c, side, px) = [u EXCEPT ![k].size = sz]
    <3>1. QueueAt(c, side, px) = Shown(c, x)
      BY Zenon, <1>1, <1>5, <2>1
    <3> QED BY Zenon, <2>1, <2>9, <3>1 DEF u
  <2>11. k \in DOMAIN u /\ u[k] = [id |-> id, size |-> b.size[o], lost |-> FALSE]
    BY <1>4, <2>4, <2>5, <2>8
  <2> QED BY <2>10, <2>11
<1> QED BY Zenon, <1>6, <1>7 DEF ShownShrunk

\* Queues that differ at one place.
IsQueues(q) == q = [s \in BOOLEAN |-> [px \in MIN..MAX |-> q[s][px]]]

\* r is q with v at one side and price.
ChangedAt(q, r, side, px, v) ==
  \A s \in BOOLEAN, qx \in MIN..MAX :
    r[s][qx] = IF s = side /\ qx = px THEN v ELSE q[s][qx]

\* Queues that differ at one place only are an EXCEPT of each other.
LEMMA PlaceChanged ==
  ASSUME NEW q, IsQueues(q), NEW r, IsQueues(r),
         NEW side \in BOOLEAN, NEW px \in MIN..MAX, NEW v, ChangedAt(q, r, side, px, v)
  PROVE  r = [q EXCEPT ![side][px] = v]
<1> USE DEF IsQueues, ChangedAt
<1> DEFINE p == [q EXCEPT ![side][px] = v]
<1>1. p = [s \in BOOLEAN |-> IF s = side THEN [q[side] EXCEPT ![px] = v] ELSE q[s]]
  OBVIOUS
<1>2. q[side] = [x \in MIN..MAX |-> q[side][x]]
  OBVIOUS
<1>3. [q[side] EXCEPT ![px] = v] = [x \in MIN..MAX |-> IF x = px THEN v ELSE q[side][x]]
  BY <1>2
<1>4. \A s \in BOOLEAN : r[s] = IF s = side THEN [q[side] EXCEPT ![px] = v] ELSE q[s]
  <2> SUFFICES ASSUME NEW s \in BOOLEAN
               PROVE  r[s] = IF s = side THEN [q[side] EXCEPT ![px] = v] ELSE q[s]
    OBVIOUS
  <2>1. r[s] = [x \in MIN..MAX |-> r[s][x]] /\ q[s] = [x \in MIN..MAX |-> q[s][x]]
    OBVIOUS
  <2>2. CASE s = side
    <3>1. \A x \in MIN..MAX : r[s][x] = IF x = px THEN v ELSE q[side][x]
      BY <2>2
    <3> QED BY <1>3, <2>1, <2>2, <3>1
  <2>3. CASE s # side
    <3>1. \A x \in MIN..MAX : r[s][x] = q[s][x]
      BY <2>3
    <3> QED BY <2>1, <2>3, <3>1
  <2> QED BY <2>2, <2>3
<1>5. r = [s \in BOOLEAN |-> r[s]]
  OBVIOUS
<1> HIDE DEF p
<1>6. r = p
  BY <1>1, <1>4, <1>5
<1> QED BY <1>6 DEF p

\* The queues of a book are one function of side and price.
LEMMA QueuesForm ==
  ASSUME NEW b
  PROVE  /\ Queues(b) = [s \in BOOLEAN |-> [px \in MIN..MAX |-> Queues(b)[s][px]]]
         /\ \A s \in BOOLEAN, px \in MIN..MAX : Queues(b)[s][px] = QueueAt(b, s, px)
BY DEF Queues

\* Marking the entries of an id as lost changes nothing else in a queue.
LEMMA MarkedSeq ==
  ASSUME NEW q \in Seq(Entries), NEW id \in Ids
  PROVE  /\ Marked(q, id) \in Seq(Entries) /\ Len(Marked(q, id)) = Len(q)
         /\ \A k \in 1..Len(q) : Marked(q, id)[k] = [q[k] EXCEPT !.lost = @ \/ q[k].id = id]
<1>1. Len(q) \in Nat /\ DOMAIN q = 1..Len(q) /\ \A k \in 1..Len(q) : q[k] \in Entries
  OBVIOUS
<1>2. \A e \in Entries : [e EXCEPT !.lost = @ \/ e.id = id] \in Entries
  BY Zenon DEF Entries
<1> DEFINE h == Marked(q, id)
<1>3. /\ h \in [1..Len(q) -> Entries]
      /\ \A k \in 1..Len(q) : h[k] = [q[k] EXCEPT !.lost = @ \/ q[k].id = id]
  BY Zenon, <1>1, <1>2 DEF Marked
<1> HIDE DEF h
<1>4. h \in Seq(Entries) /\ Len(h) = Len(q)
  BY <1>1, <1>3, FunctionIsSequence
<1> QED BY <1>3, <1>4 DEF h

\* The queues after an add, whether or not the id rested before.
LEMMA AddQueues ==
  ASSUME NEW b, Good(b), NEW f, Good(f), NEW side \in BOOLEAN, NEW id \in Ids,
         NEW px \in MIN..MAX, NEW sz \in Nat, NEW l, NEW o, NEW t,
         Appends(b, f, side, id, px, sz, l, o, t)
  PROVE  /\ Queues(f) = Abstract!Enqueued(Abstract!Forgotten(Queues(b), id), side, px, id, sz)
         /\ Abstract!IsLast(Queues(f)[side][px], id, sz)
<1> DEFINE q == Queues(b)
           r == Queues(f)
           g == Abstract!Forgotten(q, id)
           e == [id |-> id, size |-> sz, lost |-> FALSE]
<1>1. g = [s \in BOOLEAN |-> [x \in MIN..MAX |-> Marked(QueueAt(b, s, x), id)]]
  BY QueuesForm DEF Abstract!Forgotten, Marked
<1>2. \A s \in BOOLEAN, qx \in MIN..MAX : g[s][qx] = Marked(QueueAt(b, s, qx), id)
  BY <1>1
<1>3. /\ r = [s \in BOOLEAN |-> [x \in MIN..MAX |-> r[s][x]]]
      /\ \A s \in BOOLEAN, x \in MIN..MAX : r[s][x] = QueueAt(f, s, x)
  BY QueuesForm
<1> HIDE DEF g, q, r
<1>4. g = [s \in BOOLEAN |-> [x \in MIN..MAX |-> g[s][x]]]
  BY <1>1
<1>5. \A s \in BOOLEAN, qx \in MIN..MAX :
        QueueAt(f, s, qx) = IF s = side /\ qx = px THEN Append(Marked(QueueAt(b, s, qx), id), e)
                            ELSE Marked(QueueAt(b, s, qx), id)
  BY AddShows
<1> HIDE DEF e
<1>6. \A s \in BOOLEAN, qx \in MIN..MAX :
        r[s][qx] = IF s = side /\ qx = px THEN Append(g[side][px], e) ELSE g[s][qx]
  <2> SUFFICES ASSUME NEW s \in BOOLEAN, NEW qx \in MIN..MAX
               PROVE  r[s][qx] = IF s = side /\ qx = px THEN Append(g[side][px], e) ELSE g[s][qx]
    OBVIOUS
  <2>1. r[s][qx] = QueueAt(f, s, qx) /\ g[s][qx] = Marked(QueueAt(b, s, qx), id)
    BY <1>2, <1>3
  <2>2. QueueAt(f, s, qx) = IF s = side /\ qx = px THEN Append(g[s][qx], e) ELSE g[s][qx]
    BY Zenon, <1>5, <2>1
  <2>3. CASE s = side /\ qx = px
    BY Zenon, <2>1, <2>2, <2>3
  <2>4. CASE ~(s = side /\ qx = px)
    BY Zenon, <2>1, <2>2, <2>4
  <2> QED BY Zenon, <2>3, <2>4
<1>7. r = [g EXCEPT ![side][px] = Append(g[side][px], e)]
  <2>1. IsQueues(g) /\ IsQueues(r)
    BY Zenon, <1>3, <1>4 DEF IsQueues
  <2> DEFINE v == Append(g[side][px], e)
  <2>2. ChangedAt(g, r, side, px, v)
    BY Zenon, <1>6 DEF ChangedAt
  <2> HIDE DEF v
  <2>3. r = [g EXCEPT ![side][px] = v]
    BY <2>1, <2>2, PlaceChanged
  <2> QED BY Zenon, <2>3 DEF v
<1>8. r = Abstract!Enqueued(g, side, px, id, sz)
  BY Zenon, <1>7 DEF Abstract!Enqueued, e
<1>9. Abstract!IsLast(r[side][px], id, sz)
  <2>1. r[side][px] = Append(g[side][px], e)
    BY <1>6
  <2>2. g[side][px] \in Seq(Entries) /\ e \in Entries
    <3>1. QueueAt(b, side, px) \in Seq(Entries)
      <4>1. BookType(b)
        BY DEF Good
      <4> QED BY <4>1, QueuesAt, ShownType
    <3>2. Marked(QueueAt(b, side, px), id) \in Seq(Entries)
      BY <3>1, MarkedSeq
    <3>3. e \in Entries
      BY DEF e, Entries
    <3> QED BY <1>2, <3>2, <3>3
  <2>3. /\ Append(g[side][px], e) # << >>
        /\ Append(g[side][px], e)[Len(Append(g[side][px], e))] = e
    BY <2>2, AppendProperties
  <2> QED BY Zenon, <2>1, <2>3 DEF Abstract!IsLast, Abstract!Last, Last, e
<1> QED BY <1>8, <1>9 DEF g, q, r

\* Every entry of a queue is that of a resting order.
LEMMA QueueEntries ==
  ASSUME NEW b, Good(b), NEW s \in BOOLEAN, NEW px \in MIN..MAX
  PROVE  /\ QueueAt(b, s, px) \in Seq(Entries)
         /\ \A k \in DOMAIN QueueAt(b, s, px) :
              \E o \in b.live : QueueAt(b, s, px)[k] = Entry(b, o)
<1>1. BookType(b)
  BY DEF Good
<1>2. PICK x \in Seq(OrderCells) :
        QueueAt(b, s, px) = Shown(b, x) /\ \A k \in 1..Len(x) : x[k] \in b.live
  BY QueuesAt
<1> QED BY <1>1, <1>2, ShownType

\* add_order is the Add of PriceTimeBook.
LEMMA AddRefines ==
  ASSUME NEW b, Good(b), NEW f, Good(f), NEW side \in BOOLEAN, NEW id \in Ids,
         NEW px \in MIN..MAX, NEW sz \in Nat, NEW l, NEW o, NEW t,
         Appends(b, f, side, id, px, sz, l, o, t), DupAdds \/ b.lookup[id] = Nil
  PROVE  Abstract!Add(Queues(b), Queues(f), side, px, id, sz)
<1>1. DupAdds \/ \A s \in BOOLEAN, p \in MIN..MAX : ~Abstract!Resting(Queues(b), s, p, id)
  <2> SUFFICES ASSUME b.lookup[id] = Nil, NEW s \in BOOLEAN, NEW p \in MIN..MAX
               PROVE  ~Abstract!Resting(Queues(b), s, p, id)
    OBVIOUS
  <2> DEFINE q == QueueAt(b, s, p)
  <2>1. \A k \in DOMAIN q : q[k].id = id => q[k].lost
    <3> SUFFICES ASSUME NEW k \in DOMAIN q, q[k].id = id PROVE q[k].lost
      OBVIOUS
    <3>1. PICK x \in b.live : q[k] = Entry(b, x)
      BY QueueEntries
    <3>2. x # Nil
      BY Constants DEF Good, BookType
    <3>3. q[k] = [id |-> b.id[x], size |-> b.size[x], lost |-> b.lookup[b.id[x]] # x]
      BY <3>1 DEF Entry
    <3> HIDE DEF q
    <3>4. b.id[x] = id /\ q[k].lost = (b.lookup[b.id[x]] # x)
      BY <3>3
    <3> QED BY <3>2, <3>4
  <2>2. Queues(b)[s][p] = q
    BY QueuesForm
  <2> QED BY <2>1, <2>2 DEF Abstract!Resting, Abstract!Known
<1> QED BY <1>1, AddQueues DEF Abstract!Add

\* What cancel_order takes out is an entry the abstract book knows by that id.
LEMMA CancelQueues ==
  ASSUME NEW b, Good(b), NEW c, Good(c), NEW side \in BOOLEAN, NEW id \in Ids,
         NEW px, NEW l, NEW o, NEW p, NEW n, Removes(b, c, side, id, px, l, o, p, n)
  PROVE  \E k \in Abstract!Known(Queues(b)[side][px], id) :
           /\ Queues(b)[side][px][k].size = b.size[o]
           /\ Queues(c) = Abstract!Without(Queues(b), side, px, k)
<1> DEFINE q == Queues(b)
           r == Queues(c)
<1>0. px \in MIN..MAX
  BY DEF Removes
<1>1. /\ \A s \in BOOLEAN, qx \in MIN..MAX :
           s # side \/ qx # px => QueueAt(c, s, qx) = QueueAt(b, s, qx)
      /\ \E k \in DOMAIN QueueAt(b, side, px) :
           /\ QueueAt(b, side, px)[k] = [id |-> id, size |-> b.size[o], lost |-> FALSE]
           /\ QueueAt(c, side, px) = RemoveAt(QueueAt(b, side, px), k)
  BY CancelShows
<1>2. /\ q = [s \in BOOLEAN |-> [x \in MIN..MAX |-> q[s][x]]]
      /\ r = [s \in BOOLEAN |-> [x \in MIN..MAX |-> r[s][x]]]
      /\ \A s \in BOOLEAN, x \in MIN..MAX : q[s][x] = QueueAt(b, s, x) /\ r[s][x] = QueueAt(c, s, x)
  BY QueuesForm
<1> HIDE DEF q, r
<1>3. PICK k \in DOMAIN q[side][px] :
        /\ q[side][px][k] = [id |-> id, size |-> b.size[o], lost |-> FALSE]
        /\ r[side][px] = RemoveAt(q[side][px], k)
  BY <1>0, <1>1, <1>2
<1>4. \A s \in BOOLEAN, qx \in MIN..MAX :
        r[s][qx] = IF s = side /\ qx = px THEN RemoveAt(q[side][px], k) ELSE q[s][qx]
  BY <1>0, <1>1, <1>2, <1>3
<1>5. r = [q EXCEPT ![side][px] = RemoveAt(q[side][px], k)]
  <2>1. IsQueues(q) /\ IsQueues(r)
    BY Zenon, <1>2 DEF IsQueues
  <2>2. ChangedAt(q, r, side, px, RemoveAt(q[side][px], k))
    BY Zenon, <1>4 DEF ChangedAt
  <2> QED BY <1>0, <2>1, <2>2, PlaceChanged
<1>6. r = Abstract!Without(q, side, px, k)
  BY Zenon, <1>5 DEF Abstract!Without, Abstract!RemoveAt, RemoveAt
<1>7. k \in Abstract!Known(q[side][px], id) /\ q[side][px][k].size = b.size[o]
  BY <1>3 DEF Abstract!Known
<1> QED BY <1>6, <1>7 DEF q, r

\* When no order is found by the id, adding it marks none as lost.
LEMMA NothingForgotten ==
  ASSUME NEW c, Good(c), NEW id \in Ids, c.lookup[id] = Nil
  PROVE  Abstract!Forgotten(Queues(c), id) = Queues(c)
<1>1. ASSUME NEW s \in BOOLEAN, NEW px \in MIN..MAX
      PROVE  Marked(QueueAt(c, s, px), id) = QueueAt(c, s, px)
  <2> DEFINE q == QueueAt(c, s, px)
  <2>1. q \in Seq(Entries) /\ \A k \in DOMAIN q : \E o \in c.live : q[k] = Entry(c, o)
    BY QueueEntries
  <2>2. \A o \in c.live : [Entry(c, o) EXCEPT !.lost = @ \/ Entry(c, o).id = id] = Entry(c, o)
    <3> SUFFICES ASSUME NEW o \in c.live
                 PROVE  [Entry(c, o) EXCEPT !.lost = @ \/ Entry(c, o).id = id] = Entry(c, o)
      OBVIOUS
    <3> DEFINE e == Entry(c, o)
    <3>1. o # Nil
      BY Constants DEF Good, BookType
    <3>2. /\ e = [id |-> c.id[o], size |-> c.size[o], lost |-> c.lookup[c.id[o]] # o]
          /\ (c.lookup[c.id[o]] # o) <=> (c.lookup[c.id[o]] # o \/ c.id[o] = id)
      BY <3>1 DEF Entry
    <3> HIDE DEF e
    <3>3. e.lost = (c.lookup[c.id[o]] # o) /\ e.id = c.id[o]
      BY <3>2
    <3>4. (e.lost \/ e.id = id) = e.lost
      BY Zenon, <3>2, <3>3
    <3>5. [e EXCEPT !.lost = e.lost] = e
      BY <3>2
    <3> QED BY Zenon, <3>4, <3>5 DEF e
  <2>3. q = [k \in DOMAIN q |-> q[k]]
    BY <2>1
  <2>4. \A k \in DOMAIN q : [q[k] EXCEPT !.lost = @ \/ q[k].id = id] = q[k]
    BY Zenon, <2>1, <2>2
  <2> HIDE DEF q
  <2>5. Marked(q, id) = [k \in DOMAIN q |-> q[k]]
    BY Zenon, <2>4 DEF Marked
  <2> QED BY <2>3, <2>5 DEF q
<1>2. Abstract!Forgotten(Queues(c), id)
        = [s \in BOOLEAN |-> [px \in MIN..MAX |-> Marked(QueueAt(c, s, px), id)]]
  BY QueuesForm DEF Abstract!Forgotten, Marked
<1> QED BY <1>1, <1>2 DEF Queues

\* A modify that moves or grows an order is the Replace of PriceTimeBook: the
\* order loses its place.
LEMMA ReplaceRefines ==
  ASSUME NEW b, Good(b), NEW c, Good(c), NEW f, Good(f), NEW side \in BOOLEAN, NEW id \in Ids,
         NEW px, NEW l, NEW o, NEW p, NEW n, Removes(b, c, side, id, px, l, o, p, n),
         NEW new \in MIN..MAX, NEW sz \in Nat, NEW m, NEW u, NEW t,
         Appends(c, f, side, id, new, sz, m, u, t), px # new \/ sz > b.size[o]
  PROVE  Abstract!Replace(Queues(b), Queues(f), side, px, id, new, sz)
<1>1. PICK k \in Abstract!Known(Queues(b)[side][px], id) :
        /\ Queues(b)[side][px][k].size = b.size[o]
        /\ Queues(c) = Abstract!Without(Queues(b), side, px, k)
  BY CancelQueues
<1>2. c.lookup[id] = Nil
  BY DEF Removes, Good, BookType
<1>3. /\ Queues(f) = Abstract!Enqueued(Queues(c), side, new, id, sz)
      /\ Abstract!IsLast(Queues(f)[side][new], id, sz)
  BY <1>2, NothingForgotten, AddQueues
<1>4. px # new \/ Queues(b)[side][px][k].size < sz
  <2>1. b.size[o] \in Nat
    BY DEF Removes, CancelLinks, Good, BookType
  <2> QED BY <1>1, <2>1
<1> QED BY Zenon, <1>1, <1>3, <1>4 DEF Abstract!Replace

\* A modify that shrinks an order is the Reduce of PriceTimeBook: the order keeps
\* its place; a modify to the same size changes no queue.
LEMMA ShrinkQueues ==
  ASSUME NEW b, Good(b), NEW c, Good(c), NEW side \in BOOLEAN, NEW id \in Ids,
         RestsOn(b, side, id), NEW o, o = b.lookup[id], NEW l, NEW sz \in Nat,
         Shrinks(b, c, o, l, sz), l = b.parent[o], sz <= b.size[o]
  PROVE  \/ Queues(c) = Queues(b)
         \/ Abstract!Reduce(Queues(b), Queues(c), side, b.price[o], id, sz)
<1> DEFINE q == Queues(b)
           r == Queues(c)
           px == b.price[o]
<1>0. px \in MIN..MAX /\ b.size[o] \in Nat
  <2>1. BookType(b) /\ HeapSound(b)
    BY DEF Good
  <2>2. o \in OrderCells /\ px \in MIN..MAX
    BY <2>1, RestingAt
  <2> QED BY <2>1, <2>2 DEF BookType
<1>1. /\ \A s \in BOOLEAN, qx \in MIN..MAX :
           s # side \/ qx # px => QueueAt(c, s, qx) = QueueAt(b, s, qx)
      /\ \E k \in DOMAIN QueueAt(b, side, px) :
           /\ QueueAt(b, side, px)[k] = [id |-> id, size |-> b.size[o], lost |-> FALSE]
           /\ QueueAt(c, side, px) = [QueueAt(b, side, px) EXCEPT ![k].size = sz]
  <2>1. ShownShrunk(b, c, side, px, id, b.size[o], sz)
    BY ShrinkShows
  <2> QED BY Zenon, <2>1 DEF ShownShrunk
<1>2. /\ q = [s \in BOOLEAN |-> [x \in MIN..MAX |-> q[s][x]]]
      /\ r = [s \in BOOLEAN |-> [x \in MIN..MAX |-> r[s][x]]]
      /\ \A s \in BOOLEAN, x \in MIN..MAX : q[s][x] = QueueAt(b, s, x) /\ r[s][x] = QueueAt(c, s, x)
  BY QueuesForm
<1>a. q[side][px] \in Seq(Entries)
  BY <1>0, <1>2, QueueEntries
<1> HIDE DEF q, r, px
<1>3. PICK k \in DOMAIN q[side][px] :
        /\ q[side][px][k] = [id |-> id, size |-> b.size[o], lost |-> FALSE]
        /\ r[side][px] = [q[side][px] EXCEPT ![k].size = sz]
  BY <1>0, <1>1, <1>2
<1>4. \A s \in BOOLEAN, qx \in MIN..MAX :
        r[s][qx] = IF s = side /\ qx = px THEN [q[side][px] EXCEPT ![k].size = sz] ELSE q[s][qx]
  BY <1>0, <1>1, <1>2, <1>3
<1>5. r = [q EXCEPT ![side][px] = [q[side][px] EXCEPT ![k].size = sz]]
  <2>1. IsQueues(q) /\ IsQueues(r)
    BY Zenon, <1>2 DEF IsQueues
  <2>2. ChangedAt(q, r, side, px, [q[side][px] EXCEPT ![k].size = sz])
    BY Zenon, <1>4 DEF ChangedAt
  <2> QED BY <1>0, <2>1, <2>2, PlaceChanged
<1>6. CASE sz = b.size[o]
  <2> DEFINE v == q[side][px]
  <2>1. v[k] = [id |-> id, size |-> sz, lost |-> FALSE]
    BY <1>3, <1>6
  <2> HIDE DEF v
  <2>2. [v[k] EXCEPT !.size = sz] = v[k]
    <3> DEFINE e == v[k]
    <3>1. e = [id |-> id, size |-> sz, lost |-> FALSE]
      BY <2>1
    <3>2. e \in Entries /\ e.size = sz
      BY <3>1 DEF Entries
    <3> HIDE DEF e
    <3>3. [e EXCEPT !.size = e.size] = e
      BY <3>2 DEF Entries
    <3> QED BY Zenon, <3>2, <3>3 DEF e
  <2>3. [v EXCEPT ![k] = v[k]] = v
    BY <1>a DEF v
  <2>4. [v EXCEPT ![k].size = sz] = v
    BY <2>2, <2>3
  <2>5. \A s \in BOOLEAN, qx \in MIN..MAX : r[s][qx] = q[s][qx]
    BY <1>4, <2>4 DEF v
  <2>6. r = q
    BY <1>2, <2>5
  <2> QED BY <2>6 DEF q, r
<1>7. CASE sz # b.size[o]
  <2>1. sz < q[side][px][k].size
    BY <1>0, <1>3, <1>7
  <2>2. k \in Abstract!Known(q[side][px], id)
    BY <1>3 DEF Abstract!Known
  <2>3. r = [q EXCEPT ![side][px][k].size = sz]
    BY Zenon, <1>5
  <2>4. Abstract!Reduce(q, r, side, px, id, sz)
    BY Zenon, <2>1, <2>2, <2>3 DEF Abstract!Reduce
  <2> QED BY <2>4 DEF q, r, px
<1> QED BY <1>6, <1>7

-----------------------------------------------------------------------------
(* The volume kept with each level. *)

\* The volume_ of level l is the total size of the orders that rest there.
VolumeAt(b, l) == b.volume[l] = SumFunctionOnSet(b.size, OrdersAt(b, l))
\* The volume kept by each level is the size of the orders that rest there.
Volumes(b) == \A l \in UsedLimits(b) : VolumeAt(b, l)

\* Sets of resting orders are finite and their sizes are numbers.
LEMMA OrdersFinite ==
  ASSUME NEW b, BookType(b), NEW S, S \subseteq b.live
  PROVE  IsFiniteSet(S) /\ S \subseteq OrderCells /\ \A o \in S : b.size[o] \in Int
<1>1. IsFiniteSet(OrderCells)
  BY FS_Interval, Constants DEF OrderCells
<1>2. b.live \subseteq OrderCells /\ b.size \in [OrderCells -> Nat]
  BY DEF BookType
<1> QED BY <1>1, <1>2, FS_Subset

\* One more element, and fewer.
LEMMA SumPut ==
  ASSUME NEW S, IsFiniteSet(S), NEW f, NEW o, o \notin S, f[o] \in Int, \A x \in S : f[x] \in Int
  PROVE  SumFunctionOnSet(f, S \cup {o}) = f[o] + SumFunctionOnSet(f, S)
<1>1. IsFiniteSet(S \cup {o})
  BY FS_AddElement
<1>2. (S \cup {o}) \ {o} = S
  OBVIOUS
<1>3. \A x \in S \cup {o} : f[x] \in Int
  OBVIOUS
<1> QED BY <1>1, <1>2, <1>3, SumFacts

\* add_order keeps every level's volume right.
LEMMA AddVolumes ==
  ASSUME NEW b, Good(b), Volumes(b), NEW f, Good(f), NEW side \in BOOLEAN, NEW id,
         NEW px \in MIN..MAX, NEW sz \in Nat, NEW l, NEW o, NEW t,
         Appends(b, f, side, id, px, sz, l, o, t)
  PROVE  Volumes(f)
<1> DEFINE i == SlotIdx(side, px)
<1>1. /\ BookType(b) /\ BookType(f) /\ HeapSound(b) /\ HeapSound(f) /\ i \in Slots /\ l # Nil
      /\ o \in OrderCells /\ o \notin b.live /\ l \in LimitCells
      /\ f.live = b.live \cup {o} /\ f.parent = [b.parent EXCEPT ![o] = l]
      /\ f.size = [b.size EXCEPT ![o] = sz]
      /\ f.slots[side][i] = l /\ b.slots[side][i] \in {l, Nil}
      /\ b.slots[side][i] = Nil => b.head[l] = Nil
      /\ \A s \in BOOLEAN, j \in Slots : s # side \/ j # i => f.slots[s][j] = b.slots[s][j]
      /\ \A k \in LimitCells :
           f.volume[k] = IF k # l THEN b.volume[k]
                         ELSE IF b.slots[side][i] = Nil THEN sz ELSE b.volume[l] + sz
  BY SlotIdxType, Constants DEF Appends, AddLinks, Good
<1>2. /\ b.parent \in [OrderCells -> LimitCells \cup {Nil}]
      /\ b.size \in [OrderCells -> Nat] /\ b.live \subseteq OrderCells
      /\ f.slots \in [BOOLEAN -> [Slots -> LimitCells \cup {Nil}]]
      /\ b.volume \in [LimitCells -> Int]
  BY <1>1 DEF BookType
<1> HIDE DEF i
<1>3. /\ \A x \in b.live : f.parent[x] = b.parent[x] /\ f.size[x] = b.size[x]
      /\ f.parent[o] = l /\ f.size[o] = sz
  BY <1>1, <1>2
<1>4. /\ OrdersAt(f, l) = OrdersAt(b, l) \cup {o} /\ o \notin OrdersAt(b, l)
      /\ \A k : k # l => OrdersAt(f, k) = OrdersAt(b, k)
      /\ \A k : OrdersAt(b, k) \subseteq b.live
  BY <1>1, <1>3 DEF OrdersAt
<1>5. ASSUME NEW k
      PROVE  SumFunctionOnSet(f.size, OrdersAt(b, k)) = SumFunctionOnSet(b.size, OrdersAt(b, k))
  <2>1. IsFiniteSet(OrdersAt(b, k)) /\ \A x \in OrdersAt(b, k) : b.size[x] \in Int
    BY <1>1, <1>4, OrdersFinite
  <2>2. \A x \in OrdersAt(b, k) : f.size[x] = b.size[x]
    BY <1>3, <1>4
  <2> QED BY <2>1, <2>2, SumSame
<1>6. ASSUME NEW k \in UsedLimits(f), k # l PROVE VolumeAt(f, k)
  <2>1. k \in UsedLimits(b) /\ k \in LimitCells
    <3>1. PICK s \in BOOLEAN, j \in Slots : k = f.slots[s][j] /\ k # Nil
      BY UsedLimitsAre
    <3>2. s # side \/ j # i
      BY <1>1, <1>6, <3>1
    <3>3. k = b.slots[s][j]
      BY <1>1, <3>1, <3>2
    <3> QED BY <1>2, <3>1, <3>3, UsedLimitsAre
  <2>2. b.volume[k] = SumFunctionOnSet(b.size, OrdersAt(b, k))
    BY <2>1 DEF Volumes, VolumeAt
  <2>3. f.volume[k] = b.volume[k]
    BY <1>1, <1>6, <2>1
  <2>4. SumFunctionOnSet(f.size, OrdersAt(f, k)) = SumFunctionOnSet(b.size, OrdersAt(b, k))
    BY <1>4, <1>5, <1>6
  <2> QED BY <2>2, <2>3, <2>4 DEF VolumeAt
<1>7. VolumeAt(f, l)
  <2> DEFINE old == SumFunctionOnSet(b.size, OrdersAt(b, l))
  <2>1. SumFunctionOnSet(f.size, OrdersAt(f, l)) = sz + old
    <3>1. /\ IsFiniteSet(OrdersAt(b, l)) /\ f.size[o] = sz
          /\ \A x \in OrdersAt(b, l) : f.size[x] \in Int
      BY <1>1, <1>3, <1>4, OrdersFinite
    <3>2. SumFunctionOnSet(f.size, OrdersAt(b, l) \cup {o})
            = f.size[o] + SumFunctionOnSet(f.size, OrdersAt(b, l))
      BY <1>4, <3>1, SumPut
    <3> QED BY <1>4, <1>5, <3>1, <3>2
  <2>2. CASE b.slots[side][i] = Nil
    <3>1. PICK s : Lists(b, l, s)
      BY <1>1 DEF Good, Listed
    <3>2. Len(s) = 0
      BY <1>1, <2>2, <3>1, ListFacts
    <3>3. OrdersAt(b, l) = {}
      BY <3>1, <3>2 DEF Lists
    <3>4. old = 0
      BY <1>1, <1>4, <3>3, OrdersFinite, SumFacts
    <3>5. f.volume[l] = sz
      BY <1>1, <2>2
    <3> QED BY <2>1, <3>4, <3>5 DEF VolumeAt
  <2>3. CASE b.slots[side][i] # Nil
    <3>1. l \in UsedLimits(b)
      BY <1>1, <2>3, UsedLimitsAre
    <3>2. b.volume[l] = old
      BY <3>1 DEF Volumes, VolumeAt
    <3>3. f.volume[l] = b.volume[l] + sz /\ b.volume[l] \in Int
      BY <1>1, <1>2, <2>3
    <3> HIDE DEF old
    <3> QED BY <2>1, <3>2, <3>3 DEF VolumeAt
  <2> QED BY <2>2, <2>3
<1> QED BY <1>6, <1>7 DEF Volumes

\* cancel_order keeps every level's volume right.
LEMMA CancelVolumes ==
  ASSUME NEW b, Good(b), Volumes(b), NEW c, Good(c), NEW side \in BOOLEAN, NEW id,
         NEW px, NEW l, NEW o, NEW p, NEW n, Removes(b, c, side, id, px, l, o, p, n)
  PROVE  Volumes(c)
<1> DEFINE i == SlotIdx(side, px)
<1>1. /\ BookType(b) /\ BookType(c) /\ px \in MIN..MAX /\ i \in Slots /\ l # Nil
      /\ o \in b.live /\ b.parent[o] = l /\ l \in LimitCells
      /\ c.live = b.live \ {o} /\ c.parent = b.parent /\ c.size = b.size
      /\ b.slots[side][i] = l /\ c.slots[side][i] \in {l, Nil}
      /\ \A s \in BOOLEAN, j \in Slots : s # side \/ j # i => c.slots[s][j] = b.slots[s][j]
      /\ c.volume = [b.volume EXCEPT ![l] = b.volume[l] - b.size[o]]
  BY SlotIdxType, Constants DEF Removes, CancelLinks, Good
<1>2. /\ b.size \in [OrderCells -> Nat] /\ b.live \subseteq OrderCells
      /\ c.slots \in [BOOLEAN -> [Slots -> LimitCells \cup {Nil}]]
      /\ b.volume \in [LimitCells -> Int]
  BY <1>1 DEF BookType
<1> HIDE DEF i
<1>3. /\ OrdersAt(c, l) = OrdersAt(b, l) \ {o} /\ o \in OrdersAt(b, l)
      /\ \A k : k # l => OrdersAt(c, k) = OrdersAt(b, k)
      /\ OrdersAt(b, l) \subseteq b.live
  BY <1>1 DEF OrdersAt
<1>4. ASSUME NEW k \in UsedLimits(c) PROVE k \in UsedLimits(b) /\ k \in LimitCells
  <2>1. PICK s \in BOOLEAN, j \in Slots : k = c.slots[s][j] /\ k # Nil
    BY UsedLimitsAre
  <2>2. k = b.slots[s][j]
    BY <1>1, <2>1
  <2> QED BY <1>2, <2>1, <2>2, UsedLimitsAre
<1>5. ASSUME NEW k \in UsedLimits(c) PROVE VolumeAt(c, k)
  <2>1. b.volume[k] = SumFunctionOnSet(b.size, OrdersAt(b, k))
    BY <1>4 DEF Volumes, VolumeAt
  <2>2. CASE k # l
    <3>1. c.volume[k] = b.volume[k] /\ OrdersAt(c, k) = OrdersAt(b, k)
      BY <1>1, <1>2, <1>3, <1>4, <2>2
    <3> QED BY <1>1, <2>1, <3>1 DEF VolumeAt
  <2>3. CASE k = l
    <3>1. SumFunctionOnSet(b.size, OrdersAt(b, l)) = b.size[o] + SumFunctionOnSet(b.size, OrdersAt(b, l) \ {o})
      <4> DEFINE S == OrdersAt(b, l)
      <4>1. S \subseteq b.live /\ o \in S
        BY <1>3
      <4> HIDE DEF S
      <4>2. IsFiniteSet(S) /\ \A x \in S : b.size[x] \in Int
        BY Zenon, <1>1, <4>1, OrdersFinite
      <4>3. SumFunctionOnSet(b.size, S) = b.size[o] + SumFunctionOnSet(b.size, S \ {o})
        BY Zenon, <4>1, <4>2, SumFacts
      <4> QED BY Zenon, <4>3 DEF S
    <3>2. SumFunctionOnSet(b.size, OrdersAt(b, l) \ {o}) \in Int /\ b.size[o] \in Int
      <4>1. OrdersAt(b, l) \ {o} \subseteq b.live
        BY <1>3
      <4> QED BY <1>1, <1>2, <4>1, OrdersFinite, SumFacts
    <3>3. c.volume[l] = b.volume[l] - b.size[o]
      BY <1>1, <1>2
    <3> DEFINE rest == SumFunctionOnSet(b.size, OrdersAt(b, l) \ {o})
               all == SumFunctionOnSet(b.size, OrdersAt(b, l))
    <3>4. SumFunctionOnSet(c.size, OrdersAt(c, l)) = rest
      BY <1>1, <1>3
    <3>5. all = b.size[o] + rest /\ rest \in Int /\ b.volume[l] = all
      BY <2>1, <2>3, <3>1, <3>2
    <3> HIDE DEF rest, all
    <3>6. c.volume[l] = rest
      BY <3>2, <3>3, <3>5
    <3> QED BY <2>3, <3>4, <3>6 DEF VolumeAt
  <2> QED BY <2>2, <2>3
<1> QED BY <1>5 DEF Volumes

\* An in-place modify keeps every level's volume right.
LEMMA ShrinkVolumes ==
  ASSUME NEW b, Good(b), Volumes(b), NEW c, Good(c), NEW side \in BOOLEAN, NEW id \in Ids,
         RestsOn(b, side, id), NEW o, o = b.lookup[id], NEW l, NEW sz \in Nat,
         Shrinks(b, c, o, l, sz), l = b.parent[o]
  PROVE  Volumes(c)
<1>1. BookType(b) /\ BookType(c) /\ HeapSound(b)
  BY DEF Good
<1>2. /\ o \in OrderCells /\ o \in b.live /\ l \in LimitCells
      /\ l = b.slots[side][SlotIdx(side, b.price[o])]
  BY <1>1, RestingAt
<1>3. /\ b.size \in [OrderCells -> Nat] /\ b.live \subseteq OrderCells
      /\ b.volume \in [LimitCells -> Int]
      /\ c.size = [b.size EXCEPT ![o] = sz]
      /\ c.volume = [b.volume EXCEPT ![l] = b.volume[l] + (sz - b.size[o])]
      /\ c.slots = b.slots /\ c.live = b.live /\ c.parent = b.parent
      /\ b.slots \in [BOOLEAN -> [Slots -> LimitCells \cup {Nil}]]
  BY <1>1 DEF BookType, Shrinks
<1>4. UsedLimits(c) = UsedLimits(b) /\ \A k : OrdersAt(c, k) = OrdersAt(b, k)
  BY <1>3 DEF UsedLimits, OrdersAt
<1>5. UsedLimits(b) \subseteq LimitCells
  BY <1>3 DEF UsedLimits
<1>6. ASSUME NEW k \in UsedLimits(c) PROVE VolumeAt(c, k)
  <2>1. b.volume[k] = SumFunctionOnSet(b.size, OrdersAt(b, k)) /\ k \in LimitCells
    BY <1>4, <1>5 DEF Volumes, VolumeAt
  <2>2. IsFiniteSet(OrdersAt(b, k)) /\ \A x \in OrdersAt(b, k) : b.size[x] \in Int
    BY <1>1, OrdersFinite DEF OrdersAt
  <2>3. CASE k # l
    <3>1. \A x \in OrdersAt(b, k) : x # o /\ c.size[x] = b.size[x]
      BY <1>3, <2>3 DEF OrdersAt
    <3>2. SumFunctionOnSet(c.size, OrdersAt(b, k)) = SumFunctionOnSet(b.size, OrdersAt(b, k))
      BY <2>2, <3>1, SumSame
    <3>3. c.volume[k] = b.volume[k]
      BY <1>3, <2>1, <2>3
    <3> QED BY <1>4, <2>1, <3>2, <3>3 DEF VolumeAt
  <2>4. CASE k = l
    <3> DEFINE S == OrdersAt(b, l)
               T == S \ {o}
    <3>1. o \in S /\ IsFiniteSet(S) /\ IsFiniteSet(T)
      <4>1. o \in S /\ IsFiniteSet(S)
        BY Zenon, <1>2, <2>2, <2>4 DEF OrdersAt
      <4> HIDE DEF S
      <4> QED BY <4>1, FS_RemoveElement
    <3>2. /\ \A x \in S : b.size[x] \in Int /\ c.size[x] \in Int
          /\ \A x \in T : b.size[x] \in Int /\ c.size[x] = b.size[x]
          /\ c.size[o] = sz
      <4>1. \A x \in S : b.size[x] \in Int /\ x \in OrderCells
        BY <1>3, <2>2, <2>4 DEF OrdersAt
      <4>2. \A x \in OrderCells : c.size[x] = IF x = o THEN sz ELSE b.size[x]
        BY Zenon, <1>2, <1>3
      <4>3. \A x \in OrderCells : c.size[x] \in Int
        BY <1>3
      <4> HIDE DEF S
      <4>4. \A x \in S : b.size[x] \in Int /\ c.size[x] \in Int
        BY Zenon, <4>1, <4>3
      <4>5. \A x \in T : x \in S /\ x # o
        OBVIOUS
      <4>6. \A x \in T : b.size[x] \in Int /\ c.size[x] = b.size[x]
        BY Zenon, <4>1, <4>2, <4>5
      <4>7. c.size[o] = sz
        BY Zenon, <1>2, <4>2
      <4> QED BY Zenon, <4>4, <4>6, <4>7
    <3> HIDE DEF S, T
    <3>3. SumFunctionOnSet(b.size, S) = b.size[o] + SumFunctionOnSet(b.size, T)
      BY <3>1, <3>2, SumFacts DEF T
    <3>4. SumFunctionOnSet(c.size, S) = c.size[o] + SumFunctionOnSet(c.size, T)
      BY <3>1, <3>2, SumFacts DEF T
    <3>5. SumFunctionOnSet(c.size, T) = SumFunctionOnSet(b.size, T)
      BY <3>1, <3>2, SumSame
    <3>6. SumFunctionOnSet(b.size, T) \in Int /\ b.size[o] \in Int
      BY <3>1, <3>2, SumFacts
    <3>7. c.volume[l] = b.volume[l] + (sz - b.size[o])
      BY Zenon, <1>2, <1>3
    <3>8. b.volume[l] = SumFunctionOnSet(b.size, S)
      BY <2>1, <2>4 DEF S
    <3> DEFINE rest == SumFunctionOnSet(b.size, T)
    <3>9. c.volume[l] = sz + rest
      <4>1. b.volume[l] = b.size[o] + rest /\ rest \in Int
        BY <3>3, <3>6, <3>8
      <4> HIDE DEF rest
      <4> QED BY <3>6, <3>7, <4>1
    <3>10. SumFunctionOnSet(c.size, S) = sz + rest
      BY <3>2, <3>4, <3>5
    <3> QED BY <1>4, <2>4, <3>9, <3>10 DEF VolumeAt, S
  <2> QED BY <2>3, <2>4
<1> QED BY <1>6 DEF Volumes

\* The same numbers in two orders.
LEMMA SumRenumbered ==
  ASSUME NEW n \in Nat, NEW s, \A j, k \in 1..n : s[j] = s[k] => j = k,
         NEW g, NEW h, \A k \in 1..n : g[s[k]] \in Int /\ h[k] = g[s[k]]
  PROVE  SumFunctionOnSet(h, 1..n) = SumFunctionOnSet(g, {s[k] : k \in 1..n})
<1> DEFINE img(m) == {s[k] : k \in 1..m}
           P == {m \in Nat : m <= n =>
                   /\ IsFiniteSet(1..m) /\ IsFiniteSet(img(m))
                   /\ SumFunctionOnSet(h, 1..m) = SumFunctionOnSet(g, img(m))}
<1>1. 0 \in P
  <2>1. 1..0 = {} /\ img(0) = {}
    OBVIOUS
  <2>2. IsFiniteSet({})
    BY FS_EmptySet
  <2>3. SumFunctionOnSet(h, {}) = 0 /\ SumFunctionOnSet(g, {}) = 0
    BY <2>2, SumFacts
  <2> QED BY <2>1, <2>2, <2>3
<1>3. ASSUME NEW m \in P PROVE m + 1 \in P
  <2> SUFFICES ASSUME m + 1 <= n
               PROVE  /\ IsFiniteSet(1..(m + 1)) /\ IsFiniteSet(img(m + 1))
                      /\ SumFunctionOnSet(h, 1..(m + 1)) = SumFunctionOnSet(g, img(m + 1))
    OBVIOUS
  <2>1. m \in Nat /\ m + 1 \in 1..n /\ m <= n /\ \A k \in 1..m : k \in 1..n /\ k # m + 1
    OBVIOUS
  <2>2. 1..(m + 1) = (1..m) \cup {m + 1} /\ m + 1 \notin 1..m
    BY <2>1
  <2>3. img(m + 1) = img(m) \cup {s[m + 1]} /\ s[m + 1] \notin img(m)
    BY <2>1, <2>2
  <2>4. IsFiniteSet(1..m) /\ IsFiniteSet(img(m))
    BY <2>1
  <2>5. /\ \A k \in 1..m : h[k] \in Int
        /\ h[m + 1] \in Int /\ h[m + 1] = g[s[m + 1]]
        /\ \A x \in img(m) : g[x] \in Int
    BY <2>1
  <2>6. SumFunctionOnSet(h, 1..m) = SumFunctionOnSet(g, img(m))
    BY <2>1
  <2> HIDE DEF img, P
  <2>7. SumFunctionOnSet(h, (1..m) \cup {m + 1}) = h[m + 1] + SumFunctionOnSet(h, 1..m)
    BY <2>2, <2>4, <2>5, SumPut
  <2>8. SumFunctionOnSet(g, img(m) \cup {s[m + 1]}) = g[s[m + 1]] + SumFunctionOnSet(g, img(m))
    BY <2>3, <2>4, <2>5, SumPut
  <2>9. IsFiniteSet((1..m) \cup {m + 1}) /\ IsFiniteSet(img(m) \cup {s[m + 1]})
    BY <2>4, FS_AddElement
  <2>10. SumFunctionOnSet(h, (1..m) \cup {m + 1}) = SumFunctionOnSet(g, img(m) \cup {s[m + 1]})
    BY <2>5, <2>6, <2>7, <2>8
  <2> QED BY Zenon, <2>2, <2>3, <2>9, <2>10
<1>4. P = Nat
  <2> HIDE DEF P
  <2>1. P \subseteq Nat
    BY DEF P
  <2> QED BY <1>1, <1>3, <2>1, NatIsReached
<1>5. n \in P
  <2> HIDE DEF P
  <2> QED BY <1>4
<1> QED BY <1>5

\* Depth is the volume of the queue.
LEMMA DepthIs ==
  ASSUME NEW b, Good(b), Volumes(b), NEW side \in BOOLEAN, NEW px \in MIN..MAX
  PROVE  DepthAt(b, side, px) = Abstract!Volume(QueueAt(b, side, px))
<1> DEFINE l == b.slots[side][SlotIdx(side, px)]
           q == QueueAt(b, side, px)
           h == [k \in DOMAIN q |-> q[k].size]
<1>1. PICK s \in Seq(OrderCells) : Queued(b, side, px, s) /\ q = Shown(b, s)
  BY QueuesAt
<1>2. /\ BookType(b) /\ Len(s) \in Nat /\ DOMAIN q = 1..Len(s) /\ SlotIdx(side, px) \in Slots
      /\ \A k \in 1..Len(s) : q[k] = Entry(b, s[k]) /\ s[k] \in OrderCells
  BY <1>1, ShownType, SlotIdxType DEF Good
<1>3. DOMAIN h = 1..Len(s) /\ \A k \in 1..Len(s) : h[k] = b.size[s[k]]
  BY <1>2 DEF Entry
<1>4. Abstract!Volume(q) = SumFunctionOnSet(h, 1..Len(s))
  <2>1. Abstract!Volume(q) = SumFunctionOnSet(h, DOMAIN h)
    BY Zenon DEF Abstract!Volume, Abstract!SumFunction, Abstract!SumFunctionOnSet,
       Abstract!FoldFunctionOnSet, Abstract!MapThenFoldSet,
       SumFunctionOnSet, FoldFunctionOnSet, MapThenFoldSet
  <2> QED BY Zenon, <1>3, <2>1
<1>5. CASE l = Nil
  <2>1. s = << >> /\ Len(s) = 0
    BY <1>1, <1>5 DEF Queued
  <2>2. 1..Len(s) = {} /\ IsFiniteSet({})
    BY <2>1, FS_EmptySet
  <2>3. SumFunctionOnSet(h, {}) = 0
    BY <2>2, SumFacts
  <2> QED BY Zenon, <1>4, <1>5, <2>2, <2>3 DEF DepthAt
<1>6. CASE l # Nil
  <2>1. Lists(b, l, s)
    BY <1>1, <1>6 DEF Queued
  <2>2. OrdersAt(b, l) = {s[k] : k \in 1..Len(s)} /\ \A j, k \in 1..Len(s) : s[j] = s[k] => j = k
    BY <2>1 DEF Lists
  <2>3. \A k \in 1..Len(s) : b.size[s[k]] \in Int
    <3>1. b.size \in [OrderCells -> Nat]
      BY <1>2 DEF BookType
    <3> QED BY <1>2, <3>1
  <2>4. SumFunctionOnSet(h, 1..Len(s)) = SumFunctionOnSet(b.size, {s[k] : k \in 1..Len(s)})
    <3> DEFINE n == Len(s)
               g == b.size
    <3>1. n \in Nat /\ (\A j, k \in 1..n : s[j] = s[k] => j = k)
      BY <1>2, <2>2
    <3>2. \A k \in 1..n : g[s[k]] \in Int /\ h[k] = g[s[k]]
      BY <1>3, <2>3
    <3> HIDE DEF h, n, g
    <3>3. SumFunctionOnSet(h, 1..n) = SumFunctionOnSet(g, {s[k] : k \in 1..n})
      BY <3>1, <3>2, SumRenumbered
    <3> QED BY <3>3 DEF n, g
  <2>5. l \in UsedLimits(b)
    BY <1>2, <1>6, UsedLimitsAre
  <2>6. b.volume[l] = SumFunctionOnSet(b.size, OrdersAt(b, l))
    BY <2>5 DEF Volumes, VolumeAt
  <2>7. DepthAt(b, side, px) = b.volume[l]
    BY <1>6 DEF DepthAt
  <2> QED BY Zenon, <1>4, <2>2, <2>4, <2>6, <2>7
<1> QED BY <1>5, <1>6

-----------------------------------------------------------------------------
(* The inductive invariant. *)

\* Everything the induction carries about a book.
Whole(b) == Good(b) /\ Volumes(b) /\ PoolsComplete(b)

\* One add: the invariant and the step of PriceTimeBook.
LEMMA AddStep ==
  ASSUME NEW b, Whole(b), NEW side \in BOOLEAN, NEW id \in Ids, NEW px \in MIN..MAX, NEW sz \in Nat,
         HasMemory(b, side, px), NEW f, f = add_order(b, side, id, px, sz)
  PROVE  /\ Whole(f)
         /\ DupAdds \/ b.lookup[id] = Nil => Abstract!Add(Queues(b), Queues(f), side, px, id, sz)
<1>1. /\ Good(b) /\ Volumes(b) /\ PoolsComplete(b)
      /\ BookType(b) /\ HeapSound(b) /\ Ranked(b) /\ BestIsFirst(b) /\ Listed(b)
  BY DEF Whole, Good
<1>2. /\ BookType(f) /\ HeapSound(f) /\ Ranked(f) /\ BestIsFirst(f)
      /\ PoolsComplete(b) => PoolsComplete(f)
  BY <1>1, AddPreserves
<1>3. PICK l \in LimitCells, o \in OrderCells, t \in OrderCells \cup {Nil} :
        Appends(b, f, side, id, px, sz, l, o, t)
  BY <1>1, AddAppends
<1>4. AddLinks(b, f, l, o, t)
  BY <1>3 DEF Appends
<1>5. Listed(f)
  BY <1>1, <1>4, AddListed
<1>6. Good(f)
  BY <1>2, <1>5 DEF Good
<1>7. Volumes(f)
  BY <1>1, <1>3, <1>6, AddVolumes
<1>8. DupAdds \/ b.lookup[id] = Nil => Abstract!Add(Queues(b), Queues(f), side, px, id, sz)
  BY <1>1, <1>3, <1>6, AddRefines
<1> QED BY <1>1, <1>2, <1>6, <1>7, <1>8 DEF Whole

\* One cancel of a resting order: the invariant and the step of PriceTimeBook.
LEMMA CancelStep ==
  ASSUME NEW b, Whole(b), NEW side \in BOOLEAN, NEW id \in Ids, RestsOn(b, side, id),
         NEW o, o = b.lookup[id], NEW c, c = cancel_order(b, side, id)
  PROVE  /\ Whole(c) /\ b.price[o] \in MIN..MAX
         /\ \E l, p, n : Removes(b, c, side, id, b.price[o], l, o, p, n)
         /\ Abstract!Cancel(Queues(b), Queues(c), side, b.price[o], id)
<1>1. /\ Good(b) /\ Volumes(b) /\ PoolsComplete(b)
      /\ BookType(b) /\ HeapSound(b) /\ Ranked(b) /\ BestIsFirst(b) /\ Listed(b)
  BY DEF Whole, Good
<1>2. /\ BookType(c) /\ HeapSound(c) /\ Ranked(c) /\ BestIsFirst(c)
      /\ PoolsComplete(b) => PoolsComplete(c)
  BY <1>1, CancelPreserves
<1>3. PICK l, p, n : Removes(b, c, side, id, b.price[o], l, o, p, n)
  BY <1>1, CancelRemoves
<1>4. CancelLinks(b, c, l, o, p, n) /\ b.price[o] \in MIN..MAX
  BY <1>3 DEF Removes
<1>5. Listed(c)
  BY <1>1, <1>4, CancelListed
<1>6. Good(c)
  BY <1>2, <1>5 DEF Good
<1>7. Volumes(c)
  BY <1>1, <1>3, <1>6, CancelVolumes
<1>8. \E k \in Abstract!Known(Queues(b)[side][b.price[o]], id) :
        /\ Queues(b)[side][b.price[o]][k].size = b.size[o]
        /\ Queues(c) = Abstract!Without(Queues(b), side, b.price[o], k)
  BY <1>1, <1>3, <1>6, CancelQueues
<1>9. Abstract!Cancel(Queues(b), Queues(c), side, b.price[o], id)
  BY Zenon, <1>8 DEF Abstract!Cancel
<1> QED BY <1>1, <1>2, <1>3, <1>4, <1>6, <1>7, <1>9 DEF Whole

\* One modify by cancel and add: the invariant and the step of PriceTimeBook.
LEMMA ReplaceStep ==
  ASSUME NEW b, Whole(b), NEW side \in BOOLEAN, NEW id \in Ids, RestsOn(b, side, id),
         NEW o, o = b.lookup[id], NEW c, c = cancel_order(b, side, id),
         NEW px \in MIN..MAX, NEW sz \in Nat, HasMemory(c, side, px),
         Replaces(b, id, px, sz), NEW f, f = add_order(c, side, id, px, sz)
  PROVE  /\ Whole(f) /\ b.price[o] \in MIN..MAX
         /\ Abstract!Replace(Queues(b), Queues(f), side, b.price[o], id, px, sz)
<1>1. /\ Whole(c) /\ b.price[o] \in MIN..MAX
      /\ \E l, p, n : Removes(b, c, side, id, b.price[o], l, o, p, n)
  BY CancelStep
<1>2. Whole(f)
  BY <1>1, AddStep
<1>3. /\ Good(b) /\ Good(c) /\ Good(f)
      /\ BookType(c) /\ HeapSound(c) /\ Ranked(c) /\ BestIsFirst(c)
  BY <1>1, <1>2 DEF Whole, Good
<1>4. PICK l, p, n : Removes(b, c, side, id, b.price[o], l, o, p, n)
  BY <1>1
<1>5. PICK m \in LimitCells, u \in OrderCells, t \in OrderCells \cup {Nil} :
        Appends(c, f, side, id, px, sz, m, u, t)
  BY <1>3, AddAppends
<1>6. b.price[o] # px \/ sz > b.size[o]
  BY DEF Replaces
<1>7. Abstract!Replace(Queues(b), Queues(f), side, b.price[o], id, px, sz)
  BY <1>3, <1>4, <1>5, <1>6, ReplaceRefines
<1> QED BY <1>1, <1>2, <1>7

\* One modify in place: the invariant and the step of PriceTimeBook.
LEMMA ShrinkStep ==
  ASSUME NEW b, Whole(b), NEW side \in BOOLEAN, NEW id \in Ids, RestsOn(b, side, id),
         NEW o, o = b.lookup[id], NEW px, NEW sz \in Nat, ~Replaces(b, id, px, sz),
         NEW c, c = modify_order(b, side, id, px, sz)
  PROVE  /\ Whole(c) /\ b.price[o] \in MIN..MAX
         /\ \/ Queues(c) = Queues(b)
            \/ Abstract!Reduce(Queues(b), Queues(c), side, b.price[o], id, sz)
<1> DEFINE l == b.parent[o]
<1>1. /\ Good(b) /\ Volumes(b) /\ PoolsComplete(b)
      /\ BookType(b) /\ HeapSound(b) /\ Ranked(b) /\ BestIsFirst(b) /\ Listed(b)
  BY DEF Whole, Good
<1>2. b.lookup[id] # Nil /\ o # Nil
  BY DEF RestsOn
<1>3. /\ BookType(c) /\ HeapSound(c) /\ Ranked(c) /\ BestIsFirst(c)
      /\ PoolsComplete(b) => PoolsComplete(c)
  BY <1>1, <1>2, ShrinkPreserves
<1>4. Shrinks(b, c, o, l, sz)
  BY <1>1, <1>2, ModifyShrinks
<1>5. Listed(c)
  <2> HIDE DEF l
  <2> QED BY <1>1, <1>4, ShrinkListed
<1>6. Good(c)
  BY <1>3, <1>5 DEF Good
<1>7. Volumes(c)
  BY <1>1, <1>4, <1>6, ShrinkVolumes
<1>8. o \in OrderCells /\ b.price[o] \in MIN..MAX
  BY <1>1, RestingAt
<1>9. sz <= b.size[o]
  <2>1. b.size[o] \in Nat
    BY <1>1, <1>8 DEF BookType
  <2>2. ~(sz > b.size[o])
    BY DEF Replaces
  <2> QED BY <2>1, <2>2
<1>10. \/ Queues(c) = Queues(b)
       \/ Abstract!Reduce(Queues(b), Queues(c), side, b.price[o], id, sz)
  BY <1>1, <1>4, <1>6, <1>9, ShrinkQueues
<1> QED BY <1>1, <1>3, <1>6, <1>7, <1>8, <1>10 DEF Whole

\* One message.
LEMMA MessageStep ==
  ASSUME Whole(book), NEW m \in Messages, FeedContract(m), process_msg(m)
  PROVE  /\ Whole(book')
         /\ Queues(book') = Queues(book) \/ Abstract!Changes(Queues(book), Queues(book'))
<1> DEFINE o == book.lookup[m.id]
<1>1. /\ m.side \in BOOLEAN /\ m.id \in Ids /\ m.price \in FeedPrices /\ m.size \in Nat
      /\ m.action \in {"A", "M"} => m.size \in FeedSizes
  <2>1. FeedSizes \subseteq Nat
    BY BookAssumption DEF BookAssumption
  <2>2. CASE m \in [action : {"A", "M"}, side : BOOLEAN, id : Ids,
                    price : FeedPrices, size : FeedSizes]
    BY <2>1, <2>2
  <2>3. CASE m \in [action : {"C", "T"}, side : BOOLEAN, id : Ids,
                    price : FeedPrices, size : {0}]
    BY <2>3
  <2> QED BY <2>2, <2>3 DEF Messages
<1>2. Accepted(m.price) => m.price \in MIN..MAX
  BY <1>1, BookAssumption DEF BookAssumption
<1>3. ASSUME m.action \in {"M", "C"}, book.lookup[m.id] # Nil
      PROVE  RestsOn(book, m.side, m.id)
  BY <1>3 DEF FeedContract, RestsOn
<1>4. CASE Ignore(m)
  BY <1>4 DEF Ignore
<1>5. ASSUME m.price \in MIN..MAX, m.size \in FeedSizes, DupAdds \/ o = Nil,
             HasMemory(book, m.side, m.price),
             book' = add_order(book, m.side, m.id, m.price, m.size)
      PROVE  Whole(book') /\ Abstract!Changes(Queues(book), Queues(book'))
  <2>1. Whole(book') /\ Abstract!Add(Queues(book), Queues(book'), m.side, m.price, m.id, m.size)
    BY <1>1, <1>5, AddStep
  <2> QED BY <1>1, <1>5, <2>1 DEF Abstract!Changes
<1>6. CASE AddOrder(m)
  <2>1. o # Nil => DupAdds
    BY <1>6 DEF AddOrder, FeedContract
  <2> QED BY <1>1, <1>2, <1>5, <1>6, <2>1 DEF AddOrder
<1>7. CASE CancelOrder(m)
  <2>1. CASE o = Nil
    BY <1>7, <2>1 DEF CancelOrder, cancel_order
  <2>2. CASE o # Nil
    <3>1. RestsOn(book, m.side, m.id)
      BY <1>3, <1>7, <2>2 DEF CancelOrder
    <3>2. /\ Whole(book') /\ book.price[o] \in MIN..MAX
          /\ Abstract!Cancel(Queues(book), Queues(book'), m.side, book.price[o], m.id)
      BY <1>1, <1>7, <3>1, CancelStep DEF CancelOrder
    <3> QED BY <1>1, <3>2 DEF Abstract!Changes
  <2> QED BY <2>1, <2>2
<1>8. CASE ModifyOrder(m)
  <2>1. m.action = "M" /\ m.price \in MIN..MAX /\ m.size \in FeedSizes
    BY <1>1, <1>2, <1>8 DEF ModifyOrder
  <2>2. CASE o = Nil
    <3>1. cancel_order(book, m.side, m.id) = book
      BY <2>2 DEF cancel_order
    <3>2. /\ HasMemory(book, m.side, m.price)
          /\ book' = add_order(book, m.side, m.id, m.price, m.size)
      BY <1>8, <2>2, <3>1 DEF ModifyOrder, modify_order
    <3> QED BY <1>5, <2>1, <2>2, <3>2
  <2>3. CASE o # Nil /\ Replaces(book, m.id, m.price, m.size)
    <3> DEFINE c == cancel_order(book, m.side, m.id)
    <3>1. RestsOn(book, m.side, m.id)
      BY <1>3, <2>1, <2>3
    <3>2. HasMemory(c, m.side, m.price) /\ book' = add_order(c, m.side, m.id, m.price, m.size)
      BY <1>8, <2>3 DEF ModifyOrder, modify_order
    <3> HIDE DEF c
    <3>3. /\ Whole(book') /\ book.price[o] \in MIN..MAX
          /\ Abstract!Replace(Queues(book), Queues(book'), m.side, book.price[o], m.id,
                              m.price, m.size)
      BY <1>1, <2>1, <2>3, <3>1, <3>2, ReplaceStep DEF c
    <3> QED BY <1>1, <2>1, <3>3 DEF Abstract!Changes
  <2>4. CASE o # Nil /\ ~Replaces(book, m.id, m.price, m.size)
    <3>1. RestsOn(book, m.side, m.id)
      BY <1>3, <2>1, <2>4
    <3>2. book' = modify_order(book, m.side, m.id, m.price, m.size)
      BY <1>8 DEF ModifyOrder
    <3>3. /\ Whole(book') /\ book.price[o] \in MIN..MAX
          /\ \/ Queues(book') = Queues(book)
             \/ Abstract!Reduce(Queues(book), Queues(book'), m.side, book.price[o], m.id, m.size)
      BY <1>1, <2>4, <3>1, <3>2, ShrinkStep
    <3> QED BY <1>1, <2>1, <3>3 DEF Abstract!Changes
  <2> QED BY <2>2, <2>3, <2>4
<1> QED BY <1>4, <1>6, <1>7, <1>8 DEF process_msg

\* The inductive invariant. MemorySafe alone says what the links of a cell agree
\* with, not that following next_ from head_ meets every order of the level; Listed
\* says so, and the queues and the volumes of a level are stated over that list.
QueueInv == TypeOK /\ MemorySafe /\ BestIsTopOfBook /\ Ranked(book) /\ Listed(book)
        /\ Volumes(book) /\ NothingLeaks

\* The invariant is the predicate on books that the method lemmas carry.
LEMMA InvariantIsWhole == QueueInv <=> Whole(book)
BY DEF QueueInv, Whole, Good, TypeOK, MemorySafe, BestIsTopOfBook, NothingLeaks

\* The same in the next state.
LEMMA InvariantIsWholeNext == QueueInv' <=> Whole(book')
BY DEF QueueInv, Whole, Good, TypeOK, MemorySafe, BestIsTopOfBook, NothingLeaks,
   Ranked, Listed, Volumes, Lists, OrdersAt, VolumeAt

\* A new book satisfies it: every level lists no order.
LEMMA QueuesInit == Init => QueueInv
<1> SUFFICES ASSUME Init PROVE QueueInv
  OBVIOUS
<1>1. TypeOK /\ MemorySafe /\ BestIsTopOfBook /\ Ranked(book) /\ NothingLeaks
  BY InitHolds DEF IInv
<1>2. /\ book.slots = [s \in BOOLEAN |-> [j \in Slots |-> Nil]] /\ book.live = {}
      /\ book.head = [l \in LimitCells |-> Nil]
  BY DEF Init
<1>3. Listed(book)
  <2> SUFFICES ASSUME NEW l \in LimitCells PROVE Lists(book, l, << >>)
    BY DEF Listed
  <2>1. << >> \in Seq(OrderCells) /\ Len(<< >>) = 0 /\ book.head[l] = Nil
    BY <1>2
  <2>2. 1..Len(<< >>) = {} /\ OrdersAt(book, l) = {}
    BY <1>2, <2>1 DEF OrdersAt
  <2> QED BY <2>1, <2>2 DEF Lists
<1>4. Volumes(book)
  BY <1>2 DEF Volumes, UsedLimits
<1> QED BY <1>1, <1>3, <1>4 DEF QueueInv

\* Every call of process_msg that the feed may cause preserves the invariant, and
\* is a step of PriceTimeBook or changes no queue.
LEMMA StepRefines ==
  QueueInv /\ [Next]_vars => /\ QueueInv'
                          /\ \/ Queues(book') = Queues(book)
                             \/ Abstract!Changes(Queues(book), Queues(book'))
<1> SUFFICES ASSUME QueueInv, [Next]_vars
             PROVE  /\ QueueInv'
                    /\ \/ Queues(book') = Queues(book)
                       \/ Abstract!Changes(Queues(book), Queues(book'))
  OBVIOUS
<1>1. Whole(book)
  BY InvariantIsWhole
<1>2. SUFFICES /\ Whole(book')
               /\ \/ Queues(book') = Queues(book)
                  \/ Abstract!Changes(Queues(book), Queues(book'))
  BY InvariantIsWholeNext
<1>3. CASE UNCHANGED vars
  BY <1>1, <1>3 DEF vars
<1>4. CASE Next
  BY <1>1, <1>4, MessageStep DEF Next
<1> QED BY <1>3, <1>4

\* The inductive invariant holds in every reachable state.
THEOREM QueuesInductive == Spec => []QueueInv
<1>1. QueueInv /\ [Next]_vars => QueueInv'
  BY StepRefines
<1> QED BY <1>1, QueuesInit, PTL DEF Spec

\* For every window, pool and feed, the slots, intrusive lists and lookup table
\* implement price-time priority: every message that process_msg handles appends an
\* order last in the queue of its price, takes one out, shrinks one in place or moves
\* one to the back of a queue, and no queue changes otherwise, whatever cells and
\* levels the pools recycle.
THEOREM AlwaysPriceTimeBook == Spec => ImplementsPriceTimeBook
<1> DEFINE q == [s \in BOOLEAN |-> [px \in MIN..MAX |-> QueueAt(book, s, px)]]
<1>1. Init => Abstract!Init
  <2> SUFFICES ASSUME Init PROVE Abstract!Init
    OBVIOUS
  <2>1. book.slots = [s \in BOOLEAN |-> [j \in Slots |-> Nil]]
    BY DEF Init
  <2>2. ASSUME NEW s \in BOOLEAN, NEW px \in MIN..MAX PROVE QueueAt(book, s, px) = << >>
    BY <2>1, SlotIdxType DEF QueueAt
  <2> QED BY <2>2 DEF Abstract!Init
<1>2. QueueInv /\ [Next]_vars => [Abstract!Next]_q
  <2> SUFFICES ASSUME QueueInv, [Next]_vars PROVE [Abstract!Next]_q
    OBVIOUS
  <2>1. \/ Queues(book') = Queues(book)
        \/ Abstract!Changes(Queues(book), Queues(book'))
    BY StepRefines
  <2>2. Queues(book) = q
    BY DEF Queues
  <2>3. Queues(book') = q'
    BY DEF Queues, QueueAt, LevelQueue
  <2>4. CASE q' = q
    BY <2>4
  <2>5. CASE q' # q
    <3>1. Abstract!Changes(q, q')
      BY <2>1, <2>2, <2>3, <2>5
    <3> QED BY <2>5, <3>1 DEF Abstract!Next
  <2> QED BY <2>4, <2>5
<1> QED BY <1>1, <1>2, QueuesInductive, PTL DEF Spec, ImplementsPriceTimeBook, Abstract!Spec

\* A level that is in the book shows at least one order, and no other does.
LEMMA OccupiedIs ==
  ASSUME NEW b, Good(b), NEW s \in BOOLEAN, NEW px \in MIN..MAX
  PROVE  QueueAt(b, s, px) # << >> <=> b.slots[s][SlotIdx(s, px)] # Nil
<1> DEFINE l == b.slots[s][SlotIdx(s, px)]
<1>1. CASE l = Nil
  BY <1>1 DEF QueueAt
<1>2. CASE l # Nil
  <2>1. PICK x \in Seq(OrderCells) : Queued(b, s, px, x) /\ QueueAt(b, s, px) = Shown(b, x)
    BY QueuesAt
  <2>2. BookType(b) /\ HeapSound(b) /\ SlotIdx(s, px) \in Slots
    BY SlotIdxType DEF Good
  <2>3. b.head[l] \in b.live /\ b.live \subseteq OrderCells
    BY <1>2, <2>2, LevelAt DEF BookType
  <2>4. Len(x) # 0
    BY <1>2, <2>1, <2>3, Constants DEF Queued, Lists
  <2>5. Len(Shown(b, x)) = Len(x) /\ Len(<< >>) = 0
    BY <2>1, <2>2, ShownType
  <2> QED BY <1>2, <2>1, <2>4, <2>5
<1> QED BY <1>1, <1>2

\* The largest and the smallest of a set are the ones it has.
LEMMA MaxIs ==
  ASSUME NEW S, S \subseteq Int, NEW m \in S, \A x \in S : x <= m
  PROVE  Abstract!Max(S) = m
<1>1. m >= m /\ \A y \in S : m >= y
  OBVIOUS
<1> DEFINE P(x) == x \in S /\ \A y \in S : x >= y
<1>2. \A x : P(x) => x = m
  OBVIOUS
<1> QED BY <1>1, <1>2 DEF Abstract!Max

\* The least element of a set.
LEMMA MinIs ==
  ASSUME NEW S, S \subseteq Int, NEW m \in S, \A x \in S : m <= x
  PROVE  Abstract!Min(S) = m
<1>1. \A y \in S : m <= y
  OBVIOUS
<1> DEFINE P(x) == x \in S /\ \A y \in S : x <= y
<1>2. \A x : P(x) => x = m
  OBVIOUS
<1> QED BY <1>1, <1>2 DEF Abstract!Min

\* best_bid and best_ask are the best prices of the abstract book.
LEMMA QuotesAre ==
  ASSUME NEW b, Good(b)
  PROVE  /\ best_bid(b) = Abstract!BestPrice(Queues(b), TRUE)
         /\ best_ask(b) = Abstract!BestPrice(Queues(b), FALSE)
<1> DEFINE quoted(s) == {px \in MIN..MAX : Queues(b)[s][px] # << >>}
<1>1. /\ BestIsFirst(b) /\ Slots = 0..(RANGE - 1) /\ RANGE = MAX - MIN + 1
      /\ MIN \in Int /\ MAX \in Int
      /\ \A s \in BOOLEAN : b.best[s] \in 0..RANGE
  BY Constants DEF Good, BookType, Slots
<1>2. \A s \in BOOLEAN : quoted(s) = {px \in MIN..MAX : b.slots[s][SlotIdx(s, px)] # Nil}
  BY OccupiedIs, QueuesAt
<1> HIDE DEF quoted
<1>3. \A s \in BOOLEAN, px \in MIN..MAX :
        b.slots[s][SlotIdx(s, px)] # Nil => b.best[s] <= SlotIdx(s, px)
  <2> SUFFICES ASSUME NEW s \in BOOLEAN, NEW px \in MIN..MAX,
                      ~(b.best[s] <= SlotIdx(s, px))
               PROVE  b.slots[s][SlotIdx(s, px)] = Nil
    OBVIOUS
  <2>1. SlotIdx(s, px) \in Slots
    BY SlotIdxType
  <2>2. SlotIdx(s, px) < b.best[s]
    BY <1>1, <2>1
  <2> QED BY <1>1, <2>1, <2>2 DEF BestIsFirst
<1>4. \A s \in BOOLEAN : b.best[s] < RANGE => b.slots[s][b.best[s]] # Nil
  BY <1>1 DEF BestIsFirst
<1>5. best_bid(b) = Abstract!BestPrice(Queues(b), TRUE)
  <2> DEFINE k == b.best[TRUE]
             Q == quoted(TRUE)
  <2>1. k \in 0..RANGE /\ \A px \in Q : px \in MIN..MAX /\ k <= MAX - px
    BY <1>1, <1>2, <1>3 DEF SlotIdx, get_bid_idx
  <2>2. k < RANGE => MAX - k \in Q
    <3> SUFFICES ASSUME k < RANGE PROVE MAX - k \in Q
      OBVIOUS
    <3>1. MAX - k \in MIN..MAX /\ MAX - (MAX - k) = k
      <4> HIDE DEF k
      <4> QED BY <1>1, <2>1
    <3>2. b.slots[TRUE][SlotIdx(TRUE, MAX - k)] # Nil
      BY <1>4, <3>1 DEF SlotIdx, get_bid_idx
    <3> QED BY <1>2, <3>1, <3>2
  <2>3. Abstract!BestPrice(Queues(b), TRUE) = IF Q = {} THEN 0 ELSE Abstract!Max(Q)
    BY Zenon DEF Abstract!BestPrice, quoted
  <2>4. best_bid(b) = IF k >= RANGE THEN 0 ELSE MAX - k
    BY DEF best_bid
  <2> HIDE DEF k, Q
  <2>5. CASE k >= RANGE
    <3>1. Q = {}
      BY <1>1, <2>1, <2>5
    <3> QED BY <2>3, <2>4, <2>5, <3>1
  <2>6. CASE ~(k >= RANGE)
    <3>1. k < RANGE /\ MAX - k \in Q
      BY <1>1, <2>1, <2>2, <2>6
    <3>2. Q \subseteq Int /\ \A x \in Q : x <= MAX - k
      BY <1>1, <2>1
    <3>3. Abstract!Max(Q) = MAX - k
      BY <3>1, <3>2, MaxIs
    <3> QED BY <2>3, <2>4, <2>6, <3>1, <3>3
  <2> QED BY <2>5, <2>6
<1>6. best_ask(b) = Abstract!BestPrice(Queues(b), FALSE)
  <2> DEFINE k == b.best[FALSE]
             Q == quoted(FALSE)
  <2>1. k \in 0..RANGE /\ \A px \in Q : px \in MIN..MAX /\ k <= px - MIN
    BY <1>1, <1>2, <1>3 DEF SlotIdx, get_ask_idx
  <2>2. k < RANGE => MIN + k \in Q
    <3> SUFFICES ASSUME k < RANGE PROVE MIN + k \in Q
      OBVIOUS
    <3>1. MIN + k \in MIN..MAX /\ (MIN + k) - MIN = k
      <4> HIDE DEF k
      <4> QED BY <1>1, <2>1
    <3>2. b.slots[FALSE][SlotIdx(FALSE, MIN + k)] # Nil
      BY <1>4, <3>1 DEF SlotIdx, get_ask_idx
    <3> QED BY <1>2, <3>1, <3>2
  <2>3. Abstract!BestPrice(Queues(b), FALSE) = IF Q = {} THEN 0 ELSE Abstract!Min(Q)
    BY Zenon DEF Abstract!BestPrice, quoted
  <2>4. best_ask(b) = IF k >= RANGE THEN 0 ELSE MIN + k
    BY DEF best_ask
  <2> HIDE DEF k, Q
  <2>5. CASE k >= RANGE
    <3>1. Q = {}
      BY <1>1, <2>1, <2>5
    <3> QED BY <2>3, <2>4, <2>5, <3>1
  <2>6. CASE ~(k >= RANGE)
    <3>1. k < RANGE /\ MIN + k \in Q
      BY <1>1, <2>1, <2>2, <2>6
    <3>2. Q \subseteq Int /\ \A x \in Q : MIN + k <= x
      BY <1>1, <2>1
    <3>3. Abstract!Min(Q) = MIN + k
      BY <3>1, <3>2, MinIs
    <3> QED BY <2>3, <2>4, <2>6, <3>1, <3>3
  <2> QED BY <2>5, <2>6
<1> QED BY <1>5, <1>6

\* The quotes a strategy reads (best_bid, best_ask, and those taken from the Limit
\* at the top) are, in every reachable state, the best prices at which the queues of
\* the price-time book hold an order, or 0 on an empty side.
THEOREM ReadersAlwaysSeeTheQueues == Spec => []ReadersSeeTheQueues
<1>1. QueueInv /\ QuotesAgree => ReadersSeeTheQueues
  <2> SUFFICES ASSUME QueueInv, QuotesAgree PROVE ReadersSeeTheQueues
    OBVIOUS
  <2>1. Good(book) /\ Volumes(book)
    BY InvariantIsWhole DEF Whole
  <2>2. /\ best_bid(book) = Abstract!BestPrice(Queues(book), TRUE)
        /\ best_ask(book) = Abstract!BestPrice(Queues(book), FALSE)
    BY Zenon, <2>1, QuotesAre
  <2>3. ASSUME NEW s \in BOOLEAN, NEW px \in MIN..MAX
        PROVE  DepthAt(book, s, px) = Abstract!Volume(Queues(book)[s][px])
    <3>1. Queues(book)[s][px] = QueueAt(book, s, px)
      BY QueuesForm
    <3>2. DepthAt(book, s, px) = Abstract!Volume(QueueAt(book, s, px))
      BY <2>1, DepthIs
    <3> QED BY Zenon, <3>1, <3>2
  <2>4. /\ get_best_bid_price(book) = best_bid(book)
        /\ get_best_ask_price(book) = best_ask(book)
    BY DEF QuotesAgree
  <2> DEFINE q == [s \in BOOLEAN |-> [px \in MIN..MAX |-> QueueAt(book, s, px)]]
  <2>5. q = Queues(book)
    BY DEF Queues
  <2> HIDE DEF q
  <2>6. \A s \in BOOLEAN, px \in MIN..MAX : DepthAt(book, s, px) = Abstract!Volume(q[s][px])
    BY <2>3, <2>5
  <2> QED BY Zenon, <2>2, <2>4, <2>5, <2>6 DEF ReadersSeeTheQueues, q
<1> QED BY <1>1, QueuesInductive, QuotesAlwaysAgree, PTL

-----------------------------------------------------------------------------
(* The signals: sums of sizes near the top of the book. *)

\* A sum over two sets with nothing in common.
LEMMA SumUnion ==
  ASSUME NEW S, IsFiniteSet(S), NEW T, IsFiniteSet(T), S \cap T = {},
         NEW f, \A x \in S \cup T : f[x] \in Int
  PROVE  SumFunctionOnSet(f, S \cup T) = SumFunctionOnSet(f, S) + SumFunctionOnSet(f, T)
<1> DEFINE sum(U) == SumFunctionOnSet(f, U)
           P == {n \in Nat : \A U \in SUBSET T :
                               Cardinality(U) = n => sum(S \cup U) = sum(S) + sum(U)}
<1>1. \A U \in SUBSET T : /\ IsFiniteSet(U) /\ Cardinality(U) \in Nat
                          /\ Cardinality(U) = 0 <=> U = {}
                          /\ \A y \in U : Cardinality(U \ {y}) = Cardinality(U) - 1
  BY FS_Subset, FS_CardinalityType, FS_EmptySet, FS_RemoveElement
<1>2. \A U \in SUBSET T : IsFiniteSet(S \cup U)
  BY <1>1, FS_Union
<1>3. \A U \in SUBSET T : sum(U) \in Int /\ \A y \in U : sum(U) = f[y] + sum(U \ {y})
  BY <1>1, SumFacts
<1>4. ASSUME NEW U \in SUBSET T, NEW y \in U
      PROVE  sum(S \cup U) = f[y] + sum(S \cup (U \ {y}))
  <2>1. (S \cup U) \ {y} = S \cup (U \ {y}) /\ y \in S \cup U
    OBVIOUS
  <2>2. \A x \in S \cup U : f[x] \in Int
    OBVIOUS
  <2>3. IsFiniteSet(S \cup U)
    BY <1>2
  <2>4. sum(S \cup U) = f[y] + sum((S \cup U) \ {y})
    BY <2>1, <2>2, <2>3, SumFacts
  <2> QED BY <2>1, <2>4
<1>5. sum(S) \in Int
  BY SumFacts
<1>6. 0 \in P
  <2>1. sum({}) = 0
    BY <1>1, SumFacts
  <2>2. \A U \in SUBSET T : Cardinality(U) = 0 => S \cup U = S /\ U = {}
    BY <1>1
  <2> HIDE DEF sum
  <2> QED BY <1>5, <2>1, <2>2
<1>7. ASSUME NEW n \in P PROVE n + 1 \in P
  <2>1. SUFFICES ASSUME NEW U \in SUBSET T, Cardinality(U) = n + 1
                 PROVE  sum(S \cup U) = sum(S) + sum(U)
    OBVIOUS
  <2>2. PICK y \in U : TRUE
    BY <1>1, <2>1
  <2> DEFINE V == U \ {y}
  <2>3. V \in SUBSET T /\ Cardinality(V) = n
    BY <1>1, <2>1
  <2>4. sum(S \cup V) = sum(S) + sum(V)
    <3>1. \A W \in SUBSET T : Cardinality(W) = n => sum(S \cup W) = sum(S) + sum(W)
      OBVIOUS
    <3> HIDE DEF sum, V
    <3> QED BY <2>3, <3>1
  <2>5. /\ sum(S \cup U) = f[y] + sum(S \cup V) /\ sum(U) = f[y] + sum(V)
        /\ f[y] \in Int /\ sum(V) \in Int
    BY <1>3, <1>4
  <2> HIDE DEF sum, V
  <2> QED BY <1>5, <2>4, <2>5
<1>8. P = Nat
  <2> HIDE DEF P
  <2>1. P \subseteq Nat
    BY DEF P
  <2> QED BY <1>6, <1>7, <2>1, NatIsReached
<1>9. T \in SUBSET T /\ Cardinality(T) \in P
  <2>1. Cardinality(T) \in Nat
    BY <1>1
  <2> HIDE DEF P
  <2> QED BY <1>8, <2>1
<1> QED BY <1>9

\* Nothing negative adds up to nothing negative.
LEMMA SumNat ==
  ASSUME NEW S, IsFiniteSet(S), NEW f, \A x \in S : f[x] \in Nat
  PROVE  SumFunctionOnSet(f, S) \in Nat
<1> DEFINE sum(U) == SumFunctionOnSet(f, U)
           P == {n \in Nat : \A U \in SUBSET S : Cardinality(U) = n => sum(U) \in Nat}
<1>1. \A U \in SUBSET S : /\ IsFiniteSet(U) /\ Cardinality(U) \in Nat
                          /\ Cardinality(U) = 0 <=> U = {}
                          /\ \A y \in U : Cardinality(U \ {y}) = Cardinality(U) - 1
  BY FS_Subset, FS_CardinalityType, FS_EmptySet, FS_RemoveElement
<1>2. \A U \in SUBSET S : \A y \in U : sum(U) = f[y] + sum(U \ {y})
  <2>1. \A x \in S : f[x] \in Int
    OBVIOUS
  <2> QED BY Zenon, <1>1, <2>1, SumFacts
<1>3. 0 \in P
  <2>1. sum({}) = 0
    BY <1>1, SumFacts
  <2> HIDE DEF sum
  <2> QED BY <1>1, <2>1
<1>4. ASSUME NEW n \in P PROVE n + 1 \in P
  <2>1. SUFFICES ASSUME NEW U \in SUBSET S, Cardinality(U) = n + 1
                 PROVE  sum(U) \in Nat
    OBVIOUS
  <2>2. PICK y \in U : TRUE
    BY <1>1, <2>1
  <2>3. U \ {y} \in SUBSET S /\ Cardinality(U \ {y}) = n
    BY <1>1, <2>1
  <2>4. sum(U) = f[y] + sum(U \ {y}) /\ f[y] \in Nat
    BY <1>2
  <2> HIDE DEF sum
  <2> QED BY <2>3, <2>4
<1>5. P = Nat
  <2> HIDE DEF P
  <2>1. P \subseteq Nat
    BY DEF P
  <2> QED BY <1>3, <1>4, <2>1, NatIsReached
<1>6. S \in SUBSET S /\ Cardinality(S) \in P
  <2>1. Cardinality(S) \in Nat
    BY <1>1
  <2> HIDE DEF P
  <2> QED BY <1>5, <2>1
<1> QED BY <1>6

-----------------------------------------------------------------------------
\* The orders of side s whose price has slot i.
AtSlot(b, s, i) == {o \in On(b, s) : SlotIdx(s, b.price[o]) = i}

\* A resting order lies at the slot of its side and price.
LEMMA PlaceOf ==
  ASSUME NEW b, Good(b), NEW s \in BOOLEAN, NEW o \in On(b, s)
  PROVE  /\ o \in OrderCells /\ o \in b.live /\ b.side[o] = s /\ b.price[o] \in MIN..MAX
         /\ SlotIdx(s, b.price[o]) \in Slots
         /\ b.parent[o] = b.slots[s][SlotIdx(s, b.price[o])] /\ b.parent[o] # Nil
<1>1. BookType(b) /\ HeapSound(b) /\ o \in b.live /\ b.side[o] = s
  BY DEF Good, On
<1>2. o \in OrderCells /\ b.price[o] \in MIN..MAX
  BY <1>1 DEF BookType
<1>3. OrdersLinked(b)
  BY <1>1 DEF HeapSound
<1>4. b.parent[o] = b.slots[s][SlotIdx(s, b.price[o])] /\ b.parent[o] # Nil
  BY <1>1, <1>3 DEF OrdersLinked
<1> QED BY <1>1, <1>2, <1>4, SlotIdxType

\* The orders at a slot are those whose parent_ is its level.
LEMMA OrdersAtSlot ==
  ASSUME NEW b, Good(b), NEW s \in BOOLEAN, NEW i \in Slots
  PROVE  AtSlot(b, s, i) = IF b.slots[s][i] = Nil THEN {} ELSE OrdersAt(b, b.slots[s][i])
<1> DEFINE l == b.slots[s][i]
<1>1. ASSUME NEW o \in AtSlot(b, s, i) PROVE l # Nil /\ o \in OrdersAt(b, l)
  BY PlaceOf DEF AtSlot, OrdersAt
<1>2. ASSUME l # Nil, NEW o \in OrdersAt(b, l) PROVE o \in AtSlot(b, s, i)
  <2>1. o \in b.live /\ b.parent[o] = l /\ HeapSound(b) /\ b.side[o] \in BOOLEAN
    BY DEF OrdersAt, Good, BookType
  <2>2. o \in On(b, b.side[o])
    BY <2>1 DEF On
  <2> DEFINE r == b.side[o]
             j == SlotIdx(r, b.price[o])
  <2>3. r \in BOOLEAN /\ j \in Slots /\ l = b.slots[r][j]
    BY <2>1, <2>2, PlaceOf
  <2> HIDE DEF r, j
  <2>4. s = r /\ i = j
    BY <1>2, <2>1, <2>3, LevelsDiffer
  <2> QED BY <2>2, <2>4 DEF AtSlot, r, j
<1> HIDE DEF l
<1>3. CASE l = Nil
  BY <1>1, <1>3 DEF l
<1>4. CASE l # Nil
  BY <1>1, <1>2, <1>4 DEF l
<1> QED BY <1>3, <1>4

\* The sizes at a slot sum to the volume_ of its level.
LEMMA SlotSum ==
  ASSUME NEW b, Good(b), Volumes(b), NEW s \in BOOLEAN, NEW i \in Slots
  PROVE  SizeOf(b, AtSlot(b, s, i)) = IF b.slots[s][i] = Nil THEN 0 ELSE b.volume[b.slots[s][i]]
<1> DEFINE l == b.slots[s][i]
<1>1. AtSlot(b, s, i) = IF l = Nil THEN {} ELSE OrdersAt(b, l)
  BY OrdersAtSlot
<1>2. CASE l = Nil
  <2>1. IsFiniteSet({})
    BY FS_EmptySet
  <2>2. SumFunctionOnSet(b.size, {}) = 0
    BY <2>1, SumFacts
  <2> QED BY <1>1, <1>2, <2>2 DEF SizeOf
<1>3. CASE l # Nil
  <2>1. l \in UsedLimits(b)
    BY <1>3, UsedLimitsAre
  <2>2. b.volume[l] = SumFunctionOnSet(b.size, OrdersAt(b, l))
    BY <2>1 DEF Volumes, VolumeAt
  <2> QED BY <1>1, <1>3, <2>2 DEF SizeOf
<1> QED BY <1>2, <1>3

\* The side is empty exactly when the best index is past the end.
LEMMA SideIsQuoted ==
  ASSUME NEW b, Good(b), NEW s \in BOOLEAN
  PROVE  /\ b.best[s] \in 0..RANGE
         /\ On(b, s) = {} <=> b.best[s] = RANGE
         /\ \A o \in On(b, s) : b.best[s] <= SlotIdx(s, b.price[o])
         /\ On(b, s) # {} => /\ b.best[s] \in Slots /\ b.slots[s][b.best[s]] # Nil
                             /\ \E o \in On(b, s) : SlotIdx(s, b.price[o]) = b.best[s]
<1>1. /\ b.best[s] \in 0..RANGE /\ BestIsFirst(b) /\ HeapSound(b) /\ RANGE \in Nat
      /\ Slots = 0..(RANGE - 1)
  BY Constants DEF Good, BookType, Slots
<1>2. ASSUME NEW o \in On(b, s)
      PROVE  b.best[s] <= SlotIdx(s, b.price[o]) /\ b.best[s] # RANGE
  <2> DEFINE i == SlotIdx(s, b.price[o])
  <2>1. i \in Slots /\ b.slots[s][i] # Nil
    BY PlaceOf
  <2> HIDE DEF i
  <2>2. ~(i < b.best[s])
    BY <1>1, <2>1 DEF BestIsFirst
  <2> QED BY <1>1, <2>1, <2>2 DEF i
<1>3. ASSUME b.best[s] # RANGE
      PROVE  /\ b.best[s] \in Slots /\ b.slots[s][b.best[s]] # Nil
             /\ \E o \in On(b, s) : SlotIdx(s, b.price[o]) = b.best[s]
  <2> DEFINE k == b.best[s]
             l == b.slots[s][k]
  <2>1. k \in Slots /\ k < RANGE
    BY <1>1, <1>3
  <2>2. l # Nil
    BY <1>1, <2>1 DEF BestIsFirst
  <2>3. b.head[l] \in b.live /\ b.parent[b.head[l]] = l
    <3>1. l = b.slots[s][k]
      OBVIOUS
    <3> HIDE DEF l, k
    <3> QED BY <1>1, <2>1, <2>2, <3>1, LevelAt
  <2>4. b.head[l] \in OrdersAt(b, l)
    BY Zenon, <2>3 DEF OrdersAt
  <2>5. b.head[l] \in AtSlot(b, s, k)
    BY <2>1, <2>2, <2>4, OrdersAtSlot
  <2> QED BY <2>1, <2>2, <2>5 DEF AtSlot
<1> QED BY <1>1, <1>2, <1>3

\* Distance from the top, in slots.
LEMMA TopIs ==
  ASSUME NEW b, Good(b), NEW s \in BOOLEAN, On(b, s) # {}
  PROVE  /\ Top(b, s) \in MIN..MAX /\ SlotIdx(s, Top(b, s)) = b.best[s]
         /\ \A o \in On(b, s) : Distance(b, o) = SlotIdx(s, b.price[o]) - b.best[s]
<1> DEFINE T == {b.price[o] : o \in On(b, s)}
<1>1. PICK o \in On(b, s) : SlotIdx(s, b.price[o]) = b.best[s]
  BY SideIsQuoted
<1> DEFINE m == b.price[o]
<1>2. m \in T /\ m \in MIN..MAX /\ T \subseteq MIN..MAX
  BY PlaceOf
<1>3. \A x \in T : SlotIdx(s, m) <= SlotIdx(s, x)
  BY <1>1, SideIsQuoted
<1>4. MIN \in Int /\ MAX \in Int
  BY Constants
<1> HIDE DEF T, m
<1>5. Top(b, s) = m
  <2>1. CASE s = TRUE
    <3>1. \A x \in T : x <= m
      BY <1>2, <1>3, <1>4, <2>1 DEF SlotIdx, get_bid_idx
    <3>2. T \subseteq Int
      BY <1>2, <1>4
    <3>3. Abstract!Max(T) = m
      BY <1>2, <3>1, <3>2, MaxIs
    <3>4. Top(b, s) = Max(T)
      BY <2>1 DEF Top, T
    <3> QED BY Zenon, <3>3, <3>4 DEF Max, Abstract!Max
  <2>2. CASE s = FALSE
    <3>1. \A x \in T : m <= x
      BY <1>2, <1>3, <1>4, <2>2 DEF SlotIdx, get_ask_idx
    <3>2. T \subseteq Int
      BY <1>2, <1>4
    <3>3. Abstract!Min(T) = m
      BY <1>2, <3>1, <3>2, MinIs
    <3>4. Top(b, s) = Min(T)
      BY <2>2 DEF Top, T
    <3> QED BY Zenon, <3>3, <3>4 DEF Min, Abstract!Min
  <2> QED BY <2>1, <2>2
<1>6. SlotIdx(s, Top(b, s)) = b.best[s]
  BY <1>1, <1>5 DEF m
<1>7. ASSUME NEW x \in On(b, s) PROVE Distance(b, x) = SlotIdx(s, b.price[x]) - b.best[s]
  <2>1. b.side[x] = s /\ b.price[x] \in MIN..MAX
    BY PlaceOf
  <2>2. CASE s = TRUE
    <3>1. Distance(b, x) = Top(b, s) - b.price[x]
      BY <2>1, <2>2 DEF Distance
    <3>2. MAX - Top(b, s) = b.best[s] /\ SlotIdx(s, b.price[x]) = MAX - b.price[x]
      BY <1>6, <2>2 DEF SlotIdx, get_bid_idx
    <3> QED BY <1>2, <1>4, <1>5, <2>1, <3>1, <3>2
  <2>3. CASE s = FALSE
    <3>1. Distance(b, x) = b.price[x] - Top(b, s)
      BY <2>1, <2>3 DEF Distance
    <3>2. Top(b, s) - MIN = b.best[s] /\ SlotIdx(s, b.price[x]) = b.price[x] - MIN
      BY <1>6, <2>3 DEF SlotIdx, get_ask_idx
    <3> QED BY <1>2, <1>4, <1>5, <2>1, <3>1, <3>2
  <2> QED BY <2>2, <2>3
<1> QED BY <1>2, <1>5, <1>6, <1>7

\* The orders of side s within n ticks of its top.
Near(b, s, n) == {o \in On(b, s) : Distance(b, o) < n}

\* One tick further from the top adds the orders of one slot.
LEMMA NearGrows ==
  ASSUME NEW b, Good(b), NEW s \in BOOLEAN, On(b, s) # {}, NEW m \in Nat, m < RANGE - b.best[s]
  PROVE  /\ b.best[s] + m \in Slots
         /\ Near(b, s, 0) = {}
         /\ Near(b, s, m + 1) = Near(b, s, m) \cup AtSlot(b, s, b.best[s] + m)
         /\ Near(b, s, m) \cap AtSlot(b, s, b.best[s] + m) = {}
<1> DEFINE k == b.best[s]
<1>1. k \in Nat /\ RANGE \in Nat /\ Slots = 0..(RANGE - 1)
  BY SideIsQuoted, Constants DEF Slots
<1>2. \A o \in On(b, s) : /\ SlotIdx(s, b.price[o]) \in Nat /\ k <= SlotIdx(s, b.price[o])
                          /\ Distance(b, o) = SlotIdx(s, b.price[o]) - k
  BY <1>1, SideIsQuoted, PlaceOf, TopIs
<1> HIDE DEF k
<1>3. \A o \in On(b, s) : /\ Distance(b, o) \in Nat
                          /\ SlotIdx(s, b.price[o]) = k + m <=> Distance(b, o) = m
  BY <1>1, <1>2
<1>4. k + m \in Slots
  BY <1>1 DEF k
<1>5. /\ Near(b, s, 0) = {}
      /\ Near(b, s, m + 1) = Near(b, s, m) \cup AtSlot(b, s, k + m)
      /\ Near(b, s, m) \cap AtSlot(b, s, k + m) = {}
  BY <1>3 DEF Near, AtSlot
<1> QED BY <1>4, <1>5 DEF k

\* What one side of the loop of calculate_vols adds up.
LEMMA WalkIs ==
  ASSUME NEW b, Good(b), Volumes(b), NEW s \in BOOLEAN, On(b, s) # {},
         NEW n \in Nat, n <= RANGE - b.best[s]
  PROVE  VolFrom(b, s, n) = SizeOf(b, Near(b, s, n))
<1> DEFINE at(i) == b.slots[s][b.best[s] + i]
           h == [i \in 0..(n - 1) |-> IF at(i) = Nil THEN 0 ELSE b.volume[at(i)]]
           P == {m \in Nat : m <= n => /\ IsFiniteSet(0..(m - 1))
                                       /\ SumFunctionOnSet(h, 0..(m - 1)) = SizeOf(b, Near(b, s, m))}
<1>1. b.best[s] \in Nat /\ RANGE \in Nat
  BY SideIsQuoted, Constants
<1>2. VolFrom(b, s, n) = SumFunctionOnSet(h, 0..(n - 1))
  <2>1. DOMAIN h = 0..(n - 1) /\ VolFrom(b, s, n) = SumFunction(h)
    BY DEF VolFrom
  <2> HIDE DEF h
  <2> QED BY <2>1 DEF SumFunction
<1>3. ASSUME NEW S, S \subseteq On(b, s)
      PROVE  IsFiniteSet(S) /\ (\A o \in S : b.size[o] \in Int) /\ SizeOf(b, S) \in Int
  <2>1. BookType(b) /\ S \subseteq b.live
    BY <1>3 DEF Good, On
  <2>2. IsFiniteSet(S) /\ (\A o \in S : b.size[o] \in Int)
    BY <2>1, OrdersFinite
  <2> QED BY <2>2, SumFacts DEF SizeOf
<1>4. \A m : /\ Near(b, s, m) \subseteq On(b, s)
             /\ \A i : AtSlot(b, s, i) \subseteq On(b, s)
  BY DEF Near, AtSlot
<1>5. \A i \in 0..(n - 1) : /\ b.best[s] + i \in Slots
                            /\ h[i] = SizeOf(b, AtSlot(b, s, b.best[s] + i)) /\ h[i] \in Int
  <2> SUFFICES ASSUME NEW i \in 0..(n - 1)
               PROVE  /\ b.best[s] + i \in Slots
                      /\ h[i] = SizeOf(b, AtSlot(b, s, b.best[s] + i)) /\ h[i] \in Int
    OBVIOUS
  <2>1. b.best[s] + i \in Slots
    BY <1>1 DEF Slots
  <2>2. h[i] = IF at(i) = Nil THEN 0 ELSE b.volume[at(i)]
    OBVIOUS
  <2>3. SizeOf(b, AtSlot(b, s, b.best[s] + i)) = IF at(i) = Nil THEN 0 ELSE b.volume[at(i)]
    BY <2>1, SlotSum
  <2> HIDE DEF h, at
  <2>4. h[i] = SizeOf(b, AtSlot(b, s, b.best[s] + i))
    BY <2>2, <2>3
  <2> QED BY <1>3, <1>4, <2>1, <2>4
<1> HIDE DEF h, at
<1>6. 0 \in P
  <2>1. Near(b, s, 0) = {}
    <3>1. \A o \in On(b, s) : Distance(b, o) \in Nat
      <4> SUFFICES ASSUME NEW o \in On(b, s) PROVE Distance(b, o) \in Nat
        OBVIOUS
      <4>1. SlotIdx(s, b.price[o]) \in Nat /\ b.best[s] <= SlotIdx(s, b.price[o])
        BY SideIsQuoted, PlaceOf, Constants DEF Slots
      <4>2. Distance(b, o) = SlotIdx(s, b.price[o]) - b.best[s]
        BY TopIs
      <4> QED BY <1>1, <4>1, <4>2
    <3> QED BY <3>1 DEF Near
  <2>2. 0..(0 - 1) = {} /\ IsFiniteSet({})
    BY FS_EmptySet
  <2>3. SumFunctionOnSet(h, {}) = 0 /\ SumFunctionOnSet(b.size, {}) = 0
    BY <2>2, SumFacts
  <2> QED BY <2>1, <2>2, <2>3 DEF SizeOf
<1>7. ASSUME NEW m \in P PROVE m + 1 \in P
  <2>1. SUFFICES ASSUME m \in Nat, m + 1 <= n
                 PROVE  /\ IsFiniteSet(0..m)
                        /\ SumFunctionOnSet(h, 0..m) = SizeOf(b, Near(b, s, m + 1))
    <3>1. (m + 1) - 1 = m
      BY DEF P
    <3> QED BY <3>1
  <2>2. m <= n /\ m \in 0..(n - 1) /\ m < RANGE - b.best[s]
    BY <1>1, <2>1
  <2>3. IsFiniteSet(0..(m - 1)) /\ SumFunctionOnSet(h, 0..(m - 1)) = SizeOf(b, Near(b, s, m))
    BY <2>2
  <2>4. 0..m = (0..(m - 1)) \cup {m} /\ m \notin 0..(m - 1) /\ \A x \in 0..(m - 1) : x \in 0..(n - 1)
    BY <2>1
  <2>5. IsFiniteSet(0..m)
    <3>1. IsFiniteSet((0..(m - 1)) \cup {m})
      BY <2>3, FS_AddElement
    <3> QED BY Zenon, <2>4, <3>1
  <2>6. h[m] \in Int /\ \A x \in 0..(m - 1) : h[x] \in Int
    BY <1>5, <2>2, <2>4
  <2>7. SumFunctionOnSet(h, (0..(m - 1)) \cup {m}) = h[m] + SumFunctionOnSet(h, 0..(m - 1))
    BY <2>3, <2>4, <2>6, SumPut
  <2> DEFINE A == Near(b, s, m)
             B == AtSlot(b, s, b.best[s] + m)
  <2>8. Near(b, s, m + 1) = A \cup B /\ A \cap B = {}
    BY <2>1, <2>2, NearGrows
  <2>9. /\ IsFiniteSet(A) /\ IsFiniteSet(B) /\ (\A x \in A \cup B : b.size[x] \in Int)
        /\ SizeOf(b, A) \in Int /\ SizeOf(b, B) \in Int
    BY <1>3, <1>4
  <2>10. h[m] = SizeOf(b, B)
    BY <1>5, <2>2
  <2> HIDE DEF A, B
  <2>11. SizeOf(b, A \cup B) = SizeOf(b, A) + SizeOf(b, B)
    BY <2>8, <2>9, SumUnion DEF SizeOf
  <2>12. SumFunctionOnSet(h, 0..m) = SizeOf(b, B) + SizeOf(b, A)
    BY <2>3, <2>4, <2>7, <2>10 DEF A
  <2>13. SizeOf(b, Near(b, s, m + 1)) = SizeOf(b, A) + SizeOf(b, B)
    BY Zenon, <2>8, <2>11
  <2>14. SumFunctionOnSet(h, 0..m) = SizeOf(b, Near(b, s, m + 1))
    BY <2>9, <2>12, <2>13
  <2> QED BY Zenon, <2>5, <2>14
<1>8. P = Nat
  <2> HIDE DEF P
  <2>1. P \subseteq Nat
    BY DEF P
  <2> QED BY <1>6, <1>7, <2>1, NatIsReached
<1>9. n \in P
  <2> HIDE DEF P
  <2> QED BY <1>8
<1> QED BY <1>2, <1>9

\* The least of three numbers.
LEMMA MinOfThree ==
  ASSUME NEW x \in Int, NEW y \in Int, NEW z \in Int, NEW S, S = {x, y, z}
  PROVE  Min(S) \in S /\ Min(S) <= x /\ Min(S) <= y /\ Min(S) <= z
<1>1. PICK m \in S : m <= x /\ m <= y /\ m <= z
  <2>1. CASE x <= y /\ x <= z
    BY <2>1
  <2>2. CASE y <= x /\ y <= z
    BY <2>2
  <2>3. CASE z <= x /\ z <= y
    BY <2>3
  <2> QED BY <2>1, <2>2, <2>3
<1>2. \A e \in S : m <= e
  BY <1>1
<1>3. Min(S) \in S /\ \A e \in S : Min(S) <= e
  BY <1>2 DEF Min
<1> QED BY <1>3

\* How far calculate_vols walks.
LEMMA StepsAre ==
  ASSUME NEW b, Good(b), NEW s \in BOOLEAN
  PROVE  /\ On(b, TRUE) # {} /\ On(b, FALSE) # {} =>
              /\ Steps(b, s) = Min({Ct, Top(b, TRUE) - MIN + 1, MAX - Top(b, FALSE) + 1})
              /\ Steps(b, s) \in Nat /\ Steps(b, s) <= RANGE - b.best[s]
         /\ ~(On(b, TRUE) # {} /\ On(b, FALSE) # {}) => Steps(b, s) = 0
<1> DEFINE kb == b.best[TRUE]
           ka == b.best[FALSE]
           tb == Top(b, TRUE)
           ta == Top(b, FALSE)
           bids == RANGE - kb
           asks == RANGE - ka
           S == {Ct, bids, asks}
           left == Min(S)
<1>1. /\ Ct \in Nat /\ RANGE \in Nat /\ RANGE = MAX - MIN + 1 /\ MIN \in Int /\ MAX \in Int
  BY SignalAssumption, Constants DEF SignalAssumption
<1>2. /\ kb \in 0..RANGE /\ (On(b, TRUE) = {} => kb = RANGE)
      /\ ka \in 0..RANGE /\ (On(b, FALSE) = {} => ka = RANGE)
  BY SideIsQuoted
<1>3. /\ On(b, TRUE) # {} => tb \in MIN..MAX /\ MAX - tb = kb
      /\ On(b, FALSE) # {} => ta \in MIN..MAX /\ ta - MIN = ka
  BY TopIs DEF SlotIdx, get_bid_idx, get_ask_idx
<1>4. Steps(b, s) = left
  <2>1. CASE s = TRUE
    BY <2>1 DEF Steps
  <2>2. CASE s = FALSE
    <3>1. Steps(b, s) = Min({Ct, asks, bids})
      BY <2>2 DEF Steps
    <3>2. {Ct, asks, bids} = {Ct, bids, asks}
      OBVIOUS
    <3> QED BY <3>1, <3>2
  <2> QED BY <2>1, <2>2
<1>5. b.best[s] = IF s THEN kb ELSE ka
  OBVIOUS
<1> HIDE DEF kb, ka, tb, ta
<1>6. bids \in Nat /\ asks \in Nat
  BY <1>1, <1>2
<1>14. /\ On(b, TRUE) # {} => bids = tb - MIN + 1
       /\ On(b, TRUE) = {} => bids = 0
  <2>1. CASE On(b, TRUE) # {}
    <3>1. tb \in MIN..MAX /\ MAX - tb = kb
      BY <1>3, <2>1
    <3>2. bids = tb - MIN + 1
      BY <1>1, <3>1
    <3> QED BY Zenon, <2>1, <3>2
  <2>2. CASE On(b, TRUE) = {}
    <3>1. kb = RANGE
      BY <1>2, <2>2
    <3>2. bids = 0
      BY <1>1, <3>1
    <3> QED BY Zenon, <2>2, <3>2
  <2> QED BY <2>1, <2>2
<1>15. /\ On(b, FALSE) # {} => asks = MAX - ta + 1
       /\ On(b, FALSE) = {} => asks = 0
  <2>1. CASE On(b, FALSE) # {}
    <3>1. ta \in MIN..MAX /\ ta - MIN = ka
      BY <1>3, <2>1
    <3>2. asks = MAX - ta + 1
      BY <1>1, <3>1
    <3> QED BY Zenon, <2>1, <3>2
  <2>2. CASE On(b, FALSE) = {}
    <3>1. ka = RANGE
      BY <1>2, <2>2
    <3>2. asks = 0
      BY <1>1, <3>1
    <3> QED BY Zenon, <2>2, <3>2
  <2> QED BY <2>1, <2>2
<1>7. /\ On(b, TRUE) # {} => bids = tb - MIN + 1
      /\ On(b, FALSE) # {} => asks = MAX - ta + 1
      /\ On(b, TRUE) = {} => bids = 0
      /\ On(b, FALSE) = {} => asks = 0
  BY <1>14, <1>15
<1>8. bids <= RANGE - kb /\ asks <= RANGE - ka
  BY <1>1, <1>2
<1> HIDE DEF bids, asks
<1>9. left \in {Ct, bids, asks} /\ left <= bids /\ left <= asks
  <2>1. S = {Ct, bids, asks}
    OBVIOUS
  <2> HIDE DEF S
  <2>2. Ct \in Int /\ bids \in Int /\ asks \in Int
    BY <1>1, <1>6
  <2>3. left \in S /\ left <= Ct /\ left <= bids /\ left <= asks
    BY Zenon, <2>1, <2>2, MinOfThree
  <2> QED BY Zenon, <2>1, <2>3
<1> HIDE DEF left, S
<1>10. left \in Nat /\ left <= RANGE - kb /\ left <= RANGE - ka
  BY <1>1, <1>2, <1>6, <1>8, <1>9
<1>11. ~(On(b, TRUE) # {} /\ On(b, FALSE) # {}) => left = 0
  <2>1. CASE On(b, TRUE) = {}
    <3>1. bids = 0
      BY <1>7, <2>1
    <3> QED BY <1>9, <1>10, <2>1, <3>1
  <2>2. CASE On(b, FALSE) = {}
    <3>1. asks = 0
      BY <1>7, <2>2
    <3> QED BY <1>9, <1>10, <2>2, <3>1
  <2> QED BY <2>1, <2>2
<1>12. On(b, TRUE) # {} /\ On(b, FALSE) # {} => left = Min({Ct, tb - MIN + 1, MAX - ta + 1})
  BY <1>7 DEF left, S
<1>13. Steps(b, s) <= RANGE - b.best[s]
  BY <1>4, <1>5, <1>10
<1> QED BY Zenon, <1>4, <1>10, <1>11, <1>12, <1>13 DEF tb, ta

\* With both sides quoted, or not.
LEMMA SideVolumeIs ==
  ASSUME NEW b, Good(b), Volumes(b), NEW s \in BOOLEAN,
         NEW both, both = (On(b, TRUE) # {} /\ On(b, FALSE) # {}),
         NEW ticks, ticks = Min({Ct, Top(b, TRUE) - MIN + 1, MAX - Top(b, FALSE) + 1})
  PROVE  /\ VolFrom(b, s, Steps(b, s)) = IF both THEN SizeOf(b, Near(b, s, ticks)) ELSE 0
         /\ VolFrom(b, s, Steps(b, s)) \in Nat
<1>1. CASE both
  <2>1. /\ Steps(b, s) = ticks /\ Steps(b, s) \in Nat /\ Steps(b, s) <= RANGE - b.best[s]
        /\ On(b, s) # {}
    BY <1>1, StepsAre
  <2>2. VolFrom(b, s, Steps(b, s)) = SizeOf(b, Near(b, s, ticks))
    BY <2>1, WalkIs
  <2>3. SizeOf(b, Near(b, s, ticks)) \in Nat
    <3>1. BookType(b) /\ Near(b, s, ticks) \subseteq b.live
      BY DEF Good, Near, On
    <3>2. /\ IsFiniteSet(Near(b, s, ticks))
          /\ \A o \in Near(b, s, ticks) : b.size[o] \in Nat
      <4>1. b.size \in [OrderCells -> Nat] /\ b.live \subseteq OrderCells
        BY <3>1 DEF BookType
      <4>2. IsFiniteSet(Near(b, s, ticks))
        BY <3>1, OrdersFinite
      <4> QED BY <3>1, <4>1, <4>2
    <3> QED BY <3>2, SumNat DEF SizeOf
  <2> QED BY <1>1, <2>2, <2>3
<1>2. CASE ~both
  <2>1. Steps(b, s) = 0
    BY <1>2, StepsAre
  <2> DEFINE at(i) == b.slots[s][b.best[s] + i]
             h == [i \in 0..(0 - 1) |-> IF at(i) = Nil THEN 0 ELSE b.volume[at(i)]]
  <2>2. VolFrom(b, s, 0) = SumFunction(h) /\ DOMAIN h = 0..(0 - 1)
    BY DEF VolFrom
  <2> HIDE DEF h
  <2>3. 0..(0 - 1) = {} /\ IsFiniteSet({})
    BY FS_EmptySet
  <2>4. SumFunctionOnSet(h, {}) = 0
    BY <2>3, SumFacts
  <2>5. VolFrom(b, s, 0) = 0
    BY <2>2, <2>3, <2>4 DEF SumFunction
  <2> QED BY <1>2, <2>1, <2>5
<1> QED BY <1>1, <1>2

\* What is read off the level at the best index is what a reader sees who counts
\* the orders.
LEMMA SideSeenIs ==
  ASSUME NEW b, Good(b), Volumes(b), NEW s \in BOOLEAN
  PROVE  /\ SideSeen(b, s) = [price |-> BestQuote(b, s), volume |-> BestVolume(b, s)]
         /\ BestQuote(b, s) \in Int /\ BestVolume(b, s) \in Int
<1> DEFINE k == b.best[s]
           l == b.slots[s][k]
<1>1. /\ k \in 0..RANGE /\ (On(b, s) = {} <=> k = RANGE) /\ RANGE \in Nat
      /\ On(b, s) # {} => k \in Slots /\ l # Nil
  BY SideIsQuoted, Constants
<1>2. CASE On(b, s) = {}
  <2>1. BestLimit(b, s) = Nil
    BY <1>1, <1>2 DEF BestLimit
  <2>2. BestQuote(b, s) = 0 /\ BestVolume(b, s) = 0
    BY <2>1 DEF BestQuote, BestVolume, get_best_bid_price, get_best_ask_price
  <2> QED BY <1>2, <2>2 DEF SideSeen
<1>3. CASE On(b, s) # {}
  <2>1. k \in Slots /\ l # Nil /\ BestLimit(b, s) = l
    <3>1. k < RANGE
      BY <1>1, <1>3 DEF Slots
    <3> QED BY <1>1, <1>3, <3>1 DEF BestLimit
  <2>2. l \in LimitCells /\ b.lprice[l] \in Int /\ b.volume[l] \in Int
    BY <2>1 DEF Good, BookType
  <2>3. SlotIdx(s, b.lprice[l]) = k
    <3>1. l = b.slots[s][k] /\ HeapSound(b)
      BY DEF Good
    <3> HIDE DEF l, k
    <3> QED BY <2>1, <3>1, LevelAt
  <2>4. SlotIdx(s, Top(b, s)) = k /\ Top(b, s) \in MIN..MAX
    BY <1>3, TopIs
  <2>5. Top(b, s) = b.lprice[l]
    <3>1. Top(b, s) \in Int
      BY <2>4, Constants
    <3> HIDE DEF l, k
    <3> QED BY <2>2, <2>3, <2>4, <3>1, SlotIdxInjective
  <2>6. {o \in On(b, s) : Distance(b, o) = 0} = AtSlot(b, s, k)
    <3>1. \A o \in On(b, s) : Distance(b, o) = SlotIdx(s, b.price[o]) - k
                              /\ SlotIdx(s, b.price[o]) \in Int
      <4>1. \A o \in On(b, s) : SlotIdx(s, b.price[o]) \in Slots
        BY PlaceOf
      <4> QED BY <1>3, <4>1, TopIs, Constants DEF Slots
    <3> HIDE DEF k
    <3> QED BY <1>1, <3>1 DEF AtSlot
  <2>7. SizeOf(b, AtSlot(b, s, k)) = b.volume[l]
    BY <2>1, SlotSum
  <2>8. SideSeen(b, s) = [price |-> b.lprice[l], volume |-> b.volume[l]]
    BY Zenon, <1>3, <2>5, <2>6, <2>7 DEF SideSeen
  <2>9. BestVolume(b, s) = b.volume[l]
    BY <2>1 DEF BestVolume
  <2>10. BestQuote(b, s) = b.lprice[l]
    <3>1. CASE s = TRUE
      BY <2>1, <3>1 DEF BestQuote, get_best_bid_price
    <3>2. CASE s = FALSE
      BY <2>1, <3>2 DEF BestQuote, get_best_ask_price
    <3> QED BY <3>1, <3>2
  <2> QED BY <2>2, <2>8, <2>9, <2>10
<1> QED BY <1>2, <1>3

\* The samples that the signals carry over are the ones a reader has seen.
SignalsSeen(g, sn) ==
  /\ g = [bid_vol |-> g.bid_vol, ask_vol |-> g.ask_vol, imbalance |-> g.imbalance,
          voi |-> g.voi, mid |-> g.mid, prev |-> g.prev]
  /\ sn \in [BOOLEAN -> [price : Int, volume : Int]]
  /\ g.prev = sn

\* The inductive invariant of the book and its readers.
SInv == QueueInv /\ SignalsSeen(sig, seen)

\* It holds before the first message.
LEMMA SignalsInit == InitSignals => SInv
<1> SUFFICES ASSUME InitSignals PROVE SInv
  OBVIOUS
<1>1. QueueInv
  BY QueuesInit DEF InitSignals
<1>2. SignalsSeen(sig, seen)
  BY DEF InitSignals, SignalsSeen
<1> QED BY <1>1, <1>2 DEF SInv

\* A message, an update of the imbalance and a sample preserve it.
LEMMA SignalsStep == SInv /\ [NextSignals]_signalVars => SInv'
<1> SUFFICES ASSUME SInv, [NextSignals]_signalVars PROVE SInv'
  OBVIOUS
<1>1. QueueInv /\ SignalsSeen(sig, seen) /\ Good(book) /\ Volumes(book)
  BY InvariantIsWhole DEF SInv, Whole
<1>2. QueueInv'
  <2>1. [Next]_vars
    BY DEF NextSignals, Message, UpdateImbalance, Sample, signalVars, vars
  <2> QED BY <1>1, <2>1, StepRefines
<1>3. CASE UNCHANGED <<sig, seen>>
  BY <1>1, <1>2, <1>3 DEF SInv
<1>4. CASE UpdateImbalance
  <2>1. sig' = calculate_imbalance(calculate_vols(book, sig)) /\ seen' = seen
    BY <1>4 DEF UpdateImbalance
  <2>2. SignalsSeen(sig', seen')
    BY <1>1, <2>1 DEF SignalsSeen, calculate_imbalance, calculate_vols
  <2> QED BY <1>2, <2>2 DEF SInv
<1>5. CASE Sample
  <2> DEFINE q == [s \in BOOLEAN |-> [price |-> BestQuote(book, s), volume |-> BestVolume(book, s)]]
  <2>1. /\ sig' = add_mid_price(book, calculate_voi(book, sig))
        /\ seen' = [s \in BOOLEAN |-> SideSeen(book, s)]
    BY <1>5 DEF Sample
  <2>2. q = seen' /\ q \in [BOOLEAN -> [price : Int, volume : Int]]
    BY <1>1, <2>1, SideSeenIs
  <2>3. calculate_voi(book, sig)
          = [sig EXCEPT !.voi = SideVoi(book, TRUE, sig.prev[TRUE]) - SideVoi(book, FALSE, sig.prev[FALSE]),
                        !.prev = q]
    BY DEF calculate_voi
  <2> HIDE DEF q
  <2>4. SignalsSeen(sig', seen')
    BY <1>1, <2>1, <2>2, <2>3 DEF SignalsSeen, add_mid_price
  <2> QED BY <1>2, <2>4 DEF SInv
<1> QED BY <1>3, <1>4, <1>5 DEF NextSignals, Message, signalVars

\* It holds in every reachable state of the book with its readers.
LEMMA SignalsInductive == SpecSignals => []SInv
BY SignalsInit, SignalsStep, PTL DEF SpecSignals

\* At every moment, calculate_vols gives on each side the total size of the resting
\* orders within Ct ticks of the top, cut where either side's window ends, or 0
\* unless both sides have orders; the imbalance lies in -1..1 and is 0 exactly when the
\* two volumes are equal.
THEOREM VolsAlwaysDepth == SpecSignals => []VolsAreDepth
<1>1. SInv => VolsAreDepth
  <2> SUFFICES ASSUME SInv PROVE VolsAreDepth
    OBVIOUS
  <2>1. SignalsSeen(sig, seen) /\ Good(book) /\ Volumes(book)
    BY InvariantIsWhole DEF SInv, Whole
  <2> DEFINE v == calculate_vols(book, sig)
             g == calculate_imbalance(v)
             both == On(book, TRUE) # {} /\ On(book, FALSE) # {}
             ticks == Min({Ct, Top(book, TRUE) - MIN + 1, MAX - Top(book, FALSE) + 1})
             N(s) == IF both THEN SizeOf(book, {o \in On(book, s) : Distance(book, o) < ticks}) ELSE 0
             x == VolFrom(book, TRUE, Steps(book, TRUE))
             y == VolFrom(book, FALSE, Steps(book, FALSE))
  <2>2. v.bid_vol = x /\ v.ask_vol = y /\ v = [sig EXCEPT !.bid_vol = x, !.ask_vol = y]
    BY <2>1 DEF SignalsSeen, calculate_vols
  <2>3. /\ g.bid_vol = x /\ g.ask_vol = y
        /\ g.imbalance = IF x + y > 0 THEN <<x - y, x + y>> ELSE <<0, 1>>
    <3> HIDE DEF v, x, y
    <3> QED BY <2>1, <2>2 DEF SignalsSeen, calculate_imbalance
  <2>4. \A s \in BOOLEAN : /\ VolFrom(book, s, Steps(book, s)) = N(s)
                           /\ VolFrom(book, s, Steps(book, s)) \in Nat
    BY <2>1, SideVolumeIs DEF Near
  <2>5. x = N(TRUE) /\ y = N(FALSE) /\ x \in Nat /\ y \in Nat
    BY <2>4
  <2> HIDE DEF g, v, x, y, N
  <2>8. x \in Nat /\ y \in Nat
    BY Zenon, <2>5
  <2>6. /\ g.imbalance[1] \in -g.imbalance[2] .. g.imbalance[2]
        /\ g.imbalance[1] = 0 <=> x = y
    <3>1. CASE x + y > 0
      <4>1. g.imbalance = <<x - y, x + y>>
        BY <2>3, <3>1
      <4>2. g.imbalance[1] = x - y /\ g.imbalance[2] = x + y
        BY <4>1
      <4> QED BY <2>8, <4>2
    <3>2. CASE ~(x + y > 0)
      <4>1. x = 0 /\ y = 0
        BY <2>8, <3>2
      <4>2. g.imbalance = <<0, 1>>
        BY <2>3, <3>2
      <4>3. g.imbalance[1] = 0 /\ g.imbalance[2] = 1
        BY <4>2
      <4> QED BY <4>1, <4>3
    <3> QED BY <3>1, <3>2
  <2>7. /\ g.bid_vol = N(TRUE) /\ g.ask_vol = N(FALSE)
        /\ g.imbalance[1] \in -g.imbalance[2] .. g.imbalance[2]
        /\ g.imbalance[1] = 0 <=> N(TRUE) = N(FALSE)
    BY <2>3, <2>5, <2>6
  <2> QED BY Zenon, <2>7 DEF VolsAreDepth, g, v, N
<1> QED BY <1>1, SignalsInductive, PTL

\* At every moment, calculate_voi gives the order-flow imbalance between now and the
\* last sample, as someone who counts the resting orders at the top would compute it:
\* prev_best_* are never stale, and no change of side, price or volume is counted twice
\* or missed.
THEOREM VoiAlwaysOrderFlow == SpecSignals => []VoiIsOrderFlow
<1>1. SInv => VoiIsOrderFlow
  <2> SUFFICES ASSUME SInv PROVE VoiIsOrderFlow
    OBVIOUS
  <2>1. SignalsSeen(sig, seen) /\ Good(book) /\ Volumes(book)
    BY InvariantIsWhole DEF SInv, Whole
  <2> DEFINE now == [s \in BOOLEAN |-> SideSeen(book, s)]
             Flow(s) == IF now[s].price = seen[s].price THEN now[s].volume - seen[s].volume
                        ELSE IF s = (now[s].price > seen[s].price) THEN now[s].volume ELSE 0
  <2>2. calculate_voi(book, sig).voi
          = SideVoi(book, TRUE, sig.prev[TRUE]) - SideVoi(book, FALSE, sig.prev[FALSE])
    BY <2>1 DEF SignalsSeen, calculate_voi
  <2>3. ASSUME NEW s \in BOOLEAN PROVE SideVoi(book, s, sig.prev[s]) = Flow(s)
    <3> DEFINE px == BestQuote(book, s)
               vol == BestVolume(book, s)
               old == seen[s]
    <3>1. px \in Int /\ vol \in Int /\ now[s] = [price |-> px, volume |-> vol]
      BY <2>1, SideSeenIs
    <3>2. sig.prev[s] = old /\ old \in [price : Int, volume : Int]
      BY <2>1 DEF SignalsSeen
    <3>3. now[s].price = px /\ now[s].volume = vol /\ old.price \in Int
      BY <3>1, <3>2
    <3>4. SideVoi(book, s, old) = IF px = old.price THEN vol - old.volume
                                  ELSE IF Improves(s, px, old.price) THEN vol ELSE 0
      <4>1. SideVoi(book, s, old) = CASE px = old.price -> vol - old.volume
                                      [] Improves(s, px, old.price) -> vol
                                      [] OTHER -> 0
        BY DEF SideVoi
      <4>2. px = old.price => ~Improves(s, px, old.price)
        BY <3>1 DEF Improves
      <4> HIDE DEF px, vol, old
      <4> QED BY <4>1, <4>2
    <3>5. px # old.price => (Improves(s, px, old.price) <=> (s = (px > old.price)))
      BY <3>1, <3>3 DEF Improves
    <3> HIDE DEF now, px, vol, old
    <3> QED BY <3>2, <3>3, <3>4, <3>5 DEF old
  <2>4. calculate_voi(book, sig).voi = Flow(TRUE) - Flow(FALSE)
    <3> HIDE DEF now
    <3> QED BY <2>2, <2>3
  <2> QED BY Zenon, <2>4 DEF VoiIsOrderFlow
<1> QED BY <1>1, SignalsInductive, PTL
=============================================================================
